------------------------- MODULE MCProtectiveStops -------------------------
(* Hand trades of one share, as TLC configs hold no negative numbers. *)
EXTENDS ProtectiveStops

SellsAndBuys == {-1, 1}
=============================================================================
