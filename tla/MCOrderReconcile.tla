-------------------------- MODULE MCOrderReconcile --------------------------
(* One order and one sweep, beside the other readers of open orders.       *)
EXTENDS OrderReconcile

CONSTANTS o1, s1

=============================================================================
