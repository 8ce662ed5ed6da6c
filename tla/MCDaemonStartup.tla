-------------------------- MODULE MCDaemonStartup --------------------------
(***************************************************************************)
(* DaemonStartup for TLC.                                                  *)
(***************************************************************************)
EXTENDS DaemonStartup, TLC

CONSTANTS d1, d2, e1, c1, r1, s1
=============================================================================
