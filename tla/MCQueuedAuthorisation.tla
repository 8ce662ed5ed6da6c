----------------------- MODULE MCQueuedAuthorisation -----------------------
(***************************************************************************)
(* QueuedAuthorisation for TLC.                                            *)
(***************************************************************************)
EXTENDS QueuedRefinement, TLC

CONSTANTS q1, q2, a1, a2, l1, acct, other

OneAccount == l1 :> acct

Symmetry == Permutations(Attempts) \cup Permutations(QueueIds)
=============================================================================
