----------------------- MODULE MCAutomaticSubmission -----------------------
(***************************************************************************)
(* Small instances of AutomaticSubmission.                                 *)
(***************************************************************************)
EXTENDS AutomaticSubmission, TLC

CONSTANTS k1, k2, a1, a2

\* A revision asks for two more than the revision before it: one lot does not
\* cover the growth, and covers any return to a smaller size.
MCQuantity == [v \in Revisions |-> 2 * v - 1]

MCAttempts == {a1, a2}
MCSymmetry == Permutations(MCAttempts)
=============================================================================
