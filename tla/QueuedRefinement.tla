-------------------------- MODULE QueuedRefinement --------------------------
(***************************************************************************)
(* The refinement mapping from the queue's records, journal and wire to    *)
(* the promise of SignedAuthority.                                         *)
(***************************************************************************)
EXTENDS QueuedAuthorisation

AuthorityOf(r) == CASE r.state = "none" -> "none"
                    [] r.state = "prepared" -> "asked"
                    [] final(r) -> "over"
                    [] Claims(r) -> IF r.cancel \/ r.ended THEN "withdrawn" ELSE "given"

authorityBar  == [q \in QueueIds |-> AuthorityOf(rec[q])]
commitmentBar == [q \in QueueIds |-> rec[q].attempt]
writtenBar    == [q \in QueueIds |-> {a \in Attempts : Framed(a) /\ order[a].by = q}]

Promise == INSTANCE SignedAuthority
           WITH Signatures <- QueueIds, Orders <- Attempts, NoOrder <- NoAttempt,
                authority <- authorityBar, commitment <- commitmentBar, written <- writtenBar

\* The queue keeps its promise: through every interleaving of the owner, the
\* executor, the broker, failed writes and crashes, each step is one the
\* promise allows or leaves it alone.  An attempt is staged only by authority
\* that still stands, dropped only while unwritten, written once at most and
\* never for a record that is over, and authority withdrawn never returns
\* (QueueArm, QueueCancel, beforePlace, submitBoundConfiguredOrder,
\* settleSend, recoverQueuedAfterRestart).
KeepsPromise == Promise!Spec
=============================================================================
