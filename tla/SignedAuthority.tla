-------------------------- MODULE SignedAuthority --------------------------
(***************************************************************************)
(* What a queued authorisation promises the owner, without the store, the  *)
(* journal, the executor or a crash in sight.  A signature is asked for,   *)
(* given, perhaps withdrawn, and over for good.  Only a given one commits  *)
(* to an order, to one order at a time and to an order nobody else has;    *)
(* it lets go of it only while nothing was written; and one order at most  *)
(* is ever written for it, the one it is committed to, before it is over.  *)
(* QueuedRefinement shows that QueuedAuthorisation keeps the promise.      *)
(***************************************************************************)
CONSTANTS Signatures, Orders, NoOrder

VARIABLES
    authority,  \* how far a signature has come
    commitment, \* the order it stands for, when it stands for one
    written     \* the orders written to the broker for it

vars == <<authority, commitment, written>>

Authorities == {"none", "asked", "given", "withdrawn", "over"}

Init == /\ authority = [q \in Signatures |-> "none"]
        /\ commitment = [q \in Signatures |-> NoOrder]
        /\ written = [q \in Signatures |-> {}]

Same(f, q) == f'[q] = f[q]

Moves(q, from, to) == authority[q] \in from /\ authority'[q] = to

Ask(q) == Moves(q, {"none"}, "asked") /\ Same(commitment, q) /\ Same(written, q)

Give(q) == Moves(q, {"asked"}, "given") /\ Same(commitment, q) /\ Same(written, q)

\* Withdrawn, not over: an order may be on its way.
Withdraw(q) == /\ Moves(q, {"given"}, "withdrawn") /\ commitment[q] # NoOrder
               /\ Same(commitment, q) /\ Same(written, q)

End(q) == Moves(q, {"asked", "given", "withdrawn"}, "over") /\ Same(commitment, q) /\ Same(written, q)

Commit(q, a) == /\ Moves(q, {"given"}, "given") /\ commitment[q] = NoOrder
                /\ \A o \in Signatures : commitment[o] # a /\ a \notin written[o]
                /\ commitment'[q] = a /\ Same(written, q)

Release(q) == /\ Moves(q, {"given"}, "given") /\ written[q] = {}
              /\ commitment'[q] = NoOrder /\ Same(written, q)

Write(q) == /\ authority[q] \in {"given", "withdrawn"} /\ Same(authority, q)
            /\ commitment[q] # NoOrder /\ Same(commitment, q)
            /\ written[q] = {} /\ written'[q] = {commitment[q]}

Rest(q) == Same(authority, q) /\ Same(commitment, q) /\ Same(written, q)

Move(q) == \/ Rest(q) \/ Ask(q) \/ Give(q) \/ Withdraw(q) \/ End(q)
           \/ (\E a \in Orders : Commit(q, a)) \/ Release(q) \/ Write(q)

\* Several signatures may move in one step: a cancel and a housekeeping pass
\* reach every record.
Next == /\ authority' \in [Signatures -> Authorities]
        /\ commitment' \in [Signatures -> Orders \cup {NoOrder}]
        /\ written' \in [Signatures -> SUBSET Orders]
        /\ \A q \in Signatures : Move(q)

Spec == Init /\ [][Next]_vars
=============================================================================
