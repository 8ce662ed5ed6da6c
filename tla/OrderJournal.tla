---------------------------- MODULE OrderJournal ----------------------------
(***************************************************************************)
(* The order journal as its readers see it: an append-only sequence of     *)
(* events per broker attempt (one attempt is one preview token), what the  *)
(* recovery code concludes from it about a send, and the order view folded *)
(* from it (internal/daemon/order_read_model.go).                          *)
(*                                                                         *)
(* An event carries a type, the broker status it reports ("" for none) and *)
(* the filled quantity it reports.  Prices, identities and messages are    *)
(* left out: one sequence holds the events of one order already.           *)
(***************************************************************************)
EXTENDS Integers, Sequences

EventTypes ==
    {"attempted",    \* send_attempted, staged before the first frame
     "completed",    \* send_completed, the transport flushed the frame
     "unsent",       \* send_error with disposition definitely_unsent
     "uncertain",    \* send_error with any other disposition
     "acknowledged", \* broker_acknowledged, from openOrder
     "status",       \* status_updated, from orderStatus or execDetails
     "error",        \* broker_error whose code rejects the order
     "absent"}       \* reconciled_absent, from a complete snapshot

BrokerStatuses == {"", "Submitted", "Filled", "Cancelled"}

Event == [type : EventTypes, status : BrokerStatuses, filled : Nat]

LocalEvent(t) == [type |-> t, status |-> "", filled |-> 0]

BrokerEvent(t, st, n) == [type |-> t, status |-> st, filled |-> n]

Has(j, t) == \E i \in DOMAIN j : j[i].type = t

(***************************************************************************)
(* What the journal proves about a send.                                   *)
(***************************************************************************)
ReachedTypes == {"completed", "acknowledged", "status"}

\* Mutant: a staged attempt without an outcome is taken for unsent.
MutSendOutcomeForgetsAttempt(j) ==
    IF \E t \in ReachedTypes : Has(j, t) THEN "reached" ELSE IF Has(j, "unsent") THEN "failed_unsent" ELSE "none"

\* The first decisive event wins: an answer or a completed send reaches the
\* broker, an error that wrote nothing proves the attempt unsent.
orderJournalSendOutcome(j) ==
    LET First(T) == \E i \in DOMAIN j :
                       /\ j[i].type \in T
                       /\ \A k \in 1..(i-1) : j[k].type \notin ReachedTypes \cup {"unsent"}
    IN  IF First(ReachedTypes) THEN "reached"
        ELSE IF First({"unsent"}) THEN "failed_unsent"
        ELSE IF Has(j, "attempted") \/ Has(j, "uncertain") THEN "unclear"
        ELSE "none"

\* Version 2 terms: any answer anywhere wins, and an error of unknown
\* disposition is never proof that nothing went out.
ownerJournalSendOutcome(j) ==
    IF \E t \in ReachedTypes : Has(j, t) THEN "reached"
    ELSE IF Has(j, "uncertain") \/ (Has(j, "attempted") /\ ~Has(j, "unsent")) THEN "unclear"
    ELSE IF Has(j, "unsent") THEN "failed_unsent"
    ELSE "none"

queuedJournalSendOutcome(j, kind) ==
    IF kind = "rule" THEN orderJournalSendOutcome(j) ELSE ownerJournalSendOutcome(j)

(***************************************************************************)
(* The folded order view.                                                  *)
(***************************************************************************)
TerminalEvent(e) == e.type \in {"error", "absent"} \/ e.status \in {"Filled", "Cancelled"}

\* Terminal broker evidence is sticky, and a late local return cannot
\* override the broker's answer.
Merged(j, i) ==
    /\ TerminalEvent(j[i]) \/ \A k \in 1..(i-1) : ~TerminalEvent(j[k])
    /\ j[i].type \in {"completed", "unsent", "uncertain"} =>
          \A k \in 1..(i-1) : j[k].type # "acknowledged" /\ ~TerminalEvent(j[k])

LastMerged(j) == CHOOSE i \in DOMAIN j :
                    Merged(j, i) /\ \A k \in DOMAIN j : Merged(j, k) => k <= i

\* A staged attempt with neither a broker answer nor a clean local return.
attemptUncertain(j) ==
    /\ Has(j, "attempted") /\ ~Has(j, "acknowledged") /\ ~Has(j, "unsent")
    /\ \A i \in DOMAIN j : ~TerminalEvent(j[i])
    /\ ~Has(j, "completed") \/ Has(j, "uncertain")

ViewFilled(j) ==
    LET I == {i \in DOMAIN j : Merged(j, i) /\ j[i].filled # 0}
    IN  IF I = {} THEN 0 ELSE j[CHOOSE i \in I : \A k \in I : k <= i].filled

LifecycleStatuses == {"none", "pending_submit", "submitted", "partially_filled", "filled",
                      "cancelled", "rejected", "closed_reconciled", "expired_inferred",
                      "unknown_reconcile_required"}

mapOrderViewLifecycleStatus(j) ==
    LET last == j[LastMerged(j)]
    IN  IF last.type = "absent" THEN "closed_reconciled"
        ELSE IF last.type \in {"error", "unsent"} THEN "rejected"
        ELSE IF last.status = "Filled" THEN "filled"
        ELSE IF last.status = "Cancelled" THEN "cancelled"
        ELSE IF attemptUncertain(j) THEN "unknown_reconcile_required"
        ELSE IF last.status # "Submitted" THEN "pending_submit"
        ELSE IF ViewFilled(j) > 0 THEN "partially_filled" ELSE "submitted"

orderLifecycleStatusIsTerminal(s) ==
    s \in {"filled", "cancelled", "rejected", "closed_reconciled", "expired_inferred"}

\* loadOrderViews: the fold, then DAY orders past their session are closed by
\* calendar inference.  No event, no row.
LifecycleStatus(j, dayOver) ==
    IF j = <<>> THEN "none"
    ELSE LET s == mapOrderViewLifecycleStatus(j)
         IN  IF dayOver /\ ~orderLifecycleStatusIsTerminal(s) THEN "expired_inferred" ELSE s

ViewOpen(j, dayOver) ==
    j # <<>> /\ ~orderLifecycleStatusIsTerminal(LifecycleStatus(j, dayOver))
=============================================================================
