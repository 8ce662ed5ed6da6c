------------------------ MODULE QueuedAuthorisation ------------------------
(***************************************************************************)
(* Queued authorisations: the owner signs an order now, the daemon sends   *)
(* it later inside its window (internal/daemon/proposal_queue.go,          *)
(* proposal_queue_executor.go, owner_order_queue.go,                       *)
(* position_protection_mandate.go), through the broker write path          *)
(* (order_place_trading.go, broker_write_transaction.go).                  *)
(*                                                                         *)
(* Actors: the owner (prepare, arm, cancel), one executor goroutine that   *)
(* cycles for ever, the trading controls, the portfolio feed, the broker   *)
(* and its callbacks, and crashes.  Every store mutation is one atomic     *)
(* compare-and-swap of the whole document, so one variable stands for the  *)
(* records in memory and in daemon.db: a failed write changes neither.     *)
(*                                                                         *)
(* A line is one (account, mode, contract, side).  Kinds: "rule" is a      *)
(* version 1 reduction, "exact" a version 2 order of a fixed quantity,     *)
(* "stop" a version 2 full-position stop (ownerQueueProtection).           *)
(***************************************************************************)
EXTENDS OrderJournal, FiniteSets

CONSTANTS QueueIds,      \* queue identities, minted once each
          Attempts,      \* preview tokens, minted once each
          Lines,         \* (account, mode, contract, side)
          Accounts,      \* concrete broker scopes
          AccountOf,     \* the scope of a line
          Kinds,         \* the kinds of order the owner queues
          DayKinds,      \* kinds whose orders are DAY stock orders
          NoAttempt, NoQueue, NoAccount,
          NotBefore, NotAfter,   \* the send window of "rule" and "exact"
          ArmWindow,     \* queuedArmWindow
          SendingStale,  \* queuedSendingStale
          DayEnd,        \* session close plus the inference margin
          MaxTime,       \* bound on the clock
          MaxPosition,   \* bound on a quantity
          Positions,     \* the positions the portfolio may show
          Scopes,        \* the scopes a process may be configured for, or NoAccount
          MaxFaults,     \* bound on crashes and failed reads and writes
          MaxGen,        \* bound on changes of the trading controls
          MaxSessions,   \* bound on broker sessions
          MayMisread     \* may a restart land on a build that cannot read a record

ASSUME QueueAssumption ==
    /\ NoAttempt \notin Attempts /\ NoQueue \notin QueueIds /\ NoAccount \notin Accounts
    /\ Lines # {} /\ AccountOf \in [Lines -> Accounts]
    /\ Kinds \subseteq {"rule", "exact", "stop"} /\ DayKinds \subseteq Kinds

ASSUME BoundsAssumption ==
    /\ NotBefore \in Nat /\ NotAfter \in Nat /\ ArmWindow \in Nat /\ SendingStale \in Nat
    /\ DayEnd \in Nat /\ MaxTime \in Nat /\ MaxPosition \in Nat /\ MaxFaults \in Nat
    /\ MaxGen \in Nat /\ MaxSessions \in Nat /\ MayMisread \in BOOLEAN
    /\ Positions \subseteq 0..MaxPosition /\ Scopes \subseteq Accounts \cup {NoAccount}

VARIABLES
    now,       \* the daemon's clock
    faults,    \* crashes and failures so far (bound only)
    frozen,    \* the owner's freeze
    gen,       \* trading control generation
    account,   \* the scope this process is pinned to, or NoAccount
    session,   \* the broker session
    position,  \* the portfolio the daemon reads
    rec,       \* queuedAuthStore.records
    arming,    \* an arm between its checks and its update: the clock it read
    journal,   \* the order journal, per attempt
    order,     \* what the broker and the wire know of an attempt
    pc, todo, cur, att, bind, res  \* the executor

envVars  == <<now, faults, frozen, gen, account, session, position>>
execVars == <<pc, todo, cur, att, bind, res>>
vars     == <<envVars, rec, arming, journal, order, execVars>>

-----------------------------------------------------------------------------
(***************************************************************************)
(* Records.                                                                *)
(***************************************************************************)
FinalStates == {"filled", "partially_filled", "expired_unfilled", "cancelled", "expired", "failed"}
States == {"none", "prepared", "armed", "held", "sending", "sent"} \cup FinalStates

Codes == {"", "superseded", "owner_cancelled", "not_armed", "window_ended", "position_changed",
          "account_changed", "gate_refused", "send_refused", "record_unreadable", "send_outcome_unclear", "fill_unconfirmed"}
         \cup LifecycleStatuses

Record == [state : States, kind : {"rule", "exact", "stop"}, line : Lines,
           max : 0..MaxPosition,          \* Terms.MaxQuantity
           signed : 0..MaxPosition,       \* Terms.PositionQuantity
           armBy : Nat,                   \* Terms.ArmDeadline
           cancel : BOOLEAN,              \* CancelRequested
           ended : BOOLEAN,               \* MandateEndedAt is set
           accepted : BOOLEAN,            \* BrokerAcceptedAt is set
           attempt : Attempts \cup {NoAttempt},  \* PreviewTokenID and OrderRef
           qty : 0..MaxPosition,          \* QuantitySent
           at : Nat,                      \* SendingAt
           own : BOOLEAN,                 \* SendingAt is not before startedAt
           bad : BOOLEAN,                 \* queuedRecordProblem
           code : Codes]                  \* ReasonCode

waiting(r)    == r.state \in {"armed", "held"}
liveIntent(r) == waiting(r) \/ r.state = "sending"
final(r)      == r.state \in FinalStates
Claims(r)     == liveIntent(r) \/ r.state = "sent"

ownerQueueProtection(r) == r.kind = "stop"

InWindow(r) == ownerQueueProtection(r) \/ (NotBefore <= now /\ now < NotAfter)

resolve(r, st, why) == [r EXCEPT !.state = st, !.code = why]

\* A spent token proven unsent is forgotten with everything it staged.
ClearAttempt(r) == [r EXCEPT !.attempt = NoAttempt, !.qty = 0, !.at = 0, !.own = FALSE]

Fault == faults < MaxFaults /\ faults' = faults + 1

-----------------------------------------------------------------------------
(***************************************************************************)
(* The owner.  A refusal changes nothing and is no action.                 *)
(***************************************************************************)
\* Mutant: an order already sent does not keep the line.
MutLineFreeOfIntents(q, l) == \A o \in QueueIds \ {q} : liveIntent(rec[o]) => rec[o].line # l

\* No other record claims the line.
LineFree(q, l) == \A o \in QueueIds \ {q} : Claims(rec[o]) => rec[o].line # l

\* What version 2 terms ask of a preparation beyond the line and the scope.
prepareOwnerQueue(l, k, n) == ~frozen /\ (k = "stop" => n = position[l])

QueuePrepare(q, l, k, n) ==
    /\ rec[q].state = "none" /\ n > 0
    /\ account = AccountOf[l]
    /\ IF k = "rule" THEN n <= position[l] ELSE prepareOwnerQueue(l, k, n)
    /\ LineFree(q, l)
    /\ rec' = [o \in QueueIds |->
                 IF o = q
                 THEN [rec[q] EXCEPT !.state = "prepared", !.kind = k, !.line = l, !.max = n,
                                     !.signed = position[l], !.armBy = now + ArmWindow]
                 ELSE IF rec[o].state = "prepared" /\ rec[o].line = l
                 THEN resolve(rec[o], "cancelled", "superseded")
                 ELSE rec[o]]
    /\ UNCHANGED <<envVars, arming, journal, order, execVars>>

\* The checks of QueueArm before its update, with the clock they read.
QueueArmCheck(q) ==
    /\ rec[q].state = "prepared" /\ ~rec[q].bad /\ arming[q] = -1
    /\ now < rec[q].armBy
    /\ account = AccountOf[rec[q].line]
    /\ arming' = [arming EXCEPT ![q] = now]
    /\ UNCHANGED <<envVars, rec, journal, order, execVars>>

\* The update of QueueArm, under the clock read before.
QueueArm(q) ==
    /\ arming[q] # -1
    /\ arming' = [arming EXCEPT ![q] = -1]
    /\ rec' = IF rec[q].state = "prepared" /\ arming[q] < rec[q].armBy /\ LineFree(q, rec[q].line)
              THEN [rec EXCEPT ![q].state = "armed"]
              ELSE rec
    /\ UNCHANGED <<envVars, journal, order, execVars>>

expireUnarmed(q) ==
    /\ rec[q].state = "prepared" /\ ~rec[q].bad /\ rec[q].armBy <= now
    /\ rec' = [rec EXCEPT ![q] = resolve(@, "expired", "not_armed")]
    /\ UNCHANGED <<envVars, arming, journal, order, execVars>>

\* Mutant: a cancel ends a record that is being placed.
MutCancelEndsSending(r, preparedOnly) ==
    IF r.state \in {"prepared", "armed", "held", "sending"} THEN resolve(r, "cancelled", "owner_cancelled") ELSE r

\* What a cancel does to one record.  A record being placed keeps the request.
CancelRecord(r, preparedOnly) ==
    IF preparedOnly /\ r.state # "prepared" THEN r
    ELSE IF \/ r.kind # "rule" /\ r.state = "held" /\ r.attempt # NoAttempt
            \/ r.state = "sent" /\ ownerQueueProtection(r)
    THEN IF r.cancel THEN r ELSE [r EXCEPT !.cancel = TRUE, !.ended = TRUE]
    ELSE IF r.state = "sending" THEN [r EXCEPT !.cancel = TRUE]
    ELSE IF r.state = "prepared" \/ waiting(r) THEN resolve(r, "cancelled", "owner_cancelled")
    ELSE r

QueueCancel(S, preparedOnly) ==
    /\ rec' = [q \in QueueIds |-> IF q \in S THEN CancelRecord(rec[q], preparedOnly) ELSE rec[q]]
    /\ rec' # rec
    /\ UNCHANGED <<envVars, arming, journal, order, execVars>>

-----------------------------------------------------------------------------
(***************************************************************************)
(* The executor's housekeeping, in runQueuedCycle's order.                 *)
(***************************************************************************)
Step(from, to) == pc = from /\ pc' = to

HousekeepingKeeps == UNCHANGED <<envVars, arming, journal, order, todo, cur, att, bind, res>>

EndUnreadable(r) ==
    IF ~r.bad \/ final(r) \/ r.state = "none" THEN r
    ELSE [resolve(r, IF r.state \in {"prepared", "armed", "held"} THEN "cancelled" ELSE "failed",
                  "record_unreadable") EXCEPT !.bad = FALSE]

endUnreadableQueued ==
    /\ Step("unreadable", "recover")
    /\ rec' = [q \in QueueIds |-> EndUnreadable(rec[q])]
    /\ HousekeepingKeeps

\* Mutant: only an earlier process's sends are recovered.
MutStuckOnlyAfterRestart(r) == r.state = "sending" /\ ~r.own

\* Left in sending by an earlier process, or by this one too long ago.
Stuck(r) == r.state = "sending" /\ (~r.own \/ now - r.at > SendingStale)

\* Mutant: recovery forgets the cancel that arrived while placing.
MutRecoverForgetsCancel(r) ==
    LET outcome == queuedJournalSendOutcome(journal[r.attempt], r.kind)
    IN  IF outcome = "reached" THEN [r EXCEPT !.state = "sent"]
        ELSE IF outcome = "unclear" THEN resolve(r, "failed", "send_outcome_unclear")
        ELSE [ClearAttempt(r) EXCEPT !.state = "armed"]

\* The order journal decides what became of a stuck send.
RecoverRecord(r) ==
    LET outcome == queuedJournalSendOutcome(journal[r.attempt], r.kind)
    IN  IF outcome = "reached" THEN [r EXCEPT !.state = "sent"]
        ELSE IF outcome = "unclear"
        THEN IF ownerQueueProtection(r) THEN [r EXCEPT !.state = "held"]
             ELSE resolve(r, "failed", "send_outcome_unclear")
        ELSE IF r.cancel THEN resolve(r, "cancelled", "owner_cancelled")
        ELSE [ClearAttempt(r) EXCEPT !.state = "armed"]

recoverQueuedAfterRestart ==
    /\ Step("recover", "flat")
    /\ rec' = [q \in QueueIds |-> IF Stuck(rec[q]) THEN RecoverRecord(rec[q]) ELSE rec[q]]
    /\ HousekeepingKeeps

\* A flat position in the connected scope ends a stop's mandate.
EndFlat(r) ==
    IF \/ r.state = "none" \/ ~ownerQueueProtection(r) \/ r.ended
       \/ account # AccountOf[r.line] \/ position[r.line] > 0 THEN r
    ELSE IF r.attempt # NoAttempt THEN [r EXCEPT !.ended = TRUE, !.cancel = TRUE]
    ELSE IF waiting(r) \/ r.state = "prepared"
    THEN [resolve(r, "cancelled", "position_changed") EXCEPT !.ended = TRUE]
    ELSE [r EXCEPT !.ended = TRUE]

endFlatProtectionQueues ==
    /\ Step("flat", "expire")
    /\ rec' = [q \in QueueIds |-> EndFlat(rec[q])]
    /\ HousekeepingKeeps

\* Mutant: a held record outlives its window.
MutExpireOnlyArmed(r) ==
    IF r.state = "prepared" /\ r.armBy <= now THEN resolve(r, "expired", "not_armed")
    ELSE IF r.state = "armed" /\ ~ownerQueueProtection(r) /\ NotAfter <= now
    THEN resolve(r, "expired", "window_ended")
    ELSE r

Expire(r) ==
    IF r.state = "prepared" /\ r.armBy <= now THEN resolve(r, "expired", "not_armed")
    ELSE IF waiting(r) /\ ~ownerQueueProtection(r) /\ NotAfter <= now
    THEN resolve(r, "expired", "window_ended")
    ELSE r

expireQueued ==
    /\ Step("expire", "follow")
    /\ rec' = [q \in QueueIds |-> Expire(rec[q])]
    /\ HousekeepingKeeps

\* Mutant: an off-by-one calls an order one short of its quantity filled.
MutOrderResolutionOffByOne(r, s, filled) ==
    IF ~orderLifecycleStatusIsTerminal(s) THEN r
    ELSE IF filled + 1 >= r.qty THEN resolve(r, "filled", "")
    ELSE resolve(r, "expired_unfilled", s)

\* What an ended order's view makes of its record.
queuedOrderResolution(r, s, filled) ==
    IF ~orderLifecycleStatusIsTerminal(s) THEN r
    ELSE IF r.qty > 0 /\ filled >= r.qty THEN resolve(r, "filled", "")
    ELSE IF s = "closed_reconciled" THEN resolve(r, "failed", "fill_unconfirmed")
    ELSE resolve(r, IF filled > 0 THEN "partially_filled" ELSE "expired_unfilled", s)

\* The view of a sent order, or of a stop held with its attempt unconfirmed.
FollowRecord(r) ==
    LET s == LifecycleStatus(journal[r.attempt], r.kind \in DayKinds /\ DayEnd <= now)
        filled == ViewFilled(journal[r.attempt])
        unaccepted == ownerQueueProtection(r) /\ ~r.accepted
    IN  IF unaccepted /\ s = "rejected" THEN [r EXCEPT !.state = "held"]
        ELSE IF unaccepted /\ s \in {"submitted", "filled"}
        THEN queuedOrderResolution([r EXCEPT !.accepted = TRUE, !.state = "sent"], s, filled)
        ELSE queuedOrderResolution(r, s, filled)

Followed(r) == /\ r.state = "sent" \/ (ownerQueueProtection(r) /\ r.state = "held")
               /\ r.attempt # NoAttempt

followQueuedSent ==
    /\ Step("follow", "list")
    /\ rec' = [q \in QueueIds |-> IF Followed(rec[q]) THEN FollowRecord(rec[q]) ELSE rec[q]]
    /\ HousekeepingKeeps

\* A store write that fails, or a journal or portfolio that cannot be read,
\* leaves the records alone; the cycle goes on.
HousekeepingFails ==
    /\ Fault
    /\ \/ Step("unreadable", "recover") \/ Step("recover", "flat") \/ Step("flat", "expire")
       \/ Step("expire", "follow") \/ Step("follow", "list")
    /\ UNCHANGED <<now, frozen, gen, account, session, position, rec, arming, journal, order,
                   todo, cur, att, bind, res>>

runQueuedCycle ==
    /\ Step("list", "execute")
    /\ todo' = {q \in QueueIds : waiting(rec[q]) /\ InWindow(rec[q])}
    /\ UNCHANGED <<envVars, rec, arming, journal, order, cur, att, bind, res>>

EndCycle ==
    /\ Step("execute", "unreadable") /\ todo = {}
    /\ UNCHANGED <<envVars, rec, arming, journal, order, todo, cur, att, bind, res>>

-----------------------------------------------------------------------------
(***************************************************************************)
(* One record of the cycle: executeQueued revalidates the listed record,   *)
(* sendQueued takes brokerWriteMu, resolves again, previews, stages the    *)
(* intent and places.  Each pc is a point where the others may step in.    *)
(***************************************************************************)
NoBind == [qty |-> 0, pos |-> 0, gen |-> 0, session |-> 0]

Done == /\ pc' = "execute" /\ cur' = NoQueue /\ att' = NoAttempt
        /\ bind' = NoBind /\ res' = "none"

PositionMoved(r) == IF ownerQueueProtection(r) THEN position[r.line] = 0
                    ELSE position[r.line] # r.signed

\* Gates that read state outside this module (quotes, sessions, the book,
\* policies) answer as they like: they hold any record, and end a version 1
\* record for good (queuedDisposition, settleQueuedRefusal).
settleQueuedRefusal(r) == {"hold"} \cup (IF r.kind = "rule" THEN {"gate_refused"} ELSE {})

\* Mutant: a record is sent under whatever account is connected.
MutAccountUnchecked(r) ==
    IF r.kind # "rule" /\ r.attempt # NoAttempt THEN {"skip"}
    ELSE IF r.bad THEN {"record_unreadable"}
    ELSE IF frozen THEN {"hold"}
    ELSE settleQueuedRefusal(r) \cup {IF PositionMoved(r) THEN "position_changed" ELSE "go"}

\* What executeQueued may do with a listed record: leave it, hold it, cancel
\* it under a code, or go on to send it.
executeVerdicts(r) ==
    IF r.kind # "rule" /\ r.attempt # NoAttempt THEN {"skip"}
    ELSE IF r.bad THEN {"record_unreadable"}
    ELSE IF account \notin {NoAccount, AccountOf[r.line]} /\ ~ownerQueueProtection(r) THEN {"account_changed"}
    ELSE IF account # AccountOf[r.line] \/ frozen THEN {"hold"}
    ELSE settleQueuedRefusal(r) \cup {IF PositionMoved(r) THEN "position_changed" ELSE "go"}

\* holdQueued and cancelQueued: only a record still waiting changes.
Apply(q, v) ==
    rec' = IF ~waiting(rec[q]) \/ v \in {"skip", "go"} THEN rec
           ELSE [rec EXCEPT ![q] = IF v = "hold" THEN [@ EXCEPT !.state = "held"]
                                   ELSE resolve(@, "cancelled", v)]

executeQueued(q) ==
    /\ pc = "execute" /\ q \in todo
    /\ todo' = todo \ {q}
    /\ \E v \in executeVerdicts(rec[q]) :
          /\ Apply(q, v)
          /\ pc' = IF v = "go" THEN "locked" ELSE pc
          /\ cur' = IF v = "go" THEN q ELSE cur
    /\ UNCHANGED <<envVars, arming, journal, order, att, bind, res>>

\* The hold or cancel of a listed record cannot be stored: it is left as it is.
ExecuteFault ==
    /\ Fault /\ pc = "execute"
    /\ \E q \in todo : todo' = todo \ {q}
    /\ UNCHANGED <<now, frozen, gen, account, session, position, rec, arming, journal, order,
                   pc, cur, att, bind, res>>

\* A refusal of the send before anything was staged.
Refuse(verdicts) ==
    /\ \E v \in verdicts : Apply(cur, v)
    /\ Done
    /\ UNCHANGED <<envVars, arming, journal, order, todo>>

\* Mutant: one more than signed.
MutSendQuantitiesOffByOne(r) == {r.max + 1}

SendQuantities(r) == CASE r.kind = "rule"  -> 1..r.max
                       [] r.kind = "exact" -> {r.max}
                       [] r.kind = "stop"  -> {position[r.line]}

\* sendQueued under brokerWriteMu: the record is read again, and version 2
\* resolves its position again (resolveOwnerQueue).
sendQueued ==
    /\ pc = "locked"
    /\ LET r == rec[cur]
           moved == r.kind # "rule" /\ PositionMoved(r)
       IN  \/ ~waiting(r) /\ Refuse({"skip"})
           \/ waiting(r) /\ Refuse(settleQueuedRefusal(r) \cup (IF moved THEN {"position_changed"} ELSE {}))
           \/ /\ waiting(r) /\ ~moved
              /\ \E n \in SendQuantities(r) : bind' = [bind EXCEPT !.qty = n]
              /\ pc' = "preview"
              /\ UNCHANGED <<envVars, rec, arming, journal, order, todo, cur, att, res>>

\* The preview mints a token bound to the control generation and the position
\* it read; beforePlace compares the draft with the signed terms.
previewOrder(a) ==
    /\ pc = "preview"
    /\ LET r == rec[cur]
           p == position[r.line]
       IN  \/ Refuse(settleQueuedRefusal(r))
           \/ r.kind = "stop" /\ bind.qty # p /\ Refuse({"send_refused"})
           \/ /\ order[a].by = NoQueue
              /\ r.kind = "rule" => bind.qty <= p
              /\ r.kind = "stop" => bind.qty = p
              /\ att' = a
              /\ bind' = [bind EXCEPT !.pos = p, !.gen = gen]
              /\ pc' = "staging"
              /\ UNCHANGED <<envVars, rec, arming, journal, order, todo, cur, res>>

\* The intent is persisted before the broker call, by a record still waiting,
\* readable and inside its window.
beforePlace ==
    /\ pc = "staging"
    /\ LET r == rec[cur]
       IN  \/ ~waiting(r) /\ Refuse({"skip"})
           \/ waiting(r) /\ r.bad /\ Refuse({"record_unreadable"})
           \/ waiting(r) /\ ~r.bad /\ ~InWindow(r) /\ Refuse({"skip"})
           \/ /\ waiting(r) /\ ~r.bad /\ InWindow(r)
              /\ rec' = [rec EXCEPT ![cur].state = "sending", ![cur].attempt = att,
                                    ![cur].qty = bind.qty, ![cur].at = now, ![cur].own = TRUE]
              /\ order' = [order EXCEPT ![att].by = cur, ![att].qty = bind.qty]
              /\ pc' = "staged"
              /\ UNCHANGED <<envVars, arming, journal, todo, cur, att, bind, res>>

\* The intent cannot be stored: nothing was staged, and the refusal holds or
\* ends the record; or a refusal cannot be stored, and the record stays.
RefusalFault ==
    /\ Fault
    /\ \/ pc = "staging" /\ \E v \in settleQueuedRefusal(rec[cur]) \cup {"skip"} : Apply(cur, v)
       \/ pc \in {"locked", "preview"} /\ Apply(cur, "skip")
    /\ Done
    /\ UNCHANGED <<now, frozen, gen, account, session, position, arming, journal, order, todo>>

-----------------------------------------------------------------------------
(***************************************************************************)
(* placeOrder: admission, the journalled attempt, the wire guard, the      *)
(* frame, and the journalled return.                                       *)
(***************************************************************************)
Keep == UNCHANGED <<now, frozen, gen, account, session, position, rec, arming, todo, cur, att>>

\* daemonOwnerQueuedOriginBlockers: the intent is still the owner's.
Authorised(r) == liveIntent(r) /\ ~r.cancel /\ ~r.ended /\ InWindow(r)

\* requireBrokerWriteTransactionCurrent: the session admission was bound to.
BindingCurrent == session = bind.session

\* Mutant: the controls are not read again after the preview.
MutControlsUnread == TRUE

\* The trading controls are those of the preview, and open.
ControlsCurrent == ~frozen /\ gen = bind.gen

\* A refusal before the first frame.  The freeze refuses by its own type.
Refusal == res' \in {"error"} \cup (IF frozen THEN {"frozen"} ELSE {})

\* Admission.  Any gate may refuse; only when all pass is the attempt staged
\* in the journal (StagePreTransmit), still before the first frame.
placeOrder ==
    /\ pc = "staged"
    /\ \/ Refusal /\ pc' = "answered" /\ UNCHANGED <<journal, bind>>
       \/ /\ Authorised(rec[cur]) /\ ControlsCurrent
          /\ position[rec[cur].line] = bind.pos
          /\ journal' = [journal EXCEPT ![att] = Append(@, LocalEvent("attempted"))]
          /\ bind' = [bind EXCEPT !.session = session]
          /\ pc' = "journalled" /\ UNCHANGED res
    /\ Keep /\ UNCHANGED <<faults, order>>

\* The wire guard's first half: the binding and the origin's authority.
brokerWireGuard ==
    /\ pc = "journalled"
    /\ \/ Refusal /\ pc' = "refused"
       \/ ~frozen /\ Authorised(rec[cur]) /\ BindingCurrent /\ pc' = "guarded" /\ UNCHANGED res
    /\ Keep /\ UNCHANGED <<faults, bind, journal, order>>

\* Its second half holds the control lease through the frame: no freeze and no
\* control change falls between these checks and the bytes.
submitBoundConfiguredOrder ==
    /\ pc = "guarded"
    /\ \/ Refusal /\ pc' = "refused" /\ UNCHANGED order
       \/ /\ BindingCurrent /\ ControlsCurrent
          /\ position[rec[cur].line] = bind.pos
          /\ order' = [order EXCEPT ![att].wire = "flying"]
          /\ pc' = "wrote" /\ UNCHANGED res
    /\ Keep /\ UNCHANGED <<faults, bind, journal>>

\* The transport's return is journalled: a flushed frame is accepted, a write
\* of unknown effect is an uncertain error, a refusal is definitely unsent.
appendOrderSendOutcome ==
    /\ \/ /\ pc = "wrote" /\ res' = "ok"
          /\ journal' = [journal EXCEPT ![att] = Append(@, LocalEvent("completed"))]
       \/ /\ pc = "wrote" /\ res' = "error"
          /\ journal' = [journal EXCEPT ![att] = Append(@, LocalEvent("uncertain"))]
       \/ /\ pc = "refused" /\ UNCHANGED res
          /\ journal' = [journal EXCEPT ![att] = Append(@, LocalEvent("unsent"))]
    /\ pc' = "answered"
    /\ Keep /\ UNCHANGED <<faults, bind, order>>

AppendFault ==
    /\ Fault
    /\ pc \in {"wrote", "refused"}
    /\ res' = IF pc = "wrote" THEN "error" ELSE res
    /\ pc' = "answered"
    /\ UNCHANGED <<now, frozen, gen, account, session, position, rec, arming, journal, order,
                   todo, cur, att, bind>>

\* Mutant: an order that reached the broker drops the cancel asked for meanwhile.
MutSettleDropsCancel(r, outcome) ==
    IF r.state # "sending" THEN r
    ELSE IF outcome = "reached" THEN [r EXCEPT !.state = "sent", !.cancel = FALSE]
    ELSE IF outcome \in {"none", "failed_unsent"}
    THEN IF r.cancel THEN resolve(r, "cancelled", "owner_cancelled")
         ELSE [ClearAttempt(r) EXCEPT !.state = "held"]
    ELSE IF ownerQueueProtection(r) THEN [r EXCEPT !.state = "held"]
    ELSE resolve(r, "failed", "send_outcome_unclear")

\* What sendQueued makes of the answer.
SettleRecord(r, outcome) ==
    IF r.state # "sending" THEN r
    ELSE IF outcome = "reached" THEN [r EXCEPT !.state = "sent"]
    ELSE IF outcome \in {"none", "failed_unsent"}
    THEN IF r.cancel THEN resolve(r, "cancelled", "owner_cancelled")
         ELSE [ClearAttempt(r) EXCEPT !.state = "held"]
    ELSE IF ownerQueueProtection(r) THEN [r EXCEPT !.state = "held"]
    ELSE resolve(r, "failed", "send_outcome_unclear")

\* Mutant: a send that returned an error is taken for unsent.
MutAnswerErrorIsUnsent == IF res = "ok" THEN "reached" ELSE "none"

AnswerOutcome == IF res = "ok" THEN "reached" ELSE IF res = "frozen" THEN "none"
                 ELSE queuedJournalSendOutcome(journal[att], rec[cur].kind)

settleSend ==
    /\ pc = "answered"
    /\ rec' = [rec EXCEPT ![cur] = SettleRecord(@, AnswerOutcome)]
    /\ Done
    /\ UNCHANGED <<envVars, arming, journal, order, todo>>

\* The journal cannot be read, or the outcome cannot be stored.
SettleFault ==
    /\ Fault /\ pc = "answered"
    /\ \/ UNCHANGED rec
       \/ res = "error" /\ rec' = [rec EXCEPT ![cur] = SettleRecord(@, "unclear")]
    /\ Done
    /\ UNCHANGED <<now, frozen, gen, account, session, position, arming, journal, order, todo>>

-----------------------------------------------------------------------------
(***************************************************************************)
(* The world: the clock, the owner's freeze, the connection, the           *)
(* portfolio, the broker, its callbacks, the reconciler and crashes.       *)
(***************************************************************************)
others == <<rec, arming, journal, order, execVars>>

Tick == /\ now < MaxTime /\ now' = now + 1
        /\ UNCHANGED <<faults, frozen, gen, account, session, position, others>>

SetFrozen == /\ gen < MaxGen /\ gen' = gen + 1
             /\ frozen' = ~frozen
             /\ UNCHANGED <<now, faults, account, session, position, others>>

\* The connection drops and comes back as another session.
Reconnect == /\ session < MaxSessions /\ session' = session + 1
             /\ UNCHANGED <<now, faults, frozen, gen, account, position, others>>

PortfolioUpdate(l, n) == /\ position[l] # n /\ position' = [position EXCEPT ![l] = n]
                         /\ UNCHANGED <<now, faults, frozen, gen, account, session, others>>

Broker(a, w) == /\ order' = [order EXCEPT ![a].wire = w]
                /\ UNCHANGED <<envVars, rec, arming, journal, execVars>>

BrokerReceive(a) == order[a].wire = "flying" /\ \E w \in {"lost", "working", "rejected"} : Broker(a, w)

BrokerFill(a) ==
    /\ order[a].wire = "working" /\ order[a].fill < order[a].qty
    /\ order' = [order EXCEPT ![a].fill = @ + 1,
                              ![a].wire = IF order[a].fill + 1 = order[a].qty THEN "ended" ELSE @]
    /\ UNCHANGED <<envVars, rec, arming, journal, execVars>>

BrokerCancel(a) == order[a].wire = "working" /\ Broker(a, "ended")

\* What the broker would report of an order now.
BrokerReport(a) ==
    CASE order[a].wire = "rejected" -> LocalEvent("error")
      [] order[a].wire = "working" -> BrokerEvent("status", "Submitted", order[a].fill)
      [] OTHER -> BrokerEvent("status", IF order[a].fill = order[a].qty THEN "Filled" ELSE "Cancelled",
                              order[a].fill)

\* A callback is journalled: openOrder while the order works, or a report of
\* its status.  A repeated one adds nothing to any view and is left out.
Callback(a) ==
    /\ order[a].wire \in {"working", "ended", "rejected"}
    /\ \E e \in {BrokerReport(a), BrokerEvent("acknowledged", "Submitted", 0)} :
           /\ e.type = "acknowledged" => order[a].wire = "working"
           /\ \A i \in DOMAIN journal[a] : journal[a][i] # e
           /\ journal' = [journal EXCEPT ![a] = Append(@, e)]
    /\ UNCHANGED <<envVars, rec, arming, order, execVars>>

\* A complete open-order snapshot lacks an acknowledged order the view shows open.
reconcileOrderJournalWithBroker(a) ==
    /\ order[a].wire = "ended" /\ Has(journal[a], "acknowledged")
    /\ ViewOpen(journal[a], rec[order[a].by].kind \in DayKinds /\ DayEnd <= now)
    /\ journal' = [journal EXCEPT ![a] = Append(@, LocalEvent("absent"))]
    /\ UNCHANGED <<envVars, rec, arming, order, execVars>>

\* A crash and a start.  Memory is lost: the executor and the arms under way.
\* Another build may find a record it cannot read, or read one again, and the
\* configuration may pin another account.
Restart ==
    /\ Fault
    /\ \E B \in SUBSET {q \in QueueIds : rec[q].state # "none"} :
          /\ B # {} => MayMisread
          /\ rec' = [q \in QueueIds |-> [rec[q] EXCEPT !.bad = q \in B, !.own = FALSE]]
    /\ account' \in Scopes
    /\ arming' = [q \in QueueIds |-> -1]
    /\ pc' = "unreadable" /\ todo' = {} /\ cur' = NoQueue /\ att' = NoAttempt
    /\ bind' = NoBind /\ res' = "none"
    /\ UNCHANGED <<now, frozen, gen, session, position, journal, order>>

-----------------------------------------------------------------------------
FirstLine == CHOOSE l \in Lines : TRUE

NoRecord == [state |-> "none", kind |-> "rule", line |-> FirstLine, max |-> 0, signed |-> 0,
             armBy |-> 0, cancel |-> FALSE, ended |-> FALSE, accepted |-> FALSE,
             attempt |-> NoAttempt, qty |-> 0, at |-> 0, own |-> FALSE, bad |-> FALSE, code |-> ""]

Init ==
    /\ now = 0 /\ faults = 0 /\ frozen = FALSE /\ gen = 0
    /\ account \in Scopes /\ session = 0
    /\ position \in [Lines -> Positions]
    /\ rec = [q \in QueueIds |-> NoRecord]
    /\ arming = [q \in QueueIds |-> -1]
    /\ journal = [a \in Attempts |-> <<>>]
    /\ order = [a \in Attempts |-> [by |-> NoQueue, qty |-> 0, wire |-> "none", fill |-> 0]]
    /\ pc = "unreadable" /\ todo = {} /\ cur = NoQueue /\ att = NoAttempt
    /\ bind = NoBind /\ res = "none"

Owner ==
    \/ \E q \in QueueIds, l \in Lines, k \in Kinds, n \in 1..MaxPosition : QueuePrepare(q, l, k, n)
    \/ \E q \in QueueIds : QueueArmCheck(q) \/ QueueArm(q) \/ expireUnarmed(q)
    \/ \E q \in QueueIds, p \in BOOLEAN : QueueCancel({q}, p)
    \/ QueueCancel(QueueIds, FALSE)

Executor ==
    \/ endUnreadableQueued \/ recoverQueuedAfterRestart \/ endFlatProtectionQueues
    \/ expireQueued \/ followQueuedSent \/ runQueuedCycle \/ EndCycle
    \/ \E q \in QueueIds : executeQueued(q)
    \/ sendQueued \/ (\E a \in Attempts : previewOrder(a)) \/ beforePlace
    \/ placeOrder \/ brokerWireGuard \/ submitBoundConfiguredOrder
    \/ appendOrderSendOutcome \/ settleSend

Faults == HousekeepingFails \/ ExecuteFault \/ RefusalFault \/ AppendFault \/ SettleFault \/ Restart

World ==
    \/ SetFrozen
    \/ Reconnect
    \/ \E l \in Lines, n \in Positions : PortfolioUpdate(l, n)
    \/ \E a \in Attempts : \/ BrokerReceive(a) \/ BrokerFill(a) \/ BrokerCancel(a)
                           \/ Callback(a) \/ reconcileOrderJournalWithBroker(a)

Next == Owner \/ Executor \/ Faults \/ World \/ Tick

Spec == Init /\ [][Next]_vars

\* The executor's goroutine keeps cycling and the clock keeps running.
FairSpec == Spec /\ WF_vars(Executor) /\ WF_vars(Tick)

-----------------------------------------------------------------------------
(***************************************************************************)
(* Properties.                                                             *)
(***************************************************************************)
Wires == {"none", "flying", "lost", "working", "ended", "rejected"}

PCs == {"unreadable", "recover", "flat", "expire", "follow", "list", "execute", "locked", "preview",
        "staging", "staged", "journalled", "guarded", "wrote", "refused", "answered"}

\* Every variable keeps its type.
TypeOK ==
    /\ now \in Nat /\ faults \in Nat /\ frozen \in BOOLEAN /\ gen \in Nat
    /\ account \in Accounts \cup {NoAccount} /\ session \in Nat
    /\ position \in [Lines -> 0..MaxPosition]
    /\ rec \in [QueueIds -> Record]
    /\ arming \in [QueueIds -> Int]
    /\ journal \in [Attempts -> Seq(Event)]
    /\ order \in [Attempts -> [by : QueueIds \cup {NoQueue}, qty : 0..MaxPosition,
                               wire : Wires, fill : 0..MaxPosition]]
    /\ pc \in PCs /\ todo \subseteq QueueIds
    /\ cur \in QueueIds \cup {NoQueue} /\ att \in Attempts \cup {NoAttempt}
    /\ bind \in [qty : 0..MaxPosition, pos : 0..MaxPosition, gen : Nat, session : Nat]
    /\ res \in {"none", "ok", "error", "frozen"}

Framed(a) == order[a].wire # "none"

\* One signature, at most one order: however sends, refusals, crashes, failed
\* writes, recoveries and cancels interleave, no two broker frames are ever
\* written for one queued authorisation (sendQueued, recoverQueuedAfterRestart).
AtMostOnce ==
    \A a, b \in Attempts : Framed(a) /\ Framed(b) /\ order[a].by = order[b].by => a = b

\* The record and the wire agree: a record that has an order at the broker
\* still names it, so a cancel, a reconciliation or a restart finds it, and a
\* record that says an order was sent or ended names one whose frame was
\* written (settleSend, recoverQueuedAfterRestart, followQueuedSent).
BookMatchesWire ==
    /\ \A a \in Attempts : Framed(a) => rec[order[a].by].attempt = a
    /\ \A q \in QueueIds :
          \/ rec[q].state \in {"sent", "filled", "partially_filled"}
          \/ rec[q].state = "expired_unfilled" /\ rec[q].code # "expired_inferred"
          => \E a \in Attempts : rec[q].attempt = a /\ Framed(a)

\* "cancelled; nothing will be sent" and "expired unsent" are the truth: a
\* record that ended so by any code but record_unreadable has no frame
\* (QueueCancel, cancelQueued, expireQueued, settleSend, recovery).
CancelledUnsent ==
    \A a \in Attempts : Framed(a) /\ rec[order[a].by].state \in {"cancelled", "expired"}
                           => rec[order[a].by].code = "record_unreadable"

\* At most one authorised intent or working order per account, contract and
\* side, whatever arms race each other (QueuePrepare, QueueArm).
OneClaimPerLine ==
    \A q, o \in QueueIds : Claims(rec[q]) /\ Claims(rec[o]) /\ rec[q].line = rec[o].line => q = o

\* What a final record says of the fill is what the broker did, when the end
\* was the broker's word (queuedOrderResolution).
FillHonest ==
    \A a \in Attempts : Framed(a) =>
        LET r == rec[order[a].by] IN
        /\ r.state = "filled" => order[a].fill = order[a].qty
        /\ r.state = "partially_filled" /\ r.code = "cancelled" => order[a].fill \in 1..(order[a].qty - 1)
        /\ r.state = "expired_unfilled" /\ r.code \in {"cancelled", "rejected"} => order[a].fill = 0

\* The frame about to be written for an attempt is the one signed.
SignedFrame(a) ==
    LET r == rec[order[a].by] IN
    /\ r.state = "sending" /\ r.attempt = a /\ ~r.bad
    /\ Has(journal[a], "attempted") /\ ~Has(journal[a], "unsent") /\ ~frozen
    /\ account = AccountOf[r.line]
    /\ CASE r.kind = "exact" -> order[a].qty = r.max
         [] r.kind = "rule"  -> order[a].qty \in 1..r.max /\ order[a].qty <= position[r.line]
         [] r.kind = "stop"  -> order[a].qty = position[r.line]

\* A frame leaves only under everything the wire guard promises: for a record
\* in sending whose intent names this very attempt, journalled before, with
\* trading not frozen, in the signed account and the quantity signed: exactly
\* it, at most it and no more than the position, or the whole position.
WireAsSigned == [][\A a \in Attempts : ~Framed(a) /\ Framed(a)' => SignedFrame(a)]_vars

\* A cancel removes authority for good: once a record is cancelled, asked to
\* cancel or ended it never stages another attempt, and a final record never
\* leaves its state (QueueCancel, endFlatProtectionQueues).
CancelIsForGood ==
    [][\A q \in QueueIds :
         /\ final(rec[q]) => rec'[q].state = rec[q].state
         /\ final(rec[q]) \/ rec[q].cancel \/ rec[q].ended
              => rec'[q].attempt = rec[q].attempt /\ rec'[q].state \notin {"armed", "prepared"}]_vars

\* A send never stays in flight: whatever crash, failed write or unreadable
\* journal interrupts it, a later cycle takes the record out of sending
\* (settleSend, recoverQueuedAfterRestart, queuedSendingStale).
SendSettles == \A q \in QueueIds : rec[q].state = "sending" ~> rec[q].state # "sending"

\* A signature never lingers: a version 1 or exact order that was armed is
\* sent or ends, at the latest soon after its window (expireQueued, recovery).
SignatureResolves ==
    \A q \in QueueIds : waiting(rec[q]) /\ ~ownerQueueProtection(rec[q])
                           ~> rec[q].state = "sent" \/ final(rec[q])

-----------------------------------------------------------------------------
(***************************************************************************)
(* The inductive invariant behind the safety properties.                   *)
(***************************************************************************)
InSend  == {"staged", "journalled", "guarded", "wrote", "refused", "answered"}
Working == {"locked", "preview", "staging"} \cup InSend

\* A record that says an order went out, and one that says none did.
SaysSent(r)   == \/ r.state \in {"sent", "filled", "partially_filled"} \/ r.accepted
                 \/ r.state = "expired_unfilled" /\ r.code # "expired_inferred"
SaysUnsent(r) == r.state \in {"cancelled", "expired"} /\ r.code # "record_unreadable"

AttemptFramed(r) == r.attempt # NoAttempt /\ Framed(r.attempt)

\* What one record says of its attempt is so.
RecordOK(r) ==
    /\ r.state \in {"none", "prepared", "armed"} => r.attempt = NoAttempt
    /\ r.state = "held" /\ ~ownerQueueProtection(r) => r.attempt = NoAttempt
    /\ r.state \in {"sending", "sent"} => r.attempt # NoAttempt
    /\ SaysSent(r) => AttemptFramed(r)
    /\ SaysUnsent(r) => ~AttemptFramed(r)
    /\ r.cancel \/ r.ended => r.attempt # NoAttempt \/ final(r)
    /\ r.ended => r.cancel \/ final(r)

\* The journal of an attempt with no frame proves it unsent or leaves it
\* unclear; that of a framed one never proves it unsent.
JournalOK(a) ==
    IF Framed(a) THEN Has(journal[a], "attempted") /\ ~Has(journal[a], "unsent")
    ELSE journal[a] \in {<<>>, <<LocalEvent("attempted")>>,
                         <<LocalEvent("attempted"), LocalEvent("unsent")>>}

AttemptOK(a) ==
    /\ order[a].by = NoQueue => ~Framed(a) /\ journal[a] = <<>>
    /\ Framed(a) => order[a].by # NoQueue /\ rec[order[a].by].attempt = a
    /\ JournalOK(a)

\* The quantity under way is the one signed.
QuantityOK(r) == CASE r.kind = "exact" -> bind.qty = r.max
                   [] r.kind = "rule"  -> bind.qty \in 1..r.max
                   [] r.kind = "stop"  -> TRUE

BoundOK(r) == CASE r.kind = "exact" -> TRUE
                [] r.kind = "rule"  -> bind.qty <= bind.pos
                [] r.kind = "stop"  -> bind.qty = bind.pos

\* Where the executor stands between its steps.
CursorOK ==
    /\ pc \in Working => cur \in QueueIds /\ rec[cur].state # "none" /\ account = AccountOf[rec[cur].line]
    /\ pc \in Working \ InSend /\ waiting(rec[cur]) => rec[cur].attempt = NoAttempt
    /\ pc \in Working \ {"locked"} => QuantityOK(rec[cur])
    /\ pc \in InSend \cup {"staging"} => att \in Attempts /\ BoundOK(rec[cur])
    /\ pc = "staging" => order[att].by = NoQueue
    /\ pc \in InSend => /\ rec[cur].state = "sending" /\ rec[cur].attempt = att /\ ~rec[cur].bad
                        /\ order[att].qty = bind.qty
    /\ pc = "staged" => journal[att] = <<>> /\ ~Framed(att)
    /\ pc \in {"journalled", "guarded", "refused"} => journal[att] = <<LocalEvent("attempted")>> /\ ~Framed(att)
    /\ pc = "refused" => res # "ok"
    /\ pc = "wrote" => Framed(att)
    /\ pc = "answered" => (res = "ok" => Framed(att)) /\ (res = "frozen" => ~Framed(att))

\* Inductive: records, attempts and the executor's place agree, whatever the
\* owner, the broker and crashes do between two of the executor's steps.
IInv ==
    /\ TypeOK /\ CursorOK
    /\ \A q \in todo : rec[q].state # "none"
    /\ \A q \in QueueIds : RecordOK(rec[q]) /\ (rec[q].attempt # NoAttempt => order[rec[q].attempt].by = q)
    /\ \A a \in Attempts : AttemptOK(a)

=============================================================================
