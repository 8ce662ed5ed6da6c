------------------------- MODULE QueuedActionProofs -------------------------
(***************************************************************************)
(* What no step of QueuedAuthorisation ever does: claim a line twice,      *)
(* write a frame that was not signed, give authority back, break the       *)
(* promise of SignedAuthority, or say of an order what did not become of   *)
(* it.                                                                     *)
(***************************************************************************)
EXTENDS QueuedAuthorisationProofs, QueuedRefinement

(***************************************************************************)
(* How a step rewrites a record, by the operation it runs.                 *)
(***************************************************************************)
Prepared(r, k, l, n, p, t) ==
    [r EXCEPT !.state = "prepared", !.kind = k, !.line = l, !.max = n, !.signed = p, !.armBy = t]

Reread(r, b) == [r EXCEPT !.bad = b, !.own = FALSE]

Rewritten(r, s, arm) ==
    \/ s = r
    \/ r.state = "none" /\ \E k, l, n, p, t : s = Prepared(r, k, l, n, p, t)
    \/ arm /\ r.state = "prepared" /\ s = [r EXCEPT !.state = "armed"]
    \/ waiting(r) /\ s = [r EXCEPT !.state = "held"]
    \/ (r.state = "prepared" \/ waiting(r)) /\ \E st \in {"cancelled", "expired"} : \E why : s = resolve(r, st, why)
    \/ \E p \in BOOLEAN : s = CancelRecord(r, p)
    \/ s = EndUnreadable(r) \/ s = EndFlat(r) \/ s = Expire(r)
    \/ r.state = "sending" /\ s = RecoverRecord(r)
    \/ Followed(r) /\ s = FollowRecord(r)
    \/ \E u : s = SettleRecord(r, u)
    \/ \E b : s = Reread(r, b)

\* holdQueued and cancelQueued rewrite a record that still waits.
LEMMA ApplyRewrites ==
    ASSUME rec \in [QueueIds -> Record], NEW q \in QueueIds, NEW v, Apply(q, v), NEW o \in QueueIds
    PROVE  Rewritten(rec[o], rec'[o], QueueArm(o))
<1>1. \/ rec'[o] = rec[o]
      \/ waiting(rec[o]) /\ rec'[o] \in {[rec[o] EXCEPT !.state = "held"], resolve(rec[o], "cancelled", v)}
  BY DEF Apply
<1> QED
  BY <1>1 DEF Rewritten

\* Every step but a staging rewrites every record by one of the operations.
LEMMA RecordRewritten ==
    ASSUME IInv, Next, ~StageStep, NEW o \in QueueIds PROVE Rewritten(rec[o], rec'[o], QueueArm(o))
<1>1. TypeOK /\ CursorOK /\ RecordsOK
  BY InvParts
<1>2. rec \in [QueueIds -> Record]
  BY <1>1 DEF TypeOK
<1>3. CASE rec'[o] = rec[o]
  BY <1>3 DEF Rewritten
<1>4. ASSUME NEW q \in QueueIds, NEW l \in Lines, NEW k \in Kinds, NEW n \in 1..MaxPosition, QueuePrepare(q, l, k, n)
      PROVE  Rewritten(rec[o], rec'[o], QueueArm(o))
  <2>1. \/ rec'[o] = rec[o]
        \/ rec[o].state = "prepared" /\ rec'[o] = resolve(rec[o], "cancelled", "superseded")
        \/ rec[o].state = "none" /\ rec'[o] = Prepared(rec[o], k, l, n, position[l], now + ArmWindow)
    BY <1>4, Zenon DEF QueuePrepare, Prepared
  <2> QED BY <2>1 DEF Rewritten
<1>5. ASSUME NEW q \in QueueIds, expireUnarmed(q) PROVE Rewritten(rec[o], rec'[o], QueueArm(o))
  <2>1. rec'[o] = rec[o] \/ (rec[o].state = "prepared" /\ rec'[o] = resolve(rec[o], "expired", "not_armed"))
    BY <1>2, <1>5 DEF expireUnarmed
  <2> QED BY <2>1 DEF Rewritten
<1>6. ASSUME NEW q \in QueueIds, QueueArm(q) PROVE Rewritten(rec[o], rec'[o], QueueArm(o))
  <2>1. rec'[o] = rec[o] \/ (o = q /\ rec[o].state = "prepared" /\ rec'[o] = [rec[o] EXCEPT !.state = "armed"])
    BY <1>2, <1>6 DEF QueueArm
  <2> QED BY <1>6, <2>1 DEF Rewritten
<1>7. ASSUME NEW S \in SUBSET QueueIds, NEW p \in BOOLEAN, QueueCancel(S, p) PROVE Rewritten(rec[o], rec'[o], QueueArm(o))
  <2>1. rec'[o] = rec[o] \/ rec'[o] = CancelRecord(rec[o], p)
    BY <1>7 DEF QueueCancel
  <2> QED BY <2>1 DEF Rewritten
<1>8. CASE Owner
  BY <1>3, <1>4, <1>5, <1>6, <1>7, <1>8, Zenon DEF Owner, QueueArmCheck
<1>9. CASE endUnreadableQueued \/ recoverQueuedAfterRestart \/ endFlatProtectionQueues \/ expireQueued \/ followQueuedSent
  <2>1. \/ rec'[o] \in {rec[o], EndUnreadable(rec[o]), EndFlat(rec[o]), Expire(rec[o])}
        \/ rec[o].state = "sending" /\ rec'[o] = RecoverRecord(rec[o])
        \/ Followed(rec[o]) /\ rec'[o] = FollowRecord(rec[o])
    BY <1>9 DEF endUnreadableQueued, recoverQueuedAfterRestart, endFlatProtectionQueues, expireQueued,
                followQueuedSent, Stuck
  <2> QED BY <2>1, Zenon DEF Rewritten
<1>10. ASSUME NEW V, Refuse(V), pc \in {"locked", "preview", "staging"} PROVE Rewritten(rec[o], rec'[o], QueueArm(o))
  <2>1. cur \in QueueIds
    BY <1>1, <1>10 DEF CursorOK, Working
  <2> QED BY <1>2, <1>10, <2>1, ApplyRewrites DEF Refuse
<1>11. CASE \E q \in QueueIds : executeQueued(q)
  BY <1>2, <1>11, ApplyRewrites DEF executeQueued
<1>12. CASE sendQueued
  BY <1>3, <1>10, <1>12 DEF sendQueued
<1>13. CASE \E a \in Attempts : previewOrder(a)
  BY <1>3, <1>10, <1>13, SMTT(30) DEF previewOrder
<1>14. CASE beforePlace
  <2>1. (\E V : Refuse(V)) \/ StageStep
    BY <1>14, Zenon DEF beforePlace, StageStep
  <2> QED BY <1>10, <1>14, <2>1 DEF beforePlace
<1>15. CASE RefusalFault
  <2>1. cur \in QueueIds /\ \E v : Apply(cur, v)
    BY <1>1, <1>15 DEF CursorOK, Working, RefusalFault
  <2> QED BY <1>2, <2>1, ApplyRewrites
<1>16. CASE settleSend \/ SettleFault
  <2>1. cur \in QueueIds
    BY <1>1, <1>16 DEF CursorOK, Working, InSend, settleSend, SettleFault
  <2>2. rec'[o] = rec[o] \/ \E u : rec'[o] = SettleRecord(rec[o], u)
    BY <1>2, <1>16, <2>1 DEF settleSend, SettleFault
  <2> QED BY <2>2 DEF Rewritten
<1>17. CASE Restart
  <2>1. PICK B : rec' = [q \in QueueIds |-> [rec[q] EXCEPT !.bad = q \in B, !.own = FALSE]]
    BY <1>17, Zenon DEF Restart
  <2>2. rec'[o] = Reread(rec[o], o \in B)
    BY <2>1, Zenon DEF Reread
  <2> QED BY <2>2, Zenon DEF Rewritten
<1>18. CASE World \/ Tick
  BY <1>1, <1>3, <1>18, WorldWire, ZenonT(30)
<1>19. CASE \/ runQueuedCycle \/ EndCycle \/ ExecuteFault \/ placeOrder \/ brokerWireGuard \/ submitBoundConfiguredOrder
            \/ appendOrderSendOutcome \/ AppendFault \/ HousekeepingFails
  BY <1>3, <1>19 DEF runQueuedCycle, EndCycle, ExecuteFault, placeOrder, brokerWireGuard, submitBoundConfiguredOrder,
                     appendOrderSendOutcome, AppendFault, HousekeepingFails, Keep
<1> QED BY <1>8, <1>9, <1>11, <1>12, <1>13, <1>14, <1>15, <1>16, <1>17, <1>18, <1>19, Zenon DEF Next, Executor, Faults

-----------------------------------------------------------------------------
(***************************************************************************)
(* One claim per line.                                                     *)
(***************************************************************************)
ClaimKept(r, s) == Claims(s) => Claims(r) /\ s.line = r.line

\* No step but an arm makes a claim.
LEMMA ClaimsKept ==
    ASSUME IInv, Next, NEW o \in QueueIds, ~QueueArm(o) PROVE ClaimKept(rec[o], rec'[o])
<1> DEFINE r == rec[o]
           s == rec'[o]
<1>1. TypeOK /\ CursorOK /\ r \in Record
  BY InvParts, Zenon DEF TypeOK
<1>2. CASE StageStep
  <2>1. cur \in QueueIds /\ rec \in [QueueIds -> Record]
    BY <1>1, <1>2 DEF CursorOK, Working, StageStep, TypeOK
  <2>2. s = r \/ (waiting(r) /\ s.line = r.line)
    BY <1>2, <2>1 DEF StageStep, Record
  <2> QED BY <2>2 DEF ClaimKept, Claims, liveIntent
<1>3. CASE ~StageStep
  <2>1. Rewritten(r, s, FALSE)
    BY <1>3, RecordRewritten, Zenon DEF Rewritten
  <2> SUFFICES ClaimKept(r, s)
    OBVIOUS
  <2> HIDE DEF r, s
  <2>2. CASE s = r
    BY <2>2 DEF ClaimKept
  <2>3. CASE \E k, l, n, p, t : s = Prepared(r, k, l, n, p, t)
    <3>1. s.state = "prepared"
      BY <1>1, <2>3 DEF Prepared, Record
    <3> QED BY <3>1 DEF ClaimKept, Claims, liveIntent, waiting
  <2>4. CASE waiting(r) /\ s = [r EXCEPT !.state = "held"]
    BY <1>1, <2>4 DEF ClaimKept, Claims, liveIntent, waiting, Record
  <2>5. CASE \E st \in {"cancelled", "expired"} : \E why : s = resolve(r, st, why)
    <3>1. s.state \in {"cancelled", "expired"}
      BY <1>1, <2>5 DEF resolve, Record
    <3> QED BY <3>1 DEF ClaimKept, Claims, liveIntent, waiting
  <2>6. CASE \E b : s = Reread(r, b)
    <3>1. s.state = r.state /\ s.line = r.line
      BY <1>1, <2>6 DEF Reread, Record
    <3> QED BY <3>1 DEF ClaimKept, Claims, liveIntent, waiting
  <2>7. CASE \/ \E p \in BOOLEAN : s = CancelRecord(r, p)
             \/ s = EndUnreadable(r) \/ s = EndFlat(r) \/ s = Expire(r)
             \/ r.state = "sending" /\ s = RecoverRecord(r)
             \/ Followed(r) /\ s = FollowRecord(r)
             \/ \E u : s = SettleRecord(r, u)
    <3>1. Keeps(r, s)
      BY <1>1, <2>7, RewritesKeep, Zenon
    <3> QED BY <3>1 DEF Keeps, ClaimKept
  <2> QED BY <2>1, <2>2, <2>3, <2>4, <2>5, <2>6, <2>7, Zenon DEF Rewritten
<1> QED BY <1>2, <1>3

\* No step gives a line a second claim: only the update of QueueArm adds one, and it looks for others.
LEMMA OneClaimStep == ASSUME IInv, OneClaimPerLine, Next PROVE OneClaimPerLine'
<1>1. rec \in [QueueIds -> Record]
  BY DEF IInv, TypeOK
<1>2. CASE \A q \in QueueIds : ~QueueArm(q)
  <2>1. \A o \in QueueIds : ClaimKept(rec[o], rec'[o])
    BY <1>2, ClaimsKept
  <2>2. ASSUME NEW q \in QueueIds, NEW o \in QueueIds, Claims(rec'[q]), Claims(rec'[o]), rec'[q].line = rec'[o].line
        PROVE  q = o
    BY <2>1, <2>2 DEF ClaimKept, OneClaimPerLine
  <2> QED BY <2>2 DEF OneClaimPerLine, Claims, liveIntent, waiting
<1>3. ASSUME NEW q \in QueueIds, QueueArm(q) PROVE OneClaimPerLine'
  <2>1. CASE rec' = rec
    BY <2>1 DEF OneClaimPerLine, Claims, liveIntent, waiting
  <2>2. CASE rec' # rec
    <3>1. LineFree(q, rec[q].line) /\ rec' = [rec EXCEPT ![q].state = "armed"]
      BY <1>3, <2>2 DEF QueueArm
    <3>2. rec'[q].line = rec[q].line /\ \A o \in QueueIds \ {q} : rec'[o] = rec[o]
      BY <1>1, <3>1 DEF Record
    <3>3. \A o \in QueueIds \ {q} : Claims(rec[o]) => rec[o].line # rec[q].line
      BY <3>1 DEF LineFree
    <3>4. ASSUME NEW p \in QueueIds, NEW o \in QueueIds, Claims(rec'[p]), Claims(rec'[o]), rec'[p].line = rec'[o].line
          PROVE  p = o
      BY <3>2, <3>3, <3>4 DEF OneClaimPerLine
    <3> QED BY <3>4 DEF OneClaimPerLine, Claims, liveIntent, waiting
  <2> QED BY <2>1, <2>2
<1> QED BY <1>2, <1>3

\* At most one authorised intent or working order per account, contract and
\* side, however many arms race each other (QueuePrepare, QueueArm).
THEOREM LinesClaimedOnce == Spec => []OneClaimPerLine
<1>1. Init => OneClaimPerLine
  <2>1. Init => \A q \in QueueIds : rec[q].state = "none"
    <3>1. NoRecord.state = "none"
      BY DEF NoRecord
    <3> QED BY <3>1 DEF Init
  <2> QED BY <2>1 DEF OneClaimPerLine, Claims, liveIntent, waiting
<1>2. IInv /\ OneClaimPerLine /\ [Next]_vars => OneClaimPerLine'
  <2>1. ASSUME OneClaimPerLine, UNCHANGED vars PROVE OneClaimPerLine'
    BY <2>1 DEF OneClaimPerLine, vars, Claims, liveIntent, waiting
  <2> QED BY <2>1, OneClaimStep
<1> QED BY <1>1, <1>2, Invariant, PTL DEF Spec

-----------------------------------------------------------------------------
(***************************************************************************)
(* Authority removed is not given back.                                    *)
(***************************************************************************)
Settled(r, s) ==
    /\ final(r) => s.state = r.state
    /\ final(r) \/ r.cancel \/ r.ended => s.attempt = r.attempt /\ s.state \notin {"armed", "prepared"}

\* An honest rewrite keeps a cancelled, ended or final record where it is.
LEMMA HonestSettled == ASSUME NEW r, NEW s, Honest(r, s) PROVE Settled(r, s)
BY DEF Honest, Settled, final, FinalStates

\* Every step of every actor leaves a cancelled, ended or final record settled.
LEMMA SettledStep == ASSUME IInv, Next, NEW q \in QueueIds PROVE Settled(rec[q], rec'[q])
<1>1. TypeOK /\ CursorOK /\ RecordsOK /\ AttemptsOK
  BY InvParts
<1>2. rec[q] \in Record /\ RecordOK(rec[q])
  BY <1>1 DEF TypeOK, RecordsOK
<1>3. CASE rec' = rec
  BY <1>2, <1>3, RewritesHonest, HonestSettled, Zenon
<1>4. CASE StageStep
  <2>1. cur \in QueueIds /\ waiting(rec[cur]) /\ rec[cur].attempt = NoAttempt /\ RecordOK(rec[cur])
        /\ rec \in [QueueIds -> Record]
    BY <1>1, <1>4 DEF StageStep, CursorOK, Working, InSend, RecordsOK, TypeOK
  <2>2. ~final(rec[cur]) /\ ~rec[cur].cancel /\ ~rec[cur].ended
    BY <2>1 DEF RecordOK, waiting, final, FinalStates
  <2>3. q # cur => rec'[q] = rec[q]
    BY <1>4, <2>1 DEF StageStep
  <2>4. q # cur => Settled(rec[q], rec'[q])
    BY <1>2, <2>3, RewritesHonest, HonestSettled, Zenon
  <2> QED BY <2>2, <2>4, Zenon DEF Settled
<1>5. CASE Owner
  BY <1>1, <1>5, OwnerHonest, HonestSettled
<1>6. CASE endUnreadableQueued \/ recoverQueuedAfterRestart \/ endFlatProtectionQueues \/ expireQueued \/ followQueuedSent
  BY <1>1, <1>6, HousekeepingHonest, HonestSettled
<1>7. CASE \/ \E o \in QueueIds : executeQueued(o)
           \/ sendQueued \/ (\E a \in Attempts : previewOrder(a)) \/ beforePlace \/ RefusalFault
  BY <1>4, <1>7, SendHonest, HonestSettled
<1>8. CASE settleSend \/ SettleFault
  BY <1>8, SettleStepHonest, HonestSettled
<1>9. CASE Restart
  <2>1. PICK B : rec' = [o \in QueueIds |-> [rec[o] EXCEPT !.bad = o \in B, !.own = FALSE]]
    BY <1>9, Zenon DEF Restart
  <2>2. \A b : Honest(rec[q], [rec[q] EXCEPT !.bad = b, !.own = FALSE])
    BY <1>2, RewritesHonest, Zenon
  <2>3. Honest(rec[q], rec'[q])
    BY <2>1, <2>2, Zenon
  <2> QED BY <2>3, HonestSettled
<1>10. CASE World \/ Tick
  BY <1>1, <1>3, <1>10, WorldWire, Zenon
<1>11. CASE \/ runQueuedCycle \/ EndCycle \/ ExecuteFault \/ placeOrder \/ brokerWireGuard \/ submitBoundConfiguredOrder
            \/ appendOrderSendOutcome \/ AppendFault \/ HousekeepingFails
  BY <1>3, <1>11 DEF runQueuedCycle, EndCycle, ExecuteFault, placeOrder, brokerWireGuard, submitBoundConfiguredOrder,
                     appendOrderSendOutcome, AppendFault, HousekeepingFails, Keep
<1> QED BY <1>5, <1>6, <1>7, <1>8, <1>9, <1>10, <1>11, Zenon DEF Next, Executor, Faults

\* A cancel removes authority for good: no final record leaves its state, and
\* no cancelled, ended or final one stages another attempt or is armed again
\* (QueueCancel, endFlatProtectionQueues, recoverQueuedAfterRestart).
THEOREM CancelsAreForGood == Spec => CancelIsForGood
<1>1. IInv /\ [Next]_vars =>
        [\A q \in QueueIds :
            /\ final(rec[q]) => rec'[q].state = rec[q].state
            /\ final(rec[q]) \/ rec[q].cancel \/ rec[q].ended
                 => rec'[q].attempt = rec[q].attempt /\ rec'[q].state \notin {"armed", "prepared"}]_vars
  <2>1. IInv /\ Next => \A q \in QueueIds : Settled(rec[q], rec'[q])
    BY SettledStep
  <2> QED BY <2>1 DEF Settled
<1> QED BY <1>1, Invariant, PTL DEF Spec, CancelIsForGood

-----------------------------------------------------------------------------
(***************************************************************************)
(* A frame is written only as signed.                                      *)
(***************************************************************************)
\* Only the world, a staging and the steps of placing an order move the orders or the journal.
LEMMA WireLeftAlone ==
    ASSUME Next, ~StageStep, ~(World \/ Tick), ~(placeOrder \/ submitBoundConfiguredOrder \/ appendOrderSendOutcome)
    PROVE  UNCHANGED <<journal, order>>
<1>1. CASE Owner
  BY <1>1, Zenon DEF Owner, QueuePrepare, QueueArmCheck, QueueArm, expireUnarmed, QueueCancel
<1>2. CASE beforePlace
  BY <1>2, Zenon DEF beforePlace, StageStep, Refuse
<1>3. CASE endUnreadableQueued \/ recoverQueuedAfterRestart \/ endFlatProtectionQueues \/ expireQueued \/ followQueuedSent
           \/ runQueuedCycle \/ EndCycle \/ ExecuteFault \/ HousekeepingFails
  BY <1>3 DEF endUnreadableQueued, recoverQueuedAfterRestart, endFlatProtectionQueues, expireQueued,
       followQueuedSent, runQueuedCycle, EndCycle, ExecuteFault, HousekeepingFails, HousekeepingKeeps
<1>4. CASE \/ \E q \in QueueIds : executeQueued(q)
           \/ sendQueued \/ (\E b \in Attempts : previewOrder(b)) \/ RefusalFault
  BY <1>4 DEF executeQueued, sendQueued, previewOrder, RefusalFault, Refuse
<1>5. CASE brokerWireGuard \/ AppendFault \/ settleSend \/ SettleFault
  BY <1>5 DEF brokerWireGuard, AppendFault, settleSend, SettleFault
<1>6. CASE Restart
  BY <1>6, Zenon DEF Restart
<1> QED BY <1>1, <1>2, <1>3, <1>4, <1>5, <1>6, Zenon DEF Next, Executor, Faults

\* Only submitBoundConfiguredOrder writes a frame.
LEMMA FramesKept ==
    ASSUME IInv, Next, ~submitBoundConfiguredOrder, NEW a \in Attempts PROVE Framed(a)' <=> Framed(a)
<1>1. TypeOK /\ CursorOK
  BY InvParts
<1>2. CASE UNCHANGED order
  BY <1>2 DEF Framed
<1>3. CASE World \/ Tick
  BY <1>1, <1>3, WorldWire DEF WireKeeps
<1>4. CASE StageStep
  <2>1. att \in Attempts
    BY <1>1, <1>4 DEF CursorOK, StageStep
  <2>2. order'[a].wire = order[a].wire
    BY <1>1, <1>4, <2>1, Zenon DEF TypeOK, StageStep
  <2> QED BY <2>2 DEF Framed
<1>5. CASE placeOrder \/ appendOrderSendOutcome
  BY <1>2, <1>5 DEF placeOrder, appendOrderSendOutcome
<1> QED BY <1>2, <1>3, <1>4, <1>5, WireLeftAlone, Zenon

\* A staging takes an attempt nobody has and nothing was written for.
LEMMA StagingFresh ==
    ASSUME IInv, StageStep
    PROVE  /\ cur \in QueueIds /\ att \in Attempts /\ ~Framed(att)
           /\ \A q \in QueueIds : rec[q].attempt # att
           /\ \A a \in Attempts \ {att} : order'[a] = order[a]
<1>1. TypeOK /\ CursorOK /\ RecordsOK /\ AttemptsOK /\ pc = "staging"
  BY InvParts DEF StageStep
<1>2. cur \in QueueIds /\ att \in Attempts /\ order[att].by = NoQueue
  BY <1>1, Zenon DEF CursorOK, Working
<1>3. ~Framed(att)
  BY <1>1, <1>2 DEF AttemptsOK, AttemptOK
<1>4. ASSUME NEW q \in QueueIds PROVE rec[q].attempt # att
  BY <1>1, <1>2, QueueAssumption DEF RecordsOK, QueueAssumption
<1>5. \A a \in Attempts \ {att} : order'[a] = order[a]
  BY <1>1, <1>2 DEF StageStep, TypeOK
<1> QED BY <1>2, <1>3, <1>4, <1>5

\* The step that writes a frame (submitBoundConfiguredOrder) finds everything the wire guard promises.
LEMMA FrameIsSigned ==
    ASSUME IInv, Next, NEW a \in Attempts, ~Framed(a), Framed(a)' PROVE SignedFrame(a)
<1>1. submitBoundConfiguredOrder
  BY FramesKept
<1>2. TypeOK /\ CursorOK /\ pc = "guarded" /\ pc \in InSend
  BY <1>1, InvParts DEF submitBoundConfiguredOrder, InSend
<1>3. /\ cur \in QueueIds /\ att \in Attempts /\ rec[cur].state = "sending" /\ rec[cur].attempt = att /\ ~rec[cur].bad
      /\ account = AccountOf[rec[cur].line] /\ order[att].qty = bind.qty /\ order[att].by = cur
      /\ QuantityOK(rec[cur]) /\ BoundOK(rec[cur])
  BY <1>2, Placing
<1>4. a = att /\ ControlsCurrent /\ position[rec[cur].line] = bind.pos
  BY <1>1, <1>2, <1>3, Zenon DEF submitBoundConfiguredOrder, Framed, TypeOK
<1>5. journal[att] = <<LocalEvent("attempted")>>
  BY <1>2 DEF CursorOK
<1>6. Has(journal[att], "attempted") /\ ~Has(journal[att], "unsent")
  BY <1>5, LocalTypes DEF Has
<1>7. rec[cur].kind \in {"rule", "exact", "stop"}
  BY <1>2, <1>3 DEF TypeOK, Record
<1> QED BY <1>3, <1>4, <1>6, <1>7, Zenon DEF SignedFrame, ControlsCurrent, QuantityOK, BoundOK

\* A frame leaves only for a staged intent that names this attempt, journalled
\* before, unfrozen, in the signed account and the signed quantity, whatever
\* changed between the owner's signature and the bytes (brokerWireGuard,
\* submitBoundConfiguredOrder).
THEOREM FramesAreSigned == Spec => WireAsSigned
<1>1. IInv /\ [Next]_vars => [\A a \in Attempts : ~Framed(a) /\ Framed(a)' => SignedFrame(a)]_vars
  BY FrameIsSigned
<1> QED BY <1>1, Invariant, PTL DEF Spec, WireAsSigned

-----------------------------------------------------------------------------
(***************************************************************************)
(* One record: how a rewrite moves its authority.                          *)
(***************************************************************************)
Advances(r, s) ==
    LET f == AuthorityOf(r)
        t == AuthorityOf(s)
    IN  /\ t \in {"none", "asked", "given", "withdrawn", "over"}
        /\ \/ t = f \/ (f = "none" /\ t = "asked") \/ (f = "asked" /\ t = "given")
           \/ (f \in {"asked", "given", "withdrawn"} /\ t = "over")
           \/ (f = "given" /\ t = "withdrawn" /\ r.attempt # NoAttempt)
        /\ s.attempt # r.attempt => f = "given" /\ t = "given" /\ s.attempt = NoAttempt

USE DEF AuthorityOf, Claims, liveIntent, waiting, final, ownerQueueProtection

\* A record left alone advances nowhere.
LEMMA SameAdvances == ASSUME NEW r \in Record PROVE Advances(r, r)
BY Zenon DEF Advances, Record, States, FinalStates

\* Preparing asks, arming gives, holding and ending keep or end.
LEMMA OwnerAdvances ==
    ASSUME NEW r \in Record
    PROVE  /\ \A k, l, n, p, t : r.state = "none" => Advances(r, Prepared(r, k, l, n, p, t))
           /\ r.state = "prepared" /\ ~r.cancel /\ ~r.ended => Advances(r, [r EXCEPT !.state = "armed"])
           /\ r.state \in {"armed", "held"} => Advances(r, [r EXCEPT !.state = "held"])
           /\ \A st \in FinalStates : \A why : ~final(r) /\ r.state # "none" => Advances(r, resolve(r, st, why))
BY DEF Advances, Record, States, FinalStates, resolve, Prepared

\* Ending an unreadable record advances it.
LEMMA EndUnreadableAdvances == ASSUME NEW r \in Record PROVE Advances(r, EndUnreadable(r))
<1>1. CASE EndUnreadable(r) = r
  BY <1>1, SameAdvances
<1>2. CASE EndUnreadable(r) # r
  <2>1. PICK st \in FinalStates : EndUnreadable(r) = [resolve(r, st, "record_unreadable") EXCEPT !.bad = FALSE]
    BY <1>2, Zenon DEF EndUnreadable, FinalStates
  <2>2. ~final(r) /\ r.state # "none"
    BY <1>2, ZenonT(30) DEF EndUnreadable
  <2> QED BY <2>1, <2>2 DEF Advances, Record, States, final, FinalStates, resolve
<1> QED BY <1>1, <1>2

\* A flat position withdraws the authority of an order under way and ends the rest.
LEMMA EndFlatAdvances == ASSUME NEW r \in Record, RecordOK(r) PROVE Advances(r, EndFlat(r))
<1>1. r.state \in {"sending", "sent"} => r.attempt # NoAttempt
  BY DEF RecordOK
<1> QED BY <1>1 DEF Advances, Record, States, FinalStates, resolve, EndFlat

\* Expiring a record advances it.
LEMMA ExpireAdvances == ASSUME NEW r \in Record PROVE Advances(r, Expire(r))
BY DEF Advances, Record, States, FinalStates, resolve, Expire

\* A cancel withdraws the authority of an order under way and ends the rest.
LEMMA CancelAdvances ==
    ASSUME NEW r \in Record, RecordOK(r), NEW p \in BOOLEAN PROVE Advances(r, CancelRecord(r, p))
<1>1. r.state \in {"sending", "sent"} => r.attempt # NoAttempt
  BY DEF RecordOK
<1>2. CASE CancelRecord(r, p) = r
  BY <1>2, SameAdvances
<1>3. CASE /\ r.state \in {"sending", "sent", "held"} /\ r.attempt # NoAttempt
           /\ CancelRecord(r, p) \in {[r EXCEPT !.cancel = TRUE, !.ended = TRUE], [r EXCEPT !.cancel = TRUE]}
  BY <1>3, Zenon DEF Advances, Record, FinalStates
<1>4. CASE r.state \in {"prepared", "armed", "held"} /\ CancelRecord(r, p) = resolve(r, "cancelled", "owner_cancelled")
  BY <1>4 DEF Advances, Record, FinalStates, resolve
<1> QED BY <1>1, <1>2, <1>3, <1>4 DEF CancelRecord

\* Recovery gives back only authority that was never withdrawn.
LEMMA RecoverAdvances ==
    ASSUME NEW r \in Record, RecordOK(r), r.state = "sending" PROVE Advances(r, RecoverRecord(r))
<1> DEFINE o == queuedJournalSendOutcome(journal[r.attempt], r.kind)
<1> HIDE DEF o
<1> QED BY ZenonT(30) DEF o, Advances, Record, States, FinalStates, resolve, RecoverRecord, ClearAttempt, RecordOK

\* So does the answer of a send.
LEMMA SettleAdvances ==
    ASSUME NEW r \in Record, RecordOK(r), NEW o PROVE Advances(r, SettleRecord(r, o))
BY DEF Advances, Record, States, FinalStates, resolve, SettleRecord, ClearAttempt, RecordOK

\* Following an order by its view keeps or ends the authority.
LEMMA FollowAdvances ==
    ASSUME NEW r \in Record, Followed(r) PROVE Advances(r, FollowRecord(r))
<1> DEFINE s == LifecycleStatus(journal[r.attempt], r.kind \in DayKinds /\ DayEnd <= now)
           n == ViewFilled(journal[r.attempt])
           t == [r EXCEPT !.accepted = TRUE, !.state = "sent"]
<1> HIDE DEF s, n
<1>1. \/ FollowRecord(r) = [r EXCEPT !.state = "held"]
      \/ FollowRecord(r) \in {r, t}
      \/ \E st \in FinalStates : \E why : FollowRecord(r) \in {resolve(r, st, why), resolve(t, st, why)}
  <2>1. {"filled", "failed", "partially_filled", "expired_unfilled"} \subseteq FinalStates
    BY DEF FinalStates
  <2>2. \A u : \/ queuedOrderResolution(u, s, n) = u
               \/ \E st \in FinalStates : \E why : queuedOrderResolution(u, s, n) = resolve(u, st, why)
    BY <2>1, Zenon DEF queuedOrderResolution
  <2>3. FollowRecord(r) \in {[r EXCEPT !.state = "held"], queuedOrderResolution(t, s, n), queuedOrderResolution(r, s, n)}
    BY DEF FollowRecord, s, n
  <2> HIDE DEF t
  <2>4. CASE FollowRecord(r) = [r EXCEPT !.state = "held"]
    BY <2>4
  <2>5. CASE FollowRecord(r) = queuedOrderResolution(r, s, n)
    <3>1. FollowRecord(r) = r \/ \E st \in FinalStates : \E why : FollowRecord(r) = resolve(r, st, why)
      BY <2>2, <2>5, Zenon
    <3> QED BY <3>1
  <2>6. CASE FollowRecord(r) = queuedOrderResolution(t, s, n)
    <3>1. FollowRecord(r) = t \/ \E st \in FinalStates : \E why : FollowRecord(r) = resolve(t, st, why)
      BY <2>2, <2>6, Zenon
    <3> QED BY <3>1
  <2> QED BY <2>3, <2>4, <2>5, <2>6
<1>2. Advances(r, [r EXCEPT !.state = "held"]) /\ Advances(r, r) /\ Advances(r, t)
  BY DEF Advances, Record, States, FinalStates, Followed
<1>3. ASSUME NEW st \in FinalStates, NEW why PROVE Advances(r, resolve(r, st, why)) /\ Advances(r, resolve(t, st, why))
  BY DEF Advances, Record, States, FinalStates, resolve, Followed
<1> HIDE DEF t
<1> QED BY <1>1, <1>2, <1>3

\* A restart changes only what the new process can read.
LEMMA RestartAdvances ==
    ASSUME NEW r \in Record, NEW b PROVE Advances(r, Reread(r, b))
BY DEF Reread, Advances, Record, States, FinalStates

HIDE DEF AuthorityOf, Claims, liveIntent, waiting, final, ownerQueueProtection

(***************************************************************************)
(* Every step of every actor: each record advances, or an attempt is       *)
(* staged for it.                                                          *)
(***************************************************************************)
\* Every step but a staging advances every record, whichever operation rewrites it.
LEMMA AdvancesStep ==
    ASSUME IInv, Next, ~StageStep, NEW o \in QueueIds PROVE Advances(rec[o], rec'[o])
<1> DEFINE r == rec[o]
           s == rec'[o]
<1>1. r \in Record /\ RecordOK(r)
  BY InvParts DEF TypeOK, RecordsOK
<1>2. Rewritten(r, s, TRUE)
  BY RecordRewritten DEF Rewritten
<1> SUFFICES Advances(r, s)
  OBVIOUS
<1> HIDE DEF r, s
<1>3. CASE s = r
  BY <1>1, <1>3, SameAdvances
<1>4. CASE r.state = "none" /\ \E k, l, n, p, t : s = Prepared(r, k, l, n, p, t)
  <2>1. PICK k, l, n, p, t : s = Prepared(r, k, l, n, p, t)
    BY <1>4
  <2> QED BY <1>1, <1>4, <2>1, OwnerAdvances, Zenon
<1>5. CASE r.state = "prepared" /\ s = [r EXCEPT !.state = "armed"]
  <2>1. ~r.cancel /\ ~r.ended
    BY <1>1, <1>5 DEF RecordOK, final, FinalStates
  <2> QED BY <1>1, <1>5, <2>1, OwnerAdvances, Zenon
<1>6. CASE waiting(r) /\ s = [r EXCEPT !.state = "held"]
  BY <1>1, <1>6, OwnerAdvances, Zenon DEF waiting
<1>7. CASE (r.state = "prepared" \/ waiting(r)) /\ \E st \in {"cancelled", "expired"} : \E why : s = resolve(r, st, why)
  <2>1. {"cancelled", "expired"} \subseteq FinalStates /\ ~final(r) /\ r.state # "none"
    BY <1>7 DEF FinalStates, final, waiting
  <2> QED BY <1>1, <1>7, <2>1, OwnerAdvances, Zenon
<1>8. CASE (\E p \in BOOLEAN : s = CancelRecord(r, p)) \/ s = EndUnreadable(r) \/ s = EndFlat(r) \/ s = Expire(r)
  BY <1>1, <1>8, CancelAdvances, EndUnreadableAdvances, EndFlatAdvances, ExpireAdvances, Zenon
<1>9. CASE (r.state = "sending" /\ s = RecoverRecord(r)) \/ (Followed(r) /\ s = FollowRecord(r))
  BY <1>1, <1>9, RecoverAdvances, FollowAdvances, Zenon
<1>10. CASE (\E u : s = SettleRecord(r, u)) \/ \E b : s = Reread(r, b)
  BY <1>1, <1>10, SettleAdvances, RestartAdvances
<1> QED BY <1>2, <1>3, <1>4, <1>5, <1>6, <1>7, <1>8, <1>9, <1>10, Zenon DEF Rewritten

(***************************************************************************)
(* What was written, and for whom.                                         *)
(***************************************************************************)
\* An attempt belongs to its record for good: only a staging assigns one.
LEMMA OwnerKept ==
    ASSUME IInv, Next, ~StageStep, NEW a \in Attempts PROVE order'[a].by = order[a].by
<1>1. TypeOK
  BY InvParts
<1>2. CASE UNCHANGED order
  BY <1>2
<1>3. CASE World \/ Tick
  BY <1>1, <1>3, WorldWire DEF WireKeeps
<1>4. CASE submitBoundConfiguredOrder
  <2>1. att \in Attempts
    BY <1>4, Placing DEF InSend, submitBoundConfiguredOrder
  <2>2. CASE order' = [order EXCEPT ![att].wire = "flying"]
    <3>1. order'[att].by = order[att].by /\ \A b \in Attempts \ {att} : order'[b] = order[b]
      BY <1>1, <2>1, <2>2, Zenon DEF TypeOK
    <3> QED BY <3>1
  <2> QED BY <1>2, <1>4, <2>2 DEF submitBoundConfiguredOrder
<1>5. CASE placeOrder \/ appendOrderSendOutcome
  BY <1>2, <1>5 DEF placeOrder, appendOrderSendOutcome
<1> QED BY <1>2, <1>3, <1>4, <1>5, WireLeftAlone

Written(q) == {a \in Attempts : Framed(a) /\ order[a].by = q}

\* Only submitBoundConfiguredOrder changes what was written for a record.
LEMMA WrittenKept ==
    ASSUME IInv, Next, ~submitBoundConfiguredOrder, NEW q \in QueueIds PROVE Written(q)' = Written(q)
<1>1. \A a \in Attempts : Framed(a)' <=> Framed(a)
  BY FramesKept
<1>2. CASE ~StageStep
  BY <1>1, <1>2, OwnerKept DEF Written
<1>3. CASE StageStep
  BY <1>1, <1>3, StagingFresh DEF Written
<1> QED BY <1>2, <1>3

\* A frame is the first of its record, and the one its record names.
LEMMA WrittenOnce ==
    ASSUME IInv, submitBoundConfiguredOrder, NEW q \in QueueIds
    PROVE  \/ Written(q)' = Written(q)
           \/ q = cur /\ Written(q) = {} /\ Written(q)' = {rec[cur].attempt}
<1>1. TypeOK /\ CursorOK /\ AttemptsOK /\ pc = "guarded" /\ pc \in InSend
  BY InvParts DEF submitBoundConfiguredOrder, InSend
<1>2. /\ cur \in QueueIds /\ att \in Attempts /\ rec[cur].attempt = att /\ order[att].by = cur
  BY <1>1, Placing, Zenon
<1>3. ~Framed(att)
  BY <1>1 DEF CursorOK
<1>4. CASE order' = order
  BY <1>4 DEF Written, Framed
<1>5. CASE order' = [order EXCEPT ![att].wire = "flying"]
  <2>1. /\ order'[att].wire = "flying" /\ order'[att].by = order[att].by
        /\ \A a \in Attempts \ {att} : order'[a] = order[a]
    BY <1>1, <1>2, <1>5, Zenon DEF TypeOK
  <2>2. CASE q # cur
    BY <1>2, <2>1, <2>2, Zenon DEF Written, Framed
  <2>3. CASE q = cur
    <3>1. Written(q) = {}
      BY <1>1, <1>2, <1>3, <2>3, Zenon DEF Written, AttemptsOK, AttemptOK
    <3>2. \A a \in Attempts \ {att} : ~(Framed(a)' /\ order'[a].by = q)
      BY <2>1, <3>1, Zenon DEF Written, Framed
    <3>3. Written(q)' = {att}
      BY <1>2, <2>1, <2>3, <3>2 DEF Written, Framed
    <3> QED BY <1>2, <2>3, <3>1, <3>3, Zenon
  <2> QED BY <2>2, <2>3
<1> QED BY <1>4, <1>5 DEF submitBoundConfiguredOrder

(***************************************************************************)
(* The refinement.                                                         *)
(***************************************************************************)
\* The mapped variables at one record.
LEMMA Mapped ==
    ASSUME NEW q \in QueueIds
    PROVE  /\ authorityBar[q] = AuthorityOf(rec[q]) /\ authorityBar'[q] = AuthorityOf(rec'[q])
           /\ commitmentBar[q] = rec[q].attempt /\ commitmentBar'[q] = rec'[q].attempt
           /\ writtenBar[q] = Written(q) /\ writtenBar'[q] = Written(q)'
BY Zenon DEF authorityBar, commitmentBar, writtenBar, Written, AuthorityOf, final, Claims, liveIntent, waiting, Framed

\* The mapped variables keep their types.
LEMMA MappedTypes ==
    TypeOK => /\ authorityBar \in [QueueIds -> Promise!Authorities]
              /\ commitmentBar \in [QueueIds -> Attempts \cup {NoAttempt}]
              /\ writtenBar \in [QueueIds -> SUBSET Attempts]
<1> HAVE TypeOK
<1>1. \A q \in QueueIds : rec[q] \in Record
  BY DEF TypeOK
<1>2. \A r \in Record : AuthorityOf(r) \in Promise!Authorities /\ r.attempt \in Attempts \cup {NoAttempt}
  BY DEF AuthorityOf, Promise!Authorities, Record, States, FinalStates, final, Claims, liveIntent, waiting
<1> QED BY <1>1, <1>2 DEF authorityBar, commitmentBar, writtenBar

\* A record that advances, with nothing written for it, moves as promised.
LEMMA AdvanceMoves ==
    ASSUME IInv, IInv', NEW q \in QueueIds, Advances(rec[q], rec'[q]), Written(q)' = Written(q)
    PROVE  Promise!Move(q)
<1>1. rec'[q].attempt = NoAttempt => Written(q)' = {}
  <2>1. AttemptsOK'
    BY InvParts, Zenon DEF IInv, AttemptsOK
  <2> QED BY <2>1, QueueAssumption DEF Written, AttemptsOK, AttemptOK, QueueAssumption, Framed
<1> DEFINE f == AuthorityOf(rec[q])
           t == AuthorityOf(rec'[q])
           c == rec[q].attempt
           d == rec'[q].attempt
<1>2. /\ authorityBar[q] = f /\ authorityBar'[q] = t /\ commitmentBar[q] = c /\ commitmentBar'[q] = d
      /\ writtenBar'[q] = writtenBar[q] /\ (d = NoAttempt => writtenBar[q] = {})
  BY <1>1, Mapped, Zenon
<1>3. /\ \/ t = f \/ (f = "none" /\ t = "asked") \/ (f = "asked" /\ t = "given")
         \/ (f \in {"asked", "given", "withdrawn"} /\ t = "over")
         \/ (f = "given" /\ t = "withdrawn" /\ c # NoAttempt)
      /\ d # c => f = "given" /\ t = "given" /\ d = NoAttempt
  BY Zenon DEF Advances
<1> HIDE DEF f, t, c, d
<1>4. CASE d # c
  <2>1. Promise!Release(q)
    BY <1>2, <1>3, <1>4, Zenon DEF Promise!Release, Promise!Moves, Promise!Same
  <2> QED BY <2>1, Zenon DEF Promise!Move
<1>5. CASE d = c
  BY <1>2, <1>3, <1>5, Zenon DEF Promise!Move, Promise!Rest, Promise!Ask, Promise!Give, Promise!Withdraw, Promise!End,
                          Promise!Moves, Promise!Same
<1> QED BY <1>4, <1>5, Zenon

\* A staging commits authority that stands to an attempt of its own.
LEMMA StagingMoves ==
    ASSUME IInv, StageStep, NEW q \in QueueIds, Written(q)' = Written(q) PROVE Promise!Move(q)
<1>1. TypeOK /\ CursorOK /\ RecordsOK /\ pc = "staging"
  BY InvParts, Zenon DEF StageStep
<1>2. /\ cur \in QueueIds /\ att \in Attempts /\ ~Framed(att)
      /\ \A o \in QueueIds : rec[o].attempt # att
  BY StagingFresh, Zenon
<1>3. rec \in [QueueIds -> Record] /\ rec[cur] \in Record /\ RecordOK(rec[cur]) /\ rec[cur].attempt = NoAttempt
  BY <1>1, <1>2, Zenon DEF TypeOK, RecordsOK, CursorOK, Working, InSend, StageStep
<1>4. CASE q # cur
  <2>1. rec'[q] = rec[q]
    BY <1>2, <1>3, <1>4 DEF StageStep
  <2> QED BY <2>1, Mapped DEF Promise!Move, Promise!Rest, Promise!Same
<1>5. CASE q = cur
  <2>1. waiting(rec[cur]) /\ ~rec[cur].cancel /\ ~rec[cur].ended
    BY <1>3, Zenon DEF StageStep, RecordOK, waiting, final, FinalStates
  <2>2. /\ rec'[cur].state = "sending" /\ rec'[cur].attempt = att
        /\ rec'[cur].cancel = rec[cur].cancel /\ rec'[cur].ended = rec[cur].ended
    BY <1>2, <1>3 DEF StageStep, Record
  <2>3. AuthorityOf(rec[cur]) = "given" /\ AuthorityOf(rec'[cur]) = "given"
    BY <2>1, <2>2, Zenon DEF AuthorityOf, waiting, final, FinalStates, Claims, liveIntent
  <2>4. \A o \in QueueIds : att \notin Written(o)
    BY <1>2 DEF Written
  <2>5. \A o \in QueueIds : commitmentBar[o] # att /\ att \notin writtenBar[o]
    BY <1>2, <2>4, Mapped, Zenon
  <2>6. Promise!Commit(q, att)
    BY <1>3, <1>5, <2>2, <2>3, <2>5, Mapped, Zenon DEF Promise!Commit, Promise!Moves, Promise!Same
  <2> QED BY <1>2, <2>6, Zenon DEF Promise!Move
<1> QED BY <1>4, <1>5, Zenon

\* A frame is the write of a commitment, by authority given and not over.
LEMMA FrameMoves ==
    ASSUME IInv, submitBoundConfiguredOrder, NEW q \in QueueIds PROVE Promise!Move(q)
<1>1. rec' = rec
  BY Zenon DEF submitBoundConfiguredOrder, Keep
<1>2. CASE Written(q)' = Written(q)
  BY <1>1, <1>2, Mapped DEF Promise!Move, Promise!Rest, Promise!Same
<1>3. CASE q = cur /\ Written(q) = {} /\ Written(q)' = {rec[cur].attempt}
  <2>1. rec[cur].state = "sending" /\ rec[cur].attempt # NoAttempt
    BY Placing DEF submitBoundConfiguredOrder, InSend
  <2>2. AuthorityOf(rec[cur]) \in {"given", "withdrawn"}
    BY <2>1 DEF AuthorityOf, waiting, final, FinalStates, Claims, liveIntent
  <2>3. Promise!Write(q)
    BY <1>1, <1>3, <2>1, <2>2, Mapped DEF Promise!Write, Promise!Same
  <2> QED BY <2>3 DEF Promise!Move
<1> QED BY <1>2, <1>3, WrittenOnce

\* Every step of the queue is a step of the promise.
LEMMA StepRefines == ASSUME IInv, IInv', Next PROVE Promise!Next
<1>1. ASSUME NEW q \in QueueIds PROVE Promise!Move(q)
  <2>1. CASE submitBoundConfiguredOrder
    BY <2>1, FrameMoves
  <2>2. CASE ~submitBoundConfiguredOrder
    <3>1. Written(q)' = Written(q)
      BY <2>2, WrittenKept
    <3>2. CASE StageStep
      BY <3>1, <3>2, StagingMoves
    <3>3. CASE ~StageStep
      BY <3>1, <3>3, AdvancesStep, AdvanceMoves, Zenon
    <3> QED BY <3>2, <3>3
  <2> QED BY <2>1, <2>2
<1>2. TypeOK'
  BY DEF IInv
<1>3. (/\ authorityBar \in [QueueIds -> Promise!Authorities]
       /\ commitmentBar \in [QueueIds -> Attempts \cup {NoAttempt}]
       /\ writtenBar \in [QueueIds -> SUBSET Attempts])'
  BY <1>2, MappedTypes, PTL
<1> QED BY <1>1, <1>3 DEF Promise!Next, Promise!Authorities

\* The queue implements the promise it makes to the owner: for any number of
\* records and attempts, and through any crash, failed write and race, every
\* step of QueuedAuthorisation is a step of SignedAuthority or leaves it alone.
THEOREM QueueKeepsPromise == Spec => KeepsPromise
<1>1. Init => Promise!Init
  <2> SUFFICES ASSUME Init PROVE Promise!Init
    OBVIOUS
  <2>1. NoRecord.state = "none" /\ NoRecord.attempt = NoAttempt
    BY DEF NoRecord
  <2>2. \A q \in QueueIds : AuthorityOf(rec[q]) = "none" /\ rec[q].attempt = NoAttempt
    <3>1. \A q \in QueueIds : rec[q] = NoRecord
      BY DEF Init
    <3> QED BY <2>1, <3>1 DEF AuthorityOf, final, FinalStates, Claims, liveIntent, waiting
  <2>3. \A q \in QueueIds : Written(q) = {}
    BY DEF Init, Written, Framed
  <2> QED BY <2>2, <2>3 DEF Promise!Init, authorityBar, commitmentBar, writtenBar, Written
<1>2. IInv /\ IInv' /\ [Next]_vars => [Promise!Next]_(Promise!vars)
  <2>1. UNCHANGED vars => UNCHANGED Promise!vars
    BY DEF vars, Promise!vars, authorityBar, commitmentBar, writtenBar, AuthorityOf, final, Claims, liveIntent,
       waiting, Framed
  <2> QED BY <2>1, StepRefines
<1> QED BY <1>1, <1>2, Invariant, PTL DEF Spec, KeepsPromise, Promise!Spec

-----------------------------------------------------------------------------
(***************************************************************************)
(* What the records say of the fills is true, through every step.          *)
(***************************************************************************)
FillInv ==
    /\ \A q \in QueueIds : rec[q].attempt # NoAttempt => FillTrue(rec[q], order[rec[q].attempt])
    /\ \A a \in Attempts : OrderTrue(order[a], journal[a])

\* A rewrite that keeps what a record says of an order, and says nothing new.
Quiet(r, s) ==
    /\ s.attempt # NoAttempt => s.attempt = r.attempt /\ s.qty = r.qty
    /\ s.state \in {"filled", "partially_filled", "expired_unfilled"} => s.state = r.state /\ s.code = r.code

\* Only following an order by its view says something new of it.
LEMMA RewrittenQuiet ==
    ASSUME NEW r \in Record, NEW s, Rewritten(r, s, TRUE)
    PROVE  Quiet(r, s) \/ (Followed(r) /\ s = FollowRecord(r))
<1>1. \A k, l, n, p, t : Quiet(r, Prepared(r, k, l, n, p, t))
  BY DEF Quiet, Prepared, Record
<1>2. Quiet(r, r) /\ Quiet(r, [r EXCEPT !.state = "armed"]) /\ Quiet(r, [r EXCEPT !.state = "held"])
  BY DEF Quiet, Record
<1>3. \A st \in {"cancelled", "expired"} : \A why : Quiet(r, resolve(r, st, why))
  BY DEF Quiet, Record, resolve
<1>4. \A p \in BOOLEAN : Quiet(r, CancelRecord(r, p))
  BY DEF Quiet, Record, CancelRecord, resolve
<1>5. Quiet(r, EndUnreadable(r)) /\ Quiet(r, EndFlat(r)) /\ Quiet(r, Expire(r))
  BY DEF Quiet, Record, EndUnreadable, EndFlat, Expire, resolve
<1>6. Quiet(r, RecoverRecord(r))
  BY DEF Quiet, Record, RecoverRecord, ClearAttempt, resolve
<1>7. \A u : Quiet(r, SettleRecord(r, u))
  BY DEF Quiet, Record, SettleRecord, ClearAttempt, resolve
<1>8. \A b : Quiet(r, Reread(r, b))
  BY Zenon DEF Quiet, Record, Reread
<1> QED BY <1>1, <1>2, <1>3, <1>4, <1>5, <1>6, <1>7, <1>8, ZenonT(30) DEF Rewritten

\* Rewriting records, with the journal and the orders as they are.
LEMMA RewriteFill ==
    ASSUME IInv, FillInv, UNCHANGED <<journal, order>>, \A q \in QueueIds : Rewritten(rec[q], rec'[q], TRUE)
    PROVE  FillInv'
<1>1. TypeOK /\ RecordsOK /\ AttemptsOK
  BY InvParts
<1>2. ASSUME NEW q \in QueueIds, rec'[q].attempt # NoAttempt PROVE FillTrue(rec'[q], order[rec'[q].attempt])
  <2> DEFINE r == rec[q]
             s == rec'[q]
  <2>1. r \in Record /\ r.attempt \in Attempts \cup {NoAttempt} /\ Rewritten(r, s, TRUE)
    BY <1>1, Zenon DEF TypeOK, Record
  <2>2. r.attempt # NoAttempt => FillTrue(r, order[r.attempt])
    BY DEF FillInv
  <2>3. CASE Followed(r) /\ s = FollowRecord(r)
    <3>1. r.attempt \in Attempts
      BY <2>1, <2>3, Zenon DEF Followed
    <3>2. JournalOK(r.attempt) /\ OrderTrue(order[r.attempt], journal[r.attempt])
      BY <1>1, <3>1, Zenon DEF AttemptsOK, AttemptOK, FillInv
    <3> HIDE DEF r
    <3>3. FillTrue(FollowRecord(r), order[r.attempt]) /\ FollowRecord(r).attempt = r.attempt
      BY <1>1, <2>1, <2>2, <2>3, <3>1, <3>2, QueueAssumption, FollowReadsTrue, Zenon DEF QueueAssumption
    <3> QED BY <2>3, <3>3, Zenon
  <2>4. CASE Quiet(r, s)
    <3>1. s.attempt = r.attempt /\ r.attempt # NoAttempt /\ s.qty = r.qty
      BY <1>2, <2>4, Zenon DEF Quiet
    <3> HIDE DEF r, s
    <3>2. FillTrue(s, order[r.attempt])
      BY <2>2, <2>4, <3>1 DEF FillTrue, Quiet
    <3> QED BY <3>1, <3>2 DEF s
  <2> QED BY <2>1, <2>3, <2>4, RewrittenQuiet, Zenon
<1> QED BY <1>2 DEF FillInv

\* How an order goes on: its fill only grows, and once it is over not even that.
Progress(o, p) ==
    /\ p.qty = o.qty /\ p.fill >= o.fill /\ p.fill <= p.qty
    /\ o.wire \in {"ended", "rejected"} => p.wire = o.wire /\ p.fill = o.fill
    /\ p.wire \notin {"working", "ended"} => p.fill = 0

\* What was true of an order stays true as it goes on.
LEMMA ProgressTrue ==
    ASSUME NEW o \in Order, NEW p \in Order, Progress(o, p)
    PROVE  /\ \A e \in Event : EventTrue(o, e) => EventTrue(p, e)
           /\ \A r : FillTrue(r, o) /\ (r.state = "sending" \/ (p.wire # "none" => o.wire # "none")) => FillTrue(r, p)
<1>1. o.fill \in Nat /\ o.qty \in Nat /\ p.fill \in Nat /\ p.qty \in Nat
  BY BoundsAssumption DEF Order, BoundsAssumption
<1>2. \A e \in Event : e.filled \in Nat
  BY DEF Event
<1>3. ASSUME NEW e \in Event, EventTrue(o, e) PROVE EventTrue(p, e)
  <2>1. e.filled \in Nat
    BY <1>2
  <2> HIDE <1>2
  <2> QED BY <1>1, <1>3, <2>1 DEF EventTrue, Progress
<1>4. ASSUME NEW r, FillTrue(r, o), r.state = "sending" \/ (p.wire # "none" => o.wire # "none") PROVE FillTrue(r, p)
  BY <1>1, <1>4 DEF FillTrue, Progress
<1> QED BY <1>3, <1>4

\* The events of a journal are events.
LEMMA EventOf == ASSUME NEW j \in Seq(Event), NEW i \in DOMAIN j PROVE j[i] \in Event
  OBVIOUS

\* Orders that go on and journals that grow by true events, the records as they
\* are.  A frame is first written for a record that is being sent.
LEMMA WireFill ==
    ASSUME TypeOK, TypeOK', FillInv, UNCHANGED rec,
           \A a \in Attempts : Progress(order[a], order'[a]),
           \A a \in Attempts : \A i \in DOMAIN journal'[a] :
              (i \in DOMAIN journal[a] /\ journal'[a][i] = journal[a][i]) \/ EventTrue(order'[a], journal'[a][i]),
           \A q \in QueueIds : rec[q].attempt # NoAttempt =>
              rec[q].state = "sending" \/ (Framed(rec[q].attempt)' => Framed(rec[q].attempt))
    PROVE  FillInv'
<1>1. ASSUME NEW a \in Attempts PROVE order[a] \in Order /\ order'[a] \in Order /\ journal[a] \in Seq(Event)
  BY Zenon DEF TypeOK, Order
<1>2. ASSUME NEW q \in QueueIds, rec'[q].attempt # NoAttempt PROVE FillTrue(rec'[q], order'[rec'[q].attempt])
  <2>1. rec[q].attempt \in Attempts /\ rec'[q] = rec[q]
    BY <1>2, Zenon DEF TypeOK, Record
  <2>2. FillTrue(rec[q], order[rec[q].attempt])
    BY <1>2, <2>1, Zenon DEF FillInv
  <2>3. rec[q].state = "sending" \/ (order'[rec[q].attempt].wire # "none" => order[rec[q].attempt].wire # "none")
    BY <1>2, <2>1, Zenon DEF Framed
  <2>4. order[rec[q].attempt] \in Order /\ order'[rec[q].attempt] \in Order
        /\ Progress(order[rec[q].attempt], order'[rec[q].attempt])
    BY <1>1, <2>1, Zenon
  <2> DEFINE r == rec[q]
             o == order[rec[q].attempt]
             p == order'[rec[q].attempt]
  <2> HIDE DEF r, o, p
  <2>5. \A x : FillTrue(x, o) /\ (x.state = "sending" \/ (p.wire # "none" => o.wire # "none")) => FillTrue(x, p)
    BY <2>4, ProgressTrue DEF o, p
  <2>6. FillTrue(r, p)
    BY <2>2, <2>3, <2>5, ZenonT(30) DEF r, o, p
  <2> QED BY <2>1, <2>6, Zenon DEF r, p
<1>3. ASSUME NEW a \in Attempts PROVE OrderTrue(order'[a], journal'[a])
  <2>1. OrderTrue(order[a], journal[a]) /\ Progress(order[a], order'[a])
    BY Zenon DEF FillInv
  <2>2. ASSUME NEW i \in DOMAIN journal'[a] PROVE EventTrue(order'[a], journal'[a][i])
    <3>1. CASE i \in DOMAIN journal[a] /\ journal'[a][i] = journal[a][i]
      <4>1. journal[a][i] \in Event
        BY <1>1, <3>1, EventOf, Zenon
      <4>2. EventTrue(order[a], journal[a][i])
        BY <2>1, <3>1, Zenon DEF OrderTrue
      <4> QED BY <1>1, <2>1, <3>1, <4>1, <4>2, ProgressTrue, Zenon
    <3> QED BY <3>1, Zenon
  <2> QED BY <2>1, <2>2 DEF OrderTrue, Progress
<1> QED BY <1>2, <1>3, Zenon DEF FillInv

\* An order left alone goes on.
LEMMA SameProgress == ASSUME FillInv, TypeOK, NEW a \in Attempts PROVE Progress(order[a], order[a])
<1>1. order[a].fill \in Nat /\ order[a].qty \in Nat
  BY BoundsAssumption, SMTT(30) DEF TypeOK, BoundsAssumption
<1> QED BY <1>1 DEF FillInv, OrderTrue, Progress

\* A true event journalled for an order.
LEMMA EventFill ==
    ASSUME TypeOK, TypeOK', FillInv, UNCHANGED <<rec, order>>, NEW a \in Attempts, NEW e \in Event,
           journal' = [journal EXCEPT ![a] = Append(@, e)], EventTrue(order[a], e)
    PROVE  FillInv'
<1>1. journal \in [Attempts -> Seq(Event)]
  BY DEF TypeOK
<1>2. ASSUME NEW b \in Attempts, NEW i \in DOMAIN journal'[b]
      PROVE  (i \in DOMAIN journal[b] /\ journal'[b][i] = journal[b][i]) \/ EventTrue(order'[b], journal'[b][i])
  <2>1. CASE b # a
    BY <1>1, <1>2, <2>1, Zenon
  <2>2. CASE b = a
    <3>1. journal[a] \in Seq(Event) /\ journal'[a] = Append(journal[a], e)
      BY <1>1
    <3>2. i \in 1..Len(journal[a]) \/ i = Len(journal[a]) + 1
      BY <1>2, <2>2, <3>1
    <3> QED BY <2>2, <3>1, <3>2
  <2> QED BY <2>1, <2>2
<1>3. \A b \in Attempts : Progress(order[b], order'[b])
  BY SameProgress
<1>4. \A q \in QueueIds : rec[q].attempt # NoAttempt => (Framed(rec[q].attempt)' => Framed(rec[q].attempt))
  BY DEF Framed
<1> QED BY <1>2, <1>3, <1>4, WireFill, Zenon

\* A local event says nothing of the fill.
LEMMA LocalTrue ==
    ASSUME NEW o \in Order, NEW t \in EventTypes \ {"error"} PROVE LocalEvent(t) \in Event /\ EventTrue(o, LocalEvent(t))
<1>1. LocalEvent(t).filled = 0 /\ LocalEvent(t).status # "Cancelled" /\ LocalEvent(t).type # "error"
  BY DEF LocalEvent
<1>2. LocalEvent(t) \in Event
  BY DEF LocalEvent, Event, BrokerStatuses
<1>3. o.fill \in Nat
  BY BoundsAssumption DEF Order, BoundsAssumption
<1> QED BY <1>1, <1>2, <1>3 DEF EventTrue

\* What the broker reports of an order is so.
LEMMA ReportTrue ==
    ASSUME TypeOK, NEW a \in Attempts, OrderTrue(order[a], journal[a]), order[a].wire \in {"working", "ended", "rejected"}
    PROVE  BrokerReport(a) \in Event /\ EventTrue(order[a], BrokerReport(a))
<1>1. order[a] \in Order /\ order[a].fill \in Nat /\ order[a].qty \in Nat
  BY BoundsAssumption DEF TypeOK, Order, BoundsAssumption
<1>2. CASE order[a].wire = "rejected"
  <2>1. BrokerReport(a) = LocalEvent("error")
    BY <1>2 DEF BrokerReport
  <2>2. LocalEvent("error") \in Event /\ LocalEvent("error").filled = 0 /\ LocalEvent("error").status # "Cancelled"
    BY Zenon DEF LocalEvent, Event, EventTypes, BrokerStatuses
  <2> QED BY <1>1, <1>2, <2>1, <2>2 DEF EventTrue
<1>3. ASSUME NEW st \in {"Submitted", "Filled", "Cancelled"}, BrokerReport(a) = BrokerEvent("status", st, order[a].fill),
             st = "Cancelled" => order[a].wire = "ended" /\ order[a].fill # order[a].qty
      PROVE  BrokerReport(a) \in Event /\ EventTrue(order[a], BrokerReport(a))
  <2> DEFINE e == BrokerEvent("status", st, order[a].fill)
  <2>1. e \in Event /\ e.filled = order[a].fill /\ e.status = st /\ e.type = "status"
    BY <1>1, Zenon DEF BrokerEvent, Event, EventTypes, BrokerStatuses
  <2> HIDE DEF e
  <2>2. EventTrue(order[a], e)
    BY <1>1, <1>3, <2>1, SMTT(30) DEF EventTrue
  <2> QED BY <1>3, <2>1, <2>2 DEF e
<1>4. CASE order[a].wire = "working"
  <2>1. BrokerReport(a) = BrokerEvent("status", "Submitted", order[a].fill)
    BY <1>4, Zenon DEF BrokerReport
  <2> QED BY <1>3, <2>1
<1>5. CASE order[a].wire = "ended"
  <2>1. BrokerReport(a) = BrokerEvent("status", IF order[a].fill = order[a].qty THEN "Filled" ELSE "Cancelled", order[a].fill)
    BY <1>5 DEF BrokerReport
  <2> QED BY <1>3, <1>5, <2>1
<1> QED BY <1>2, <1>4, <1>5, Zenon

\* The broker, its callbacks, the reconciler and the rest of the world.
LEMMA WorldFill == ASSUME IInv, TypeOK', FillInv, World \/ Tick PROVE FillInv'
<1>1. TypeOK /\ UNCHANGED rec /\ \A a \in Attempts : order[a] \in Order /\ OrderTrue(order[a], journal[a])
  BY InvParts, WorldWire, Zenon DEF TypeOK, Order, FillInv
<1>2. CASE UNCHANGED <<journal, order>>
  BY <1>1, <1>2, Zenon DEF FillInv
<1>3. ASSUME NEW a \in Attempts, Progress(order[a], order'[a]), UNCHANGED journal, Framed(a),
             \A b \in Attempts \ {a} : order'[b] = order[b]
      PROVE  FillInv'
  <2>1. \A b \in Attempts : Progress(order[b], order'[b])
    BY <1>1, <1>3, SameProgress, Zenon
  <2>2. \A q \in QueueIds : rec[q].attempt # NoAttempt => (Framed(rec[q].attempt)' => Framed(rec[q].attempt))
    <3> SUFFICES ASSUME NEW q \in QueueIds, rec[q].attempt # NoAttempt, Framed(rec[q].attempt)'
                 PROVE  Framed(rec[q].attempt)
      BY Zenon
    <3>1. rec[q].attempt \in Attempts
      BY <1>1, Zenon DEF TypeOK, Record
    <3> QED BY <1>1, <1>3, <3>1 DEF Framed
  <2>3. \A b \in Attempts : \A i \in DOMAIN journal'[b] : i \in DOMAIN journal[b] /\ journal'[b][i] = journal[b][i]
    BY <1>3, Zenon
  <2> QED BY <1>1, <2>1, <2>2, <2>3, WireFill, Zenon
<1>4. ASSUME NEW a \in Attempts, BrokerReceive(a) \/ BrokerFill(a) \/ BrokerCancel(a) PROVE FillInv'
  <2> DEFINE o == order[a]
             p == order'[a]
  <2>1. o.fill \in Nat /\ o.qty \in Nat /\ o.fill <= o.qty /\ (o.wire \notin {"working", "ended"} => o.fill = 0)
    BY <1>1, BoundsAssumption DEF Order, BoundsAssumption, OrderTrue
  <2>2. /\ order \in [Attempts -> Order] /\ UNCHANGED journal /\ Framed(a) /\ o.wire \in {"flying", "working"}
        /\ \A b \in Attempts \ {a} : order'[b] = order[b]
    BY <1>1, <1>4, Zenon DEF TypeOK, Order, BrokerReceive, BrokerFill, BrokerCancel, Broker, Framed
  <2>3. /\ p.qty = o.qty
        /\ \/ p.fill = o.fill /\ (o.wire = "flying" \/ p.wire \in {"working", "ended"})
           \/ o.fill < o.qty /\ p.fill = o.fill + 1 /\ p.wire \in {"working", "ended"}
    BY <1>1, <1>4, <2>2, SMTT(30) DEF Order, BrokerReceive, BrokerFill, BrokerCancel, Broker
  <2> HIDE DEF o, p
  <2>4. Progress(o, p)
    BY <2>1, <2>2, <2>3 DEF Progress
  <2> QED BY <1>3, <2>2, <2>4, Zenon DEF o, p
<1>5. ASSUME NEW a \in Attempts, Callback(a) PROVE FillInv'
  <2> DEFINE k == BrokerEvent("acknowledged", "Submitted", 0)
  <2>1. PICK e \in {BrokerReport(a), k} : journal' = [journal EXCEPT ![a] = Append(@, e)]
    BY <1>5, Zenon DEF Callback
  <2>2. UNCHANGED order /\ order[a].wire \in {"working", "ended", "rejected"}
    BY <1>5 DEF Callback
  <2>3. k \in Event /\ k.filled = 0 /\ k.status = "Submitted" /\ k.type = "acknowledged"
    BY Zenon DEF BrokerEvent, Event, EventTypes, BrokerStatuses
  <2>4. order[a].fill \in Nat
    BY <1>1, BoundsAssumption DEF Order, BoundsAssumption
  <2> HIDE DEF k
  <2>5. EventTrue(order[a], k)
    BY <2>3, <2>4 DEF EventTrue
  <2>6. e \in Event /\ EventTrue(order[a], e)
    BY <1>1, <2>1, <2>2, <2>3, <2>5, ReportTrue, Zenon
  <2> QED BY <1>1, <2>1, <2>2, <2>6, EventFill, Zenon
<1>6. ASSUME NEW a \in Attempts, reconcileOrderJournalWithBroker(a) PROVE FillInv'
  <2>1. journal' = [journal EXCEPT ![a] = Append(@, LocalEvent("absent"))] /\ UNCHANGED order
    BY <1>6, Zenon DEF reconcileOrderJournalWithBroker
  <2>2. LocalEvent("absent") \in Event /\ EventTrue(order[a], LocalEvent("absent"))
    BY <1>1, LocalTrue, Zenon DEF EventTypes
  <2> QED BY <1>1, <2>1, <2>2, EventFill, Zenon
<1>7. CASE Tick \/ SetFrozen \/ Reconnect \/ \E l \in Lines, n \in Positions : PortfolioUpdate(l, n)
  BY <1>2, <1>7, Zenon DEF Tick, SetFrozen, Reconnect, PortfolioUpdate, others
<1> QED BY <1>4, <1>5, <1>6, <1>7, Zenon DEF World

\* Placing an order and journalling what became of it: local events, and the
\* frame of the record that is being sent.
LEMMA PlaceFill ==
    ASSUME IInv, TypeOK', FillInv, placeOrder \/ submitBoundConfiguredOrder \/ appendOrderSendOutcome PROVE FillInv'
<1>1. TypeOK /\ UNCHANGED rec /\ pc \in InSend
  BY InvParts, Zenon DEF placeOrder, submitBoundConfiguredOrder, appendOrderSendOutcome, Keep, InSend
<1>2. att \in Attempts /\ cur \in QueueIds /\ rec[cur].state = "sending" /\ \A q \in QueueIds : rec[q].attempt = att => q = cur
  BY <1>1, Placing, Zenon
<1>3. order \in [Attempts -> Order] /\ \A a \in Attempts : OrderTrue(order[a], journal[a])
  BY <1>1, Zenon DEF TypeOK, Order, FillInv
<1>4. CASE UNCHANGED <<journal, order>>
  BY <1>1, <1>4 DEF FillInv
<1>5. ASSUME NEW t \in {"attempted", "completed", "uncertain", "unsent"}, UNCHANGED order,
             journal' = [journal EXCEPT ![att] = Append(@, LocalEvent(t))]
      PROVE  FillInv'
  <2>1. LocalEvent(t) \in Event /\ EventTrue(order[att], LocalEvent(t))
    BY <1>2, <1>3, LocalTrue, Zenon DEF EventTypes
  <2> QED BY <1>1, <1>2, <1>5, <2>1, EventFill, Zenon
<1>6. CASE order' = [order EXCEPT ![att].wire = "flying"] /\ UNCHANGED journal /\ ~Framed(att)
  <2>1. /\ order'[att].qty = order[att].qty /\ order'[att].fill = order[att].fill
        /\ \A a \in Attempts \ {att} : order'[a] = order[a]
    BY <1>2, <1>3, <1>6 DEF Order
  <2>2. order[att].fill = 0 /\ order[att].wire = "none"
    BY <1>2, <1>3, <1>6 DEF OrderTrue, Framed
  <2>3. \A a \in Attempts : Progress(order[a], order'[a])
    <3>1. Progress(order[att], order'[att])
      <4>1. Progress(order[att], order[att])
        BY <1>1, <1>2, SameProgress, Zenon
      <4>2. order'[att].wire = "flying"
        BY <1>2, <1>3, <1>6 DEF Order
      <4> QED BY <2>1, <2>2, <4>1, <4>2 DEF Progress
    <3> QED BY <1>1, <2>1, <3>1, SameProgress, Zenon
  <2>4. \A q \in QueueIds : rec[q].attempt # NoAttempt =>
           rec[q].state = "sending" \/ (Framed(rec[q].attempt)' => Framed(rec[q].attempt))
    <3> SUFFICES ASSUME NEW q \in QueueIds, rec[q].attempt # NoAttempt, Framed(rec[q].attempt)', q # cur
                 PROVE  Framed(rec[q].attempt)
      BY <1>2
    <3>1. rec[q].attempt \in Attempts \ {att}
      BY <1>1, <1>2, Zenon DEF TypeOK, Record
    <3> QED BY <1>1, <2>1, <3>1, Zenon DEF Framed
  <2>5. \A a \in Attempts : \A i \in DOMAIN journal'[a] : i \in DOMAIN journal[a] /\ journal'[a][i] = journal[a][i]
    BY <1>6
  <2> QED BY <1>1, <2>3, <2>4, <2>5, WireFill, Zenon
<1>7. pc = "guarded" => ~Framed(att)
  BY InvParts, Zenon DEF CursorOK
<1> QED BY <1>4, <1>5, <1>6, <1>7, Zenon DEF placeOrder, submitBoundConfiguredOrder, appendOrderSendOutcome

\* A staging takes an order that nothing was said of.
LEMMA StageFill == ASSUME IInv, FillInv, StageStep PROVE FillInv'
<1>1. TypeOK /\ CursorOK /\ AttemptsOK /\ pc = "staging"
  BY InvParts DEF StageStep
<1>2. /\ cur \in QueueIds /\ att \in Attempts /\ ~Framed(att)
      /\ \A q \in QueueIds : rec[q].attempt # att
      /\ \A a \in Attempts \ {att} : order'[a] = order[a]
  BY StagingFresh, Zenon
<1>3. journal[att] = <<>> /\ journal' = journal
  BY <1>1 DEF StageStep, envVars, CursorOK, Working, AttemptsOK, AttemptOK
<1>4. order'[att].qty = bind.qty /\ order'[att].wire = "none" /\ order'[att].fill = 0
  <2>1. order[att].wire = "none" /\ order[att].fill = 0
    BY <1>2, Zenon DEF FillInv, OrderTrue, Framed
  <2> QED BY <1>1, <1>2, <2>1 DEF StageStep, TypeOK
<1>5. bind.qty \in Nat
  BY <1>1, BoundsAssumption DEF TypeOK, BoundsAssumption
<1>6. \A a \in Attempts : OrderTrue(order'[a], journal'[a])
  <2>1. OrderTrue(order'[att], journal'[att])
    <3>1. journal'[att] = <<>>
      BY <1>3, Zenon
    <3>2. \A o : o.qty \in Nat /\ o.wire = "none" /\ o.fill = 0 => OrderTrue(o, <<>>)
      BY DEF OrderTrue
    <3> QED BY <1>4, <1>5, <3>1, <3>2, Zenon
  <2>2. \A a \in Attempts \ {att} : OrderTrue(order'[a], journal'[a])
    BY <1>2, <1>3, Zenon DEF FillInv
  <2> QED BY <2>1, <2>2, Zenon
<1>7. rec'[cur].attempt = att /\ rec'[cur].qty = bind.qty /\ rec'[cur].state = "sending"
      /\ \A q \in QueueIds \ {cur} : rec'[q] = rec[q]
  BY <1>1, <1>2 DEF StageStep, TypeOK, Record
<1>8. ASSUME NEW q \in QueueIds, rec'[q].attempt # NoAttempt PROVE FillTrue(rec'[q], order'[rec'[q].attempt])
  <2>1. CASE q = cur
    BY <1>4, <1>7, <2>1 DEF FillTrue
  <2>2. CASE q # cur
    <3>1. rec'[q] = rec[q] /\ rec[q].attempt # NoAttempt /\ rec[q].attempt # att
      BY <1>2, <1>7, <1>8, <2>2, Zenon
    <3>2. rec[q].attempt \in Attempts \ {att}
      BY <1>1, <3>1, Zenon DEF TypeOK, Record
    <3> QED BY <1>2, <3>1, <3>2, Zenon DEF FillInv
  <2> QED BY <2>1, <2>2, Zenon
<1> QED BY <1>6, <1>8, Zenon DEF FillInv

\* The records' and the journal's claims about the fill are inductive.
LEMMA FillStep == IInv /\ IInv' /\ FillInv /\ [Next]_vars => FillInv'
<1> SUFFICES ASSUME IInv, IInv', FillInv, [Next]_vars PROVE FillInv'
  OBVIOUS
<1>1. TypeOK'
  BY Zenon DEF IInv
<1>2. CASE Next /\ ~StageStep /\ UNCHANGED <<journal, order>>
  <2>1. \A q \in QueueIds : Rewritten(rec[q], rec'[q], TRUE)
    BY <1>2, RecordRewritten DEF Rewritten
  <2> QED BY <1>2, <2>1, RewriteFill, Zenon
<1>3. CASE UNCHANGED vars
  BY <1>3, Zenon DEF vars, FillInv
<1> QED BY <1>1, <1>2, <1>3, WorldFill, PlaceFill, StageFill, WireLeftAlone, Zenon

\* A record that says an order was filled, filled in part or ended with nothing
\* filled says what became of that order at the broker, however the callbacks,
\* the reconciler's absence, a crash and the executor's reads interleave
\* (followQueuedSent, finalQueuedResolution, mapOrderViewLifecycleStatus).
THEOREM FillsAreHonest == Spec => []FillHonest
<1>1. Init => FillInv
  <2> SUFFICES ASSUME Init PROVE FillInv
    OBVIOUS
  <2>1. \A q \in QueueIds : rec[q].attempt = NoAttempt
    BY Zenon DEF Init, NoRecord
  <2>2. \A a \in Attempts : order[a].fill = 0 /\ order[a].qty = 0 /\ order[a].wire = "none" /\ journal[a] = <<>>
    BY Zenon DEF Init
  <2> QED BY <2>1, <2>2 DEF FillInv, OrderTrue
<1>2. IInv /\ FillInv => FillHonest
  <2> SUFFICES ASSUME IInv, FillInv, NEW a \in Attempts, Framed(a)
               PROVE  LET r == rec[order[a].by] IN
                      /\ r.state = "filled" => order[a].fill = order[a].qty
                      /\ r.state = "partially_filled" /\ r.code = "cancelled" => order[a].fill \in 1..(order[a].qty - 1)
                      /\ r.state = "expired_unfilled" /\ r.code \in {"cancelled", "rejected"} => order[a].fill = 0
    BY DEF FillHonest
  <2>1. TypeOK /\ AttemptsOK
    BY InvParts, Zenon
  <2>2. order[a].by \in QueueIds /\ rec[order[a].by].attempt = a /\ a # NoAttempt
    BY <2>1, QueueAssumption, Zenon DEF AttemptsOK, AttemptOK, TypeOK, QueueAssumption
  <2>3. FillTrue(rec[order[a].by], order[a])
    BY <2>2 DEF FillInv
  <2> QED BY <2>3, Zenon DEF FillTrue, Framed
<1> QED BY <1>1, <1>2, Invariant, FillStep, PTL DEF Spec

=============================================================================
