--------------------- MODULE QueuedAuthorisationProofs ---------------------
(***************************************************************************)
(* What QueuedAuthorisation guarantees for every number of records,        *)
(* attempts, lines and accounts, every bound and every kind of order: the  *)
(* inductive invariant IInv and the safety properties it implies.          *)
(***************************************************************************)
EXTENDS QueuedTypeProofs

RecordsOK  == \A q \in QueueIds : RecordOK(rec[q]) /\ (rec[q].attempt # NoAttempt => order[rec[q].attempt].by = q)
AttemptsOK == \A a \in Attempts : AttemptOK(a)
TodoOK     == \A q \in todo : rec[q].state # "none"

\* The invariant as its five parts.
LEMMA InvParts == IInv <=> TypeOK /\ CursorOK /\ TodoOK /\ RecordsOK /\ AttemptsOK
BY DEF IInv, RecordsOK, AttemptsOK, TodoOK

\* The daemon starts with no record, no attempt and an idle executor.
LEMMA InvInit == Init => IInv
<1> SUFFICES ASSUME Init PROVE IInv
  OBVIOUS
<1>1. TypeOK
  BY TypeInit
<1>2. CursorOK
  BY DEF Init, CursorOK, Working, InSend
<1>3. TodoOK
  BY DEF Init, TodoOK
<1>4. RecordsOK
  BY Zenon DEF Init, RecordsOK, RecordOK, NoRecord, SaysSent, SaysUnsent, final, FinalStates
<1>5. AttemptsOK
  BY DEF Init, AttemptsOK, AttemptOK, JournalOK, Framed
<1> QED BY <1>1, <1>2, <1>3, <1>4, <1>5, InvParts

-----------------------------------------------------------------------------
(***************************************************************************)
(* Steps that rewrite records and leave the journal and the wire alone.    *)
(***************************************************************************)
LEMMA RewriteStep ==
    ASSUME TypeOK, TypeOK', RecordsOK, AttemptsOK, UNCHANGED <<journal, order>>,
           \A q \in QueueIds : Honest(rec[q], rec'[q])
    PROVE  RecordsOK' /\ AttemptsOK'
<1>1. \A q \in QueueIds : RecordOK(rec[q])'
  BY DEF Honest, RecordOK, SaysSent, SaysUnsent, AttemptFramed, Framed, final, ownerQueueProtection
<1>2. RecordsOK'
  <2> SUFFICES ASSUME NEW q \in QueueIds, rec'[q].attempt # NoAttempt PROVE order'[rec'[q].attempt].by = q
    BY <1>1 DEF RecordsOK
  <2>1. rec'[q].attempt = rec[q].attempt
    BY DEF Honest
  <2> QED BY <2>1 DEF RecordsOK
<1>3. AttemptsOK'
  <2> SUFFICES ASSUME NEW a \in Attempts PROVE AttemptOK(a)'
    BY DEF AttemptsOK
  <2>1. AttemptOK(a) /\ JournalOK(a)'
    BY DEF AttemptsOK, AttemptOK, JournalOK, Framed
  <2>2. Framed(a) => rec'[order[a].by].attempt = a
    <3> SUFFICES ASSUME Framed(a) PROVE rec'[order[a].by].attempt = a
      OBVIOUS
    <3>1. order[a].by \in QueueIds /\ rec[order[a].by].attempt = a
      BY <2>1, Zenon DEF AttemptOK, TypeOK
    <3>2. AttemptFramed(rec[order[a].by])
      BY <3>1, QueueAssumption DEF QueueAssumption, AttemptFramed
    <3> QED BY <3>1, <3>2 DEF Honest
  <2> QED BY <2>1, <2>2 DEF AttemptOK, Framed
<1> QED BY <1>2, <1>3

(***************************************************************************)
(* Which records each step rewrites.  Only staging an intent names a new   *)
(* attempt.                                                                *)
(***************************************************************************)
StageStep ==
    /\ pc = "staging" /\ waiting(rec[cur]) /\ ~rec[cur].bad
    /\ rec' = [rec EXCEPT ![cur].state = "sending", ![cur].attempt = att,
                          ![cur].qty = bind.qty, ![cur].at = now, ![cur].own = TRUE]
    /\ order' = [order EXCEPT ![att].by = cur, ![att].qty = bind.qty]
    /\ pc' = "staged"
    /\ UNCHANGED <<envVars, arming, journal, todo, cur, att, bind, res>>

\* holdQueued and cancelQueued are honest about a record that names no attempt.
LEMMA ApplyHonest ==
    ASSUME TypeOK, RecordsOK, NEW q \in QueueIds, NEW v, Apply(q, v),
           v \notin {"skip", "go"} /\ waiting(rec[q]) => rec[q].attempt = NoAttempt
    PROVE  \A o \in QueueIds : Honest(rec[o], rec'[o])
<1>0. /\ rec \in [QueueIds -> Record]
      /\ \A o \in QueueIds : rec[o] \in Record /\ RecordOK(rec[o])
  BY DEF TypeOK, RecordsOK
<1>1. \A o \in QueueIds : Honest(rec[o], rec[o])
  BY <1>0, RewritesHonest, Zenon
<1>2. CASE rec' = rec
  BY <1>1, <1>2
<1>3. CASE rec' # rec
  <2> DEFINE s == IF v = "hold" THEN [rec[q] EXCEPT !.state = "held"] ELSE resolve(rec[q], "cancelled", v)
  <2>1. rec' = [rec EXCEPT ![q] = s] /\ waiting(rec[q]) /\ v \notin {"skip", "go"}
    BY <1>3 DEF Apply
  <2>2. Honest(rec[q], s)
    BY <1>0, <2>1, RewritesHonest, Zenon DEF waiting
  <2> HIDE DEF s
  <2> QED BY <1>0, <1>1, <2>1, <2>2
<1> QED BY <1>2, <1>3

\* A refusal before staging is honest (settleQueuedRefusal).
LEMMA RefuseHonest ==
    ASSUME TypeOK, RecordsOK, CursorOK, pc \in Working \ InSend, NEW V, Refuse(V)
    PROVE  \A o \in QueueIds : Honest(rec[o], rec'[o])
<1>1. PICK v \in V : Apply(cur, v)
  BY DEF Refuse
<1>2. cur \in QueueIds /\ (waiting(rec[cur]) => rec[cur].attempt = NoAttempt)
  BY DEF CursorOK
<1> QED BY <1>1, <1>2, ApplyHonest

\* What the owner does to a record is honest: prepare, arm, expire, cancel.
LEMMA OwnerHonest ==
    ASSUME TypeOK, RecordsOK, Owner PROVE \A o \in QueueIds : Honest(rec[o], rec'[o])
<1>0. /\ rec \in [QueueIds -> Record]
      /\ \A o \in QueueIds : rec[o] \in Record /\ RecordOK(rec[o])
  BY DEF TypeOK, RecordsOK
<1>1. \A o \in QueueIds : Honest(rec[o], rec[o])
  BY <1>0, RewritesHonest, Zenon
<1>2. \A o \in QueueIds : rec[o].state = "prepared" => rec[o].attempt = NoAttempt
  BY <1>0 DEF RecordOK
<1>3. ASSUME NEW q \in QueueIds, NEW l \in Lines, NEW k \in Kinds, NEW n \in 1..MaxPosition, QueuePrepare(q, l, k, n),
             NEW o \in QueueIds
      PROVE  Honest(rec[o], rec'[o])
  <2>1. rec'[o] = IF o = q
                  THEN [rec[q] EXCEPT !.state = "prepared", !.kind = k, !.line = l, !.max = n,
                                      !.signed = position[l], !.armBy = now + ArmWindow]
                  ELSE IF rec[o].state = "prepared" /\ rec[o].line = l
                  THEN resolve(rec[o], "cancelled", "superseded") ELSE rec[o]
    BY <1>3 DEF QueuePrepare
  <2>2. rec[q].state = "none"
    BY <1>3 DEF QueuePrepare
  <2>3. CASE o = q
    <3>1. \A p, t : Honest(rec[q], [rec[q] EXCEPT !.state = "prepared", !.kind = k, !.line = l, !.max = n,
                                                  !.signed = p, !.armBy = t])
      BY <1>0, <2>2, RewritesHonest, Zenon
    <3>2. Honest(rec[q], [rec[q] EXCEPT !.state = "prepared", !.kind = k, !.line = l, !.max = n,
                                        !.signed = position[l], !.armBy = now + ArmWindow])
      BY <3>1, Zenon
    <3> QED BY <2>1, <2>3, <3>2, Zenon
  <2>4. CASE o # q /\ rec[o].state = "prepared" /\ rec[o].line = l
    <3>1. rec'[o] = resolve(rec[o], "cancelled", "superseded")
      BY <2>1, <2>4
    <3> QED BY <1>0, <1>2, <2>4, <3>1, RewritesHonest, Zenon
  <2>5. CASE o # q /\ ~(rec[o].state = "prepared" /\ rec[o].line = l)
    BY <1>1, <2>1, <2>5
  <2> QED BY <2>3, <2>4, <2>5
<1>4. ASSUME NEW q \in QueueIds, QueueArmCheck(q) PROVE \A o \in QueueIds : Honest(rec[o], rec'[o])
  BY <1>1, <1>4 DEF QueueArmCheck
<1>5. ASSUME NEW q \in QueueIds, QueueArm(q) PROVE \A o \in QueueIds : Honest(rec[o], rec'[o])
  <2>1. rec' = rec \/ (rec[q].state = "prepared" /\ rec' = [rec EXCEPT ![q] = [rec[q] EXCEPT !.state = "armed"]])
    BY <1>0, <1>5 DEF QueueArm
  <2>2. rec[q].state = "prepared" => Honest(rec[q], [rec[q] EXCEPT !.state = "armed"])
    BY <1>0, <1>2, RewritesHonest, Zenon
  <2> QED BY <1>0, <1>1, <2>1, <2>2
<1>6. ASSUME NEW q \in QueueIds, expireUnarmed(q) PROVE \A o \in QueueIds : Honest(rec[o], rec'[o])
  <2>1. Honest(rec[q], resolve(rec[q], "expired", "not_armed"))
    BY <1>0, <1>2, <1>6, RewritesHonest, Zenon DEF expireUnarmed
  <2> QED BY <1>0, <1>1, <1>6, <2>1 DEF expireUnarmed
<1>7. ASSUME NEW S \in SUBSET QueueIds, NEW p \in BOOLEAN, QueueCancel(S, p), NEW o \in QueueIds
      PROVE  Honest(rec[o], rec'[o])
  BY <1>0, <1>1, <1>7, RewritesHonest, Zenon DEF QueueCancel
<1> QED BY <1>3, <1>4, <1>5, <1>6, <1>7, Zenon DEF Owner

\* Each pass of runQueuedCycle rewrites records honestly.
LEMMA HousekeepingHonest ==
    ASSUME TypeOK, RecordsOK, AttemptsOK,
           \/ endUnreadableQueued \/ recoverQueuedAfterRestart \/ endFlatProtectionQueues
           \/ expireQueued \/ followQueuedSent,
           NEW q \in QueueIds
    PROVE  Honest(rec[q], rec'[q])
<1>0. rec[q] \in Record /\ RecordOK(rec[q])
  BY DEF TypeOK, RecordsOK
<1>1. rec[q].attempt # NoAttempt => JournalOK(rec[q].attempt)
  <2>1. rec[q].attempt \in Attempts \cup {NoAttempt}
    BY <1>0 DEF Record
  <2> QED BY <2>1 DEF AttemptsOK, AttemptOK
<1>2. CASE endUnreadableQueued
  BY <1>0, <1>2, RewritesHonest, Zenon DEF endUnreadableQueued
<1>3. CASE recoverQueuedAfterRestart
  <2>1. rec[q].state = "sending" => rec[q].attempt # NoAttempt
    BY <1>0 DEF RecordOK
  <2>2. rec'[q] = IF Stuck(rec[q]) THEN RecoverRecord(rec[q]) ELSE rec[q]
    BY <1>3 DEF recoverQueuedAfterRestart
  <2>3. Stuck(rec[q]) => rec[q].state = "sending"
    BY DEF Stuck
  <2> QED BY <1>0, <1>1, <2>1, <2>2, <2>3, RewritesHonest, Zenon
<1>4. CASE endFlatProtectionQueues
  BY <1>0, <1>4, RewritesHonest, Zenon DEF endFlatProtectionQueues
<1>5. CASE expireQueued
  BY <1>0, <1>5, RewritesHonest, Zenon DEF expireQueued
<1>6. CASE followQueuedSent
  <2>1. Followed(rec[q]) => rec[q].attempt # NoAttempt
    BY DEF Followed
  <2>2. rec'[q] = IF Followed(rec[q]) THEN FollowRecord(rec[q]) ELSE rec[q]
    BY <1>6 DEF followQueuedSent
  <2> QED BY <1>0, <1>1, <2>1, <2>2, RewritesHonest, Zenon
<1> QED BY <1>2, <1>3, <1>4, <1>5, <1>6

\* executeQueued, sendQueued and previewOrder rewrite records honestly.
LEMMA SendHonest ==
    ASSUME IInv,
           \/ \E q \in QueueIds : executeQueued(q)
           \/ sendQueued \/ (\E a \in Attempts : previewOrder(a)) \/ beforePlace \/ RefusalFault
    PROVE  StageStep \/ \A o \in QueueIds : Honest(rec[o], rec'[o])
<1>0. TypeOK /\ RecordsOK /\ CursorOK /\ {"locked", "preview", "staging"} = Working \ InSend
  BY InvParts DEF Working, InSend
<1>1. rec' = rec => \A o \in QueueIds : Honest(rec[o], rec'[o])
  BY <1>0, RewritesHonest, Zenon DEF RecordsOK, TypeOK
<1>2. ASSUME NEW q \in QueueIds, executeQueued(q) PROVE \A o \in QueueIds : Honest(rec[o], rec'[o])
  <2>1. PICK v \in executeVerdicts(rec[q]) : Apply(q, v)
    BY <1>2 DEF executeQueued
  <2>2. rec[q].kind \in {"rule", "exact", "stop"} /\ RecordOK(rec[q])
    BY <1>0 DEF TypeOK, Record, RecordsOK
  <2>3. v # "skip" /\ waiting(rec[q]) => rec[q].attempt = NoAttempt
    BY <2>1, <2>2 DEF executeVerdicts, RecordOK, waiting, ownerQueueProtection
  <2> QED BY <1>0, <2>1, <2>3, ApplyHonest
<1>3. CASE sendQueued
  <2>1. (\E V : Refuse(V)) \/ rec' = rec
    BY <1>3 DEF sendQueued
  <2>2. pc \in Working \ InSend
    BY <1>0, <1>3 DEF sendQueued
  <2> QED BY <1>0, <1>1, <2>1, <2>2, RefuseHonest
<1>4. ASSUME NEW a \in Attempts, previewOrder(a) PROVE \A o \in QueueIds : Honest(rec[o], rec'[o])
  <2>1. (\E V : Refuse(V)) \/ rec' = rec
    BY <1>4 DEF previewOrder
  <2>2. pc \in Working \ InSend
    BY <1>0, <1>4 DEF previewOrder
  <2> QED BY <1>0, <1>1, <2>1, <2>2, RefuseHonest
<1>5. CASE beforePlace
  <2>1. (\E V : Refuse(V)) \/ StageStep
    BY <1>5, Zenon DEF beforePlace, StageStep
  <2>2. pc \in Working \ InSend
    BY <1>0, <1>5 DEF beforePlace
  <2> QED BY <1>0, <2>1, <2>2, RefuseHonest
<1>6. CASE RefusalFault
  <2>1. \E v : Apply(cur, v)
    BY <1>6, Zenon DEF RefusalFault
  <2>2. cur \in QueueIds /\ (waiting(rec[cur]) => rec[cur].attempt = NoAttempt)
    BY <1>0, <1>6 DEF RefusalFault, CursorOK
  <2> QED BY <1>0, <2>1, <2>2, ApplyHonest
<1> QED BY <1>2, <1>3, <1>4, <1>5, <1>6

\* Settling a send is honest: the answer and the journal say what the wire did.
LEMMA SettleStepHonest ==
    ASSUME IInv, settleSend \/ SettleFault PROVE \A o \in QueueIds : Honest(rec[o], rec'[o])
<1>0. TypeOK /\ RecordsOK /\ CursorOK /\ AttemptsOK /\ pc = "answered" /\ pc \in InSend /\ pc \in Working
  BY InvParts DEF Working, InSend, settleSend, SettleFault
<1> DEFINE r == rec[cur]
<1>1. /\ cur \in QueueIds /\ r \in Record /\ RecordOK(r) /\ att \in Attempts /\ r.attempt = att
      /\ (res = "ok" => Framed(att)) /\ (res = "frozen" => ~Framed(att))
  BY <1>0 DEF CursorOK, TypeOK, RecordsOK
<1>2. r.attempt # NoAttempt /\ (AttemptFramed(r) <=> Framed(att))
  BY <1>1, QueueAssumption, Zenon DEF QueueAssumption, AttemptFramed
<1>3. OutcomeFits(r, queuedJournalSendOutcome(journal[att], r.kind))
  BY <1>0, <1>1, <1>2, JournalOutcomeFits DEF AttemptsOK, AttemptOK
<1>4. OutcomeFits(r, AnswerOutcome) /\ OutcomeFits(r, "unclear")
  BY <1>1, <1>2, <1>3 DEF AnswerOutcome, OutcomeFits
<1>5. rec' = rec \/ \E o \in {AnswerOutcome, "unclear"} : rec' = [rec EXCEPT ![cur] = SettleRecord(r, o)]
  BY <1>1 DEF settleSend, SettleFault
<1>6. \A o \in {AnswerOutcome, "unclear"} : Honest(r, SettleRecord(r, o))
  BY <1>1, <1>4, RewritesHonest, Zenon
<1>7. \A o \in QueueIds : Honest(rec[o], rec[o])
  BY <1>0, RewritesHonest, Zenon DEF RecordsOK, TypeOK
<1>8. rec \in [QueueIds -> Record]
  BY <1>0 DEF TypeOK
<1> HIDE DEF r
<1> QED BY <1>1, <1>5, <1>6, <1>7, <1>8 DEF r

-----------------------------------------------------------------------------
(***************************************************************************)
(* Steps that touch the wire or the journal.                               *)
(***************************************************************************)
\* The wire and the journals change only for orders already framed.
WireKeeps ==
    \A a \in Attempts : /\ Framed(a)' <=> Framed(a)
                        /\ order'[a].by = order[a].by /\ order'[a].qty = order[a].qty
                        /\ ~Framed(a) => journal'[a] = journal[a]

\* Nothing is journalled as unsent, and nothing is forgotten.
JournalKeeps ==
    \A a \in Attempts : /\ Has(journal[a], "attempted") => Has(journal'[a], "attempted")
                        /\ Has(journal'[a], "unsent") => Has(journal[a], "unsent")

\* Appending to a journal forgets no event and adds one type.
LEMMA AppendHas ==
    ASSUME NEW j \in Seq(Event), NEW e \in Event, NEW t
    PROVE  Has(Append(j, e), t) <=> Has(j, t) \/ e.type = t
<1> DEFINE k == Append(j, e)
<1>1. /\ DOMAIN k = 1..(Len(j) + 1) /\ DOMAIN j = 1..Len(j) /\ Len(j) \in Nat
      /\ k[Len(j) + 1] = e /\ \A i \in 1..Len(j) : k[i] = j[i]
  OBVIOUS
<1> HIDE DEF k
<1>2. Has(k, t) <=> \E i \in DOMAIN k : k[i].type = t
  BY DEF Has
<1>3. Has(j, t) <=> \E i \in DOMAIN j : j[i].type = t
  BY DEF Has
<1>4. ASSUME Has(k, t) PROVE Has(j, t) \/ e.type = t
  <2>1. PICK i \in DOMAIN k : k[i].type = t
    BY <1>2, <1>4
  <2>2. i = Len(j) + 1 \/ i \in 1..Len(j)
    BY <1>1
  <2> QED BY <1>1, <1>3, <2>1, <2>2
<1>5. ASSUME Has(j, t) PROVE Has(k, t)
  BY <1>1, <1>2, <1>3, <1>5
<1>6. ASSUME e.type = t PROVE Has(k, t)
  <2>1. Len(j) + 1 \in DOMAIN k
    BY <1>1
  <2> QED BY <1>1, <1>2, <1>6, <2>1
<1> QED BY <1>4, <1>5, <1>6 DEF k

\* Wires that only move on and journals that only grow soundly keep records and attempts consistent.
LEMMA WireStep ==
    ASSUME TypeOK, RecordsOK, AttemptsOK, UNCHANGED rec, WireKeeps, JournalKeeps
    PROVE  RecordsOK' /\ AttemptsOK'
<1>1. ASSUME NEW q \in QueueIds PROVE RecordOK(rec[q])' /\ (rec'[q].attempt # NoAttempt => order'[rec'[q].attempt].by = q)
  <2>1. RecordOK(rec[q]) /\ (rec[q].attempt # NoAttempt => order[rec[q].attempt].by = q) /\ rec'[q] = rec[q]
    BY DEF RecordsOK
  <2>2. rec[q].attempt \in Attempts \cup {NoAttempt}
    BY DEF TypeOK, Record
  <2>3. AttemptFramed(rec[q])' <=> AttemptFramed(rec[q])
    BY <2>1, <2>2, Zenon DEF AttemptFramed, WireKeeps
  <2>4. RecordOK(rec[q])'
    BY <2>1, <2>3, Zenon DEF RecordOK, SaysSent, SaysUnsent, final, ownerQueueProtection
  <2> QED BY <2>1, <2>2, <2>4 DEF WireKeeps
<1>2. ASSUME NEW a \in Attempts PROVE AttemptOK(a)'
  <2>1. AttemptOK(a)
    BY Zenon DEF AttemptsOK
  <2>2. /\ Framed(a)' <=> Framed(a)
        /\ order'[a].by = order[a].by
        /\ ~Framed(a) => journal'[a] = journal[a]
    BY DEF WireKeeps
  <2>3. JournalOK(a)'
    BY <2>1, <2>2 DEF JournalKeeps, AttemptOK, JournalOK
  <2> QED BY <2>1, <2>2, <2>3 DEF AttemptOK
<1> QED BY <1>1, <1>2 DEF RecordsOK, AttemptsOK

\* A callback, a reconciliation, a fill or a cancel concerns an order the broker
\* has.
LEMMA WorldWire ==
    ASSUME TypeOK, World \/ Tick PROVE WireKeeps /\ JournalKeeps /\ UNCHANGED <<rec, todo, account, execVars>>
<1> DEFINE Orders == [by : QueueIds \cup {NoQueue}, qty : 0..MaxPosition, wire : Wires, fill : 0..MaxPosition]
<1>0. order \in [Attempts -> Orders] /\ journal \in [Attempts -> Seq(Event)]
  BY DEF TypeOK
<1>1. ASSUME UNCHANGED <<journal, order>> PROVE WireKeeps /\ JournalKeeps
  BY <1>1 DEF WireKeeps, JournalKeeps, Framed
<1>2. CASE Tick \/ SetFrozen \/ Reconnect \/ \E l \in Lines, n \in Positions : PortfolioUpdate(l, n)
  BY <1>1, <1>2, Zenon DEF Tick, SetFrozen, Reconnect, PortfolioUpdate, others, execVars
<1>3. ASSUME NEW a \in Attempts, BrokerReceive(a) \/ BrokerCancel(a) \/ BrokerFill(a)
      PROVE  WireKeeps /\ JournalKeeps /\ UNCHANGED <<rec, todo, account, execVars>>
  <2>1. order[a].wire # "none" /\ order'[a].wire # "none"
    BY <1>0, <1>3 DEF BrokerReceive, BrokerCancel, BrokerFill, Broker
  <2>2. order'[a].by = order[a].by /\ order'[a].qty = order[a].qty /\ \A b \in Attempts \ {a} : order'[b] = order[b]
    BY <1>0, <1>3 DEF BrokerReceive, BrokerCancel, BrokerFill, Broker
  <2>3. UNCHANGED <<rec, journal, todo, account, execVars>>
    BY <1>3 DEF BrokerReceive, BrokerCancel, BrokerFill, Broker, envVars, execVars
  <2> QED BY <2>1, <2>2, <2>3 DEF WireKeeps, JournalKeeps, Framed
<1>4. ASSUME NEW a \in Attempts, NEW e \in Event, Framed(a), e.type # "unsent",
             journal' = [journal EXCEPT ![a] = Append(@, e)], order' = order
      PROVE  WireKeeps /\ JournalKeeps
  <2>1. journal'[a] = Append(journal[a], e) /\ \A b \in Attempts \ {a} : journal'[b] = journal[b]
    BY <1>0, <1>4
  <2>2. \A t : Has(journal'[a], t) <=> Has(journal[a], t) \/ e.type = t
    BY <1>0, <2>1, AppendHas
  <2> QED BY <1>4, <2>1, <2>2 DEF WireKeeps, JournalKeeps, Framed
<1>5. ASSUME NEW a \in Attempts, Callback(a)
      PROVE  WireKeeps /\ JournalKeeps /\ UNCHANGED <<rec, todo, account, execVars>>
  <2>1. order[a].fill \in Nat
    BY <1>0, BoundsAssumption DEF BoundsAssumption
  <2>2. \A e \in {BrokerReport(a), BrokerEvent("acknowledged", "Submitted", 0)} : e \in Event /\ e.type # "unsent"
    <3>1. BrokerReport(a) \in Event /\ BrokerEvent("acknowledged", "Submitted", 0) \in Event
      BY <2>1 DEF BrokerReport, BrokerEvent, LocalEvent, Event, EventTypes, BrokerStatuses
    <3>2. BrokerReport(a).type \in {"error", "status"}
      BY DEF BrokerReport, BrokerEvent, LocalEvent
    <3>3. BrokerEvent("acknowledged", "Submitted", 0).type = "acknowledged"
      BY DEF BrokerEvent
    <3> QED BY <3>1, <3>2, <3>3
  <2>3. Framed(a)
    BY <1>5 DEF Callback, Framed
  <2> QED BY <1>4, <1>5, <2>2, <2>3, Zenon DEF Callback, envVars, execVars
<1>6. ASSUME NEW a \in Attempts, reconcileOrderJournalWithBroker(a)
      PROVE  WireKeeps /\ JournalKeeps /\ UNCHANGED <<rec, todo, account, execVars>>
  <2>1. LocalEvent("absent") \in Event /\ LocalEvent("absent").type # "unsent"
    BY DEF LocalEvent, Event, EventTypes, BrokerStatuses
  <2>2. Framed(a)
    BY <1>6 DEF reconcileOrderJournalWithBroker, Framed
  <2> QED BY <1>4, <1>6, <2>1, <2>2, Zenon DEF reconcileOrderJournalWithBroker, envVars, execVars
<1> QED BY <1>2, <1>3, <1>5, <1>6 DEF World

\* What holds of the attempt under way while it is being placed.
LEMMA Placing ==
    ASSUME IInv, pc \in InSend
    PROVE  /\ cur \in QueueIds /\ att \in Attempts /\ att # NoAttempt /\ cur # NoQueue
           /\ rec[cur].state = "sending" /\ rec[cur].attempt = att /\ ~rec[cur].bad
           /\ account = AccountOf[rec[cur].line] /\ order[att].qty = bind.qty /\ order[att].by = cur
           /\ QuantityOK(rec[cur]) /\ BoundOK(rec[cur])
           /\ \A q \in QueueIds : rec[q].attempt = att => q = cur
<1>1. TypeOK /\ CursorOK /\ RecordsOK
  BY InvParts, Zenon
<1>2. /\ cur \in QueueIds /\ att \in Attempts
      /\ rec[cur].state = "sending" /\ rec[cur].attempt = att /\ ~rec[cur].bad
      /\ account = AccountOf[rec[cur].line] /\ order[att].qty = bind.qty
      /\ QuantityOK(rec[cur]) /\ BoundOK(rec[cur])
  BY <1>1 DEF CursorOK, Working, InSend
<1>3. att # NoAttempt /\ cur # NoQueue
  BY <1>2, QueueAssumption, Zenon DEF QueueAssumption
<1>4. \A q \in QueueIds : rec[q].attempt = att => order[att].by = q
  BY <1>1, <1>3 DEF RecordsOK
<1> QED BY <1>2, <1>3, <1>4

\* A local event has the type it is built with.
LEMMA LocalTypes == \A t : LocalEvent(t).type = t
BY DEF LocalEvent

-----------------------------------------------------------------------------
(***************************************************************************)
(* The executor's place in a send, while the others step in.               *)
(***************************************************************************)
\* The owner neither touches a record being placed nor arms one that names an
\* attempt.
OwnerKeeps(r, s) ==
    /\ r.state # "none" => /\ s.state # "none"
                           /\ s.line = r.line /\ s.kind = r.kind /\ s.max = r.max
    /\ r.state = "sending" => s.state = "sending" /\ s.attempt = r.attempt /\ s.bad = r.bad
    /\ waiting(s) => s.attempt = NoAttempt \/ (waiting(r) /\ s.attempt = r.attempt)

-----------------------------------------------------------------------------
(***************************************************************************)
(* Every step preserves the invariant.                                     *)
(***************************************************************************)
\* The invariant is inductive: every step of the owner, the world, the passes of a cycle and the send keeps it.
LEMMA InvStep ==
    IInv /\ [Next]_vars => IInv'
\* A step that leaves the executor and its record alone keeps the cursor.
<1>CursorKept. ASSUME TypeOK, CursorOK, UNCHANGED <<account, execVars>>, WireKeeps,
                      \A q \in QueueIds : OwnerKeeps(rec[q], rec'[q])
               PROVE  CursorOK'
  <2> USE <1>CursorKept
  <2> USE DEF execVars
  <2>1. CASE pc \notin Working
    BY <2>1 DEF CursorOK, Working, InSend
  <2>2. CASE pc \in Working
    <3> DEFINE r == rec[cur]
               s == rec'[cur]
    <3>1. /\ cur \in QueueIds /\ r.state # "none" /\ account = AccountOf[r.line]
          /\ pc \in Working \ InSend /\ waiting(r) => r.attempt = NoAttempt
          /\ pc \in Working \ {"locked"} => QuantityOK(r)
          /\ pc \in InSend \cup {"staging"} => att \in Attempts /\ BoundOK(r)
          /\ pc = "staging" => order[att].by = NoQueue
          /\ pc \in InSend => r.state = "sending" /\ r.attempt = att /\ ~r.bad /\ order[att].qty = bind.qty
      BY <2>2, Zenon DEF CursorOK
    <3>2. OwnerKeeps(r, s)
      BY <3>1, Zenon
    <3>3. /\ s.state # "none" /\ account = AccountOf[s.line] /\ s.kind = r.kind /\ s.max = r.max
          /\ pc \in Working \ InSend /\ waiting(s) => s.attempt = NoAttempt
          /\ pc \in InSend => s.state = "sending" /\ s.attempt = att /\ ~s.bad
      BY <3>1, <3>2, Zenon DEF OwnerKeeps
    <3>4. (QuantityOK(rec[cur])' <=> QuantityOK(r)) /\ (BoundOK(rec[cur])' <=> BoundOK(r))
      BY <3>3 DEF QuantityOK, BoundOK
    <3>5. pc \in InSend \cup {"staging"} =>
              /\ Framed(att)' <=> Framed(att)
              /\ order'[att].by = order[att].by /\ order'[att].qty = order[att].qty
              /\ ~Framed(att) => journal'[att] = journal[att]
      BY <3>1, Zenon DEF WireKeeps
    <3>6. UNCHANGED <<account, pc, cur, att, bind, res>>
      BY Zenon
    <3> HIDE DEF r, s
    <3>7. waiting(rec[cur])' <=> waiting(s)
      BY <3>6 DEF waiting, s
    <3>8. rec'[cur'] = s
      BY <3>6 DEF s
    <3> QED BY <2>2, <3>1, <3>3, <3>4, <3>5, <3>6, <3>7, <3>8, Zenon DEF CursorOK, InSend, Working
  <2> QED BY <2>1, <2>2, Zenon
\* No owner action takes the record from under a send in flight.
<1>OwnerKeepsCursor. ASSUME TypeOK, RecordsOK, Owner PROVE \A o \in QueueIds : OwnerKeeps(rec[o], rec'[o])
  <2> USE <1>OwnerKeepsCursor
  <2> USE DEF OwnerKeeps, waiting
  <2>0. /\ rec \in [QueueIds -> Record]
        /\ \A o \in QueueIds : rec[o] \in Record /\ RecordOK(rec[o])
    BY DEF TypeOK, RecordsOK
  <2>1. \A o \in QueueIds : OwnerKeeps(rec[o], rec[o])
    OBVIOUS
  <2>2. \A r \in Record : \A why \in Codes :
           \/ r.state = "sending"
           \/ OwnerKeeps(r, resolve(r, "cancelled", why)) /\ OwnerKeeps(r, resolve(r, "expired", why))
    BY DEF Record, resolve
  <2>3. ASSUME NEW q \in QueueIds, NEW l \in Lines, NEW k \in Kinds, NEW n \in 1..MaxPosition, QueuePrepare(q, l, k, n),
               NEW o \in QueueIds
        PROVE  OwnerKeeps(rec[o], rec'[o])
    <3>1. rec'[o] = IF o = q
                    THEN [rec[q] EXCEPT !.state = "prepared", !.kind = k, !.line = l, !.max = n,
                                        !.signed = position[l], !.armBy = now + ArmWindow]
                    ELSE IF rec[o].state = "prepared" /\ rec[o].line = l
                    THEN resolve(rec[o], "cancelled", "superseded") ELSE rec[o]
      BY <2>3 DEF QueuePrepare
    <3>2. rec[q].state = "none"
      BY <2>3 DEF QueuePrepare
    <3>3. CASE o = q
      BY <2>0, <3>1, <3>2, <3>3 DEF Record
    <3>4. CASE o # q
      <4>1. "superseded" \in Codes
        BY DEF Codes
      <4> HIDE DEF OwnerKeeps
      <4> QED BY <2>0, <2>1, <2>2, <3>1, <3>4, <4>1
    <3> QED BY <3>3, <3>4
  <2>4. ASSUME NEW q \in QueueIds, QueueArmCheck(q) PROVE \A o \in QueueIds : OwnerKeeps(rec[o], rec'[o])
    BY <2>1, <2>4 DEF QueueArmCheck
  <2>5. ASSUME NEW q \in QueueIds, QueueArm(q) PROVE \A o \in QueueIds : OwnerKeeps(rec[o], rec'[o])
    <3>1. rec' = rec \/ (rec[q].state = "prepared" /\ rec' = [rec EXCEPT ![q] = [rec[q] EXCEPT !.state = "armed"]])
      BY <2>0, <2>5 DEF QueueArm
    <3>2. rec[q].state = "prepared" => OwnerKeeps(rec[q], [rec[q] EXCEPT !.state = "armed"])
      BY <2>0 DEF RecordOK, Record
    <3> HIDE DEF OwnerKeeps
    <3> QED BY <2>0, <2>1, <3>1, <3>2
  <2>6. ASSUME NEW q \in QueueIds, expireUnarmed(q) PROVE \A o \in QueueIds : OwnerKeeps(rec[o], rec'[o])
    <3>1. rec' = [rec EXCEPT ![q] = resolve(rec[q], "expired", "not_armed")] /\ rec[q].state = "prepared"
      BY <2>0, <2>6 DEF expireUnarmed
    <3> HIDE DEF OwnerKeeps
    <3> QED BY <2>0, <2>1, <2>2, <3>1, Zenon DEF Codes
  <2>7. ASSUME NEW S \in SUBSET QueueIds, NEW p \in BOOLEAN, QueueCancel(S, p), NEW o \in QueueIds
        PROVE  OwnerKeeps(rec[o], rec'[o])
    <3>1. ASSUME NEW r \in Record PROVE OwnerKeeps(r, CancelRecord(r, p))
      BY DEF Record, CancelRecord, resolve
    <3>2. rec'[o] = rec[o] \/ rec'[o] = CancelRecord(rec[o], p)
      BY <2>7 DEF QueueCancel
    <3> HIDE DEF OwnerKeeps
    <3> QED BY <2>0, <2>1, <3>1, <3>2
  <2> QED BY <2>3, <2>4, <2>5, <2>6, <2>7, Zenon DEF Owner
\* With journals and wires left alone, every wire keeps.
<1>WireSame. ASSUME UNCHANGED <<journal, order>> PROVE WireKeeps
  BY <1>WireSame, Zenon DEF WireKeeps, Framed
\* A step that only rewrites records, with the executor between two records.
<1>IdleStep. ASSUME IInv, TypeOK', pc' \notin Working, todo' \subseteq todo, UNCHANGED <<journal, order>>,
                    \A q \in QueueIds : Honest(rec[q], rec'[q])
             PROVE  IInv'
  <2> USE <1>IdleStep
  <2>1. TypeOK /\ TodoOK /\ RecordsOK /\ AttemptsOK
    BY InvParts, Zenon
  <2>2. RecordsOK' /\ AttemptsOK'
    BY <2>1, RewriteStep, Zenon
  <2>3. TodoOK'
    BY <2>1 DEF TodoOK, Honest, TypeOK
  <2>4. CursorOK'
    BY Zenon DEF CursorOK, Working, InSend
  <2> QED BY <2>2, <2>3, <2>4, Zenon DEF IInv, TodoOK, RecordsOK, AttemptsOK
\* Owner actions preserve the invariant.
<1>OwnerStep. ASSUME IInv, Owner PROVE IInv'
  <2> USE <1>OwnerStep
  <2>1. TypeOK /\ CursorOK /\ TodoOK /\ RecordsOK /\ AttemptsOK
    BY InvParts
  <2>2. TypeOK'
    BY InvParts, TypeStep DEF Next, Executor, Faults
  <2>3. UNCHANGED <<account, journal, order, execVars>>
    BY ZenonT(30) DEF Owner, QueuePrepare, QueueArmCheck, QueueArm, expireUnarmed, QueueCancel, envVars
  <2>4. \A q \in QueueIds : Honest(rec[q], rec'[q]) /\ OwnerKeeps(rec[q], rec'[q])
    BY <2>1, OwnerHonest, <1>OwnerKeepsCursor
  <2>5. RecordsOK' /\ AttemptsOK'
    BY <2>1, <2>2, <2>3, <2>4, RewriteStep, Zenon
  <2>6. TodoOK'
    BY <2>1, <2>3, <2>4, Zenon DEF TodoOK, Honest, TypeOK, execVars
  <2>7. CursorOK'
    BY <2>1, <2>3, <2>4, <1>CursorKept, <1>WireSame, Zenon
  <2> QED BY <2>2, <2>5, <2>6, <2>7, Zenon DEF IInv, TodoOK, RecordsOK, AttemptsOK
\* The clock, the controls, the feed and the broker preserve the invariant.
<1>WorldStep. ASSUME IInv, World \/ Tick PROVE IInv'
  <2> USE <1>WorldStep
  <2>1. TypeOK /\ CursorOK /\ TodoOK /\ RecordsOK /\ AttemptsOK
    BY InvParts
  <2>2. TypeOK'
    BY InvParts, TypeStep DEF Next, Executor, Faults
  <2>3. WireKeeps /\ JournalKeeps /\ UNCHANGED <<rec, todo, account, execVars>>
    BY <2>1, WorldWire, Zenon
  <2>4. \A q \in QueueIds : OwnerKeeps(rec[q], rec'[q])
    BY <2>3 DEF OwnerKeeps
  <2>5. RecordsOK' /\ AttemptsOK'
    BY <2>1, <2>3, WireStep
  <2>6. CursorOK'
    BY <2>1, <2>3, <2>4, <1>CursorKept, Zenon
  <2>7. TodoOK'
    BY <2>1, <2>3 DEF TodoOK
  <2> QED BY <2>2, <2>5, <2>6, <2>7, Zenon DEF IInv, TodoOK, RecordsOK, AttemptsOK
\* The housekeeping passes preserve the invariant.
<1>HousekeepingStep. ASSUME IInv,
                            \/ endUnreadableQueued \/ recoverQueuedAfterRestart \/ endFlatProtectionQueues
                            \/ expireQueued \/ followQueuedSent \/ HousekeepingFails
                     PROVE  IInv'
  <2> USE <1>HousekeepingStep
  <2>1. TypeOK /\ RecordsOK /\ AttemptsOK
    BY InvParts
  <2>2. TypeOK'
    BY InvParts, TypeStep, Zenon DEF Next, Executor, Faults
  <2>3. pc' \notin Working /\ UNCHANGED <<todo, journal, order>>
    BY DEF endUnreadableQueued, recoverQueuedAfterRestart, endFlatProtectionQueues, expireQueued, followQueuedSent,
           HousekeepingFails, HousekeepingKeeps, Step, Working, InSend
  <2>4. \A q \in QueueIds : Honest(rec[q], rec'[q])
    <3>1. CASE HousekeepingFails
      BY <2>1, <3>1, RewritesHonest, Zenon DEF HousekeepingFails, TypeOK, RecordsOK
    <3>2. CASE ~HousekeepingFails
      BY <2>1, <3>2, HousekeepingHonest
    <3> QED BY <3>1, <3>2
  <2> QED BY <2>2, <2>3, <2>4, <1>IdleStep
\* Listing the due records and ending a cycle preserve the invariant.
<1>CycleStep. ASSUME IInv, runQueuedCycle \/ EndCycle \/ ExecuteFault PROVE IInv'
  <2> USE <1>CycleStep
  <2>1. TypeOK /\ RecordsOK /\ AttemptsOK /\ TodoOK
    BY InvParts
  <2>2. TypeOK'
    BY InvParts, TypeStep DEF Next, Executor, Faults
  <2>3. UNCHANGED <<rec, journal, order>> /\ pc' \notin Working
    BY DEF runQueuedCycle, EndCycle, ExecuteFault, Step, Working, InSend
  <2>4. TodoOK'
    BY <2>1, <2>3, Zenon DEF runQueuedCycle, EndCycle, ExecuteFault, TodoOK, waiting
  <2>5. WireKeeps /\ JournalKeeps
    BY <2>3, <1>WireSame DEF JournalKeeps
  <2>6. RecordsOK' /\ AttemptsOK'
    BY <2>1, <2>3, <2>5, WireStep
  <2>7. CursorOK'
    BY <2>3, Zenon DEF CursorOK, Working, InSend
  <2> QED BY <2>2, <2>4, <2>6, <2>7, Zenon DEF IInv, TodoOK, RecordsOK, AttemptsOK
\* A crash anywhere, in the middle of a send included, preserves the invariant.
<1>RestartStep. ASSUME IInv, Restart PROVE IInv'
  <2> USE <1>RestartStep
  <2>1. TypeOK /\ RecordsOK
    BY InvParts
  <2>2. TypeOK'
    BY InvParts, TypeStep DEF Next, Executor, Faults
  <2>3. pc' \notin Working /\ todo' \subseteq todo /\ UNCHANGED <<journal, order>>
    BY Zenon DEF Restart, Working, InSend
  <2>4. PICK B : rec' = [q \in QueueIds |-> [rec[q] EXCEPT !.bad = q \in B, !.own = FALSE]]
    BY Zenon DEF Restart
  <2>5. ASSUME NEW q \in QueueIds PROVE Honest(rec[q], rec'[q])
    <3>1. rec[q] \in Record /\ RecordOK(rec[q])
      BY <2>1 DEF TypeOK, RecordsOK
    <3>2. \A b : Honest(rec[q], [rec[q] EXCEPT !.bad = b, !.own = FALSE])
      BY <3>1, RewritesHonest, Zenon
    <3> QED BY <2>4, <3>2, Zenon
  <2> QED BY <2>2, <2>3, <2>5, <1>IdleStep
\* An intent is staged: the record names a token nobody used before.
<1>StagePreserves. ASSUME IInv, TypeOK', StageStep PROVE IInv'
  <2> USE <1>StagePreserves
  <2>1. TypeOK /\ CursorOK /\ TodoOK /\ RecordsOK /\ AttemptsOK
    BY InvParts, Zenon
  <2> DEFINE r == rec[cur]
             s == [r EXCEPT !.state = "sending", !.attempt = att, !.qty = bind.qty, !.at = now, !.own = TRUE]
  <2>2. /\ cur \in QueueIds /\ att \in Attempts /\ r.attempt = NoAttempt /\ order[att].by = NoQueue
        /\ QuantityOK(r) /\ BoundOK(r) /\ account = AccountOf[r.line] /\ waiting(r) /\ ~r.bad
    BY <2>1 DEF StageStep, CursorOK, Working, InSend
  <2>3. r \in Record /\ RecordOK(r) /\ rec \in [QueueIds -> Record]
    BY <2>1, <2>2, Zenon DEF TypeOK, RecordsOK
  <2>4. rec' = [rec EXCEPT ![cur] = s] /\ UNCHANGED <<account, journal, todo, cur, att, bind>>
    BY <2>2, <2>3, Zenon DEF StageStep, envVars
  <2>5. /\ order'[att].by = cur /\ order'[att].qty = bind.qty
        /\ \A a \in Attempts : order'[a].wire = order[a].wire
        /\ \A a \in Attempts \ {att} : order'[a].by = order[a].by
    BY <2>1, <2>2, ZenonT(30) DEF StageStep, TypeOK
  <2>6. ~r.cancel /\ ~r.ended /\ ~r.accepted
    BY <2>2, <2>3 DEF RecordOK, SaysSent, AttemptFramed, waiting, final, FinalStates, Record
  <2>7. /\ s.state = "sending" /\ s.attempt = att /\ ~s.cancel /\ ~s.ended /\ ~s.accepted /\ ~s.bad
        /\ s.kind = r.kind /\ s.max = r.max /\ s.line = r.line
    BY <2>2, <2>3, <2>6 DEF Record
  <2> HIDE DEF s
  <2>8. \A a \in Attempts : Framed(a)' <=> Framed(a)
    BY <2>5, Zenon DEF Framed
  <2>9. /\ \A q \in QueueIds \ {cur} : rec'[q] = rec[q]
        /\ rec'[cur] = s
    BY <2>2, <2>3, <2>4
  <2>10. ~Framed(att) /\ journal[att] = <<>>
    BY <2>1, <2>2, Zenon DEF AttemptsOK, AttemptOK
  <2>11. att # NoAttempt /\ cur # NoQueue
    BY <2>2, QueueAssumption, Zenon DEF QueueAssumption
  <2>12. RecordsOK'
    <3> SUFFICES ASSUME NEW q \in QueueIds
                 PROVE  RecordOK(rec[q])' /\ (rec'[q].attempt # NoAttempt => order'[rec'[q].attempt].by = q)
      BY DEF RecordsOK
    <3>1. CASE q = cur
      <4>1. RecordOK(rec[q])'
        BY <2>7, <2>9, <2>11, <3>1, Zenon DEF RecordOK, SaysSent, SaysUnsent, final, FinalStates, ownerQueueProtection
      <4> QED BY <2>5, <2>7, <2>9, <3>1, <4>1, Zenon
    <3>2. CASE q # cur
      <4>1. rec'[q] = rec[q] /\ RecordOK(rec[q]) /\ (rec[q].attempt # NoAttempt => order[rec[q].attempt].by = q)
        BY <2>1, <2>9, <3>2, Zenon DEF RecordsOK
      <4>2. rec[q].attempt \in Attempts \cup {NoAttempt}
        BY <2>1 DEF TypeOK, Record
      <4>3. AttemptFramed(rec[q])' <=> AttemptFramed(rec[q])
        BY <2>8, <4>1, <4>2, Zenon DEF AttemptFramed
      <4>4. RecordOK(rec[q])'
        BY <4>1, <4>3 DEF RecordOK, SaysSent, SaysUnsent, final, ownerQueueProtection
      <4>5. rec[q].attempt # att
        BY <2>2, <2>11, <4>1, QueueAssumption, Zenon DEF QueueAssumption
      <4> QED BY <2>5, <4>1, <4>2, <4>4, <4>5, Zenon
    <3> QED BY <3>1, <3>2
  <2>13. AttemptsOK'
    <3> SUFFICES ASSUME NEW a \in Attempts PROVE AttemptOK(a)'
      BY DEF AttemptsOK
    <3>1. AttemptOK(a) /\ journal' = journal
      BY <2>1, <2>4 DEF AttemptsOK
    <3>2. CASE a = att
      BY <2>5, <2>8, <2>10, <2>11, <3>1, <3>2, Zenon DEF AttemptOK, JournalOK
    <3>3. CASE a # att
      <4>1. Framed(a) => order[a].by \in QueueIds \ {cur}
        BY <2>1, <2>2, <3>1, QueueAssumption, Zenon DEF QueueAssumption, AttemptOK, TypeOK
      <4> QED BY <2>5, <2>8, <2>9, <3>1, <3>3, <4>1, Zenon DEF AttemptOK, JournalOK
    <3> QED BY <3>2, <3>3
  <2>14. TodoOK'
    BY <2>1, <2>4, <2>7, <2>9, Zenon DEF TodoOK, TypeOK
  <2>15. CursorOK'
    <3>1. QuantityOK(rec[cur])' /\ BoundOK(rec[cur])'
      BY <2>2, <2>4, <2>7, <2>9, Zenon DEF QuantityOK, BoundOK
    <3>2. pc' = "staged"
      BY DEF StageStep
    <3>3. cur' \in QueueIds /\ att' \in Attempts /\ journal'[att'] = <<>> /\ order'[att'].qty = bind'.qty
      BY <2>2, <2>4, <2>5, <2>10, Zenon
    <3>4. /\ rec'[cur'].state = "sending" /\ rec'[cur'].attempt = att' /\ ~rec'[cur'].bad
          /\ account' = AccountOf[rec'[cur'].line]
      BY <2>2, <2>4, <2>7, <2>9, Zenon
    <3>5. ~Framed(att)'
      BY <2>2, <2>4, <2>5, <2>10, Zenon DEF Framed
    <3> QED BY <3>1, <3>2, <3>3, <3>4, <3>5, Zenon DEF CursorOK, Working, InSend, waiting
  <2> QED BY <2>12, <2>13, <2>14, <2>15, Zenon DEF IInv, TodoOK, RecordsOK, AttemptsOK
\* A step of the send that leaves records, wire and journal alone.
<1>QuietStep. ASSUME IInv, TypeOK', CursorOK', todo' \subseteq todo, UNCHANGED <<rec, journal, order>> PROVE IInv'
  <2> USE <1>QuietStep
  <2>1. TypeOK /\ TodoOK /\ RecordsOK /\ AttemptsOK
    BY InvParts
  <2>2. WireKeeps /\ JournalKeeps
    BY <1>WireSame DEF JournalKeeps
  <2>3. RecordsOK' /\ AttemptsOK'
    BY <2>1, <2>2, WireStep
  <2>4. TodoOK'
    BY <2>1, Zenon DEF TodoOK
  <2> QED BY <2>3, <2>4, Zenon DEF IInv, TodoOK, RecordsOK, AttemptsOK
\* A refusal before staging preserves the invariant.
<1>RefusePreserves. ASSUME IInv, TypeOK', pc \in Working \ InSend, NEW V, Refuse(V) PROVE IInv'
  <2> USE <1>RefusePreserves
  <2>1. TypeOK /\ CursorOK /\ RecordsOK
    BY InvParts
  <2>2. \A o \in QueueIds : Honest(rec[o], rec'[o])
    BY <2>1, RefuseHonest
  <2>3. pc' \notin Working /\ UNCHANGED <<todo, journal, order>>
    BY DEF Refuse, Done, Working, InSend
  <2> QED BY <2>2, <2>3, <1>IdleStep, Zenon
\* executeQueued preserves the invariant.
<1>ExecuteStep. ASSUME IInv, NEW q \in QueueIds, executeQueued(q) PROVE IInv'
  <2> USE <1>ExecuteStep
  <2>1. TypeOK /\ CursorOK /\ TodoOK /\ RecordsOK
    BY InvParts
  <2>2. TypeOK'
    BY InvParts, TypeStep DEF Next, Executor, Faults
  <2>3. PICK v \in executeVerdicts(rec[q]) : /\ Apply(q, v)
                                             /\ pc' = IF v = "go" THEN "locked" ELSE pc
                                             /\ cur' = IF v = "go" THEN q ELSE cur
    BY DEF executeQueued
  <2>4. pc = "execute" /\ q \in todo /\ todo' \subseteq todo /\ UNCHANGED <<account, journal, order>>
    BY DEF executeQueued, envVars
  <2>5. CASE v # "go"
    <3>1. \A o \in QueueIds : Honest(rec[o], rec'[o])
      <4>1. StageStep \/ \A o \in QueueIds : Honest(rec[o], rec'[o])
        BY SendHonest
      <4> QED BY <2>4, <4>1 DEF StageStep
    <3>2. pc' \notin Working
      BY <2>3, <2>4, <2>5 DEF Working, InSend
    <3> QED BY <2>2, <2>4, <3>1, <3>2, <1>IdleStep
  <2>6. CASE v = "go"
    <3>1. rec' = rec
      BY <2>3, <2>6, Zenon DEF Apply
    <3>2. rec[q].state # "none" /\ RecordOK(rec[q]) /\ rec[q].kind \in {"rule", "exact", "stop"}
      BY <2>1, <2>4 DEF TodoOK, RecordsOK, TypeOK, Record
    <3>3. account = AccountOf[rec[q].line] /\ (waiting(rec[q]) => rec[q].attempt = NoAttempt)
      BY <2>3, <2>6, <3>2, Zenon DEF executeVerdicts, settleQueuedRefusal, RecordOK, waiting, ownerQueueProtection
    <3>4. CursorOK'
      BY <2>3, <2>4, <2>6, <3>1, <3>2, <3>3, Zenon DEF CursorOK, Working, InSend, waiting
    <3> QED BY <2>2, <2>4, <3>1, <3>4, <1>QuietStep
  <2> QED BY <2>5, <2>6
\* sendQueued, previewOrder and a refusal that cannot be stored preserve the invariant.
<1>SendStep. ASSUME IInv, sendQueued \/ (\E a \in Attempts : previewOrder(a)) \/ beforePlace \/ RefusalFault PROVE IInv'
  <2> USE <1>SendStep
  <2>1. TypeOK /\ CursorOK /\ RecordsOK
    BY InvParts
  <2>2. TypeOK'
    BY InvParts, TypeStep DEF Next, Executor, Faults
  <2>3. pc \in {"locked", "preview", "staging"} => pc \in Working \ InSend /\ pc \in Working
    BY DEF Working, InSend
  <2>4. CASE sendQueued
    <3>1. CASE \E V : Refuse(V)
      BY <2>2, <2>3, <2>4, <3>1, <1>RefusePreserves DEF sendQueued
    <3>2. ASSUME NEW n \in SendQuantities(rec[cur]), bind' = [bind EXCEPT !.qty = n], pc' = "preview",
                 UNCHANGED <<envVars, rec, arming, journal, order, todo, cur, att, res>>
          PROVE  IInv'
      <4>1. cur \in QueueIds /\ rec[cur].state # "none" /\ account = AccountOf[rec[cur].line]
            /\ (waiting(rec[cur]) => rec[cur].attempt = NoAttempt)
        BY <2>1, <2>3, <2>4 DEF CursorOK, sendQueued
      <4>2. rec[cur].kind \in {"rule", "exact", "stop"} /\ bind'.qty = n
        BY <2>1, <3>2, <4>1, Zenon DEF TypeOK, Record
      <4>3. QuantityOK(rec[cur])'
        BY <3>2, <4>2, Zenon DEF QuantityOK, SendQuantities
      <4>4. CursorOK'
        BY <3>2, <4>1, <4>3 DEF CursorOK, Working, InSend, waiting, envVars
      <4> QED BY <2>2, <3>2, <4>4, <1>QuietStep
    <3> QED BY <2>4, <3>1, <3>2 DEF sendQueued
  <2>5. ASSUME NEW a \in Attempts, previewOrder(a) PROVE IInv'
    <3>1. CASE \E V : Refuse(V)
      BY <2>2, <2>3, <2>5, <3>1, <1>RefusePreserves DEF previewOrder
    <3>2. CASE /\ order[a].by = NoQueue
               /\ rec[cur].kind = "rule" => bind.qty <= position[rec[cur].line]
               /\ rec[cur].kind = "stop" => bind.qty = position[rec[cur].line]
               /\ att' = a /\ bind' = [bind EXCEPT !.pos = position[rec[cur].line], !.gen = gen] /\ pc' = "staging"
               /\ UNCHANGED <<envVars, rec, arming, journal, order, todo, cur, res>>
      <4>1. cur \in QueueIds /\ rec[cur].state # "none" /\ account = AccountOf[rec[cur].line]
            /\ (waiting(rec[cur]) => rec[cur].attempt = NoAttempt) /\ QuantityOK(rec[cur])
        BY <2>1, <2>3, <2>5 DEF CursorOK, previewOrder
      <4>2. rec[cur].kind \in {"rule", "exact", "stop"} /\ bind'.qty = bind.qty /\ bind'.pos = position[rec[cur].line]
        BY <2>1, <3>2, <4>1, Zenon DEF TypeOK, Record
      <4>3. QuantityOK(rec[cur])' /\ BoundOK(rec[cur])'
        BY <3>2, <4>1, <4>2, Zenon DEF QuantityOK, BoundOK
      <4>4. CursorOK'
        BY <3>2, <4>1, <4>3 DEF CursorOK, Working, InSend, waiting, envVars
      <4> QED BY <2>2, <3>2, <4>4, <1>QuietStep, Zenon
    <3> QED BY <2>5, <3>1, <3>2 DEF previewOrder
  <2>6. CASE beforePlace
    <3>1. (\E V : Refuse(V)) \/ StageStep
      BY <2>6, Zenon DEF beforePlace, StageStep
    <3> QED BY <2>2, <2>3, <2>6, <3>1, <1>RefusePreserves, <1>StagePreserves, Zenon DEF beforePlace
  <2>7. CASE RefusalFault
    <3>1. \A o \in QueueIds : Honest(rec[o], rec'[o])
      <4>1. \E v : Apply(cur, v)
        BY <2>7 DEF RefusalFault
      <4>2. cur \in QueueIds /\ (waiting(rec[cur]) => rec[cur].attempt = NoAttempt)
        BY <2>1, <2>3, <2>7, Zenon DEF RefusalFault, CursorOK
      <4> QED BY <2>1, <4>1, <4>2, ApplyHonest
    <3>2. pc' \notin Working /\ UNCHANGED <<todo, journal, order>>
      BY <2>7 DEF RefusalFault, Done, Working, InSend
    <3> QED BY <2>2, <3>1, <3>2, <1>IdleStep
  <2> QED BY <2>4, <2>5, <2>6, <2>7
\* An event of the attempt under way is journalled; the wire is not touched.
<1>JournalStep. ASSUME IInv, pc \in InSend, UNCHANGED <<rec, order, att>>, JournalOK(att)',
                       \A a \in Attempts \ {att} : journal'[a] = journal[a]
                PROVE  RecordsOK' /\ AttemptsOK'
  <2> USE <1>JournalStep
  <2>1. RecordsOK /\ AttemptsOK
    BY InvParts, Zenon
  <2>2. att \in Attempts /\ order[att].by # NoQueue
    BY Placing
  <2>3. RecordsOK'
    BY <2>1, Zenon DEF RecordsOK, RecordOK, SaysSent, SaysUnsent, AttemptFramed, Framed
  <2>4. ASSUME NEW a \in Attempts PROVE AttemptOK(a)'
    <3>1. AttemptOK(a)
      BY <2>1 DEF AttemptsOK
    <3>2. CASE a = att
      BY <2>2, <3>1, <3>2, Zenon DEF AttemptOK, Framed
    <3>3. CASE a # att
      BY <3>1, <3>3, Zenon DEF AttemptOK, JournalOK, Framed
    <3> QED BY <3>2, <3>3
  <2> QED BY <2>3, <2>4 DEF AttemptsOK
\* Admission and the journalled attempt preserve the invariant.
<1>PlaceStep. ASSUME IInv, placeOrder PROVE IInv'
  <2> USE <1>PlaceStep
  <2>1. TypeOK /\ CursorOK /\ TodoOK /\ RecordsOK /\ AttemptsOK /\ pc = "staged" /\ pc \in InSend /\ pc \in Working
    BY InvParts DEF placeOrder, InSend, Working
  <2>2. TypeOK'
    BY InvParts, TypeStep DEF Next, Executor, Faults
  <2>3. UNCHANGED <<account, rec, order, todo, cur, att>>
    BY DEF placeOrder, Keep
  <2>4. /\ cur \in QueueIds /\ att \in Attempts /\ rec[cur].state = "sending" /\ rec[cur].attempt = att /\ ~rec[cur].bad
        /\ account = AccountOf[rec[cur].line] /\ order[att].qty = bind.qty
        /\ QuantityOK(rec[cur]) /\ BoundOK(rec[cur])
        /\ journal[att] = <<>> /\ ~Framed(att) /\ journal \in [Attempts -> Seq(Event)]
    BY <2>1, Placing, Zenon DEF CursorOK, TypeOK
  <2>5. bind'.qty = bind.qty /\ bind'.pos = bind.pos
    BY <2>1, Zenon DEF placeOrder, TypeOK
  <2>6. QuantityOK(rec[cur])' /\ BoundOK(rec[cur])' /\ ~Framed(att)'
    BY <2>3, <2>4, <2>5, Zenon DEF QuantityOK, BoundOK, Framed
  <2>7. TodoOK'
    BY <2>1, <2>3 DEF TodoOK
  <2>8. CASE pc' = "answered"
    <3>1. UNCHANGED journal /\ res' \in {"error", "frozen"}
      BY <2>8 DEF placeOrder, Refusal
    <3>2. CursorOK'
      BY <2>3, <2>4, <2>5, <2>6, <2>8, <3>1, Zenon DEF CursorOK, Working, InSend
    <3> QED BY <2>2, <2>3, <3>1, <3>2, <1>QuietStep
  <2>9. CASE pc' = "journalled"
    <3>1. journal' = [journal EXCEPT ![att] = Append(@, LocalEvent("attempted"))]
      BY <2>9 DEF placeOrder
    <3>2. journal'[att] = <<LocalEvent("attempted")>> /\ \A a \in Attempts \ {att} : journal'[a] = journal[a]
      BY <2>4, <3>1
    <3>3. JournalOK(att)'
      BY <2>3, <2>6, <3>2, Zenon DEF JournalOK
    <3>4. RecordsOK' /\ AttemptsOK'
      BY <2>1, <2>3, <3>2, <3>3, <1>JournalStep
    <3>5. CursorOK'
      BY <2>3, <2>4, <2>5, <2>6, <2>9, <3>2, Zenon DEF CursorOK, Working, InSend
    <3> QED BY <2>2, <2>7, <3>4, <3>5 DEF IInv, TodoOK, RecordsOK, AttemptsOK
  <2> QED BY <2>8, <2>9 DEF placeOrder
\* The wire guard's first half preserves the invariant.
<1>GuardStep. ASSUME IInv, brokerWireGuard PROVE IInv'
  <2> USE <1>GuardStep
  <2>1. TypeOK /\ CursorOK /\ pc = "journalled" /\ pc \in InSend
    BY InvParts DEF brokerWireGuard, InSend
  <2>2. TypeOK'
    BY InvParts, TypeStep DEF Next, Executor, Faults
  <2>3. UNCHANGED <<account, rec, order, journal, todo, cur, att, bind>>
    BY DEF brokerWireGuard, Keep
  <2>4. pc' \in {"refused", "guarded"} /\ (pc' = "refused" => res' # "ok")
    BY DEF brokerWireGuard, Refusal
  <2>5. (QuantityOK(rec[cur])' <=> QuantityOK(rec[cur])) /\ (BoundOK(rec[cur])' <=> BoundOK(rec[cur]))
    BY <2>3 DEF QuantityOK, BoundOK
  <2>6. CursorOK'
    BY <2>1, <2>3, <2>4, <2>5, Zenon DEF CursorOK, Working, InSend, waiting, Framed
  <2> QED BY <2>2, <2>3, <2>6, <1>QuietStep
\* Writing the frame preserves the invariant: the attempt had none and its record names it.
<1>SubmitStep. ASSUME IInv, submitBoundConfiguredOrder PROVE IInv'
  <2> USE <1>SubmitStep
  <2>1. TypeOK /\ CursorOK /\ TodoOK /\ RecordsOK /\ AttemptsOK /\ pc = "guarded" /\ pc \in InSend
    BY InvParts DEF submitBoundConfiguredOrder, InSend
  <2>2. TypeOK'
    BY InvParts, TypeStep DEF Next, Executor, Faults
  <2>3. UNCHANGED <<account, rec, journal, todo, cur, att, bind>>
    BY DEF submitBoundConfiguredOrder, Keep
  <2>4. (QuantityOK(rec[cur])' <=> QuantityOK(rec[cur])) /\ (BoundOK(rec[cur])' <=> BoundOK(rec[cur]))
    BY <2>3 DEF QuantityOK, BoundOK
  <2>5. journal[att] = <<LocalEvent("attempted")>> /\ ~Framed(att)
    BY <2>1, Zenon DEF CursorOK
  <2>6. CASE pc' = "refused"
    <3>1. UNCHANGED order /\ res' # "ok"
      BY <2>6 DEF submitBoundConfiguredOrder, Refusal
    <3>2. CursorOK'
      BY <2>1, <2>3, <2>4, <2>6, <3>1, Zenon DEF CursorOK, Working, InSend, Framed
    <3> QED BY <2>2, <2>3, <3>1, <3>2, <1>QuietStep
  <2>7. CASE pc' = "wrote"
    <3>1. order' = [order EXCEPT ![att].wire = "flying"]
      BY <2>7, Zenon DEF submitBoundConfiguredOrder
    <3>2. /\ cur \in QueueIds /\ att \in Attempts /\ att # NoAttempt /\ cur # NoQueue
          /\ rec[cur].state = "sending" /\ rec[cur].attempt = att /\ order[att].by = cur
          /\ \A q \in QueueIds : rec[q].attempt = att => q = cur
      BY <2>1, Placing
    <3>3. /\ Framed(att)' /\ order'[att].by = cur /\ order'[att].qty = order[att].qty
          /\ \A a \in Attempts \ {att} : order'[a] = order[a]
      BY <2>1, <2>3, <3>1, <3>2, Zenon DEF Framed, TypeOK
    <3>4. Has(journal[att], "attempted") /\ ~Has(journal[att], "unsent")
      BY <2>5, LocalTypes DEF Has
    <3>5. ASSUME NEW q \in QueueIds
          PROVE  RecordOK(rec[q])' /\ (rec'[q].attempt # NoAttempt => order'[rec'[q].attempt].by = q)
      <4>1. rec'[q] = rec[q] /\ RecordOK(rec[q]) /\ (rec[q].attempt # NoAttempt => order[rec[q].attempt].by = q)
        BY <2>1, <2>3, Zenon DEF RecordsOK
      <4>2. rec[q].attempt \in Attempts \cup {NoAttempt}
        BY <2>1 DEF TypeOK, Record
      <4>3. CASE q = cur
        BY <2>3, <3>2, <3>3, <4>1, <4>3, Zenon DEF RecordOK, SaysUnsent, AttemptFramed, SaysSent, final,
           ownerQueueProtection
      <4>4. CASE q # cur
        <5>1. rec[q].attempt # att
          BY <3>2, <4>4, Zenon
        <5>2. AttemptFramed(rec[q])' <=> AttemptFramed(rec[q])
          BY <3>3, <4>1, <4>2, <5>1, Zenon DEF AttemptFramed, Framed
        <5> QED BY <3>3, <4>1, <4>2, <5>1, <5>2, Zenon DEF RecordOK, SaysSent, SaysUnsent, final, ownerQueueProtection
      <4> QED BY <4>3, <4>4, Zenon
    <3>6. ASSUME NEW a \in Attempts PROVE AttemptOK(a)'
      <4>1. AttemptOK(a)
        BY <2>1 DEF AttemptsOK
      <4>2. CASE a = att
        BY <2>3, <3>2, <3>3, <3>4, <4>2, Zenon DEF AttemptOK, JournalOK
      <4>3. CASE a # att
        BY <2>3, <3>3, <4>1, <4>3, Zenon DEF AttemptOK, JournalOK, Framed
      <4> QED BY <4>2, <4>3
    <3>7. TodoOK'
      BY <2>1, <2>3 DEF TodoOK
    <3>8. CursorOK'
      BY <2>1, <2>3, <2>4, <2>7, <3>3, Zenon DEF CursorOK, Working, InSend
    <3> QED BY <2>2, <3>5, <3>6, <3>7, <3>8, Zenon DEF IInv, TodoOK
  <2> QED BY <2>6, <2>7 DEF submitBoundConfiguredOrder
\* Appending to a one-element sequence gives a pair.
<1>AppendPair. ASSUME NEW S, NEW x \in S, NEW y \in S PROVE Append(<<x>>, y) = <<x, y>>
  <2> USE <1>AppendPair
  <2> DEFINE u == Append(<<x>>, y)
             v == <<x, y>>
  <2>1. <<x>> \in Seq(S) /\ Len(<<x>>) = 1
    OBVIOUS
  <2>2. u \in Seq(S) /\ Len(u) = 2 /\ u[1] = x /\ u[2] = y
    BY <2>1
  <2>3. v \in Seq(S) /\ Len(v) = 2 /\ v[1] = x /\ v[2] = y
    OBVIOUS
  <2> HIDE DEF u, v
  <2>4. u \in [1..2 -> S] /\ v \in [1..2 -> S]
    BY <2>2, <2>3
  <2>5. \A i \in 1..2 : u[i] = v[i]
    BY <2>2, <2>3
  <2>6. u = v
    BY <2>4, <2>5
  <2> QED BY <2>6 DEF u, v
\* The transport's return: an unsent one only for an attempt without a frame.
<1>AnswerStep. ASSUME IInv, appendOrderSendOutcome \/ AppendFault PROVE IInv'
  <2> USE <1>AnswerStep
  <2>1. TypeOK /\ CursorOK /\ TodoOK /\ RecordsOK /\ AttemptsOK /\ pc \in {"wrote", "refused"} /\ pc \in InSend
    BY InvParts DEF appendOrderSendOutcome, AppendFault, InSend
  <2>2. TypeOK'
    BY InvParts, TypeStep, Zenon DEF Next, Executor, Faults
  <2>3. UNCHANGED <<account, rec, order, todo, cur, att, bind>> /\ pc' = "answered"
    BY DEF appendOrderSendOutcome, AppendFault, Keep
  <2>4. (QuantityOK(rec[cur])' <=> QuantityOK(rec[cur])) /\ (BoundOK(rec[cur])' <=> BoundOK(rec[cur]))
    BY <2>3 DEF QuantityOK, BoundOK
  <2>5. /\ pc = "wrote" => Framed(att) /\ res' \in {"ok", "error"}
        /\ pc = "refused" => ~Framed(att) /\ res' # "ok"
    BY <2>1, Zenon DEF CursorOK, appendOrderSendOutcome, AppendFault
  <2>6. Framed(att)' <=> Framed(att)
    BY <2>3 DEF Framed
  <2>7. CursorOK'
    BY <2>1, <2>3, <2>4, <2>5, <2>6, Zenon DEF CursorOK, Working, InSend
  <2>8. CASE UNCHANGED journal
    BY <2>2, <2>3, <2>7, <2>8, <1>QuietStep
  <2>9. ASSUME NEW t \in {"completed", "uncertain", "unsent"}, t = "unsent" <=> pc = "refused",
               journal' = [journal EXCEPT ![att] = Append(@, LocalEvent(t))]
        PROVE  IInv'
    <3>1. att \in Attempts /\ journal \in [Attempts -> Seq(Event)] /\ LocalEvent(t) \in Event
      BY <2>1, Placing, Zenon DEF TypeOK, LocalEvent, Event, EventTypes, BrokerStatuses
    <3>2. journal'[att] = Append(journal[att], LocalEvent(t)) /\ \A a \in Attempts \ {att} : journal'[a] = journal[a]
      BY <2>9, <3>1, Zenon
    <3>3. JournalOK(att)
      BY <2>1, <3>1 DEF AttemptsOK, AttemptOK
    <3>4. JournalOK(att)'
      <4>1. CASE pc = "wrote"
        <5>1. Has(journal[att], "attempted") /\ ~Has(journal[att], "unsent") /\ t # "unsent"
          BY <2>5, <2>9, <3>3, <4>1, Zenon DEF JournalOK
        <5>2. Has(journal'[att], "attempted") /\ ~Has(journal'[att], "unsent")
          <6>1. LocalEvent(t).type = t
            BY LocalTypes
          <6>2. \A u : Has(Append(journal[att], LocalEvent(t)), u) <=> Has(journal[att], u) \/ LocalEvent(t).type = u
            BY <3>1, AppendHas, Zenon
          <6> QED BY <3>2, <5>1, <6>1, <6>2
        <5> QED BY <2>3, <2>5, <2>6, <4>1, <5>2, Zenon DEF JournalOK
      <4>2. CASE pc = "refused"
        <5>1. journal[att] = <<LocalEvent("attempted")>> /\ t = "unsent"
          BY <2>1, <2>9, <4>2, Zenon DEF CursorOK
        <5>2. journal'[att] = <<LocalEvent("attempted"), LocalEvent("unsent")>>
          <6>1. LocalEvent("attempted") \in Event
            BY DEF LocalEvent, Event, EventTypes, BrokerStatuses
          <6> QED BY <3>1, <3>2, <5>1, <6>1, <1>AppendPair
        <5> QED BY <2>3, <2>5, <2>6, <4>2, <5>2, Zenon DEF JournalOK
      <4> QED BY <2>1, <4>1, <4>2, Zenon
    <3>5. RecordsOK' /\ AttemptsOK'
      BY <2>1, <2>3, <3>2, <3>4, <1>JournalStep, Zenon
    <3>6. TodoOK'
      BY <2>1, <2>3, Zenon DEF TodoOK
    <3> QED BY <2>2, <2>7, <3>5, <3>6, Zenon DEF IInv, TodoOK, RecordsOK, AttemptsOK
  <2>10. UNCHANGED journal \/ \E t \in {"completed", "uncertain", "unsent"} :
            /\ t = "unsent" <=> pc = "refused"
            /\ journal' = [journal EXCEPT ![att] = Append(@, LocalEvent(t))]
    BY DEF appendOrderSendOutcome, AppendFault
  <2> QED BY <2>8, <2>9, <2>10, Zenon
\* Settling a send, or failing to, preserves the invariant.
<1>SettleStep. ASSUME IInv, settleSend \/ SettleFault PROVE IInv'
  <2> USE <1>SettleStep
  <2>1. TypeOK /\ CursorOK
    BY InvParts
  <2>2. TypeOK'
    BY InvParts, TypeStep DEF Next, Executor, Faults
  <2>3. pc' \notin Working /\ UNCHANGED <<todo, journal, order>>
    BY DEF settleSend, SettleFault, Done, Working, InSend
  <2> QED BY <2>2, <2>3, SettleStepHonest, <1>IdleStep
<1>Stutter. ASSUME IInv, UNCHANGED vars PROVE IInv'
  <2>1. UNCHANGED <<now, faults, frozen, gen, account, session, position, rec, arming, journal, order, pc, todo, cur,
                    att, bind, res>>
    BY <1>Stutter, Zenon DEF vars, envVars, execVars
  <2>2. TypeOK'
    BY <1>Stutter, <2>1, Zenon DEF TypeOK, IInv
  <2>3. CursorOK'
    <3>1. (QuantityOK(rec[cur])' <=> QuantityOK(rec[cur])) /\ (BoundOK(rec[cur])' <=> BoundOK(rec[cur]))
      BY <2>1 DEF QuantityOK, BoundOK
    <3> QED BY <1>Stutter, <2>1, <3>1, Zenon DEF CursorOK, IInv, Framed, waiting
  <2> QED BY <1>Stutter, <2>1, <2>2, <2>3, <1>QuietStep, Zenon
<1> QED BY <1>OwnerStep, <1>WorldStep, <1>HousekeepingStep, <1>CycleStep, <1>RestartStep, <1>ExecuteStep, <1>SendStep,
           <1>PlaceStep, <1>GuardStep, <1>SubmitStep, <1>AnswerStep, <1>SettleStep, <1>Stutter, Zenon DEF Next, Executor, Faults

-----------------------------------------------------------------------------
(***************************************************************************)
(* The theorems.                                                           *)
(***************************************************************************)
\* Records, attempts, journal and the executor's place agree in every
\* reachable state (proposal_queue.go, proposal_queue_executor.go).
THEOREM Invariant == Spec => []IInv
BY InvInit, InvStep, PTL DEF Spec

\* Every variable keeps its type, in every action of the queue.
THEOREM TypeCorrect == Spec => []TypeOK
<1>1. IInv => TypeOK
  BY DEF IInv
<1> QED BY Invariant, <1>1, PTL

\* No two frames are ever written for one signature, for any number of
\* records, attempts, faults and restarts (sendQueued, recovery).
THEOREM SentAtMostOnce == Spec => []AtMostOnce
<1>1. IInv => AtMostOnce
  BY Zenon DEF IInv, AtMostOnce, AttemptOK
<1> QED BY Invariant, <1>1, PTL

\* A record whose order is at the broker names it, and a record that says an
\* order was sent names one whose frame was written (settleSend, recovery).
THEOREM RecordsNameTheirOrders == Spec => []BookMatchesWire
<1>1. ASSUME IInv PROVE BookMatchesWire
  <2>1. \A a \in Attempts : Framed(a) => rec[order[a].by].attempt = a
    BY <1>1 DEF IInv, AttemptOK
  <2>2. ASSUME NEW q \in QueueIds, SaysSent(rec[q]) PROVE \E a \in Attempts : rec[q].attempt = a /\ Framed(a)
    <3>1. AttemptFramed(rec[q])
      BY <1>1, <2>2, Zenon DEF IInv, RecordOK
    <3>2. rec[q].attempt \in Attempts \cup {NoAttempt}
      BY <1>1 DEF IInv, TypeOK, Record
    <3> QED BY <3>1, <3>2 DEF AttemptFramed
  <2> QED BY <2>1, <2>2, Zenon DEF BookMatchesWire, SaysSent
<1> QED BY Invariant, <1>1, PTL

\* "Nothing was sent" is the truth of every record cancelled or expired under
\* any code but record_unreadable (QueueCancel, cancelQueued, expireQueued).
THEOREM CancelledMeansUnsent == Spec => []CancelledUnsent
<1>1. ASSUME IInv, NEW a \in Attempts, Framed(a), rec[order[a].by].state \in {"cancelled", "expired"}
      PROVE  rec[order[a].by].code = "record_unreadable"
  <2>1. order[a].by \in QueueIds /\ rec[order[a].by].attempt = a
    BY <1>1, Zenon DEF IInv, AttemptOK, TypeOK
  <2>2. AttemptFramed(rec[order[a].by])
    BY <1>1, <2>1, QueueAssumption, Zenon DEF QueueAssumption, AttemptFramed
  <2> QED BY <1>1, <2>1, <2>2, Zenon DEF IInv, RecordOK, SaysUnsent
<1>2. IInv => CancelledUnsent
  BY <1>1 DEF CancelledUnsent
<1> QED BY Invariant, <1>2, PTL
=============================================================================
