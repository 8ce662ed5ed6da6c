--------------------- MODULE AutomaticSubmissionProofs ---------------------
(***************************************************************************)
(* Automatic submission, for every set of rows, revisions and attempts and *)
(* every failure and crash: one revision becomes at most one broker order, *)
(* what a record says of the wire is so, a line waits at one size, and an  *)
(* order leaves only under the arming its clock ran under and never after  *)
(* a veto.                                                                 *)
(***************************************************************************)
EXTENDS AutomaticSubmission, TLAPS

InFlight == {"preview", "staging", "staged", "journalled", "guarded", "wrote", "refused", "answered"}
Staged == InFlight \ {"preview", "staging"}

\* The positions a reconcile read in the ends are still there.
ViewInv == pc = "update" => \A k \in Keys : view.ended[k] <= Len(resolved[k])

\* What is known of the record under submission at each step of it.
SubmitInv ==
    /\ pc \in InFlight => cur \in Ids
    /\ pc \in {"preview", "staging"} =>
          /\ rec[cur].state \in {"pending", "deferred", "vetoed"}
          /\ waiting(rec[cur]) => rec[cur].arm = grant
    /\ pc = "staging" => att \in Attempts /\ order[att].by = NoRecord
    /\ pc \in Staged =>
          /\ att \in Attempts /\ order[att].by = cur
          /\ rec[cur].state = "submitting" /\ rec[cur].attempt = att /\ rec[cur].arm = grant
    /\ pc = "guarded" => Granted
    /\ pc \in {"staged", "journalled", "guarded", "refused"} => ~order[att].wire
    /\ pc = "wrote" => order[att].wire
    /\ pc = "refused" => res \in {"error", "frozen", "disarmed"}
    /\ pc = "answered" => /\ res \in {"ok", "error", "frozen", "disarmed"}
                          /\ res = "ok" => order[att].wire
                          /\ res \in {"frozen", "disarmed"} => ~order[att].wire

\* A line under submission waits at no other size.
LineInv ==
    /\ OneWaitingPerLine
    /\ pc \in InFlight => \A id \in Ids : id[1] = cur[1] /\ waiting(rec[id]) => id = cur

\* An order at the broker belongs to a record that has left the waiting states
\* for good; while it is being submitted the record names the attempt.
WireInv ==
    /\ \A a \in Attempts : order[a].wire =>
          order[a].by \in Ids /\ rec[order[a].by].state \in {"submitting", "submitted", "failed"}
    /\ \A a \in Attempts : order[a].wire /\ rec[order[a].by].state = "submitting" => rec[order[a].by].attempt = a
    /\ \A id \in Ids : rec[id].state = "submitting" => rec[id].attempt \in Attempts /\ order[rec[id].attempt].by = id
    /\ \A id \in Ids : rec[id].state = "submitted" => \E a \in Attempts : order[a].wire /\ order[a].by = id
    /\ OneOrderPerRevision

\* The journal says that an order reached the broker only if it did.
JournalInv == \A a \in Attempts : \A i \in DOMAIN journal[a] : journal[a][i].type \in ReachedTypes => order[a].wire

-----------------------------------------------------------------------------
(* Types *)

\* The records the code makes have the record's type.
LEMMA ResolveType == \A st \in States : resolve(st) \in Record
BY AutomaticAssumption, Zenon DEF AutomaticAssumption, resolve, EmptyRecord, Record

\* A superseded record that keeps its clock is a record.
LEMMA CarryingType ==
    ASSUME now \in Nat, NEW r \in Record, NEW arming \in Nat
    PROVE  ResolveCarrying(r, arming) \in Record
BY Zenon DEF ResolveCarrying, Record, States, Terminal

\* settleSubmission writes a record, whatever the outcome.
LEMMA OutcomeType ==
    ASSUME now \in Nat, armedAt \in Nat, NEW r \in Record, NEW k, NEW o
    PROVE  outcome(r, k, o) \in Record
<1>1. resolve("submitted") \in Record /\ resolve("superseded") \in Record /\ resolve("failed") \in Record
  BY ResolveType DEF States, Terminal
<1>2. ResolveCarrying(r, armedAt) \in Record
  BY CarryingType
<1>3. now + DeferRetry \in Nat
  BY AutomaticAssumption DEF AutomaticAssumption
<1>4. [r EXCEPT !.state = "deferred", !.resubmitAt = now + DeferRetry, !.attempt = NoAttempt] \in Record
  BY <1>3, Zenon DEF Record, States
<1>5. [r EXCEPT !.state = "pending", !.resubmitAt = now + DeferRetry] \in Record
  BY <1>3, Zenon DEF Record, States
<1> QED
  BY <1>1, <1>2, <1>4, <1>5 DEF outcome

\* Writing one record keeps the types of the records and of the order in which
\* they ended.
LEMMA PutType ==
    ASSUME rec \in [Ids -> Record], resolved \in [Keys -> Seq(Moments)],
           NEW id \in Ids, NEW r \in Record, Put(id, r)
    PROVE  rec' \in [Ids -> Record] /\ resolved' \in [Keys -> Seq(Moments)]
<1>1. id[1] \in Keys /\ id[2] \in Revisions
  BY DEF Ids
<1>2. {id[2]} \in Moments
  BY <1>1, Zenon DEF Moments
<1>3. Append(resolved[id[1]], {id[2]}) \in Seq(Moments)
  BY <1>1, <1>2
<1> QED
  BY <1>1, <1>3 DEF Put

\* The revisions that end together are one moment, or none.
LEMMA MomentType ==
    ASSUME NEW S \in SUBSET Revisions
    PROVE  Moment(S) \in Seq(Moments)
<1>1. CASE S = {}
  BY <1>1 DEF Moment
<1>2. CASE S # {}
  <2>1. S \in Moments
    BY <1>2, Zenon DEF Moments
  <2> QED
    BY <1>2, <2>1 DEF Moment
<1> QED
  BY <1>1, <1>2

\* The ends of one moment between earlier and later ends.
LEMMA EndsType ==
    ASSUME NEW s \in Seq(Moments), NEW m \in 0..Len(s), NEW n \in 1..(Len(s) + 1), NEW S \in SUBSET Revisions
    PROVE  SubSeq(s, 1, m) \o Moment(S) \o SubSeq(s, n, Len(s)) \in Seq(Moments)
<1>1. Moment(S) \in Seq(Moments)
  BY MomentType
<1>2. SubSeq(s, 1, m) \in Seq(Moments)
  OBVIOUS
<1>3. SubSeq(s, n, Len(s)) \in Seq(Moments)
  OBVIOUS
<1> QED
  BY <1>1, <1>2, <1>3

\* Taking a revision out of the moments leaves moments.
LEMMA WithoutType ==
    ASSUME NEW s \in Seq(Moments), NEW v
    PROVE  Without(s, v) \in Seq(Moments)
<1>1. CASE \E i \in DOMAIN s : v \in s[i]
  <2>1. PICK i \in DOMAIN s : Without(s, v) = SubSeq(s, 1, i - 1) \o Moment(s[i] \ {v}) \o SubSeq(s, i + 1, Len(s))
    BY <1>1, Zenon DEF Without
  <2>2. i - 1 \in 0..Len(s) /\ i + 1 \in 1..(Len(s) + 1)
    BY <2>1
  <2>3. s[i] \ {v} \in SUBSET Revisions
    BY <2>1 DEF Moments
  <2> QED
    BY <2>1, <2>2, <2>3, EndsType
<1>2. CASE ~ \E i \in DOMAIN s : v \in s[i]
  BY <1>2 DEF Without
<1> QED
  BY <1>1, <1>2

\* A record created by reconcileAutomatic for a new episode.
LEMMA FreshType ==
    ASSUME now \in Nat, view.armedAt \in Nat, NEW k, NEW v \in Revisions, NEW latched
    PROVE  FreshRecord(k, v, latched) \in Record
<1>1. now + VetoWindow \in Nat /\ Quantity[v] \in Nat
  BY AutomaticAssumption DEF AutomaticAssumption
<1>2. (latched /\ k \notin Mandates) \in BOOLEAN
  OBVIOUS
<1> QED
  BY <1>1, <1>2, AutomaticAssumption DEF AutomaticAssumption, FreshRecord, Record, States

\* A record that takes over the clock of the one before it.
LEMMA CarriedType ==
    ASSUME now \in Nat, NEW r \in Record, NEW prior \in Record
    PROVE  CarriedRecord(r, prior) \in Record
<1> DEFINE paused == IF prior.resolvedAt < prior.submitAt
                     THEN prior.submitAt + (now - prior.resolvedAt) ELSE prior.submitAt
           at == IF paused > now + VetoWindow THEN now + VetoWindow ELSE paused
<1>1. prior.resolvedAt \in Nat /\ prior.submitAt \in Nat /\ VetoWindow \in Nat
  BY AutomaticAssumption DEF AutomaticAssumption, Record
<1>2. at \in Nat
  BY <1>1
<1>3. CarriedRecord(r, prior) = [r EXCEPT !.created = prior.created, !.noticed = prior.noticed, !.size = prior.size,
                                          !.seen = prior.seen, !.submitAt = at]
  BY DEF CarriedRecord
<1> HIDE DEF at
<1> QED
  BY <1>2, <1>3, Zenon DEF Record

\* The fields that time, a notice, a rescheduling and a restart rewrite.
LEMMA UpdateType ==
    ASSUME NEW r \in Record, NEW n \in Nat
    PROVE  /\ [r EXCEPT !.seen = n] \in Record /\ [r EXCEPT !.own = FALSE] \in Record
           /\ [r EXCEPT !.submitAt = n] \in Record /\ [r EXCEPT !.resubmitAt = n] \in Record
           /\ [r EXCEPT !.noticed = TRUE, !.submitAt = n] \in Record
BY Zenon DEF Record

\* A record staged for its order (beforePlace).
LEMMA StagedType ==
    ASSUME NEW r \in Record, NEW a \in Attempts
    PROVE  [r EXCEPT !.state = "submitting", !.attempt = a, !.own = TRUE] \in Record
BY Zenon DEF Record, States

\* A record whose window starts again (restartAutomaticClock).
LEMMA RestartedType ==
    ASSUME NEW r \in Record, NEW n \in Nat, NEW at \in Nat, NEW q \in Nat
    PROVE  [r EXCEPT !.created = n, !.submitAt = at, !.noticed = FALSE, !.size = q, !.seen = 0] \in Record
BY Zenon DEF Record

\* The times of a record are numbers.
LEMMA FieldType ==
    ASSUME NEW r \in Record
    PROVE  r.seen \in Nat /\ r.submitAt \in Nat /\ r.resubmitAt \in Nat /\ r.arm \in Nat
BY DEF Record

\* What is appended to the journal is an event.
LEMMA EventTypesHold ==
    /\ \A t \in EventTypes : LocalEvent(t) \in Event
    /\ \A t \in EventTypes, st \in BrokerStatuses, n \in Nat : BrokerEvent(t, st, n) \in Event
BY DEF LocalEvent, BrokerEvent, Event, BrokerStatuses

\* Appending leaves what was there.
LEMMA AppendFacts ==
    ASSUME NEW S, NEW s \in Seq(S), NEW e \in S, NEW i \in DOMAIN Append(s, e)
    PROVE  (i \in DOMAIN s /\ Append(s, e)[i] = s[i]) \/ Append(s, e)[i] = e
<1>1. i \in 1..(Len(s) + 1)
  OBVIOUS
<1>2. CASE i = Len(s) + 1
  BY <1>2
<1>3. CASE i # Len(s) + 1
  <2>1. i \in 1..Len(s)
    BY <1>1, <1>3
  <2> QED
    BY <2>1
<1> QED
  BY <1>2, <1>3

\* An event appended to the journal of one order.
LEMMA AppendType ==
    ASSUME journal \in [Attempts -> Seq(Event)], NEW a \in Attempts, NEW e \in Event,
           journal' = [journal EXCEPT ![a] = Append(@, e)]
    PROVE  journal' \in [Attempts -> Seq(Event)]
<1>1. Append(journal[a], e) \in Seq(Event)
  OBVIOUS
<1> QED
  BY <1>1

\* A veto names a revision, or none.
LEMMA TargetType ==
    ASSUME TypeOK, NEW k \in Keys, vetoing[k] # NoVeto, NEW v \in VetoTarget(k)
    PROVE  v \in 0..MaxRevision
<1>1. vetoing[k].rev \in 0..MaxRevision /\ vetoing[k].served \in 0..MaxRevision
  BY DEF TypeOK
<1>2. v \in Revisions \cup {vetoing[k].rev, vetoing[k].served}
  BY DEF VetoTarget
<1> QED
  BY <1>1, <1>2, AutomaticAssumption DEF AutomaticAssumption, Revisions

\* The view of a pass before it has read anything.
LEMMA NoViewType == NoView \in [row : [Keys -> Row], armed : BOOLEAN, armedAt : Nat, ended : [Keys -> Nat]]
BY DEF NoView, Row

\* What the scheduler does to everything but the records keeps the types.
LEMMA PlaceKeepsTypes ==
    ASSUME TypeOK, SubmitInv,
           \/ ReconcileRead \/ submitDueAutomatic \/ EndCycle \/ placeOrder \/ brokerWireGuard
           \/ submitBoundConfiguredOrder \/ appendOrderSendOutcome \/ AppendFault \/ SettleFault \/ HousekeepingFails
           \/ \E id \in Ids : holdAutomatic(id) \/ BeginSubmit(id)
           \/ \E a \in Attempts : previewOrder(a)
    PROVE  TypeOK'
<1> USE DEF TypeOK, envVars, execVars, PCs
<1>1. CASE ReconcileRead
  <2>1. Reading \in [row : [Keys -> Row], armed : BOOLEAN, armedAt : Nat, ended : [Keys -> Nat]]
    BY DEF Reading
  <2> QED
    BY <1>1, <2>1 DEF ReconcileRead, Step
<1>2. CASE submitDueAutomatic
  <2>1. view' \in [row : [Keys -> Row], armed : BOOLEAN, armedAt : Nat, ended : [Keys -> Nat]]
    BY <1>2, NoViewType, Zenon DEF submitDueAutomatic, Row
  <2> QED
    BY <1>2, <2>1, Zenon DEF submitDueAutomatic, Step
<1>3. CASE EndCycle
  BY <1>3, NoViewType DEF EndCycle, Step
<1>4. CASE placeOrder
  <2>1. ASSUME Journal("attempted"), att \in Attempts PROVE journal' \in [Attempts -> Seq(Event)]
    BY <2>1, EventTypesHold, AppendType DEF Journal, EventTypes
  <2> QED
    BY <1>4, <2>1 DEF placeOrder, KeepPlace, KeepEnv, Refusal, SubmitInv, Staged, InFlight
<1>5. CASE brokerWireGuard
  BY <1>5 DEF brokerWireGuard, KeepPlace, KeepEnv, Refusal
<1>6. CASE submitBoundConfiguredOrder
  <2>1. order' \in [Attempts -> [by : Ids \cup {NoRecord}, wire : BOOLEAN]]
    <3>1. att \in Attempts
      BY <1>6 DEF submitBoundConfiguredOrder, SubmitInv, Staged, InFlight
    <3>2. CASE UNCHANGED order
      BY <3>2
    <3>3. CASE order' = [order EXCEPT ![att].wire = TRUE]
      BY <3>1, <3>3, Zenon
    <3> QED
      BY <1>6, <3>2, <3>3 DEF submitBoundConfiguredOrder
  <2>2. res' \in {"none", "ok", "error", "frozen", "disarmed"}
    BY <1>6 DEF submitBoundConfiguredOrder, Refusal
  <2> QED
    BY <1>6, <2>1, <2>2 DEF submitBoundConfiguredOrder, KeepPlace, KeepEnv
<1>7. CASE appendOrderSendOutcome
  <2>1. ASSUME NEW t \in {"completed", "uncertain", "unsent"}, Journal(t), att \in Attempts
        PROVE  journal' \in [Attempts -> Seq(Event)]
    BY <2>1, EventTypesHold, AppendType DEF Journal, EventTypes
  <2> QED
    BY <1>7, <2>1 DEF appendOrderSendOutcome, KeepPlace, KeepEnv, SubmitInv, Staged, InFlight
<1>8. CASE AppendFault
  BY <1>8 DEF AppendFault, Fault
<1>9. CASE SettleFault
  BY <1>9 DEF SettleFault, Fault, Done
<1>10. CASE HousekeepingFails
  BY <1>10, NoViewType DEF HousekeepingFails, Fault, Step
<1>11. ASSUME NEW id \in Ids, holdAutomatic(id) PROVE TypeOK'
  BY <1>11 DEF holdAutomatic, Next1, KeepDue
<1>12. ASSUME NEW id \in Ids, BeginSubmit(id) PROVE TypeOK'
  <2>1. rec[id].arm \in Nat
    BY DEF Record
  <2> QED
    BY <1>12, <2>1 DEF BeginSubmit
<1>13. ASSUME NEW a \in Attempts, previewOrder(a) PROVE TypeOK'
  BY <1>13, Zenon DEF previewOrder, Step, KeepEnv
<1> QED
  BY <1>1, <1>2, <1>3, <1>4, <1>5, <1>6, <1>7, <1>8, <1>9, <1>10, <1>11, <1>12, <1>13, Zenon

\* So does what the owner, the broker and the clock do.
LEMMA WorldKeepsTypes ==
    ASSUME TypeOK, Owner \/ World \/ Restart \/ Tick
    PROVE  TypeOK'
<1> USE DEF TypeOK, envVars, execVars, PCs, others
<1>1. CASE Arm
  BY <1>1 DEF Arm, Act
<1>2. CASE Disarm
  <2>1. acts' \in Nat
    BY <1>2 DEF Disarm, Act
  <2>2. armed' \in BOOLEAN
    BY <1>2, Zenon DEF Disarm
  <2> QED
    BY <1>2, <2>1, <2>2 DEF Disarm
<1>3. CASE SetFrozen
  BY <1>3 DEF SetFrozen, Act
<1>4. ASSUME NEW k \in Keys, NEW v \in 0..MaxRevision, VetoRead(k, v) PROVE TypeOK'
  <2>1. row[k].rev \in 0..MaxRevision
    BY AutomaticAssumption DEF AutomaticAssumption, Row, NoRow, Revisions
  <2> QED
    BY <1>4, <2>1 DEF VetoRead, Act
<1>5. ASSUME NEW k \in Keys, Veto(k) PROVE TypeOK'
  <2>1. PICK v \in VetoTarget(k) : IF v = 0 THEN UNCHANGED <<rec, resolved>>
                                   ELSE Put(<<k, v>>, Vetoed(rec[<<k, v>>], k, v))
    BY <1>5, Zenon DEF Veto
  <2>2. v \in 0..MaxRevision
    BY <1>5, TargetType DEF Veto
  <2>3. rec' \in [Ids -> Record] /\ resolved' \in [Keys -> Seq(Moments)]
    <3>1. CASE v = 0
      BY <2>1, <3>1
    <3>2. CASE v # 0
      <4>1. <<k, v>> \in Ids
        BY <2>2, <3>2, AutomaticAssumption DEF AutomaticAssumption, Ids, Revisions
      <4>2. Vetoed(rec[<<k, v>>], k, v) \in Record
        BY <4>1, ResolveType DEF Vetoed, States, Terminal
      <4> QED
        BY <2>1, <3>2, <4>1, <4>2, PutType
    <3> QED
      BY <3>1, <3>2
  <2>4. vetoing' \in [Keys -> {NoVeto} \cup [rev : 0..MaxRevision, served : 0..MaxRevision, allowed : BOOLEAN]]
    BY <1>5 DEF Veto
  <2> QED
    BY <1>5, <2>3, <2>4 DEF Veto
<1>6. ASSUME NEW k \in Keys, NEW w \in Row, Refresh(k, w) PROVE TypeOK'
  BY <1>6 DEF Refresh, Act
<1>7. ASSUME NEW id \in Ids, markAutomaticNoticed(id) PROVE TypeOK'
  <2> DEFINE from == IF rec[id].skip \/ rec[id].submitAt > now + VetoWindow
                     THEN rec[id].submitAt ELSE now + VetoWindow
  <2>1. from \in Nat
    BY FieldType, AutomaticAssumption DEF AutomaticAssumption
  <2>2. rec' = [rec EXCEPT ![id] = [rec[id] EXCEPT !.noticed = TRUE, !.submitAt = from]]
    BY <1>7, Zenon DEF markAutomaticNoticed, Record
  <2> HIDE DEF from
  <2>3. rec' \in [Ids -> Record]
    BY <2>1, <2>2, UpdateType, Zenon
  <2> QED
    BY <1>7, <2>3 DEF markAutomaticNoticed
<1>8. ASSUME NEW a \in Attempts, Callback(a) PROVE TypeOK'
  <2>1. journal' \in [Attempts -> Seq(Event)]
    <3>1. PICK e \in Event : journal' = [journal EXCEPT ![a] = Append(@, e)]
      BY <1>8, EventTypesHold, Zenon DEF Callback, EventTypes, BrokerStatuses
    <3> QED
      BY <3>1, AppendType
  <2> QED
    BY <1>8, <2>1 DEF Callback
<1>9. CASE Restart
  <2>1. rec' \in [Ids -> Record]
    BY <1>9, UpdateType, Zenon DEF Restart
  <2> QED
    BY <1>9, <2>1, NoViewType DEF Restart, Fault
<1>10. CASE Tick
  <2>1. ASSUME NEW id \in Ids
        PROVE  rec[id] \in Record /\ [rec[id] EXCEPT !.seen = 0] \in Record
               /\ [rec[id] EXCEPT !.seen = rec[id].seen + 1] \in Record
    <3>1. rec[id] \in Record /\ rec[id].seen + 1 \in Nat
      BY FieldType
    <3> QED
      BY <3>1, UpdateType, Zenon
  <2>2. rec' \in [Ids -> Record]
    BY <1>10, <2>1, Zenon DEF Tick
  <2>3. opened' \in Nat /\ acts' \in Nat /\ now' \in Nat
    BY <1>10 DEF Tick, Act
  <2>4. open' \in BOOLEAN
    BY <1>10, Zenon DEF Tick
  <2>5. /\ faults' = faults /\ frozen' = frozen /\ armed' = armed /\ armedAt' = armedAt /\ row' = row
        /\ resolved' = resolved /\ vetoing' = vetoing /\ journal' = journal /\ order' = order
        /\ pc' = pc /\ view' = view /\ todo' = todo /\ cur' = cur /\ att' = att /\ grant' = grant /\ res' = res
    BY <1>10, Zenon DEF Tick
  <2> QED
    BY <2>2, <2>3, <2>4, <2>5
<1> QED
  BY <1>1, <1>2, <1>3, <1>4, <1>5, <1>6, <1>7, <1>8, <1>9, <1>10, Zenon DEF Owner, World

\* The steps that settle a submission keep the types.
LEMMA SettleKeepsTypes ==
    ASSUME TypeOK, SubmitInv, RefuseUnstaged \/ beforePlace \/ StoreFault \/ settleSubmission
    PROVE  TypeOK'
<1> USE DEF TypeOK, envVars, PCs, KeepEnv
<1>1. pc \in InFlight /\ cur \in Ids
  BY DEF RefuseUnstaged, beforePlace, StoreFault, Done, SettleAs, settleSubmission, SubmitInv, InFlight
<1>2. ASSUME NEW o, SettleAs(o) PROVE rec' \in [Ids -> Record] /\ resolved' \in [Keys -> Seq(Moments)]
  BY <1>1, <1>2, OutcomeType, PutType DEF SettleAs
<1>3. CASE RefuseUnstaged
  BY <1>2, <1>3 DEF RefuseUnstaged, SettleAs, Done
<1>4. CASE settleSubmission
  BY <1>2, <1>4 DEF settleSubmission, SettleAs, Done
<1>5. CASE StoreFault
  <2>1. rec' \in [Ids -> Record] /\ resolved' \in [Keys -> Seq(Moments)]
    BY <1>2, <1>5 DEF StoreFault
  <2> QED
    BY <1>5, <2>1 DEF StoreFault, SettleAs, Done, Fault
<1>6. CASE beforePlace
  <2>1. CASE waiting(rec[cur])
    <3>1. att \in Attempts
      BY <1>6 DEF beforePlace, SubmitInv
    <3>2. [rec[cur] EXCEPT !.state = "submitting", !.attempt = att, !.own = TRUE] \in Record
      BY <1>1, <3>1, StagedType, Zenon
    <3>3. rec' = [rec EXCEPT ![cur] = [rec[cur] EXCEPT !.state = "submitting", !.attempt = att, !.own = TRUE]]
      BY <1>1, <1>6, <2>1, Zenon DEF beforePlace, Record
    <3>4. rec' \in [Ids -> Record]
      BY <3>2, <3>3, Zenon
    <3>5. order' \in [Attempts -> [by : Ids \cup {NoRecord}, wire : BOOLEAN]]
      <4>1. order' = [order EXCEPT ![att].by = cur]
        BY <1>6, <2>1 DEF beforePlace
      <4> QED
        BY <1>1, <3>1, <4>1, Zenon
    <3> QED
      BY <1>6, <2>1, <3>4, <3>5 DEF beforePlace
  <2>2. CASE ~waiting(rec[cur])
    BY <1>2, <1>6, <2>2 DEF beforePlace, SettleAs, Done
  <2> QED
    BY <2>1, <2>2, Zenon
<1> QED
  BY <1>3, <1>4, <1>5, <1>6, Zenon

\* The steps that move the clock of a due record keep the types.
LEMMA PassKeepsTypes ==
    ASSUME TypeOK, NEW id \in Ids, rescheduleAutomatic(id) \/ restartAutomaticClock(id)
    PROVE  TypeOK'
<1> USE DEF TypeOK, envVars, PCs, KeepDue, Next1
<1>1. CASE rescheduleAutomatic(id)
  <2> DEFINE Later(t) == IF t > now THEN t ELSE now + 1
             r == rec[id]
             s == CASE r.state = "deferred" -> [r EXCEPT !.resubmitAt = Later(@)]
                    [] r.state = "pending"  -> [r EXCEPT !.submitAt = Later(@)]
                    [] OTHER -> r
  <2>1. Later(r.resubmitAt) \in Nat /\ Later(r.submitAt) \in Nat
    BY FieldType
  <2>2. s \in Record
    <3> HIDE DEF Later
    <3> QED
      BY <2>1, UpdateType, Zenon
  <2>3. Put(id, s)
    BY <1>1 DEF rescheduleAutomatic
  <2> HIDE DEF s
  <2>4. rec' \in [Ids -> Record] /\ resolved' \in [Keys -> Seq(Moments)]
    BY <2>2, <2>3, PutType
  <2> QED
    BY <1>1, <2>4 DEF rescheduleAutomatic
<1>2. CASE restartAutomaticClock(id)
  <2>1. PICK delay \in SessionDelays :
          Put(id, IF ~waiting(rec[id]) THEN rec[id]
                  ELSE [rec[id] EXCEPT !.created = now, !.submitAt = automaticSessionDue(id[1], now + VetoWindow, delay),
                                       !.noticed = FALSE, !.size = Quantity[id[2]], !.seen = 0])
    BY <1>2, Zenon DEF restartAutomaticClock
  <2>2. automaticSessionDue(id[1], now + VetoWindow, delay) \in Nat /\ Quantity[id[2]] \in Nat
    BY AutomaticAssumption DEF AutomaticAssumption, automaticSessionDue, Ids
  <2>3. [rec[id] EXCEPT !.created = now, !.submitAt = automaticSessionDue(id[1], now + VetoWindow, delay),
                        !.noticed = FALSE, !.size = Quantity[id[2]], !.seen = 0] \in Record
    BY <2>2, RestartedType, Zenon
  <2>4. rec' \in [Ids -> Record] /\ resolved' \in [Keys -> Seq(Moments)]
    BY <2>1, <2>3, PutType, Zenon
  <2> QED
    BY <1>2, <2>4, Zenon DEF restartAutomaticClock
<1> QED
  BY <1>1, <1>2, Zenon

\* Recovery after a restart keeps the types.
LEMMA RecoverKeepsTypes ==
    ASSUME TypeOK, recoverAutomaticAfterRestart
    PROVE  TypeOK'
<1> USE DEF TypeOK, envVars, PCs
<1>1. rec' \in [Ids -> Record]
  BY ResolveType DEF recoverAutomaticAfterRestart, automaticRestartOutcome, States, Terminal
<1>2. ASSUME NEW k \in Keys
      PROVE  resolved[k] \o Moment({v \in Revisions : Stuck(rec[<<k, v>>])}) \in Seq(Moments)
  <2>1. Moment({v \in Revisions : Stuck(rec[<<k, v>>])}) \in Seq(Moments)
    BY MomentType, Zenon
  <2>2. resolved[k] \in Seq(Moments)
    OBVIOUS
  <2> HIDE DEF TypeOK, Moments
  <2> QED
    BY <2>1, <2>2
<1>3. resolved' \in [Keys -> Seq(Moments)]
  BY <1>2 DEF recoverAutomaticAfterRestart
<1> QED
  BY <1>1, <1>3 DEF recoverAutomaticAfterRestart, Step

AllRecords == [Ids -> Record]
AllEnds == [Keys -> Seq(Moments)]

\* The record a clock is carried from is one of the key's.
LEMMA PriorIsRecord ==
    ASSUME NEW recs, NEW ends \in AllEnds, NEW k \in Keys, EpisodeEnded(k, ends)
    PROVE  \E u \in Revisions : automaticEpisodePrior(recs, k, ends) = recs[<<k, u>>]
<1>1. ends[k] \in Seq(Moments) /\ ends[k] # <<>>
  BY DEF EpisodeEnded, AllEnds
<1>2. ends[k][Len(ends[k])] \in Moments
  BY <1>1
<1>3. (CHOOSE u \in ends[k][Len(ends[k])] : TRUE) \in Revisions
  <2>1. ends[k][Len(ends[k])] \in SUBSET Revisions /\ \E u : u \in ends[k][Len(ends[k])]
    BY <1>2, Zenon DEF Moments
  <2> QED
    BY <2>1, Zenon
<1> QED
  BY <1>3, Zenon DEF automaticEpisodePrior

\* What reconcileAutomatic creates is a pending record of the arming it read.
LEMMA CreatedType ==
    ASSUME now \in Nat, view.armedAt \in Nat,
           NEW recs \in AllRecords, NEW ends \in AllEnds, NEW k \in Keys,
           view.row[k].rev \in Revisions, NEW latched, NEW delay \in Nat
    PROVE  /\ CreatedRecord(recs, ends, k, latched, delay) \in Record
           /\ CreatedRecord(recs, ends, k, latched, delay).state = "pending"
           /\ CreatedRecord(recs, ends, k, latched, delay).arm = view.armedAt
<1> DEFINE v == view.row[k].rev
           fresh == FreshRecord(k, v, latched)
           prior == automaticEpisodePrior(recs, k, ends)
           carried == IF EpisodeEnded(k, ends) /\ Carries(prior, v) THEN CarriedRecord(fresh, prior) ELSE fresh
<1>1. fresh \in Record /\ fresh.state = "pending" /\ fresh.arm = view.armedAt
  <2>1. fresh \in Record
    BY FreshType
  <2> QED
    BY <2>1 DEF FreshRecord
<1>2. ASSUME EpisodeEnded(k, ends) PROVE prior \in Record
  <2>1. PICK u \in Revisions : prior = recs[<<k, u>>]
    BY <1>2, PriorIsRecord
  <2> QED
    BY <2>1 DEF Ids, AllRecords
<1>3. carried \in Record /\ carried.state = "pending" /\ carried.arm = view.armedAt
  <2>1. ASSUME prior \in Record
        PROVE  /\ CarriedRecord(fresh, prior) \in Record
               /\ CarriedRecord(fresh, prior).state = "pending" /\ CarriedRecord(fresh, prior).arm = view.armedAt
    <3>1. CarriedRecord(fresh, prior) \in Record
      BY <1>1, <2>1, CarriedType
    <3> HIDE DEF fresh, prior
    <3> QED
      BY <1>1, <3>1 DEF CarriedRecord, Record
  <2> HIDE DEF fresh, prior
  <2> QED
    BY <1>1, <1>2, <2>1
<1>4. CreatedRecord(recs, ends, k, latched, delay) =
        [carried EXCEPT !.submitAt = automaticSessionDue(k, carried.submitAt, delay)]
  BY <1>3 DEF CreatedRecord, Record
<1> HIDE DEF carried
<1>5. automaticSessionDue(k, carried.submitAt, delay) \in Nat
  BY <1>3, FieldType DEF automaticSessionDue
<1> DEFINE at == automaticSessionDue(k, carried.submitAt, delay)
<1>8. at \in Nat
  BY <1>5
<1> HIDE DEF at
<1>6. [carried EXCEPT !.submitAt = at] \in Record
  BY <1>3, <1>8 DEF Record
<1>7. [carried EXCEPT !.submitAt = at].state = carried.state /\ [carried EXCEPT !.submitAt = at].arm = carried.arm
  BY <1>3 DEF Record
<1> QED
  BY <1>3, <1>4, <1>6, <1>7, Zenon DEF at

\* reconcileAutomatic supersedes a record or leaves it as it is.
LEMMA SupersedeType ==
    ASSUME now \in Nat, view.armedAt \in Nat, NEW r \in Record, NEW k, NEW verdict
    PROVE  /\ Supersede(r, k, verdict) \in Record
           /\ verdict # "keep" => Supersede(r, k, verdict).state = "superseded"
           /\ verdict = "keep" => Supersede(r, k, verdict) = r
<1>1. resolve("superseded") \in Record /\ resolve("superseded").state = "superseded"
  BY ResolveType DEF States, Terminal, resolve, EmptyRecord
<1>2. ResolveCarrying(r, view.armedAt) \in Record
  BY CarryingType
<1>3. ResolveCarrying(r, view.armedAt).state = "superseded"
  BY DEF ResolveCarrying, Record
<1> QED
  BY <1>1, <1>2, <1>3 DEF Supersede

\* A reconcile ends records by its verdicts, then creates those of some rows.
LEMMA ReconcileParts ==
    ASSUME TypeOK, ViewInv, reconcileAutomatic
    PROVE  \E verdict \in Verdicts, C \in SUBSET Keys, latched \in Latches, delay \in SessionDelays :
              /\ Create(Superseded(verdict), EndsWith(verdict), C, latched, delay)
              /\ Superseded(verdict) \in AllRecords /\ EndsWith(verdict) \in AllEnds
              /\ \A k \in C : /\ view.row[k].rev \in Revisions
                              /\ automaticRecordReplaceable(Superseded(verdict)[<<k, view.row[k].rev>>])
<1>1. PICK verdict \in Verdicts :
         \E C \in SUBSET WillCreate(Superseded(verdict), EndsWith(verdict)), latched \in Latches, delay \in SessionDelays :
            Create(Superseded(verdict), EndsWith(verdict), C, latched, delay)
  BY DEF reconcileAutomatic
<1> DEFINE recs == Superseded(verdict)
           ends == EndsWith(verdict)
<1>2. PICK C \in SUBSET WillCreate(recs, ends), latched \in Latches, delay \in SessionDelays :
         Create(recs, ends, C, latched, delay)
  BY <1>1
<1>3. /\ now \in Nat /\ view.armedAt \in Nat /\ view.row \in [Keys -> Row] /\ rec \in [Ids -> Record]
  BY Zenon DEF TypeOK
<1>4. recs \in AllRecords
  BY <1>3, SupersedeType DEF Superseded, AllRecords
<1>5. ASSUME NEW k \in Keys PROVE ends[k] \in Seq(Moments)
  <2>1. resolved[k] \in Seq(Moments) /\ view.ended[k] \in 0..Len(resolved[k])
    <3>1. resolved[k] \in Seq(Moments) /\ view.ended[k] \in Nat
      BY DEF TypeOK
    <3>2. view.ended[k] <= Len(resolved[k])
      BY Zenon DEF ViewInv, reconcileAutomatic, Step
    <3> QED
      BY <3>1, <3>2
  <2>2. {v \in Revisions : verdict[<<k, v>>] # "keep"} \in SUBSET Revisions
    OBVIOUS
  <2>3. view.ended[k] + 1 \in 1..(Len(resolved[k]) + 1)
    BY <2>1
  <2>4. SubSeq(resolved[k], 1, view.ended[k]) \o Moment({v \in Revisions : verdict[<<k, v>>] # "keep"})
           \o SubSeq(resolved[k], view.ended[k] + 1, Len(resolved[k])) \in Seq(Moments)
    BY <2>1, <2>2, <2>3, EndsType, Zenon
  <2> QED
    BY <2>4, Zenon DEF EndsWith
<1>6. ends \in AllEnds
  BY <1>5, Zenon DEF EndsWith, AllEnds
<1> HIDE DEF ends, recs
<1>7. ASSUME NEW k \in C
      PROVE  /\ k \in Keys /\ view.row[k].rev \in Revisions
             /\ automaticRecordReplaceable(recs[<<k, view.row[k].rev>>])
  <2>1. /\ k \in Keys /\ view.row[k].rev # 0
        /\ automaticRecordReplaceable(recs[<<k, view.row[k].rev>>])
    BY DEF WillCreate
  <2>2. view.row[k] \in Row
    BY <1>3, <2>1
  <2> QED
    BY <2>1, <2>2 DEF Row, NoRow
<1> QED
  BY <1>2, <1>4, <1>6, <1>7, Zenon DEF recs, ends

\* What a reconcile does to a record: it is left alone, ended if it waited, or
\* it is the row's own that was not there or had been superseded, and gets a
\* clock; one that waits afterwards is that of the row it read.
LEMMA ReconcileMoves ==
    ASSUME TypeOK, ViewInv, reconcileAutomatic
    PROVE  /\ rec' \in [Ids -> Record] /\ resolved' \in [Keys -> Seq(Moments)]
           /\ \A id \in Ids :
                 /\ \/ rec'[id] = rec[id]
                    \/ waiting(rec[id]) /\ rec'[id].state = "superseded"
                    \/ /\ rec[id].state \in {"none", "superseded", "pending", "deferred"}
                       /\ rec'[id].state = "pending" /\ rec'[id].arm = view.armedAt
                 /\ waiting(rec'[id]) => view.row[id[1]].rev = id[2]
<1>1. PICK verdict \in Verdicts, C \in SUBSET Keys, latched \in Latches, delay \in SessionDelays :
         /\ Create(Superseded(verdict), EndsWith(verdict), C, latched, delay)
         /\ Superseded(verdict) \in AllRecords /\ EndsWith(verdict) \in AllEnds
         /\ \A k \in C : /\ view.row[k].rev \in Revisions
                         /\ automaticRecordReplaceable(Superseded(verdict)[<<k, view.row[k].rev>>])
  BY ReconcileParts
<1> DEFINE recs == Superseded(verdict)
           ends == EndsWith(verdict)
<1>2. Create(recs, ends, C, latched, delay) /\ recs \in AllRecords /\ ends \in AllEnds
  BY <1>1
<1>3. /\ now \in Nat /\ view.armedAt \in Nat /\ rec \in [Ids -> Record] /\ delay \in Nat
  BY AutomaticAssumption DEF TypeOK, AutomaticAssumption
<1>4. \A id \in Ids : recs[id] = Supersede(rec[id], id[1], verdict[id])
  BY DEF Superseded
<1> HIDE DEF ends, recs
<1>5. \A k \in C : view.row[k].rev \in Revisions /\ automaticRecordReplaceable(recs[<<k, view.row[k].rev>>])
  BY <1>1 DEF recs
<1>6. resolved' \in [Keys -> Seq(Moments)]
  BY <1>2, WithoutType, Zenon DEF Create, AllEnds
<1>7. ASSUME NEW id \in Ids
      PROVE  /\ rec'[id] \in Record
             /\ \/ rec'[id] = rec[id]
                \/ waiting(rec[id]) /\ rec'[id].state = "superseded"
                \/ /\ rec[id].state \in {"none", "superseded", "pending", "deferred"}
                   /\ rec'[id].state = "pending" /\ rec'[id].arm = view.armedAt
             /\ waiting(rec'[id]) => view.row[id[1]].rev = id[2]
  <2>1. id[1] \in Keys /\ id[2] \in Revisions /\ id = <<id[1], id[2]>>
    BY DEF Ids
  <2>0. verdict[id] \in supersedeVerdicts(id[1], id[2]) /\ rec[id] = rec[<<id[1], id[2]>>]
    BY <2>1 DEF Verdicts
  <2>2. verdict[id] # "keep" => waiting(rec[id])
    BY <2>0 DEF supersedeVerdicts
  <2>3. recs[id] \in Record
        /\ \/ verdict[id] = "keep" /\ recs[id] = rec[id]
           \/ verdict[id] # "keep" /\ recs[id].state = "superseded"
    BY <1>3, <1>4, SupersedeType
  <2>4. verdict[id] = "keep" /\ waiting(rec[id]) => view.row[id[1]].rev = id[2]
    BY <2>0, Zenon DEF supersedeVerdicts
  <2>5. CASE id[1] \in C /\ view.row[id[1]].rev = id[2]
    <3>1. rec'[id] = CreatedRecord(recs, ends, id[1], latched, delay)
      BY <1>2, <2>5 DEF Create
    <3>2. rec'[id] \in Record /\ rec'[id].state = "pending" /\ rec'[id].arm = view.armedAt
      <4>1. view.row[id[1]].rev \in Revisions
        BY <1>5, <2>5, Zenon
      <4> QED
        BY <1>2, <1>3, <2>1, <3>1, <4>1, CreatedType
    <3>3. recs[id].state \in {"none", "superseded"}
      BY <1>5, <2>1, <2>5, Zenon DEF automaticRecordReplaceable
    <3> QED
      BY <2>2, <2>3, <2>5, <3>2, <3>3, Zenon DEF waiting
  <2>6. CASE ~(id[1] \in C /\ view.row[id[1]].rev = id[2])
    <3>1. rec'[id] = recs[id]
      BY <1>2, <2>6, Zenon DEF Create
    <3> QED
      BY <2>2, <2>3, <2>4, <3>1, Zenon DEF waiting
  <2> QED
    BY <2>5, <2>6
<1>8. rec' \in [Ids -> Record]
  BY <1>2, <1>7 DEF Create
<1> QED
  BY <1>6, <1>7, <1>8, Zenon

\* Every step keeps the types.
LEMMA NextKeepsTypes ==
    ASSUME TypeOK, ViewInv, SubmitInv, Next
    PROVE  TypeOK'
<1>1. CASE reconcileAutomatic
  <2>1. rec' \in [Ids -> Record] /\ resolved' \in [Keys -> Seq(Moments)]
    BY <1>1, ReconcileMoves
  <2> QED
    BY <1>1, <2>1, NoViewType DEF reconcileAutomatic, TypeOK, envVars, PCs, Step
<1> QED
  BY <1>1, PlaceKeepsTypes, WorldKeepsTypes, SettleKeepsTypes, PassKeepsTypes, RecoverKeepsTypes, Zenon
     DEF Next, Scheduler, Owner, World, Faults

\* Between a reconcile's reading and its update only vetoes end records.
LEMMA NextKeepsView ==
    ASSUME TypeOK, ViewInv, [Next]_vars
    PROVE  ViewInv'
<1>1. SUFFICES ASSUME pc' = "update", NEW k \in Keys PROVE view'.ended[k] <= Len(resolved'[k])
  BY DEF ViewInv
<1>2. resolved[k] \in Seq(Moments) /\ Len(resolved[k]) \in Nat /\ view.ended[k] \in Nat
  BY DEF TypeOK
<1>3. CASE ReconcileRead
  BY <1>1, <1>2, <1>3 DEF ReconcileRead, Reading, Step
<1>4. ASSUME NEW j \in Keys, Veto(j) PROVE view'.ended[k] <= Len(resolved'[k])
  <2>1. resolved' = resolved \/ \E v \in Revisions : resolved' = [resolved EXCEPT ![j] = Append(@, {v})]
    <3>1. PICK v \in VetoTarget(j) : IF v = 0 THEN UNCHANGED <<rec, resolved>>
                                     ELSE Put(<<j, v>>, Vetoed(rec[<<j, v>>], j, v))
      BY <1>4 DEF Veto
    <3>2. v \in 0..MaxRevision
      BY <1>4, TargetType DEF Veto
    <3>3. v # 0 => v \in Revisions
      BY <3>2, AutomaticAssumption DEF AutomaticAssumption, Revisions
    <3> QED
      BY <3>1, <3>3 DEF Put
  <2>2. view' = view /\ pc' = pc
    BY <1>4 DEF Veto, execVars
  <2>3. view.ended[k] <= Len(resolved[k])
    BY <1>1, <2>2 DEF ViewInv
  <2>4. Len(resolved'[k]) \in {Len(resolved[k]), Len(resolved[k]) + 1}
    <3>1. ASSUME NEW v \in Revisions, resolved' = [resolved EXCEPT ![j] = Append(@, {v})]
          PROVE  Len(resolved'[k]) \in {Len(resolved[k]), Len(resolved[k]) + 1}
      <4>1. {v} \in Moments
        BY Zenon DEF Moments
      <4>2. Len(Append(resolved[k], {v})) = Len(resolved[k]) + 1
        BY <1>2, <4>1
      <4>3. resolved'[k] = IF k = j THEN Append(resolved[k], {v}) ELSE resolved[k]
        BY <3>1 DEF TypeOK
      <4> QED
        BY <4>2, <4>3
    <3> QED
      BY <2>1, <3>1
  <2> QED
    BY <1>2, <2>2, <2>3, <2>4
<1>5. CASE UNCHANGED <<pc, view, resolved>>
  BY <1>1, <1>5 DEF ViewInv
<1>6. CASE (Scheduler /\ ~ReconcileRead) \/ StoreFault \/ AppendFault \/ SettleFault \/ HousekeepingFails \/ Restart
  <2>1. pc' # "update" \/ UNCHANGED <<pc, view, resolved>>
    BY <1>6, Zenon DEF Scheduler, recoverAutomaticAfterRestart, reconcileAutomatic, submitDueAutomatic, holdAutomatic,
                rescheduleAutomatic, restartAutomaticClock, BeginSubmit, EndCycle, RefuseUnstaged, previewOrder,
                beforePlace, placeOrder, brokerWireGuard, submitBoundConfiguredOrder, appendOrderSendOutcome,
                settleSubmission, StoreFault, AppendFault, SettleFault, HousekeepingFails, Restart,
                Step, Next1, KeepDue, SettleAs, Done
  <2> QED
    BY <1>1, <1>5, <2>1
<1>7. CASE Tick \/ Arm \/ Disarm \/ SetFrozen \/ World \/ (\E j \in Keys, v \in 0..MaxRevision : VetoRead(j, v))
  BY <1>5, <1>7, ZenonT(30)
     DEF Tick, Arm, Disarm, SetFrozen, World, Refresh, markAutomaticNoticed, Callback, VetoRead, others, execVars
<1> QED
  BY <1>3, <1>4, <1>5, <1>6, <1>7 DEF Next, Owner, Faults, vars, execVars

-----------------------------------------------------------------------------
(* The wire *)

\* What may become of a record while no order changes.
WireMove(id) ==
    \/ rec'[id].state = rec[id].state /\ rec'[id].attempt = rec[id].attempt
    \/ /\ rec[id].state \in {"none", "pending", "deferred", "superseded"}
       /\ rec'[id].state \in {"pending", "deferred", "vetoed", "superseded", "failed"}
    \/ rec[id].state = "submitting" /\ rec'[id].state = "failed"
    \/ /\ rec[id].state = "submitting" /\ rec'[id].state = "submitted"
       /\ \E a \in Attempts : order[a].wire /\ order[a].by = id
    \/ /\ rec[id].state = "submitting" /\ rec'[id].state \in {"deferred", "superseded"}
       /\ ~order[rec[id].attempt].wire

\* While the orders stand still, records that only move this way stay in step with
\* the wire.
LEMMA MovesKeepWire ==
    ASSUME WireInv, order' = order, \A id \in Ids : WireMove(id)
    PROVE  WireInv'
<1>1. ASSUME NEW a \in Attempts, order[a].wire
      PROVE  /\ order[a].by \in Ids /\ rec'[order[a].by].state \in {"submitting", "submitted", "failed"}
             /\ rec'[order[a].by].state = "submitting" => rec'[order[a].by].attempt = a
  <2>1. order[a].by \in Ids /\ rec[order[a].by].state \in {"submitting", "submitted", "failed"}
        /\ (rec[order[a].by].state = "submitting" => rec[order[a].by].attempt = a)
    BY <1>1 DEF WireInv
  <2>2. WireMove(order[a].by)
    BY <2>1, Zenon
  <2> QED
    BY <1>1, <2>1, <2>2, Zenon DEF WireMove
<1>2. ASSUME NEW id \in Ids, rec'[id].state = "submitting"
      PROVE  rec'[id].attempt \in Attempts /\ order[rec'[id].attempt].by = id
  BY <1>2 DEF WireInv, WireMove
<1>3. ASSUME NEW id \in Ids, rec'[id].state = "submitted"
      PROVE  \E a \in Attempts : order[a].wire /\ order[a].by = id
  BY <1>3 DEF WireInv, WireMove
<1>4. OneOrderPerRevision'
  BY Zenon DEF WireInv, OneOrderPerRevision
<1> QED
  BY <1>1, <1>2, <1>3, <1>4 DEF WireInv

\* A step that moves no record's state and neither begins nor advances a
\* submission, and none changes the authority once the wire guard holds it.
Quiet ==
    /\ \A id \in Ids : /\ rec'[id].state = rec[id].state /\ rec'[id].attempt = rec[id].attempt
                       /\ rec'[id].arm = rec[id].arm
    /\ order' = order
    /\ \/ pc' \notin InFlight
       \/ /\ UNCHANGED <<pc, cur, att, grant, res>>
          /\ pc = "guarded" => UNCHANGED <<armed, armedAt>>

CoreInv == SubmitInv /\ LineInv /\ WireInv

\* A quiet step keeps the core of the invariant.
LEMMA QuietKeepsCore ==
    ASSUME CoreInv, Quiet
    PROVE  CoreInv'
<1>1. WireInv'
  BY MovesKeepWire DEF CoreInv, Quiet, WireMove
<1>2. CASE pc' \notin InFlight
  <2>1. SubmitInv'
    BY <1>2, Zenon DEF SubmitInv, InFlight, Staged
  <2>2. LineInv'
    BY <1>2, Zenon DEF CoreInv, LineInv, OneWaitingPerLine, waiting, Quiet
  <2> QED
    BY <1>1, <2>1, <2>2, Zenon DEF CoreInv
<1>3. CASE /\ UNCHANGED <<pc, cur, att, grant, res>> /\ pc \in InFlight
           /\ pc = "guarded" => UNCHANGED <<armed, armedAt>>
  <2>1. cur \in Ids
    BY <1>3, Zenon DEF CoreInv, SubmitInv
  <2>2. SubmitInv'
    BY <1>3, <2>1 DEF CoreInv, SubmitInv, waiting, Quiet, Granted
  <2>3. LineInv'
    BY <1>3, <2>1, Zenon DEF CoreInv, LineInv, OneWaitingPerLine, waiting, Quiet
  <2> QED
    BY <1>1, <2>2, <2>3 DEF CoreInv
<1> QED
  BY <1>2, <1>3, Zenon DEF Quiet

\* What happens beside a submission is quiet.
LEMMA QuietSteps ==
    ASSUME TypeOK,
           \/ ReconcileRead \/ submitDueAutomatic \/ EndCycle \/ HousekeepingFails \/ SettleFault \/ Restart
           \/ Arm \/ Disarm \/ SetFrozen \/ Tick
           \/ \E k \in Keys : \E v \in 0..MaxRevision : VetoRead(k, v)
           \/ \E k \in Keys, w \in Row : Refresh(k, w)
           \/ \E a \in Attempts : Callback(a)
    PROVE  Quiet
<1> USE DEF Quiet, InFlight, envVars, execVars, others, Step
<1>1. CASE ReconcileRead \/ submitDueAutomatic \/ EndCycle \/ HousekeepingFails \/ SettleFault
  BY <1>1, Zenon DEF ReconcileRead, submitDueAutomatic, EndCycle, HousekeepingFails, SettleFault, Done
<1>2. CASE Arm \/ Disarm \/ SetFrozen
  BY <1>2, Zenon DEF Arm, Disarm, SetFrozen
<1>3. ASSUME NEW k \in Keys, NEW v \in 0..MaxRevision, VetoRead(k, v) PROVE Quiet
  BY <1>3, Zenon DEF VetoRead
<1>4. ASSUME NEW k \in Keys, NEW w \in Row, Refresh(k, w) PROVE Quiet
  BY <1>4, Zenon DEF Refresh
<1>5. ASSUME NEW a \in Attempts, Callback(a) PROVE Quiet
  BY <1>5 DEF Callback
<1>6. CASE Restart
  BY <1>6, ZenonT(30) DEF Restart, TypeOK, Record
<1>7. CASE Tick
  BY <1>7 DEF Tick, TypeOK, Record
<1> QED
  BY <1>1, <1>2, <1>3, <1>4, <1>5, <1>6, <1>7, Zenon

\* A notice and the pass's rescheduling move a record's clock only.
LEMMA ClockSteps ==
    ASSUME TypeOK, NEW id \in Ids,
           holdAutomatic(id) \/ rescheduleAutomatic(id) \/ restartAutomaticClock(id) \/ markAutomaticNoticed(id)
    PROVE  Quiet
<1> USE DEF Quiet, InFlight, envVars, execVars, others, Next1, KeepDue
<1>1. rec[id] \in Record
  BY DEF TypeOK
<1>2. CASE holdAutomatic(id)
  BY <1>2 DEF holdAutomatic
<1>3. CASE markAutomaticNoticed(id)
  BY <1>1, <1>3, Zenon DEF markAutomaticNoticed, TypeOK, Record
<1>4. CASE rescheduleAutomatic(id)
  BY <1>1, <1>4, Zenon DEF rescheduleAutomatic, Put, TypeOK, Record
<1>5. CASE restartAutomaticClock(id)
  <2>1. PICK s : /\ s = rec[id] \/ \E n, at, q : s = [rec[id] EXCEPT !.created = n, !.submitAt = at, !.noticed = FALSE,
                                                                     !.size = q, !.seen = 0]
                 /\ rec' = [rec EXCEPT ![id] = s]
    BY <1>5, Zenon DEF restartAutomaticClock, Put
  <2>2. s.state = rec[id].state /\ s.attempt = rec[id].attempt /\ s.arm = rec[id].arm
    BY <1>1, <2>1, Zenon DEF Record
  <2> QED
    BY <1>5, <2>1, <2>2, Zenon DEF restartAutomaticClock, TypeOK
<1> QED
  BY <1>2, <1>3, <1>4, <1>5, Zenon

\* A submission begins with the one record of its line that waits.
LEMMA BeginKeepsCore ==
    ASSUME TypeOK, CoreInv, NEW id \in Ids, BeginSubmit(id)
    PROVE  CoreInv'
<1>1. rec' = rec /\ order' = order
  BY DEF BeginSubmit
<1>2. CASE StillDue(rec[id])
  <2>1. pc' = "preview" /\ cur' = id /\ grant' = rec[id].arm /\ waiting(rec[id])
    BY <1>2, Zenon DEF BeginSubmit, StillDue
  <2>2. SubmitInv'
    BY <1>1, <2>1, Zenon DEF SubmitInv, Staged, InFlight, waiting
  <2>3. LineInv'
    BY <1>1, <2>1 DEF CoreInv, LineInv, OneWaitingPerLine, waiting
  <2>4. WireInv'
    BY <1>1, MovesKeepWire DEF CoreInv, WireMove
  <2> QED
    BY <2>2, <2>3, <2>4 DEF CoreInv
<1>3. CASE ~StillDue(rec[id])
  BY <1>1, <1>3, QuietKeepsCore DEF BeginSubmit, Quiet, InFlight
<1> QED
  BY <1>2, <1>3

\* Up to the frame and after it, the record under submission stands still.
LEMMA PlaceKeepsCore ==
    ASSUME TypeOK, CoreInv,
           \/ \E a \in Attempts : previewOrder(a)
           \/ placeOrder \/ brokerWireGuard \/ appendOrderSendOutcome \/ AppendFault
    PROVE  CoreInv'
<1>1. /\ rec' = rec /\ order' = order /\ cur' = cur /\ grant' = grant /\ pc \in InFlight
      /\ UNCHANGED <<armed, armedAt>>
  BY Zenon DEF previewOrder, placeOrder, brokerWireGuard, appendOrderSendOutcome, AppendFault, KeepPlace, KeepEnv,
         envVars, Step, InFlight
<1>2. LineInv'
  BY <1>1, Zenon DEF CoreInv, LineInv, OneWaitingPerLine, waiting
<1>3. WireInv'
  BY <1>1, MovesKeepWire DEF CoreInv, WireMove
<1>4. SubmitInv'
  <2>1. SubmitInv
    BY DEF CoreInv
  <2>2. ASSUME NEW a \in Attempts, previewOrder(a) PROVE SubmitInv'
    BY <1>1, <2>1, <2>2, Zenon DEF previewOrder, Step, SubmitInv, Staged, InFlight, waiting
  <2>3. CASE placeOrder
    BY <1>1, <2>1, <2>3, Zenon DEF placeOrder, KeepPlace, Refusal, SubmitInv, Staged, InFlight
  <2>4. CASE brokerWireGuard
    BY <1>1, <2>1, <2>4, Zenon DEF brokerWireGuard, KeepPlace, Refusal, SubmitInv, Staged, InFlight, Granted
  <2>5. CASE appendOrderSendOutcome
    BY <1>1, <2>1, <2>5, Zenon DEF appendOrderSendOutcome, KeepPlace, SubmitInv, Staged, InFlight
  <2>6. CASE AppendFault
    BY <1>1, <2>1, <2>6, Zenon DEF AppendFault, SubmitInv, Staged, InFlight
  <2> QED
    BY <2>2, <2>3, <2>4, <2>5, <2>6
<1> QED
  BY <1>2, <1>3, <1>4 DEF CoreInv

\* The frame: the record names the attempt, and no other attempt of it is out.
LEMMA FrameKeepsCore ==
    ASSUME TypeOK, CoreInv, submitBoundConfiguredOrder
    PROVE  CoreInv'
<1>1. /\ rec' = rec /\ cur' = cur /\ att' = att /\ grant' = grant /\ pc = "guarded" /\ pc' \in {"refused", "wrote"}
  BY Zenon DEF submitBoundConfiguredOrder, KeepPlace
<1>2. /\ cur \in Ids /\ att \in Attempts /\ order[att].by = cur /\ rec[cur].state = "submitting"
      /\ rec[cur].attempt = att /\ rec[cur].arm = grant /\ ~order[att].wire
  BY <1>1, Zenon DEF CoreInv, SubmitInv, Staged, InFlight
<1>3. LineInv'
  BY <1>1 DEF CoreInv, LineInv, OneWaitingPerLine, waiting, InFlight
<1>4. CASE order' = order /\ pc' = "refused" /\ Refusal
  <2>1. WireInv'
    BY <1>1, <1>4, MovesKeepWire, Zenon DEF CoreInv, WireMove
  <2>2. SubmitInv'
    BY <1>1, <1>2, <1>4 DEF SubmitInv, Staged, InFlight, Refusal
  <2> QED
    BY <1>3, <2>1, <2>2 DEF CoreInv
<1>5. CASE order' = [order EXCEPT ![att].wire = TRUE] /\ pc' = "wrote"
  <2>1. /\ \A a \in Attempts : order'[a].by = order[a].by
        /\ \A a \in Attempts : a # att => order'[a].wire = order[a].wire
        /\ order'[att].wire
    BY <1>2, <1>5 DEF TypeOK
  <2>2. SubmitInv'
    BY <1>1, <1>2, <1>5, <2>1, Zenon DEF SubmitInv, Staged, InFlight
  <2>3. \A a \in Attempts : order[a].wire => order[a].by # cur
    BY <1>2 DEF CoreInv, WireInv
  <2>4. WireInv'
    <3>1. OneOrderPerRevision'
      BY <1>2, <2>1, <2>3, SMTT(30) DEF CoreInv, WireInv, OneOrderPerRevision
    <3>2. ASSUME NEW a \in Attempts, order'[a].wire
          PROVE  /\ order'[a].by \in Ids /\ rec'[order'[a].by].state \in {"submitting", "submitted", "failed"}
                 /\ rec'[order'[a].by].state = "submitting" => rec'[order'[a].by].attempt = a
      BY <1>1, <1>2, <2>1, <3>2 DEF CoreInv, WireInv
    <3>3. ASSUME NEW id \in Ids, rec'[id].state = "submitting"
          PROVE  rec'[id].attempt \in Attempts /\ order'[rec'[id].attempt].by = id
      BY <1>1, <2>1, <3>3, Zenon DEF CoreInv, WireInv
    <3>4. ASSUME NEW id \in Ids, rec'[id].state = "submitted"
          PROVE  \E a \in Attempts : order'[a].wire /\ order'[a].by = id
      <4>1. PICK a \in Attempts : order[a].wire /\ order[a].by = id
        BY <1>1, <3>4, Zenon DEF CoreInv, WireInv
      <4>2. order'[a].wire /\ order'[a].by = id
        BY <2>1, <4>1, Zenon
      <4> QED
        BY <4>2, Zenon
    <3> QED
      BY <3>1, <3>2, <3>3, <3>4, Zenon DEF WireInv
  <2> QED
    BY <1>3, <2>2, <2>4 DEF CoreInv
<1> QED
  BY <1>1, <1>4, <1>5 DEF submitBoundConfiguredOrder

\* The intent: a record that still waits has nothing out, and takes an attempt
\* no record has.
LEMMA IntentKeepsCore ==
    ASSUME TypeOK, CoreInv, beforePlace, waiting(rec[cur])
    PROVE  CoreInv'
<1>1. /\ rec' = [rec EXCEPT ![cur].state = "submitting", ![cur].attempt = att, ![cur].own = TRUE]
      /\ order' = [order EXCEPT ![att].by = cur] /\ pc = "staging" /\ pc' = "staged"
      /\ cur' = cur /\ att' = att /\ grant' = grant
  BY DEF beforePlace
<1>2. cur \in Ids /\ att \in Attempts /\ order[att].by = NoRecord /\ rec[cur].arm = grant
  BY <1>1, Zenon DEF CoreInv, SubmitInv, InFlight
<1>3. ~order[att].wire
  BY <1>2, AutomaticAssumption DEF CoreInv, WireInv, AutomaticAssumption
<1>4. rec'[cur].state = "submitting" /\ rec'[cur].attempt = att /\ rec'[cur].arm = grant
  BY <1>1, <1>2 DEF TypeOK, Record
<1>5. \A id \in Ids : id # cur => rec'[id] = rec[id]
  BY <1>1 DEF TypeOK
<1>6. /\ \A a \in Attempts : order'[a].wire = order[a].wire
      /\ \A a \in Attempts : a # att => order'[a].by = order[a].by
      /\ order'[att].by = cur
  BY <1>1, <1>2 DEF TypeOK
<1>7. SubmitInv'
  BY <1>1, <1>2, <1>3, <1>4, <1>6 DEF SubmitInv, Staged, InFlight
<1>8. LineInv'
  BY <1>1, <1>2, <1>4, <1>5, Zenon DEF CoreInv, LineInv, OneWaitingPerLine, waiting, InFlight
<1>9. \A a \in Attempts : order[a].wire => order[a].by # cur /\ a # att
  BY <1>2, <1>3, Zenon DEF CoreInv, WireInv, waiting
<1>10. WireInv'
  <2>1. OneOrderPerRevision'
    BY <1>6, <1>9 DEF CoreInv, WireInv, OneOrderPerRevision
  <2>2. ASSUME NEW a \in Attempts, order'[a].wire
        PROVE  /\ order'[a].by \in Ids /\ rec'[order'[a].by].state \in {"submitting", "submitted", "failed"}
               /\ rec'[order'[a].by].state = "submitting" => rec'[order'[a].by].attempt = a
    BY <1>5, <1>6, <1>9, <2>2 DEF CoreInv, WireInv
  <2>3. ASSUME NEW id \in Ids, rec'[id].state = "submitting"
        PROVE  rec'[id].attempt \in Attempts /\ order'[rec'[id].attempt].by = id
    <3>1. CASE id = cur
      BY <1>2, <1>4, <1>6, <3>1, Zenon
    <3>2. CASE id # cur
      BY <1>2, <1>5, <1>6, <2>3, <3>2, AutomaticAssumption DEF CoreInv, WireInv, AutomaticAssumption
    <3> QED
      BY <3>1, <3>2, Zenon
  <2>4. ASSUME NEW id \in Ids, rec'[id].state = "submitted"
        PROVE  \E a \in Attempts : order'[a].wire /\ order'[a].by = id
    <3>1. id # cur
      BY <1>4, <2>4
    <3>2. PICK a \in Attempts : order[a].wire /\ order[a].by = id
      BY <1>5, <2>4, <3>1, Zenon DEF CoreInv, WireInv
    <3> QED
      BY <1>6, <1>9, <3>2, Zenon
  <2> QED
    BY <2>1, <2>2, <2>3, <2>4, Zenon DEF WireInv
<1> QED
  BY <1>7, <1>8, <1>10 DEF CoreInv

\* The states an answer leaves a record in.
LEMMA OutcomeStates ==
    ASSUME NEW r \in Record, NEW k, NEW o
    PROVE  /\ terminal(r) => outcome(r, k, o) = r
           /\ ~terminal(r) =>
                 /\ o = "ok" => outcome(r, k, o).state = "submitted"
                 /\ o = "held" => outcome(r, k, o) = r
                 /\ o \in {"disarmed", "stale"} => outcome(r, k, o).state = "superseded"
                 /\ o = "frozen" => outcome(r, k, o).state = "deferred"
                 /\ o = "transient" => outcome(r, k, o).state = "pending"
                 /\ o = "failed" => outcome(r, k, o).state = "failed"
<1>1. \A st \in States : resolve(st).state = st
  BY DEF resolve, EmptyRecord
<1>2. ResolveCarrying(r, armedAt).state = "superseded"
  BY DEF ResolveCarrying, Record
<1>3. [r EXCEPT !.state = "deferred", !.resubmitAt = now + DeferRetry, !.attempt = NoAttempt].state = "deferred"
  BY DEF Record
<1>4. [r EXCEPT !.state = "pending", !.resubmitAt = now + DeferRetry].state = "pending"
  BY DEF Record
<1> QED
  BY <1>1, <1>2, <1>3, <1>4 DEF outcome, States, Terminal

\* Settling an answer moves the record under submission only; one refused with
\* nothing out waits again, and its line has no other that does.
LEMMA SettleKeepsCore ==
    ASSUME TypeOK, CoreInv, NEW o, SettleAs(o), order' = order,
           \/ pc = "preview" /\ o \in Refusals
           \/ pc = "staging" /\ o = "failed"
           \/ pc = "answered" /\ o = (IF res = "error" THEN "failed" ELSE res)
    PROVE  CoreInv'
<1>1. pc \in InFlight /\ cur \in Ids /\ pc' = "submit"
  BY Zenon DEF CoreInv, SubmitInv, InFlight, SettleAs, Done
<1>2. rec[cur] \in Record /\ rec \in [Ids -> Record]
  BY <1>1, Zenon DEF TypeOK
<1>3. rec' = [rec EXCEPT ![cur] = outcome(rec[cur], cur[1], o)]
  BY DEF SettleAs, Put
<1>4. rec'[cur] = outcome(rec[cur], cur[1], o) /\ \A id \in Ids : id # cur => rec'[id] = rec[id]
  BY <1>1, <1>2, <1>3, Zenon
<1>9. /\ terminal(rec[cur]) => rec'[cur] = rec[cur]
      /\ ~terminal(rec[cur]) =>
            /\ o = "ok" => rec'[cur].state = "submitted"
            /\ o = "held" => rec'[cur] = rec[cur]
            /\ o \in {"disarmed", "stale"} => rec'[cur].state = "superseded"
            /\ o = "frozen" => rec'[cur].state = "deferred"
            /\ o = "transient" => rec'[cur].state = "pending"
            /\ o = "failed" => rec'[cur].state = "failed"
  BY <1>2, <1>4, OutcomeStates
<1>5. SubmitInv'
  BY <1>1, Zenon DEF SubmitInv, Staged, InFlight
<1>6. LineInv'
  BY <1>1, <1>4 DEF CoreInv, LineInv, OneWaitingPerLine, InFlight
<1>7. WireMove(cur)
  <2>1. CASE pc \in {"preview", "staging"}
    <3>1. rec[cur].state \in {"pending", "deferred", "vetoed"}
      BY <2>1 DEF CoreInv, SubmitInv
    <3>2. o \in {"held", "disarmed", "stale", "frozen", "transient", "failed"}
      BY <2>1 DEF Refusals
    <3> QED
      BY <1>9, <3>1, <3>2, Zenon DEF WireMove, terminal, Terminal
  <2>2. CASE pc = "answered"
    <3>1. /\ att \in Attempts /\ order[att].by = cur /\ rec[cur].state = "submitting" /\ rec[cur].attempt = att
          /\ res \in {"ok", "error", "frozen", "disarmed"}
          /\ res = "ok" => order[att].wire
          /\ res \in {"frozen", "disarmed"} => ~order[att].wire
      BY <2>2, Zenon DEF CoreInv, SubmitInv, Staged, InFlight
    <3>2. ~terminal(rec[cur])
      BY <3>1, Zenon DEF terminal, Terminal
    <3>3. CASE res = "ok"
      BY <1>9, <2>2, <3>1, <3>2, <3>3, Zenon DEF WireMove
    <3>4. CASE res = "error"
      BY <1>9, <2>2, <3>1, <3>2, <3>4, Zenon DEF WireMove
    <3>5. CASE res \in {"frozen", "disarmed"}
      BY <1>9, <2>2, <3>1, <3>2, <3>5 DEF WireMove
    <3> QED
      BY <3>1, <3>3, <3>4, <3>5, Zenon
  <2> QED
    BY <2>1, <2>2, Zenon
<1>8. WireInv'
  BY <1>4, <1>7, MovesKeepWire, Zenon DEF CoreInv, WireMove
<1> QED
  BY <1>5, <1>6, <1>8 DEF CoreInv

\* A recovery reads a send as made only if the frame went out.
LEMMA RecoverKeepsCore ==
    ASSUME TypeOK, CoreInv, JournalInv, recoverAutomaticAfterRestart
    PROVE  CoreInv'
<1>1. /\ rec' = [id \in Ids |-> IF Stuck(rec[id]) THEN automaticRestartOutcome(rec[id]) ELSE rec[id]]
      /\ order' = order /\ pc' = "read"
  BY DEF recoverAutomaticAfterRestart, Step
<1>2. \A st \in States : resolve(st).state = st
  BY DEF resolve, EmptyRecord
<1>3. ASSUME NEW id \in Ids, Stuck(rec[id])
      PROVE  WireMove(id) /\ rec'[id].state \in {"submitted", "failed"}
  <2>1. rec[id].state = "submitting" /\ rec[id].attempt \in Attempts /\ order[rec[id].attempt].by = id
    BY <1>3, Zenon DEF Stuck, CoreInv, WireInv
  <2>2. CASE orderJournalSendOutcome(journal[rec[id].attempt]) = "reached"
    <3>1. \E i \in DOMAIN journal[rec[id].attempt] : journal[rec[id].attempt][i].type \in ReachedTypes
      BY <2>2, Zenon DEF orderJournalSendOutcome
    <3>2. order[rec[id].attempt].wire
      BY <2>1, <3>1, Zenon DEF JournalInv
    <3>3. rec'[id].state = "submitted"
      BY <1>1, <1>2, <1>3, <2>2, Zenon DEF automaticRestartOutcome, States, Terminal
    <3> QED
      BY <2>1, <3>2, <3>3 DEF WireMove
  <2>3. CASE orderJournalSendOutcome(journal[rec[id].attempt]) # "reached"
    <3>1. rec'[id].state = "failed"
      BY <1>1, <1>2, <1>3, <2>3 DEF automaticRestartOutcome, States, Terminal
    <3> QED
      BY <2>1, <3>1, Zenon DEF WireMove
  <2> QED
    BY <2>2, <2>3, Zenon
<1>4. ASSUME NEW id \in Ids, ~Stuck(rec[id]) PROVE rec'[id] = rec[id]
  BY <1>1, <1>4
<1>5. WireInv'
  <2>1. \A id \in Ids : WireMove(id)
    BY <1>3, <1>4, Zenon DEF WireMove
  <2> QED
    BY <1>1, <2>1, MovesKeepWire, Zenon DEF CoreInv
<1>6. LineInv'
  <2>1. \A id \in Ids : waiting(rec'[id]) => waiting(rec[id])
    BY <1>3, <1>4, Zenon DEF waiting
  <2> QED
    BY <1>1, <2>1 DEF CoreInv, LineInv, OneWaitingPerLine, InFlight, waiting
<1>7. SubmitInv'
  BY <1>1 DEF SubmitInv, Staged, InFlight
<1> QED
  BY <1>5, <1>6, <1>7 DEF CoreInv

\* A reconcile leaves the row's own record waiting, and no other of its line.
LEMMA ReconcileKeepsCore ==
    ASSUME TypeOK, ViewInv, CoreInv, reconcileAutomatic
    PROVE  CoreInv'
<1>1. order' = order /\ pc' = "list"
  BY DEF reconcileAutomatic, Step
<1>2. \A id \in Ids :
         /\ \/ rec'[id] = rec[id]
            \/ waiting(rec[id]) /\ rec'[id].state = "superseded"
            \/ /\ rec[id].state \in {"none", "superseded", "pending", "deferred"}
               /\ rec'[id].state = "pending" /\ rec'[id].arm = view.armedAt
         /\ waiting(rec'[id]) => view.row[id[1]].rev = id[2]
  BY ReconcileMoves, Zenon
<1>3. WireInv'
  <2>1. \A id \in Ids : WireMove(id)
    BY <1>2 DEF WireMove, waiting
  <2> QED
    BY <1>1, <2>1, MovesKeepWire, Zenon DEF CoreInv
<1>4. LineInv'
  <2>1. ASSUME NEW i \in Ids, NEW j \in Ids, i[1] = j[1], waiting(rec'[i]), waiting(rec'[j])
        PROVE  i = j
    <3>1. i[2] = j[2]
      BY <1>2, <2>1
    <3> QED
      BY <2>1, <3>1 DEF Ids
  <2>2. OneWaitingPerLine'
    BY <2>1, Zenon DEF OneWaitingPerLine, waiting
  <2> QED
    BY <1>1, <2>2 DEF LineInv, InFlight
<1>5. SubmitInv'
  BY <1>1 DEF SubmitInv, Staged, InFlight
<1> QED
  BY <1>3, <1>4, <1>5 DEF CoreInv

\* A veto ends a record that waits, or one not yet there.
LEMMA VetoMoves ==
    ASSUME TypeOK, NEW k \in Keys, Veto(k)
    PROVE  \A id \in Ids : \/ rec'[id] = rec[id]
                           \/ rec[id].state \in {"none", "pending", "deferred"} /\ rec'[id].state = "vetoed"
<1>1. PICK v \in VetoTarget(k) : IF v = 0 THEN UNCHANGED <<rec, resolved>>
                                 ELSE Put(<<k, v>>, Vetoed(rec[<<k, v>>], k, v))
  BY Zenon DEF Veto
<1>2. resolve("vetoed").state = "vetoed"
  BY DEF resolve, EmptyRecord
<1> QED
  BY <1>1, <1>2, Zenon DEF Put, Vetoed, waiting, TypeOK

\* A veto ends only records that wait, so it keeps the core of the invariant, the
\* submission in flight included.
LEMMA VetoKeepsCore ==
    ASSUME TypeOK, CoreInv, NEW k \in Keys, Veto(k)
    PROVE  CoreInv'
<1>1. /\ order' = order /\ UNCHANGED <<pc, cur, att, grant, res, armed, armedAt>>
  BY DEF Veto, execVars, envVars
<1>2. \A id \in Ids : \/ rec'[id] = rec[id]
                      \/ rec[id].state \in {"none", "pending", "deferred"} /\ rec'[id].state = "vetoed"
  BY VetoMoves
<1>3. WireInv'
  <2>1. \A id \in Ids : WireMove(id)
    BY <1>2, Zenon DEF WireMove
  <2> QED
    BY <1>1, <2>1, MovesKeepWire, Zenon DEF CoreInv
<1>4. LineInv'
  BY <1>1, <1>2, Zenon DEF CoreInv, LineInv, OneWaitingPerLine, waiting
<1>5. SubmitInv'
  <2>1. CASE pc \notin InFlight
    BY <1>1, <2>1, Zenon DEF SubmitInv, Staged, InFlight
  <2>2. CASE pc \in {"preview", "staging"}
    BY <1>1, <1>2, <2>2, Zenon DEF CoreInv, SubmitInv, Staged, InFlight, waiting
  <2>3. CASE pc \in Staged
    <3>1. cur \in Ids /\ rec[cur].state = "submitting"
      BY <2>3, Zenon DEF CoreInv, SubmitInv, Staged
    <3>2. rec'[cur] = rec[cur]
      BY <1>2, <3>1
    <3> QED
      BY <1>1, <2>3, <3>2, Zenon DEF CoreInv, SubmitInv, Staged, InFlight, Granted
  <2> QED
    BY <2>1, <2>2, <2>3, Zenon DEF Staged
<1> QED
  BY <1>3, <1>4, <1>5, Zenon DEF CoreInv

\* Every step keeps the core of the invariant.
LEMMA NextKeepsCore ==
    ASSUME TypeOK, ViewInv, CoreInv, JournalInv, [Next]_vars
    PROVE  CoreInv'
<1>1. CASE RefuseUnstaged
  BY <1>1, SettleKeepsCore DEF RefuseUnstaged
<1>2. CASE settleSubmission
  BY <1>2, SettleKeepsCore DEF settleSubmission
<1>3. CASE beforePlace
  BY <1>3, IntentKeepsCore, SettleKeepsCore DEF beforePlace
<1>4. CASE StoreFault
  <2>1. CASE pc = "staging" /\ SettleAs("failed")
    BY <1>4, <2>1, SettleKeepsCore, Zenon DEF StoreFault
  <2>2. CASE Done /\ UNCHANGED <<rec, resolved>>
    BY <1>4, <2>2, QuietKeepsCore, Zenon DEF StoreFault, Done, Quiet, InFlight
  <2> QED
    BY <1>4, <2>1, <2>2 DEF StoreFault
<1>5. CASE UNCHANGED vars
  BY <1>5, QuietKeepsCore DEF Quiet, vars, envVars, execVars
<1>6. CASE Owner \/ World \/ Tick
  BY <1>6, QuietSteps, QuietKeepsCore, ClockSteps, VetoKeepsCore DEF Owner, World
<1>7. CASE AppendFault \/ SettleFault \/ HousekeepingFails \/ Restart
  BY <1>7, QuietSteps, QuietKeepsCore, PlaceKeepsCore
<1>8. CASE Scheduler
  <2>1. CASE recoverAutomaticAfterRestart \/ reconcileAutomatic \/ submitBoundConfiguredOrder
    BY <2>1, RecoverKeepsCore, ReconcileKeepsCore, FrameKeepsCore
  <2>2. CASE ReconcileRead \/ submitDueAutomatic \/ EndCycle
    BY <2>2, QuietSteps, QuietKeepsCore
  <2>3. ASSUME NEW id \in Ids, holdAutomatic(id) \/ rescheduleAutomatic(id) \/ restartAutomaticClock(id) \/ BeginSubmit(id)
        PROVE  CoreInv'
    BY <2>3, ClockSteps, QuietKeepsCore, BeginKeepsCore
  <2>4. CASE (\E a \in Attempts : previewOrder(a)) \/ placeOrder \/ brokerWireGuard \/ appendOrderSendOutcome
    BY <2>4, PlaceKeepsCore, Zenon
  <2> QED
    BY <1>1, <1>2, <1>3, <1>8, <2>1, <2>2, <2>3, <2>4 DEF Scheduler
<1> QED
  BY <1>4, <1>5, <1>6, <1>7, <1>8 DEF Next, Faults

\* Only the wire guard's frame reaches the wire, and nothing takes it back.
LEMMA WireSteps ==
    ASSUME TypeOK, CoreInv, [Next]_vars, NEW a \in Attempts
    PROVE  /\ order[a].wire => order'[a].wire
           /\ Sends(a) => a = att /\ pc = "guarded" /\ ~frozen
<1>1. CASE submitBoundConfiguredOrder
  <2>1. att \in Attempts
    BY <1>1 DEF submitBoundConfiguredOrder, CoreInv, SubmitInv, Staged, InFlight
  <2> QED
    BY <1>1, <2>1 DEF submitBoundConfiguredOrder, Sends, TypeOK
<1>2. CASE beforePlace
  <2>1. att \in Attempts
    BY <1>2 DEF beforePlace, CoreInv, SubmitInv
  <2>2. order' = order \/ order' = [order EXCEPT ![att].by = cur]
    BY <1>2 DEF beforePlace
  <2>3. CASE order' = [order EXCEPT ![att].by = cur]
    <3>1. order'[a] = IF a = att THEN [order[att] EXCEPT !.by = cur] ELSE order[a]
      BY <2>1, <2>3 DEF TypeOK
    <3>2. [order[att] EXCEPT !.by = cur].wire = order[att].wire
      BY <2>1 DEF TypeOK
    <3> QED
      BY <3>1, <3>2 DEF Sends
  <2> QED
    BY <2>2, <2>3 DEF Sends
<1>3. CASE order' = order
  BY <1>3 DEF Sends
<1>4. CASE Scheduler /\ ~submitBoundConfiguredOrder /\ ~beforePlace
  BY <1>3, <1>4, Zenon
     DEF Scheduler, recoverAutomaticAfterRestart, ReconcileRead, reconcileAutomatic, submitDueAutomatic, holdAutomatic,
         rescheduleAutomatic, restartAutomaticClock, BeginSubmit, EndCycle, RefuseUnstaged, previewOrder, placeOrder,
         brokerWireGuard, appendOrderSendOutcome, settleSubmission, KeepDue, KeepPlace
<1>5. CASE Owner \/ World \/ Faults \/ Tick
  BY <1>3, <1>5, Zenon
     DEF Owner, World, Faults, Tick, Arm, Disarm, SetFrozen, Veto, VetoRead, Refresh, markAutomaticNoticed, Callback,
         StoreFault, AppendFault, SettleFault, HousekeepingFails, Restart, others
<1> QED
  BY <1>1, <1>2, <1>3, <1>4, <1>5 DEF Next, vars

\* The journal gets a completed send after the frame and an answer from it.
LEMMA NextKeepsJournal ==
    ASSUME TypeOK, CoreInv, JournalInv, [Next]_vars
    PROVE  JournalInv'
<1>1. ASSUME NEW a \in Attempts, NEW e \in Event, journal' = [journal EXCEPT ![a] = Append(@, e)],
             e.type \in ReachedTypes => order[a].wire
      PROVE  JournalInv'
  <2>1. ASSUME NEW b \in Attempts, NEW i \in DOMAIN journal'[b], journal'[b][i].type \in ReachedTypes
        PROVE  order'[b].wire
    <3>1. journal[b] \in Seq(Event)
      BY Zenon DEF TypeOK
    <3>2. CASE b = a
      <4>1. journal'[b] = Append(journal[b], e)
        BY <1>1, <3>2 DEF TypeOK
      <4>2. (i \in DOMAIN journal[b] /\ journal'[b][i] = journal[b][i]) \/ journal'[b][i] = e
        <5>1. i \in DOMAIN Append(journal[b], e)
          BY <2>1, <4>1, Zenon
        <5>2. \/ i \in DOMAIN journal[b] /\ Append(journal[b], e)[i] = journal[b][i]
              \/ Append(journal[b], e)[i] = e
          BY <3>1, <5>1, AppendFacts, Zenon
        <5> QED BY <4>1, <5>2, Zenon
      <4> QED
        BY <1>1, <2>1, <3>2, <4>2, WireSteps, Zenon DEF JournalInv
    <3>3. CASE b # a
      BY <1>1, <2>1, <3>3, WireSteps, Zenon DEF JournalInv, TypeOK
    <3> QED
      BY <3>2, <3>3
  <2> QED
    BY <2>1, Zenon DEF JournalInv
<1>2. CASE journal' = journal
  BY <1>2, WireSteps, Zenon DEF JournalInv
<1>3. \A t \in EventTypes : LocalEvent(t) \in Event /\ LocalEvent(t).type = t
  BY Zenon DEF LocalEvent, Event, BrokerStatuses
<1>4. CASE placeOrder \/ appendOrderSendOutcome
  <2>1. att \in Attempts /\ (pc = "wrote" => order[att].wire)
    BY <1>4 DEF placeOrder, appendOrderSendOutcome, CoreInv, SubmitInv, Staged, InFlight
  <2>2. journal' = journal \/ \E t \in EventTypes : Journal(t) /\ (t \in ReachedTypes => order[att].wire)
    BY <1>4, <2>1 DEF placeOrder, appendOrderSendOutcome, EventTypes, ReachedTypes
  <2> QED
    BY <1>1, <1>2, <1>3, <2>1, <2>2, Zenon DEF Journal
<1>5. ASSUME NEW a \in Attempts, Callback(a) PROVE JournalInv'
  <2>1. BrokerEvent("acknowledged", "Submitted", 0) \in Event
    BY DEF BrokerEvent, Event, EventTypes, BrokerStatuses
  <2> QED
    BY <1>1, <1>5, <2>1, Zenon DEF Callback
<1>6. CASE Scheduler /\ ~placeOrder /\ ~appendOrderSendOutcome
  BY <1>2, <1>6, Zenon
     DEF Scheduler, recoverAutomaticAfterRestart, ReconcileRead, reconcileAutomatic, submitDueAutomatic, holdAutomatic,
         rescheduleAutomatic, restartAutomaticClock, BeginSubmit, EndCycle, RefuseUnstaged, previewOrder, beforePlace,
         brokerWireGuard, submitBoundConfiguredOrder, settleSubmission, KeepDue, KeepPlace
<1>7. CASE Owner \/ Faults \/ Tick \/ (World /\ ~\E a \in Attempts : Callback(a))
  BY <1>2, <1>7, Zenon
     DEF Owner, World, Faults, Tick, Arm, Disarm, SetFrozen, Veto, VetoRead, Refresh, markAutomaticNoticed,
         StoreFault, AppendFault, SettleFault, HousekeepingFails, Restart, others
<1> QED
  BY <1>2, <1>4, <1>5, <1>6, <1>7, Zenon DEF Next, vars, World

\* No step moves a vetoed record.
LEMMA VetoStays ==
    ASSUME TypeOK, ViewInv, CoreInv, [Next]_vars, NEW id \in Ids, rec[id].state = "vetoed"
    PROVE  rec'[id].state = "vetoed"
<1>1. CASE Quiet \/ rec' = rec
  BY <1>1, Zenon DEF Quiet
<1>2. ASSUME NEW o, SettleAs(o), cur \in Ids PROVE rec'[id].state = "vetoed"
  <2>1. rec' = [rec EXCEPT ![cur] = outcome(rec[cur], cur[1], o)]
    BY <1>2, Zenon DEF SettleAs, Put
  <2>2. terminal(rec[cur]) => outcome(rec[cur], cur[1], o) = rec[cur]
    BY DEF outcome
  <2> QED
    BY <1>2, <2>1, <2>2 DEF terminal, Terminal, TypeOK
<1>3. CASE RefuseUnstaged \/ settleSubmission \/ beforePlace \/ StoreFault
  <2>1. cur \in Ids \/ rec' = rec
    BY <1>3 DEF RefuseUnstaged, settleSubmission, beforePlace, StoreFault, CoreInv, SubmitInv, InFlight
  <2>2. CASE beforePlace /\ waiting(rec[cur])
    BY <2>2, Zenon DEF beforePlace, waiting, TypeOK
  <2> QED
    BY <1>1, <1>2, <1>3, <2>1, <2>2 DEF RefuseUnstaged, settleSubmission, beforePlace, StoreFault
<1>4. CASE recoverAutomaticAfterRestart
  BY <1>4, Zenon DEF recoverAutomaticAfterRestart, Stuck
<1>5. CASE reconcileAutomatic
  BY <1>5, ReconcileMoves DEF waiting
<1>6. ASSUME NEW k \in Keys, Veto(k) PROVE rec'[id].state = "vetoed"
  BY <1>6, VetoMoves
<1>7. CASE AppendFault \/ SettleFault \/ HousekeepingFails \/ Restart \/ World \/ Tick \/ (Owner /\ ~\E k \in Keys : Veto(k))
  BY <1>1, <1>7, QuietSteps, ClockSteps, Zenon DEF AppendFault, World, Owner
<1>8. CASE Scheduler
  <2>1. CASE \/ ReconcileRead \/ submitDueAutomatic \/ EndCycle \/ (\E a \in Attempts : previewOrder(a)) \/ placeOrder
             \/ brokerWireGuard \/ submitBoundConfiguredOrder \/ appendOrderSendOutcome
    BY <1>1, <2>1 DEF ReconcileRead, submitDueAutomatic, EndCycle, previewOrder, placeOrder, brokerWireGuard,
                      submitBoundConfiguredOrder, appendOrderSendOutcome, KeepPlace
  <2>2. ASSUME NEW i \in Ids, holdAutomatic(i) \/ rescheduleAutomatic(i) \/ restartAutomaticClock(i) \/ BeginSubmit(i)
        PROVE  rec'[id].state = "vetoed"
    BY <1>1, <2>2, ClockSteps, Zenon DEF BeginSubmit
  <2> QED
    BY <1>3, <1>4, <1>5, <1>8, <2>1, <2>2, Zenon DEF Scheduler
<1> QED
  BY <1>1, <1>3, <1>6, <1>7, <1>8 DEF Next, Faults, Owner, vars

-----------------------------------------------------------------------------
(* Theorems *)

IInv == TypeOK /\ ViewInv /\ CoreInv /\ JournalInv

\* The invariant holds at first.
LEMMA InitIInv == Init => IInv
<1> SUFFICES ASSUME Init PROVE IInv
  BY Zenon
<1>1. EmptyRecord \in Record
  BY AutomaticAssumption DEF AutomaticAssumption, EmptyRecord, Record, States
<1>2. TypeOK
  <2>1. rec \in [Ids -> Record] /\ journal \in [Attempts -> Seq(Event)] /\ resolved \in [Keys -> Seq(Moments)]
    BY <1>1 DEF Init
  <2>2. row \in [Keys -> Row]
    BY DEF Init, NoView, Row
  <2> QED
    BY <2>1, <2>2, NoViewType, Zenon DEF Init, TypeOK, PCs
<1>3. ViewInv /\ SubmitInv /\ JournalInv
  <2>1. pc = "recover"
    BY Zenon DEF Init
  <2>2. ViewInv /\ SubmitInv
    BY <2>1 DEF ViewInv, SubmitInv, InFlight, Staged
  <2>3. \A a \in Attempts : journal[a] = <<>>
    BY DEF Init
  <2>4. JournalInv
    BY <2>3 DEF JournalInv
  <2> QED
    BY <2>2, <2>4
<1>4. LineInv
  BY Zenon DEF Init, LineInv, OneWaitingPerLine, waiting, EmptyRecord, InFlight
<1>5. WireInv
  BY Zenon DEF Init, WireInv, OneOrderPerRevision, EmptyRecord
<1> QED
  BY <1>2, <1>3, <1>4, <1>5 DEF IInv, CoreInv

\* Every step keeps the invariant.
LEMMA StepIInv == IInv /\ [Next]_vars => IInv'
<1> SUFFICES ASSUME IInv, [Next]_vars PROVE IInv'
  OBVIOUS
<1>1. TypeOK'
  <2>1. CASE Next
    BY <2>1, NextKeepsTypes, Zenon DEF IInv, CoreInv
  <2>2. CASE UNCHANGED vars
    BY <2>2 DEF IInv, TypeOK, vars, envVars, execVars
  <2> QED
    BY <2>1, <2>2
<1> QED
  BY <1>1, NextKeepsView, NextKeepsCore, NextKeepsJournal DEF IInv

\* The invariant always holds.
LEMMA AlwaysIInv == Spec => []IInv
BY InitIInv, StepIInv, PTL DEF Spec

\* The variables of automatic submission keep their types, whatever the keys,
\* revisions, attempts and bounds.
THEOREM AutomaticTypes == Spec => []TypeOK
<1>1. IInv => TypeOK
  BY DEF IInv
<1> QED
  BY <1>1, AlwaysIInv, PTL

\* One proposal revision never becomes two broker orders: submitAutomatic stages
\* a revision's intent once, and no refusal, failed save or crash makes it again
\* with a frame out.
THEOREM OneOrder == Spec => []OneOrderPerRevision
<1>1. IInv => OneOrderPerRevision
  BY Zenon DEF IInv, CoreInv, WireInv
<1> QED
  BY <1>1, AlwaysIInv, PTL

\* What the owner reads of a record is so of the broker: waiting, vetoed or
\* superseded with nothing sent, submitted with an order out.
THEOREM RecordIsHonest == Spec => []RecordMatchesWire
<1>1. IInv => RecordMatchesWire
  BY Zenon DEF IInv, CoreInv, WireInv, RecordMatchesWire
<1> QED
  BY <1>1, AlwaysIInv, PTL

\* reconcileAutomatic and the retries of submitAutomatic leave a line waiting at
\* one size at most.
THEOREM OneClockPerLine == Spec => []OneWaitingPerLine
<1>1. IInv => OneWaitingPerLine
  BY Zenon DEF IInv, CoreInv, LineInv
<1> QED
  BY <1>1, AlwaysIInv, PTL

\* The wire guard's lock: an order leaves only armed, not frozen and under the
\* arming its veto clock ran under.
THEOREM ArmingHolds == Spec => SentUnderItsArming
<1>1. IInv /\ [Next]_vars =>
        [\A a \in Attempts : Sends(a) => armed /\ ~frozen /\ rec[order[a].by].arm = armedAt]_vars
  <2> SUFFICES ASSUME IInv, [Next]_vars, NEW a \in Attempts, Sends(a)
               PROVE  armed /\ ~frozen /\ rec[order[a].by].arm = armedAt
    OBVIOUS
  <2>1. a = att /\ pc = "guarded" /\ ~frozen
    BY WireSteps, Zenon DEF IInv
  <2> QED
    BY <2>1, Zenon DEF IInv, CoreInv, SubmitInv, Granted, Staged, InFlight
<1> QED
  BY <1>1, AlwaysIInv, PTL DEF Spec, SentUnderItsArming

\* A veto that landed stands for ever, and the submission it raced writes no
\* order of that revision after it.
THEOREM VetoHolds == Spec => VetoIsForGood
<1>1. IInv /\ [Next]_vars =>
        [\A id \in Ids : rec[id].state = "vetoed" =>
            /\ rec'[id].state = "vetoed"
            /\ \A a \in Attempts : Sends(a) => order[a].by # id]_vars
  <2> SUFFICES ASSUME IInv, [Next]_vars, NEW id \in Ids, rec[id].state = "vetoed"
               PROVE  /\ rec'[id].state = "vetoed"
                      /\ \A a \in Attempts : Sends(a) => order[a].by # id
    BY Zenon
  <2>1. rec'[id].state = "vetoed"
    BY VetoStays, Zenon DEF IInv
  <2>2. ASSUME NEW a \in Attempts, Sends(a) PROVE order[a].by # id
    <3>1. a = att /\ pc = "guarded"
      BY <2>2, WireSteps, Zenon DEF IInv
    <3> QED
      BY <3>1, Zenon DEF IInv, CoreInv, SubmitInv, Staged, InFlight
  <2> QED
    BY <2>1, <2>2, Zenon
<1> QED
  BY <1>1, AlwaysIInv, PTL DEF Spec, VetoIsForGood
=============================================================================
