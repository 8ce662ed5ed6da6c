----------------------- MODULE AutomaticWindowProofs -----------------------
(***************************************************************************)
(* The veto window of automatic submission, for every set of rows and any  *)
(* length of the window: no order leaves before its notice stood for all   *)
(* of it, and a mandate reduction's stood in the session it is sent in.    *)
(*                                                                         *)
(* A clock restarted for a new session is that of a pending record unless  *)
(* a freeze deferred it: the argument needs that a behaviour does not have *)
(* sessions, freezes and mandates all three (NotAllThree), and each        *)
(* theorem says which of them it leaves out.                               *)
(***************************************************************************)
EXTENDS AutomaticSubmissionProofs

\* The notice of r stood long enough, or will have when the window's end is
\* due, counted from time t.
Covers(r, t) == r.seen >= VetoWindow \/ r.seen + r.submitAt >= t + VetoWindow

Stood(r) == r.skip \/ r.seen >= VetoWindow

Live(r) == waiting(r) \/ r.state = "submitting"

\* The clock of a mandate started in the session opened at o; that of another
\* row does not know sessions.
InSession(r, k, o) == k \in Mandates => r.created >= o

\* The clock of a record of key k at time t.  What waits with its notice out
\* will have had its window when it is due, what a freeze deferred has had it,
\* and what ended with its clock stopped has as much of it as that clock says.
Clock(r, k, t, o) ==
    /\ r.created <= t /\ r.resolvedAt <= t
    /\ r.skip => k \notin Mandates
    /\ r.state = "deferred" => "freeze" \in Acts
    /\ r.state = "superseded" /\ r.carry => k \in Mandates
    /\ InSession(r, k, o) =>
          /\ r.state = "pending" /\ r.noticed /\ ~r.skip => Covers(r, t)
          /\ r.state = "deferred" => Stood(r)
          /\ r.state = "superseded" /\ r.carry /\ r.noticed => Covers(r, r.resolvedAt)

SessionInv ==
    /\ opened <= now /\ ("session" \notin Acts => opened = 0)
    /\ frozen \/ res = "frozen" => "freeze" \in Acts

RecordsInv == \A id \in Ids : Clock(rec[id], id[1], now, opened)

Fresh(id) == InSession(rec[id], id[1], opened)

\* What the pass has to do, and does, is about records that had their window;
\* a mandate it goes on with has a clock of this session.
PassInv ==
    /\ pc \in {"recover", "read", "update", "list"} => todo = {}
    /\ \A id \in todo : Live(rec[id]) /\ Fresh(id) => Stood(rec[id])
    /\ pc \in InFlight =>
          /\ cur \notin todo
          /\ Live(rec[cur]) => /\ Fresh(cur) => Stood(rec[cur])
                               /\ Mandates \subseteq SessionKeys /\ Served(cur) => Fresh(cur)

WindowInv == SessionInv /\ RecordsInv /\ PassInv

-----------------------------------------------------------------------------
(* Clocks of records *)

\* The delays are numbers.
LEMMA WindowType == VetoWindow \in Nat /\ DeferRetry \in Nat /\ SessionDelays \subseteq Nat
BY AutomaticAssumption DEF AutomaticAssumption

\* The fields of a record that its clock is made of.
LEMMA ClockFields ==
    ASSUME NEW r \in Record
    PROVE  /\ r.created \in Nat /\ r.submitAt \in Nat /\ r.resolvedAt \in Nat /\ r.seen \in Nat
           /\ r.noticed \in BOOLEAN /\ r.skip \in BOOLEAN /\ r.carry \in BOOLEAN
BY DEF Record

\* A record that ended without its clock has none.
LEMMA EndedClock ==
    ASSUME NEW k, NEW t \in Nat, NEW o, NEW st \in States \ {"pending", "deferred"}
    PROVE  Clock(resolve(st), k, t, o)
<1>1. /\ resolve(st).state = st /\ resolve(st).created = 0 /\ resolve(st).resolvedAt = 0
      /\ resolve(st).skip = FALSE /\ resolve(st).carry = FALSE
  BY DEF resolve, EmptyRecord
<1> QED
  BY <1>1 DEF Clock

\* A record that ends with its clock stops it at what it has.
LEMMA CarryingClock ==
    ASSUME now \in Nat, NEW r \in Record, NEW k \in Mandates, NEW o \in Nat, NEW arming, Clock(r, k, now, o),
           InSession(r, k, o) /\ r.noticed => Covers(r, now)
    PROVE  Clock(ResolveCarrying(r, arming), k, now, o)
<1> DEFINE s == ResolveCarrying(r, arming)
<1>1. /\ s.state = "superseded" /\ s.resolvedAt = now /\ s.created = r.created /\ s.skip = r.skip
      /\ s.noticed = r.noticed /\ s.seen = r.seen /\ s.submitAt = r.submitAt
  BY DEF ResolveCarrying, Record
<1>2. r.created <= now /\ ~r.skip
  BY DEF Clock
<1> HIDE DEF s
<1>3. Clock(s, k, now, o)
  BY <1>1, <1>2 DEF Clock, InSession, Covers
<1> QED
  BY <1>3 DEF s

\* The notice moves the end of the window away from now.
LEMMA NoticedClock ==
    ASSUME now \in Nat, NEW r \in Record, NEW k, NEW o \in Nat, Clock(r, k, now, o), r.state = "pending",
           NEW at \in Nat, r.skip \/ at >= now + VetoWindow
    PROVE  Clock([r EXCEPT !.noticed = TRUE, !.submitAt = at], k, now, o)
<1> DEFINE s == [r EXCEPT !.noticed = TRUE, !.submitAt = at]
<1>1. /\ s.state = r.state /\ s.resolvedAt = r.resolvedAt /\ s.created = r.created /\ s.skip = r.skip
      /\ s.seen = r.seen /\ s.submitAt = at
  BY DEF Record
<1> HIDE DEF s
<1> QED
  BY <1>1, ClockFields, WindowType DEF Clock, InSession, Covers

\* A due time moves later only, and the retry floor is no part of the clock.
LEMMA LaterClock ==
    ASSUME now \in Nat, NEW r \in Record, NEW k, NEW o \in Nat, Clock(r, k, now, o), NEW at \in Nat, at >= r.submitAt
    PROVE  Clock([r EXCEPT !.submitAt = at], k, now, o)
<1> DEFINE s == [r EXCEPT !.submitAt = at]
<1>1. /\ s.state = r.state /\ s.resolvedAt = r.resolvedAt /\ s.created = r.created /\ s.skip = r.skip
      /\ s.carry = r.carry /\ s.noticed = r.noticed /\ s.seen = r.seen /\ s.submitAt = at
  BY DEF Record
<1> HIDE DEF s
<1>2. Clock(s, k, now, o)
  BY <1>1, ClockFields, WindowType DEF Clock, InSession, Covers, Stood
<1> QED
  BY <1>2 DEF s

\* What Clock does not read may change.
LEMMA SameClock ==
    ASSUME NEW r \in Record, NEW k, NEW o, Clock(r, k, now, o)
    PROVE  /\ Clock([r EXCEPT !.own = FALSE], k, now, o)
           /\ \A n : Clock([r EXCEPT !.resubmitAt = n], k, now, o)
<1>1. ASSUME NEW s, s.state = r.state, s.resolvedAt = r.resolvedAt, s.created = r.created, s.skip = r.skip,
             s.carry = r.carry, s.noticed = r.noticed, s.seen = r.seen, s.submitAt = r.submitAt
      PROVE  Clock(s, k, now, o)
  BY <1>1 DEF Clock, InSession, Covers, Stood
<1>2. Clock([r EXCEPT !.own = FALSE], k, now, o)
  BY <1>1 DEF Record
<1>3. ASSUME NEW n PROVE Clock([r EXCEPT !.resubmitAt = n], k, now, o)
  BY <1>1 DEF Record
<1> QED
  BY <1>2, <1>3

\* A clock restarted has its notice to come.
LEMMA RestartedClock ==
    ASSUME now \in Nat, NEW r \in Record, NEW k, NEW o \in Nat, Clock(r, k, now, o), r.state = "pending", NEW at, NEW q
    PROVE  Clock([r EXCEPT !.created = now, !.submitAt = at, !.noticed = FALSE, !.size = q, !.seen = 0], k, now, o)
<1> DEFINE s == [r EXCEPT !.created = now, !.submitAt = at, !.noticed = FALSE, !.size = q, !.seen = 0]
<1>1. /\ s.state = "pending" /\ s.resolvedAt = r.resolvedAt /\ s.created = now /\ s.skip = r.skip /\ s.noticed = FALSE
  BY DEF Record
<1> HIDE DEF s
<1> QED
  BY <1>1 DEF Clock

\* The answer to a submission of a record that had its window.
LEMMA OutcomeClock ==
    ASSUME now \in Nat, armedAt \in Nat, NEW r \in Record, NEW k, NEW o \in Nat, Clock(r, k, now, o),
           InSession(r, k, o) /\ Live(r) => Stood(r), Live(r) \/ terminal(r),
           NEW ans, ans = "frozen" => "freeze" \in Acts
    PROVE  Clock(outcome(r, k, ans), k, now, o)
<1>1. Clock(resolve("submitted"), k, now, o) /\ Clock(resolve("superseded"), k, now, o) /\ Clock(resolve("failed"), k, now, o)
  BY EndedClock DEF States, Terminal
<1>2. ASSUME Live(r), k \in Mandates PROVE Clock(ResolveCarrying(r, armedAt), k, now, o)
  <2>1. InSession(r, k, o) => Covers(r, now)
    BY <1>2 DEF Stood, Covers, Clock
  <2> QED
    BY <1>2, <2>1, CarryingClock
<1>3. ASSUME NEW s, s.state \in {"pending", "deferred"}, s.state = "deferred" => "freeze" \in Acts, s.resolvedAt = r.resolvedAt,
             s.created = r.created, s.skip = r.skip, s.seen = r.seen, Live(r)
      PROVE  Clock(s, k, now, o)
  BY <1>3 DEF Clock, InSession, Covers, Stood
<1>4. ASSUME Live(r), "freeze" \in Acts
      PROVE  Clock([r EXCEPT !.state = "deferred", !.resubmitAt = now + DeferRetry, !.attempt = NoAttempt], k, now, o)
  <2> DEFINE s == [r EXCEPT !.state = "deferred", !.resubmitAt = now + DeferRetry, !.attempt = NoAttempt]
  <2>1. /\ s.state = "deferred" /\ s.resolvedAt = r.resolvedAt /\ s.created = r.created /\ s.skip = r.skip
        /\ s.seen = r.seen
    BY DEF Record
  <2> HIDE DEF s
  <2>2. Clock(s, k, now, o)
    BY <1>3, <1>4, <2>1
  <2> QED
    BY <2>2 DEF s
<1>5. ASSUME Live(r)
      PROVE  Clock([r EXCEPT !.state = "pending", !.resubmitAt = now + DeferRetry], k, now, o)
  <2> DEFINE s == [r EXCEPT !.state = "pending", !.resubmitAt = now + DeferRetry]
  <2>1. /\ s.state = "pending" /\ s.resolvedAt = r.resolvedAt /\ s.created = r.created /\ s.skip = r.skip
        /\ s.seen = r.seen
    BY DEF Record
  <2> HIDE DEF s
  <2>2. Clock(s, k, now, o)
    BY <1>3, <1>5, <2>1
  <2> QED
    BY <2>2 DEF s
<1>6. CASE terminal(r)
  BY <1>6 DEF outcome
<1>7. CASE ~terminal(r)
  BY <1>1, <1>2, <1>4, <1>5, <1>7 DEF outcome
<1> QED
  BY <1>6, <1>7

\* A tick: the notice of what waits stands one longer, and at an open a
\* mandate's clock is no longer of the session.
LEMMA TickClock ==
    ASSUME NEW t \in Nat, NEW o \in Nat, o <= t, NEW p \in {o, t + 1}, NEW r \in Record, NEW k, Clock(r, k, t, o)
    PROVE  /\ ~waiting(r) => Clock(r, k, t + 1, p)
           /\ k \in Mandates /\ p = t + 1 => Clock([r EXCEPT !.seen = 0], k, t + 1, p)
           /\ r.noticed => Clock([r EXCEPT !.seen = @ + 1], k, t + 1, p)
           /\ ~r.noticed \/ r.seen >= VetoWindow => Clock(r, k, t + 1, p)
<1> USE ClockFields, WindowType DEF InSession, Covers, Stood
<1>1. ASSUME ~waiting(r) PROVE Clock(r, k, t + 1, p)
  BY <1>1 DEF Clock, waiting
<1>2. ASSUME k \in Mandates, p = t + 1 PROVE Clock([r EXCEPT !.seen = 0], k, t + 1, p)
  <2> DEFINE s == [r EXCEPT !.seen = 0]
  <2>1. /\ s.state = r.state /\ s.resolvedAt = r.resolvedAt /\ s.created = r.created /\ s.skip = r.skip /\ s.carry = r.carry
    BY DEF Record
  <2> HIDE DEF s
  <2> QED
    BY <1>2, <2>1 DEF Clock
<1>3. ASSUME r.noticed PROVE Clock([r EXCEPT !.seen = @ + 1], k, t + 1, p)
  <2> DEFINE s == [r EXCEPT !.seen = @ + 1]
  <2>1. /\ s.state = r.state /\ s.resolvedAt = r.resolvedAt /\ s.created = r.created /\ s.skip = r.skip /\ s.carry = r.carry
        /\ s.seen = r.seen + 1 /\ s.submitAt = r.submitAt /\ s.noticed = r.noticed
    BY DEF Record
  <2> HIDE DEF s
  <2> QED
    BY <2>1 DEF Clock
<1>4. ASSUME ~r.noticed \/ r.seen >= VetoWindow PROVE Clock(r, k, t + 1, p)
  BY <1>4 DEF Clock
<1> QED
  BY <1>1, <1>2, <1>3, <1>4

\* A record created by a reconcile: its own notice is to come, or it goes on
\* with the clock of the record that ended last, paused for the gap.
LEMMA CreatedClock ==
    ASSUME now \in Nat, opened \in Nat, opened <= now, view.armedAt \in Nat,
           NEW recs \in AllRecords, NEW ends \in AllEnds, NEW k \in Keys,
           \A id \in Ids : Clock(recs[id], id[1], now, opened),
           view.row[k].rev \in Revisions, NEW latched, NEW delay \in Nat
    PROVE  Clock(CreatedRecord(recs, ends, k, latched, delay), k, now, opened)
<1> DEFINE v == view.row[k].rev
           fresh == FreshRecord(k, v, latched)
           prior == automaticEpisodePrior(recs, k, ends)
           carried == CarriedRecord(fresh, prior)
           s == CreatedRecord(recs, ends, k, latched, delay)
<1>1. fresh \in Record
  BY FreshType
<1>2. /\ fresh.state = "pending" /\ fresh.created = now /\ fresh.noticed = FALSE /\ fresh.resolvedAt = 0
      /\ fresh.skip => k \notin Mandates
  BY Zenon DEF FreshRecord
<1>3. CASE ~(EpisodeEnded(k, ends) /\ Carries(prior, v))
  <2>1. s = [fresh EXCEPT !.submitAt = automaticSessionDue(k, @, delay)]
    BY <1>3 DEF CreatedRecord
  <2> HIDE DEF fresh, s
  <2>2. /\ s.state = fresh.state /\ s.created = fresh.created /\ s.noticed = fresh.noticed
        /\ s.resolvedAt = fresh.resolvedAt /\ s.skip = fresh.skip
    BY <1>1, <2>1 DEF Record
  <2> QED
    BY <1>2, <2>2 DEF Clock, s
<1>4. CASE EpisodeEnded(k, ends) /\ Carries(prior, v)
  <2>1. PICK u \in Revisions : prior = recs[<<k, u>>]
    BY <1>4, PriorIsRecord
  <2>2. prior \in Record /\ Clock(prior, k, now, opened)
    BY <2>1 DEF AllRecords, Ids
  <2>3. k \in Mandates /\ prior.state = "superseded" /\ prior.carry
    BY <1>4 DEF EpisodeEnded, Carries
  <2>4. carried \in Record
    BY <1>1, <2>2, CarriedType
  <2>5. s = [carried EXCEPT !.submitAt = automaticSessionDue(k, @, delay)]
    BY <1>4 DEF CreatedRecord
  <2>6. /\ carried.state = "pending" /\ carried.created = prior.created /\ carried.noticed = prior.noticed
        /\ carried.resolvedAt = 0 /\ carried.skip = fresh.skip /\ carried.seen = prior.seen
    <3> HIDE DEF fresh, prior
    <3> QED
      BY <1>1, <1>2 DEF CarriedRecord, Record
  <2>7. carried.submitAt = LET paused == IF prior.resolvedAt < prior.submitAt
                                        THEN prior.submitAt + (now - prior.resolvedAt) ELSE prior.submitAt
                           IN  IF paused > now + VetoWindow THEN now + VetoWindow ELSE paused
    <3> HIDE DEF fresh, prior
    <3> QED
      BY <1>1 DEF CarriedRecord, Record
  <2> HIDE DEF fresh, prior, carried, s
  <2>8. InSession(prior, k, opened) /\ prior.noticed => Covers(carried, now)
    <3>1. InSession(prior, k, opened) /\ prior.noticed => Covers(prior, prior.resolvedAt)
      BY <2>2, <2>3 DEF Clock
    <3>2. /\ prior.submitAt \in Nat /\ prior.resolvedAt \in Nat /\ prior.seen \in Nat /\ prior.resolvedAt <= now
      BY <2>2, ClockFields DEF Clock
    <3> QED
      BY <2>6, <2>7, <3>1, <3>2, WindowType DEF Covers
  <2>9. /\ s.state = "pending" /\ s.created = prior.created /\ s.noticed = prior.noticed
        /\ s.resolvedAt = 0 /\ s.skip = fresh.skip /\ s.seen = prior.seen
    BY <2>4, <2>5, <2>6 DEF Record
  <2>10. s.submitAt \in Nat /\ s.submitAt >= carried.submitAt
    <3>1. s.submitAt = automaticSessionDue(k, carried.submitAt, delay)
      BY <2>4, <2>5 DEF Record
    <3> QED
      BY <2>4, <3>1, ClockFields DEF automaticSessionDue
  <2>11. InSession(s, k, opened) /\ s.noticed => Covers(s, now)
    BY <2>4, <2>6, <2>8, <2>9, <2>10, ClockFields, WindowType DEF InSession, Covers
  <2>12. s.created <= now
    BY <2>2, <2>9 DEF Clock
  <2> QED
    BY <1>2, <2>3, <2>9, <2>11, <2>12 DEF Clock, s
<1> QED
  BY <1>3, <1>4

-----------------------------------------------------------------------------
(* Steps *)

NotAllThree == "session" \notin Acts \/ "freeze" \notin Acts \/ Mandates = {}

\* Every step keeps the session no later than the clock, and a refusal for the
\* freeze only where a freeze can be.
LEMMA NextKeepsSession ==
    ASSUME TypeOK, SessionInv, [Next]_vars
    PROVE  SessionInv'
<1>1. CASE UNCHANGED <<now, opened, frozen>> /\ (res' = res \/ res' # "frozen" \/ frozen)
  BY <1>1 DEF SessionInv
<1>2. CASE Tick
  BY <1>2 DEF Tick, SessionInv, TypeOK, others, execVars
<1>3. CASE SetFrozen
  BY <1>3 DEF SetFrozen, SessionInv, others, execVars
<1>4. CASE Scheduler
  BY <1>1, <1>4, Zenon
     DEF Scheduler, recoverAutomaticAfterRestart, ReconcileRead, reconcileAutomatic, submitDueAutomatic, holdAutomatic,
         rescheduleAutomatic, restartAutomaticClock, BeginSubmit, EndCycle, RefuseUnstaged, previewOrder, beforePlace,
         placeOrder, brokerWireGuard, submitBoundConfiguredOrder, appendOrderSendOutcome, settleSubmission,
         KeepDue, KeepPlace, KeepEnv, Refusal, SettleAs, Done, envVars
<1>5. CASE (Owner /\ ~SetFrozen) \/ World \/ Faults
  BY <1>1, <1>5, Zenon
     DEF Owner, World, Faults, Arm, Disarm, Veto, VetoRead, Refresh, markAutomaticNoticed, Callback,
         StoreFault, AppendFault, SettleFault, HousekeepingFails, Restart, Done, SettleAs, others, execVars, envVars
<1> QED
  BY <1>1, <1>2, <1>3, <1>4, <1>5 DEF Next, vars, envVars, execVars

\* A step that writes one record with a full clock.
LEMMA OneKeepsRecords ==
    ASSUME TypeOK, RecordsInv, UNCHANGED <<now, opened>>,
           NEW id \in Ids, NEW r, rec' = [rec EXCEPT ![id] = r], Clock(r, id[1], now, opened)
    PROVE  RecordsInv'
<1> SUFFICES ASSUME NEW i \in Ids PROVE Clock(rec'[i], i[1], now, opened)
  BY DEF RecordsInv
<1>1. rec'[i] = IF i = id THEN r ELSE rec[i]
  BY DEF TypeOK
<1> QED
  BY <1>1 DEF RecordsInv

\* What a submission answers is about a record that had its window.
LEMMA SettleKeepsRecords ==
    ASSUME IInv, WindowInv, UNCHANGED <<now, opened>>, pc \in InFlight,
           NEW ans, SettleAs(ans), ans = "frozen" => "freeze" \in Acts
    PROVE  RecordsInv'
<1>1. cur \in Ids /\ rec[cur].state \in {"pending", "deferred", "vetoed", "submitting"}
  BY DEF IInv, CoreInv, SubmitInv, Staged, InFlight
<1>2. rec[cur] \in Record /\ now \in Nat /\ opened \in Nat /\ armedAt \in Nat
  BY <1>1 DEF IInv, TypeOK
<1>3. Live(rec[cur]) \/ terminal(rec[cur])
  BY <1>1 DEF Live, waiting, terminal, Terminal
<1>4. InSession(rec[cur], cur[1], opened) /\ Live(rec[cur]) => Stood(rec[cur])
  BY DEF WindowInv, PassInv, Fresh
<1>5. Clock(rec[cur], cur[1], now, opened)
  BY <1>1 DEF WindowInv, RecordsInv
<1>6. Clock(outcome(rec[cur], cur[1], ans), cur[1], now, opened)
  BY <1>2, <1>3, <1>4, <1>5, OutcomeClock
<1>7. rec' = [rec EXCEPT ![cur] = outcome(rec[cur], cur[1], ans)]
  BY DEF SettleAs, Put
<1> QED
  BY <1>1, <1>6, <1>7, OneKeepsRecords, Zenon DEF IInv, WindowInv

\* A restarted clock is that of a pending record: a deferred one would have
\* had to meet a freeze, and its session a mandate.
LEMMA PassKeepsRecords ==
    ASSUME IInv, WindowInv, NotAllThree, NEW id \in Ids, rescheduleAutomatic(id) \/ restartAutomaticClock(id)
    PROVE  RecordsInv'
<1>1. rec[id] \in Record /\ now \in Nat /\ opened \in Nat /\ UNCHANGED <<now, opened>>
  BY Zenon DEF IInv, TypeOK, rescheduleAutomatic, restartAutomaticClock, KeepDue, envVars
<1>2. Clock(rec[id], id[1], now, opened)
  BY DEF WindowInv, RecordsInv
<1>3. CASE rescheduleAutomatic(id)
  <2> DEFINE Later(t) == IF t > now THEN t ELSE now + 1
  <2>1. PICK r : /\ rec' = [rec EXCEPT ![id] = r]
                 /\ \/ r = rec[id] \/ r = [rec[id] EXCEPT !.resubmitAt = Later(rec[id].resubmitAt)]
                    \/ r = [rec[id] EXCEPT !.submitAt = Later(rec[id].submitAt)]
    BY <1>1, <1>3, Zenon DEF rescheduleAutomatic, Put, Record
  <2>2. Later(rec[id].resubmitAt) \in Nat /\ Later(rec[id].submitAt) \in Nat /\ Later(rec[id].submitAt) >= rec[id].submitAt
    BY <1>1, FieldType
  <2> HIDE DEF Later
  <2>3. Clock(r, id[1], now, opened)
    <3>1. CASE r = [rec[id] EXCEPT !.submitAt = Later(rec[id].submitAt)]
      BY <1>1, <1>2, <2>2, <3>1, LaterClock
    <3>2. CASE r = [rec[id] EXCEPT !.resubmitAt = Later(rec[id].resubmitAt)]
      BY <1>1, <1>2, <3>2, SameClock, Zenon
    <3> QED
      BY <1>2, <2>1, <3>1, <3>2
  <2> QED
    BY <1>1, <2>1, <2>3, OneKeepsRecords, Zenon DEF IInv, WindowInv
<1>4. CASE restartAutomaticClock(id)
  <2>1. rec[id].state # "deferred"
    <3>1. id[1] \in Mandates /\ rec[id].created < opened
      BY <1>4, Zenon DEF restartAutomaticClock, automaticClockBeforeSession
    <3>2. "session" \in Acts
      BY <1>1, <3>1, ClockFields DEF WindowInv, SessionInv
    <3> QED
      BY <1>2, <3>1, <3>2 DEF NotAllThree, Clock
  <2> DEFINE Anew(at) == [rec[id] EXCEPT !.created = now, !.submitAt = at, !.noticed = FALSE,
                                         !.size = Quantity[id[2]], !.seen = 0]
  <2>2. PICK at : rec' = [rec EXCEPT ![id] = IF ~waiting(rec[id]) THEN rec[id] ELSE Anew(at)]
    BY <1>4, Zenon DEF restartAutomaticClock, Put
  <2> DEFINE r == IF ~waiting(rec[id]) THEN rec[id] ELSE Anew(at)
  <2>3. Clock(r, id[1], now, opened)
    <3>1. CASE ~waiting(rec[id])
      BY <1>2, <3>1
    <3>2. CASE waiting(rec[id])
      <4>1. rec[id].state = "pending"
        BY <2>1, <3>2 DEF waiting
      <4>2. Clock(Anew(at), id[1], now, opened)
        BY <1>1, <1>2, <4>1, RestartedClock, Zenon
      <4> QED
        BY <3>2, <4>2
    <3> QED
      BY <3>1, <3>2
  <2> HIDE DEF r
  <2> QED
    BY <1>1, <2>2, <2>3, OneKeepsRecords, Zenon DEF IInv, WindowInv, r
<1> QED
  BY <1>3, <1>4

\* Superseding and creating in one pass leaves every record a full clock.
LEMMA ReconcileKeepsRecords ==
    ASSUME IInv, WindowInv, reconcileAutomatic
    PROVE  RecordsInv'
<1>1. PICK verdict \in Verdicts, C \in SUBSET Keys, latched \in Latches, delay \in SessionDelays :
         /\ Create(Superseded(verdict), EndsWith(verdict), C, latched, delay)
         /\ Superseded(verdict) \in AllRecords /\ EndsWith(verdict) \in AllEnds
         /\ \A k \in C : view.row[k].rev \in Revisions
  BY ReconcileParts, Zenon DEF IInv
<1> DEFINE recs == Superseded(verdict)
           ends == EndsWith(verdict)
<1>2. /\ now \in Nat /\ opened \in Nat /\ view.armedAt \in Nat /\ delay \in Nat /\ opened <= now
      /\ UNCHANGED <<now, opened>>
  BY WindowType DEF IInv, TypeOK, WindowInv, SessionInv, reconcileAutomatic, envVars
<1>3. ASSUME NEW id \in Ids PROVE Clock(recs[id], id[1], now, opened)
  <2>1. rec[id] \in Record /\ Clock(rec[id], id[1], now, opened)
    BY DEF IInv, TypeOK, WindowInv, RecordsInv
  <2>2. id[1] \in Keys /\ id[2] \in Revisions /\ id = <<id[1], id[2]>>
    BY DEF Ids
  <2>3. verdict[id] \in supersedeVerdicts(id[1], id[2]) /\ rec[id] = rec[<<id[1], id[2]>>]
    BY <2>2 DEF Verdicts
  <2>4. verdict[id] # "keep" => waiting(rec[id])
    BY <2>3 DEF supersedeVerdicts
  <2>5. recs[id] = Supersede(rec[id], id[1], verdict[id])
    BY DEF Superseded
  <2>6. Clock(resolve("superseded"), id[1], now, opened)
    BY <1>2, EndedClock DEF States, Terminal
  <2>7. ASSUME waiting(rec[id]), id[1] \in Mandates PROVE Clock(ResolveCarrying(rec[id], view.armedAt), id[1], now, opened)
    <3>1. InSession(rec[id], id[1], opened) /\ rec[id].noticed => Covers(rec[id], now)
      BY <2>1, <2>7 DEF Clock, waiting, Stood, Covers
    <3> QED
      BY <1>2, <2>1, <2>7, <3>1, CarryingClock, SMTT(30)
  <2> QED
    BY <2>1, <2>4, <2>5, <2>6, <2>7 DEF Supersede
<1> HIDE DEF recs, ends
<1>4. ASSUME NEW id \in Ids PROVE Clock(rec'[id], id[1], now, opened)
  <2>1. CASE id[1] \in C /\ view.row[id[1]].rev = id[2]
    <3>1. rec'[id] = CreatedRecord(recs, ends, id[1], latched, delay)
      BY <1>1, <2>1 DEF Create, recs, ends
    <3>2. recs \in AllRecords /\ ends \in AllEnds /\ id[1] \in Keys /\ view.row[id[1]].rev \in Revisions
      BY <1>1, <2>1 DEF recs, ends
    <3> QED
      BY <1>2, <1>3, <3>1, <3>2, CreatedClock
  <2>2. CASE ~(id[1] \in C /\ view.row[id[1]].rev = id[2])
    <3>1. rec'[id] = recs[id]
      BY <1>1, <2>2 DEF Create, recs
    <3> QED
      BY <1>3, <3>1
  <2> QED
    BY <2>1, <2>2
<1> QED
  BY <1>2, <1>4 DEF RecordsInv

\* Time passing, or a session opening, leaves every record a full clock.
LEMMA TickKeepsRecords ==
    ASSUME IInv, WindowInv, Tick
    PROVE  RecordsInv'
<1>1. now \in Nat /\ opened \in Nat /\ opened <= now /\ now' = now + 1 /\ opened' \in {opened, now + 1}
  BY DEF IInv, TypeOK, WindowInv, SessionInv, Tick
<1>2. ~open /\ open' => opened' = now + 1
  BY Zenon DEF Tick
<1>3. ASSUME NEW id \in Ids PROVE Clock(rec'[id], id[1], now + 1, opened')
  <2>1. rec[id] \in Record /\ Clock(rec[id], id[1], now, opened)
    BY DEF IInv, TypeOK, WindowInv, RecordsInv
  <2>2. \/ ~waiting(rec[id]) /\ rec'[id] = rec[id]
        \/ id[1] \in Mandates /\ opened' = now + 1 /\ rec'[id] = [rec[id] EXCEPT !.seen = 0]
        \/ rec[id].noticed /\ rec'[id] = [rec[id] EXCEPT !.seen = @ + 1]
        \/ (~rec[id].noticed \/ rec[id].seen >= VetoWindow) /\ rec'[id] = rec[id]
    <3>1. rec[id].seen \in Nat
      BY <2>1, ClockFields
    <3> QED
      BY <1>2, <3>1, WindowType DEF Tick
  <2> QED
    BY <1>1, <2>1, <2>2, TickClock
<1> QED
  BY <1>1, <1>3 DEF RecordsInv

\* Every step leaves every record a full clock.
LEMMA NextKeepsRecords ==
    ASSUME IInv, WindowInv, NotAllThree, [Next]_vars
    PROVE  RecordsInv'
<1>1. CASE UNCHANGED <<rec, now, opened>>
  BY <1>1 DEF WindowInv, RecordsInv
<1>2. CASE RefuseUnstaged \/ settleSubmission \/ StoreFault \/ (beforePlace /\ ~waiting(rec[cur]))
  <2>1. UNCHANGED <<now, opened>>
    BY <1>2 DEF RefuseUnstaged, settleSubmission, StoreFault, beforePlace, KeepEnv, envVars
  <2>2. UNCHANGED rec \/ \E ans : SettleAs(ans) /\ (ans = "frozen" => frozen \/ res = "frozen")
    BY <1>2 DEF RefuseUnstaged, settleSubmission, StoreFault, beforePlace, Refusals
  <2>3. pc \in InFlight
    BY <1>2 DEF RefuseUnstaged, settleSubmission, StoreFault, beforePlace, InFlight
  <2> QED
    BY <1>1, <2>1, <2>2, <2>3, SettleKeepsRecords DEF WindowInv, SessionInv
<1>3. CASE beforePlace /\ waiting(rec[cur])
  <2>1. cur \in Ids /\ rec[cur] \in Record /\ now \in Nat /\ opened \in Nat /\ UNCHANGED <<now, opened>>
    BY <1>3 DEF beforePlace, KeepEnv, envVars, IInv, TypeOK, CoreInv, SubmitInv, InFlight
  <2> DEFINE s == [[[rec[cur] EXCEPT !.state = "submitting"] EXCEPT !.attempt = att] EXCEPT !.own = TRUE]
  <2>2. rec' = [rec EXCEPT ![cur] = s]
    BY <1>3, <2>1, Zenon DEF beforePlace, IInv, TypeOK
  <2>3. /\ s.state = "submitting" /\ s.resolvedAt = rec[cur].resolvedAt /\ s.created = rec[cur].created
        /\ s.skip = rec[cur].skip
    BY <2>1 DEF Record
  <2>4. Clock(rec[cur], cur[1], now, opened)
    BY <2>1, Zenon DEF WindowInv, RecordsInv
  <2> HIDE DEF s
  <2>5. Clock(s, cur[1], now, opened)
    BY <2>3, <2>4 DEF Clock
  <2> QED
    BY <2>1, <2>2, <2>5, OneKeepsRecords, Zenon DEF IInv, WindowInv
<1>4. CASE recoverAutomaticAfterRestart
  <2>1. UNCHANGED <<now, opened>> /\ now \in Nat
    BY <1>4 DEF recoverAutomaticAfterRestart, envVars, IInv, TypeOK
  <2>2. ASSUME NEW id \in Ids PROVE Clock(rec'[id], id[1], now, opened)
    <3>1. rec'[id] \in {rec[id], resolve("submitted"), resolve("failed")}
      BY <1>4 DEF recoverAutomaticAfterRestart, automaticRestartOutcome
    <3>2. Clock(resolve("submitted"), id[1], now, opened) /\ Clock(resolve("failed"), id[1], now, opened)
      BY <2>1, EndedClock DEF States, Terminal
    <3> QED
      BY <3>1, <3>2 DEF WindowInv, RecordsInv
  <2> QED
    BY <2>1, <2>2 DEF RecordsInv
<1>5. ASSUME NEW k \in Keys, Veto(k) PROVE RecordsInv'
  <2>1. UNCHANGED <<now, opened>> /\ now \in Nat
    BY <1>5 DEF Veto, envVars, IInv, TypeOK
  <2>2. PICK v \in VetoTarget(k) : IF v = 0 THEN UNCHANGED <<rec, resolved>>
                                   ELSE Put(<<k, v>>, Vetoed(rec[<<k, v>>], k, v))
    BY <1>5, Zenon DEF Veto
  <2>3. Clock(resolve("vetoed"), k, now, opened)
    BY <2>1, EndedClock DEF States, Terminal
  <2>4. CASE v # 0
    <3>1. v \in 0..MaxRevision
      BY <1>5, TargetType DEF IInv, Veto
    <3>2. <<k, v>> \in Ids
      BY <2>4, <3>1, AutomaticAssumption DEF AutomaticAssumption, Ids, Revisions
    <3>3. Clock(Vetoed(rec[<<k, v>>], k, v), k, now, opened)
      BY <2>3, <3>2 DEF Vetoed, WindowInv, RecordsInv
    <3>4. rec' = [rec EXCEPT ![<<k, v>>] = Vetoed(rec[<<k, v>>], k, v)]
      BY <2>2, <2>4 DEF Put
    <3> QED
      BY <2>1, <3>2, <3>3, <3>4, OneKeepsRecords, Zenon DEF IInv, WindowInv
  <2> QED
    BY <1>1, <2>1, <2>2, <2>4, Zenon
<1>6. ASSUME NEW id \in Ids, markAutomaticNoticed(id) PROVE RecordsInv'
  <2>1. rec[id] \in Record /\ now \in Nat /\ opened \in Nat /\ UNCHANGED <<now, opened>> /\ rec[id].state = "pending"
    BY <1>6 DEF markAutomaticNoticed, envVars, IInv, TypeOK
  <2> DEFINE at == IF rec[id].skip \/ rec[id].submitAt > now + VetoWindow THEN rec[id].submitAt ELSE now + VetoWindow
  <2>2. at \in Nat /\ (rec[id].skip \/ at >= now + VetoWindow)
    BY <2>1, ClockFields, WindowType
  <2>3. rec' = [rec EXCEPT ![id] = [rec[id] EXCEPT !.noticed = TRUE, !.submitAt = at]]
    BY <1>6, <2>1, Zenon DEF markAutomaticNoticed, IInv, TypeOK, Record
  <2>4. Clock(rec[id], id[1], now, opened)
    BY DEF WindowInv, RecordsInv
  <2> HIDE DEF at
  <2> QED
    BY <2>1, <2>2, <2>3, <2>4, NoticedClock, OneKeepsRecords, Zenon DEF IInv, WindowInv
<1>7. CASE Restart
  <2>1. UNCHANGED <<now, opened>> /\ now \in Nat /\ opened \in Nat
    BY <1>7 DEF Restart, IInv, TypeOK
  <2>2. ASSUME NEW id \in Ids PROVE Clock(rec'[id], id[1], now, opened)
    <3>1. rec[id] \in Record /\ Clock(rec[id], id[1], now, opened) /\ rec'[id] = [rec[id] EXCEPT !.own = FALSE]
      BY <1>7 DEF IInv, TypeOK, WindowInv, RecordsInv, Restart
    <3> QED
      BY <2>1, <3>1, SameClock
  <2> QED
    BY <2>1, <2>2 DEF RecordsInv
<1>8. CASE \/ ReconcileRead \/ submitDueAutomatic \/ (\E id \in Ids : holdAutomatic(id) \/ BeginSubmit(id)) \/ EndCycle
           \/ (\E a \in Attempts : previewOrder(a)) \/ placeOrder \/ brokerWireGuard
           \/ submitBoundConfiguredOrder \/ appendOrderSendOutcome
  BY <1>1, <1>8, Zenon
     DEF ReconcileRead, submitDueAutomatic, holdAutomatic, BeginSubmit, EndCycle, previewOrder,
         placeOrder, brokerWireGuard, submitBoundConfiguredOrder, appendOrderSendOutcome,
         KeepDue, KeepPlace, KeepEnv, envVars
<1>9. CASE Scheduler
  BY <1>2, <1>3, <1>4, <1>8, <1>9, PassKeepsRecords, ReconcileKeepsRecords, Zenon DEF Scheduler
<1>10. CASE Owner \/ World \/ Faults
  <2>1. CASE \/ Arm \/ Disarm \/ SetFrozen \/ (\E k \in Keys : \E v \in 0..MaxRevision : VetoRead(k, v))
             \/ (\E k \in Keys, w \in Row : Refresh(k, w)) \/ (\E a \in Attempts : Callback(a))
             \/ AppendFault \/ SettleFault \/ HousekeepingFails
    BY <1>1, <2>1, Zenon
       DEF Arm, Disarm, SetFrozen, VetoRead, Refresh, Callback, AppendFault, SettleFault, HousekeepingFails, envVars
  <2> QED
    BY <1>2, <1>5, <1>6, <1>7, <1>10, <2>1, Zenon DEF Owner, World, Faults
<1> QED
  BY <1>1, <1>9, <1>10, TickKeepsRecords DEF Next, vars, envVars

\* What a record keeps while the pass is under way.
Steady(id) ==
    Live(rec'[id]) =>
        /\ Live(rec[id]) /\ rec'[id].created = rec[id].created /\ rec'[id].skip = rec[id].skip
        /\ InSession(rec[id], id[1], opened') => rec'[id].seen >= rec[id].seen

\* The pass goes on with what it found due while the records it has still to look
\* at are steady.
LEMMA SteadyKeepsPass ==
    ASSUME TypeOK, TypeOK', PassInv, opened' >= opened, todo' \subseteq todo,
           pc' \in {"recover", "read", "update", "list"} => todo' = {},
           \A id \in todo' : Steady(id),
           pc' \in InFlight => pc \in InFlight /\ cur \in Ids /\ UNCHANGED <<cur, view, opened>> /\ Steady(cur)
    PROVE  PassInv'
<1>1. ASSUME NEW id \in Ids, Steady(id), Live(rec[id]) /\ Fresh(id) => Stood(rec[id])
      PROVE  Live(rec'[id]) /\ InSession(rec'[id], id[1], opened') => Stood(rec'[id])
  <2>1. rec[id] \in Record /\ rec'[id] \in Record /\ opened \in Nat /\ opened' \in Nat
    BY DEF TypeOK
  <2> QED
    BY <1>1, <2>1, ClockFields, WindowType DEF Steady, Fresh, InSession, Stood
<1>2. \A id \in todo' : Live(rec'[id]) /\ Fresh(id)' => Stood(rec'[id])
  BY <1>1, Zenon DEF PassInv, Fresh, TypeOK
<1>3. ASSUME pc' \in InFlight
      PROVE  /\ cur' \notin todo'
             /\ Live(rec'[cur']) => /\ Fresh(cur)' => Stood(rec'[cur'])
                                    /\ Mandates \subseteq SessionKeys /\ Served(cur)' => Fresh(cur)'
  <2>1. pc \in InFlight /\ cur \in Ids /\ cur' = cur /\ view' = view /\ opened' = opened /\ Steady(cur)
    BY <1>3
  <2>2. /\ cur \notin todo
        /\ Live(rec[cur]) => /\ Fresh(cur) => Stood(rec[cur])
                             /\ Mandates \subseteq SessionKeys /\ Served(cur) => Fresh(cur)
    BY <2>1 DEF PassInv
  <2>3. Live(rec'[cur]) /\ Fresh(cur)' => Stood(rec'[cur])
    BY <1>1, <2>1, <2>2, Zenon DEF Fresh
  <2>4. Live(rec'[cur]) => Live(rec[cur]) /\ (Fresh(cur)' <=> Fresh(cur))
    BY <2>1 DEF Steady, Fresh, InSession
  <2>5. Served(cur)' <=> Served(cur)
    BY <2>1 DEF Served
  <2> QED
    BY <2>1, <2>2, <2>3, <2>4, <2>5
<1> QED
  BY <1>2, <1>3, Zenon DEF PassInv

\* A record left alone is steady.
LEMMA UnchangedIsSteady ==
    ASSUME TypeOK, NEW id \in Ids, rec'[id] = rec[id]
    PROVE  Steady(id)
<1>1. rec[id].seen \in Nat
  BY ClockFields DEF TypeOK
<1> QED
  BY <1>1 DEF Steady

\* The owner and the world beside the pass.
LEMMA WorldIsSteady ==
    ASSUME TypeOK, WindowInv, NEW id \in Ids,
           Owner \/ World \/ Tick \/ (beforePlace /\ waiting(rec[cur]) /\ cur \in Ids)
    PROVE  Steady(id)
<1>1. rec[id] \in Record /\ now \in Nat
  BY DEF TypeOK
<1>2. ASSUME NEW k \in Keys, Veto(k) PROVE Steady(id)
  <2>1. rec'[id] = rec[id] \/ rec'[id].state = "vetoed"
    BY <1>2, VetoMoves
  <2> QED
    BY <2>1, UnchangedIsSteady DEF Steady, Live, waiting
<1>3. ASSUME NEW j \in Ids, markAutomaticNoticed(j) PROVE Steady(id)
  <2>1. PICK at : rec' = [rec EXCEPT ![j].noticed = TRUE, ![j].submitAt = at]
    BY <1>3, Zenon DEF markAutomaticNoticed
  <2>2. /\ rec'[id].state = rec[id].state /\ rec'[id].created = rec[id].created /\ rec'[id].skip = rec[id].skip
        /\ rec'[id].seen = rec[id].seen
    BY <1>1, <2>1, Zenon DEF TypeOK, Record
  <2> QED
    BY <1>1, <2>2, ClockFields DEF Steady, Live, waiting
<1>4. CASE beforePlace /\ waiting(rec[cur]) /\ cur \in Ids
  <2>1. rec' = [rec EXCEPT ![cur].state = "submitting", ![cur].attempt = att, ![cur].own = TRUE]
    BY <1>4 DEF beforePlace
  <2>2. /\ rec'[id].created = rec[id].created /\ rec'[id].skip = rec[id].skip /\ rec'[id].seen = rec[id].seen
        /\ id # cur => rec'[id] = rec[id]
    BY <1>1, <2>1, Zenon DEF TypeOK, Record
  <2> QED
    BY <1>1, <1>4, <2>2, ClockFields DEF Steady, Live
<1>5. CASE Tick
  <2>1. \/ rec'[id] = rec[id]
        \/ id[1] \in Mandates /\ opened' = now + 1
        \/ rec'[id] = [rec[id] EXCEPT !.seen = @ + 1]
    BY <1>5 DEF Tick
  <2>2. /\ rec'[id].state = rec[id].state /\ rec'[id].created = rec[id].created /\ rec'[id].skip = rec[id].skip
    BY <1>1, <1>5, Zenon DEF Tick, Record
  <2>3. rec[id].seen \in Nat /\ rec[id].created \in Nat /\ rec[id].created <= now
    BY <1>1, ClockFields DEF WindowInv, RecordsInv, Clock
  <2>4. InSession(rec[id], id[1], opened') => rec'[id].seen >= rec[id].seen
    <3>1. CASE id[1] \in Mandates /\ opened' = now + 1
      BY <1>1, <2>3, <3>1 DEF InSession
    <3>2. CASE rec'[id] = [rec[id] EXCEPT !.seen = @ + 1]
      <4>1. rec'[id].seen = rec[id].seen + 1
        BY <1>1, <3>2 DEF Record
      <4> QED
        BY <2>3, <4>1
    <3> QED
      BY <2>1, <2>3, <3>1, <3>2
  <2> QED
    BY <2>2, <2>4 DEF Steady, Live, waiting
<1>6. CASE \/ Arm \/ Disarm \/ SetFrozen \/ (\E k \in Keys : \E v \in 0..MaxRevision : VetoRead(k, v))
           \/ (\E k \in Keys, w \in Row : Refresh(k, w)) \/ (\E a \in Attempts : Callback(a))
  <2>1. rec' = rec
    BY <1>6, Zenon DEF Arm, Disarm, SetFrozen, VetoRead, Refresh, Callback
  <2> QED
    BY <2>1, UnchangedIsSteady
<1> QED
  BY <1>2, <1>3, <1>4, <1>5, <1>6, Zenon DEF Owner, World

\* What is due at the listing had its window: its notice covers it to the end
\* that has come, or the brake skipped it.
LEMMA DueStood ==
    ASSUME TypeOK, WindowInv, NEW id \in Ids, due(rec[id]), Fresh(id)
    PROVE  Stood(rec[id])
<1>1. rec[id] \in Record /\ now \in Nat
  BY DEF TypeOK
<1>2. Clock(rec[id], id[1], now, opened)
  BY Zenon DEF WindowInv, RecordsInv
<1>3. CASE rec[id].state = "pending"
  <2>1. rec[id].submitAt <= now /\ (rec[id].noticed \/ rec[id].skip)
    BY <1>3, Zenon DEF due
  <2> QED
    BY <1>1, <1>2, <1>3, <2>1, ClockFields, WindowType DEF Clock, Fresh, Covers, Stood
<1>4. CASE rec[id].state = "deferred"
  BY <1>2, <1>4 DEF Clock, Fresh
<1> QED
  BY <1>3, <1>4 DEF due

\* Every step keeps what the pass knows of its due records.
LEMMA NextKeepsPass ==
    ASSUME IInv, TypeOK', WindowInv, [Next]_vars
    PROVE  PassInv'
<1> USE DEF IInv, WindowInv
<1>0. opened \in Nat /\ todo \subseteq Ids
  BY Zenon DEF TypeOK
<1>1. CASE pc' \in {"recover", "read", "update", "list"} /\ todo' = {}
  BY <1>1, Zenon DEF PassInv, InFlight
<1>2. CASE recoverAutomaticAfterRestart \/ ReconcileRead \/ reconcileAutomatic \/ EndCycle \/ HousekeepingFails \/ Restart
  BY <1>1, <1>2 DEF recoverAutomaticAfterRestart, ReconcileRead, reconcileAutomatic, EndCycle,
     HousekeepingFails, Restart,
                    Step, PassInv
<1>3. CASE submitDueAutomatic
  <2>1. pc' = "submit" /\ todo' = {id \in Ids : due(rec[id])} /\ rec' = rec /\ opened' = opened
    BY <1>3, Zenon DEF submitDueAutomatic, Step, envVars
  <2>2. \A id \in todo' : Fresh(id)' => Stood(rec'[id])
    BY <2>1, DueStood DEF Fresh
  <2> QED
    BY <2>1, <2>2 DEF PassInv, InFlight
<1>4. ASSUME NEW id \in Ids, holdAutomatic(id) \/ rescheduleAutomatic(id) \/ restartAutomaticClock(id)
      PROVE  PassInv'
  <2>1. pc' = "submit" /\ todo' = todo \ {id} /\ opened' = opened
    BY <1>4, Zenon DEF holdAutomatic, rescheduleAutomatic, restartAutomaticClock, Next1, KeepDue, envVars
  <2>2. rec' = rec \/ \E r : rec' = [rec EXCEPT ![id] = r]
    BY <1>4, Zenon DEF holdAutomatic, rescheduleAutomatic, restartAutomaticClock, Put
  <2>3. \A j \in todo' : rec'[j] = rec[j]
    BY <1>0, <2>1, <2>2, Zenon DEF TypeOK
  <2>4. \A j \in todo' : Steady(j)
    BY <1>0, <2>1, <2>3, UnchangedIsSteady, ZenonT(30)
  <2> QED
    BY <1>0, <2>1, <2>4, SteadyKeepsPass DEF InFlight
<1>5. ASSUME NEW id \in Ids, BeginSubmit(id) PROVE PassInv'
  <2>1. /\ pc = "submit" /\ id \in todo /\ todo' = todo \ {id} /\ UNCHANGED <<rec, opened, view>>
        /\ ~SessionClosed(id) /\ ~automaticClockBeforeSession(id)
        /\ pc' = "submit" \/ (pc' = "preview" /\ cur' = id)
    BY <1>5 DEF BeginSubmit, envVars
  <2>2. \A j \in todo : Live(rec[j]) /\ Fresh(j) => Stood(rec[j])
    BY DEF PassInv
  <2>3. Mandates \subseteq SessionKeys /\ Served(id) => Fresh(id)
    <3>1. rec[id].created \in Nat
      BY ClockFields DEF TypeOK
    <3> QED
      BY <1>0, <2>1, <3>1, SMTT(30) DEF SessionClosed, automaticClockBeforeSession, Fresh, InSession
  <2> QED
    BY <2>1, <2>2, <2>3, ZenonT(30) DEF PassInv, InFlight, Fresh, Served
<1>6. CASE RefuseUnstaged \/ settleSubmission \/ StoreFault \/ SettleFault \/ (beforePlace /\ ~waiting(rec[cur]))
  <2>1. pc' = "submit" /\ todo' = todo /\ opened' = opened /\ pc \in InFlight
    BY <1>6 DEF RefuseUnstaged, settleSubmission, StoreFault, SettleFault, beforePlace, SettleAs, Done,
       KeepEnv, envVars, InFlight
  <2>2. rec' = rec \/ \E r : rec' = [rec EXCEPT ![cur] = r]
    BY <1>6, Zenon DEF RefuseUnstaged, settleSubmission, StoreFault, SettleFault, beforePlace, SettleAs, Put
  <2>3. cur \notin todo
    BY <2>1, SMTT(30) DEF PassInv
  <2>4. \A j \in todo' : rec'[j] = rec[j]
    BY <1>0, <2>1, <2>2, <2>3, SMTT(30) DEF TypeOK
  <2>5. \A j \in todo' : Steady(j)
    BY <1>0, <2>1, <2>4, UnchangedIsSteady
  <2> QED
    BY <1>0, <2>1, <2>5, SteadyKeepsPass, SMTT(30) DEF InFlight
<1>7. CASE \/ (\E a \in Attempts : previewOrder(a)) \/ placeOrder \/ brokerWireGuard \/ submitBoundConfiguredOrder
           \/ appendOrderSendOutcome \/ AppendFault \/ UNCHANGED vars
  <2>1. /\ UNCHANGED <<rec, todo, cur, view, opened>> /\ (pc' \in InFlight => pc \in InFlight)
        /\ pc' \in {"recover", "read", "update", "list"} => pc' = pc
    BY <1>7 DEF previewOrder, placeOrder, brokerWireGuard, submitBoundConfiguredOrder, appendOrderSendOutcome,
       AppendFault,
                vars, KeepPlace, KeepEnv, Step, envVars, execVars, InFlight
  <2>2. pc \in InFlight => cur \in Ids
    BY DEF CoreInv, SubmitInv
  <2>3. \A id \in Ids : Steady(id)
    BY <2>1, UnchangedIsSteady
  <2>4. pc' \in {"recover", "read", "update", "list"} => todo' = {}
    BY <2>1 DEF PassInv
  <2> QED
    BY <1>0, <2>1, <2>2, <2>3, <2>4, SteadyKeepsPass, SMTT(30)
<1>8. CASE Owner \/ World \/ Tick \/ (beforePlace /\ waiting(rec[cur]))
  <2>1. pc \in InFlight => cur \in Ids
    BY DEF CoreInv, SubmitInv
  <2>2. beforePlace => pc \in InFlight
    BY DEF beforePlace, InFlight
  <2>3. \A id \in Ids : Steady(id)
    BY <1>8, <2>1, <2>2, WorldIsSteady
  <2>4. /\ UNCHANGED <<todo, cur, view>> /\ (pc' \in InFlight => pc \in InFlight)
        /\ pc' \in {"recover", "read", "update", "list"} => pc' = pc
        /\ opened' = opened \/ (opened' = now + 1 /\ pc' \notin InFlight)
    <3>1. CASE Owner \/ World
      BY <3>1, Zenon DEF Owner, World, Arm, Disarm, SetFrozen, Veto, VetoRead, Refresh, markAutomaticNoticed,
         Callback,
                  others, execVars, envVars
    <3>2. CASE Tick
      BY <3>2 DEF Tick, others, execVars, InFlight
    <3>3. CASE beforePlace /\ waiting(rec[cur])
      BY <3>3, Zenon DEF beforePlace, KeepEnv, envVars, InFlight
    <3> QED
      BY <1>8, <3>1, <3>2, <3>3
  <2>5. opened' >= opened
    BY <1>0, <2>4 DEF SessionInv, TypeOK
  <2>6. pc' \in {"recover", "read", "update", "list"} => todo' = {}
    BY <2>4, SMTT(30) DEF PassInv
  <2> QED
    BY <1>0, <2>1, <2>3, <2>4, <2>5, <2>6, SteadyKeepsPass
<1> QED
  BY <1>2, <1>3, <1>4, <1>5, <1>6, <1>7, <1>8, Zenon DEF Next, Scheduler, Faults

-----------------------------------------------------------------------------
(* Theorems *)

\* The windows are in order at first.
LEMMA InitWindow == Init => WindowInv
<1> SUFFICES ASSUME Init PROVE WindowInv
  OBVIOUS
<1>1. SessionInv /\ PassInv
  BY SMTT(30) DEF Init, SessionInv, PassInv, InFlight
<1>2. ASSUME NEW id \in Ids PROVE Clock(rec[id], id[1], now, opened)
  BY DEF Init, Clock, EmptyRecord
<1> QED
  BY <1>1, <1>2 DEF WindowInv, RecordsInv

\* The windows are always in order.
LEMMA AlwaysWindow ==
    ASSUME NotAllThree
    PROVE  Spec => [](IInv /\ WindowInv)
<1>1. IInv /\ WindowInv /\ [Next]_vars => (IInv /\ WindowInv)'
  <2> SUFFICES ASSUME IInv, WindowInv, [Next]_vars PROVE (IInv /\ WindowInv)'
    OBVIOUS
  <2>1. IInv' /\ TypeOK'
    BY StepIInv DEF IInv
  <2>2. SessionInv'
    BY NextKeepsSession DEF IInv, WindowInv
  <2>3. RecordsInv'
    BY NextKeepsRecords
  <2>4. PassInv'
    BY <2>1, NextKeepsPass
  <2> QED
    BY <2>1, <2>2, <2>3, <2>4 DEF WindowInv
<1>2. Init => IInv /\ WindowInv
  BY InitIInv, InitWindow
<1> QED
  BY <1>1, <1>2, PTL DEF Spec

\* What is known of the record as its frame leaves.
LEMMA SendStood ==
    ASSUME IInv, WindowInv, [Next]_vars, NEW a \in Attempts, Sends(a)
    PROVE  /\ order[a].by = cur /\ cur \in Ids
           /\ Fresh(cur) => Stood(rec[cur])
           /\ Mandates \subseteq SessionKeys /\ Served(cur) => Fresh(cur)
           /\ rec[cur].skip => cur[1] \notin Mandates
<1>1. a = att /\ pc = "guarded"
  BY WireSteps, Zenon DEF IInv
<1>2. cur \in Ids /\ order[a].by = cur /\ rec[cur].state = "submitting"
  BY <1>1, ZenonT(30) DEF IInv, CoreInv, SubmitInv, Staged, InFlight
<1>3. rec[cur].skip => cur[1] \notin Mandates
  BY <1>2, ZenonT(30) DEF WindowInv, RecordsInv, Clock
<1> QED
  BY <1>1, <1>2, <1>3, Zenon DEF WindowInv, PassInv, Live, InFlight

\* No order leaves before its notice stood for the whole window on a record the
\* owner could veto: carried clocks, freezes, retries, vetoes and crashes
\* included, for rows that know no session, or while none opens.
THEOREM WindowHolds ==
    ASSUME "session" \notin Acts \/ Mandates = {}
    PROVE  Spec => FullVetoWindow
<1>1. NotAllThree
  BY Zenon DEF NotAllThree
<1>2. IInv /\ WindowInv /\ [Next]_vars =>
        [\A a \in Attempts : Sends(a) =>
            LET r == rec[order[a].by]
            IN  r.seen >= VetoWindow \/ (r.skip /\ order[a].by[1] \notin Mandates)]_vars
  <2> SUFFICES ASSUME IInv, WindowInv, [Next]_vars, NEW a \in Attempts, Sends(a)
               PROVE  rec[order[a].by].seen >= VetoWindow \/ (rec[order[a].by].skip /\ order[a].by[1] \notin Mandates)
    OBVIOUS
  <2>1. /\ order[a].by = cur /\ cur \in Ids /\ (Fresh(cur) => Stood(rec[cur]))
        /\ rec[cur].skip => cur[1] \notin Mandates
    BY SendStood
  <2>2. Fresh(cur)
    <3>1. rec[cur].created \in Nat
      BY <2>1, ClockFields DEF IInv, TypeOK
    <3> QED
      BY <3>1 DEF WindowInv, SessionInv, Fresh, InSession
  <2> QED
    BY <2>1, <2>2, Zenon DEF Stood
<1>3. Spec => [](IInv /\ WindowInv)
  BY <1>1, AlwaysWindow
<1> QED
  BY <1>2, <1>3, PTL DEF Spec, FullVetoWindow

\* automaticNewSessionReason: a mandate reduction the set serves is sent only on
\* a notice that stood for the whole window in the session it is sent in.  It
\* prices off the regular session, and no freeze defers it.
THEOREM SessionWindowHolds ==
    ASSUME "freeze" \notin Acts, Mandates \subseteq SessionKeys
    PROVE  Spec => FreshWindowInSession
<1>1. NotAllThree
  BY ZenonT(30) DEF NotAllThree
<1>2. IInv /\ WindowInv /\ [Next]_vars =>
        [\A a \in Attempts : Sends(a) /\ order[a].by[1] \in Mandates /\ Served(order[a].by)
            => rec[order[a].by].seen >= VetoWindow]_vars
  <2> SUFFICES ASSUME IInv, WindowInv, [Next]_vars, NEW a \in Attempts, Sends(a),
                      order[a].by[1] \in Mandates, Served(order[a].by)
               PROVE  rec[order[a].by].seen >= VetoWindow
    OBVIOUS
  <2>1. /\ order[a].by = cur /\ (Fresh(cur) => Stood(rec[cur]))
        /\ Mandates \subseteq SessionKeys /\ Served(cur) => Fresh(cur)
        /\ rec[cur].skip => cur[1] \notin Mandates
    BY SendStood
  <2> QED
    BY <2>1 DEF Stood
<1>3. Spec => [](IInv /\ WindowInv)
  BY <1>1, AlwaysWindow
<1> QED
  BY <1>2, <1>3, PTL DEF Spec, FreshWindowInSession
=============================================================================
