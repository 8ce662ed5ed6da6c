------------------------ MODULE AutomaticSubmission ------------------------
(***************************************************************************)
(* Pre-authorised automatic submission (internal/daemon/                   *)
(* proposal_automatic.go): a proposal row of a pre-authorised bucket gets  *)
(* a record, the owner is noticed and may veto it for a window, and the    *)
(* daemon then places the order under the arming the clock ran under.      *)
(*                                                                         *)
(* One account.  A key names a row's line; the set serves a key at one     *)
(* revision.  The keys in Mandates carry a breach episode (one for the     *)
(* behaviour): a row re-sized or dropped within it keeps its veto clock.   *)
(*                                                                         *)
(* A tick is longer than a broker read (automaticSettlingReadTimeout): the *)
(* clock stands still between the read and the update of one reconcile.    *)
(* The real clock orders any two ends of records; the sequence resolved    *)
(* keeps that order within a tick.                                         *)
(***************************************************************************)
EXTENDS OrderJournal, FiniteSets

CONSTANTS Keys, MaxRevision,
          Mandates,      \* keys of mandate reductions: an episode, NeverSkipVeto
          SessionKeys,   \* keys whose order prices off the regular session
          Quantity,      \* the quantity a revision of a row asks for
          Lot,           \* growth within which a re-sized row keeps its clock
          Latches,       \* readings of the drawdown brake
          Attempts, NoAttempt, NoRecord,
          VetoWindow, DeferRetry,
          SessionDelays, \* how far a due time moves to the session's open
          Acts,          \* what the owner and the world do besides refreshing and arming
          MaxLines,      \* bound on the keys in play
          MaxTime, MaxFaults, MaxActs

Revisions == 1..MaxRevision
Ids == Keys \X Revisions

ASSUME AutomaticAssumption ==
    /\ MaxRevision \in Nat /\ Mandates \subseteq Keys
    /\ SessionKeys \subseteq Keys /\ Quantity \in [Revisions -> Nat] /\ Lot \in Nat
    /\ Latches \subseteq BOOLEAN /\ NoAttempt \notin Attempts /\ NoRecord \notin Ids
    /\ VetoWindow \in Nat /\ DeferRetry \in Nat /\ SessionDelays \subseteq Nat
    /\ Acts \subseteq {"freeze", "disarm", "veto", "session"}
    /\ MaxLines \in Nat /\ MaxTime \in Nat /\ MaxFaults \in Nat /\ MaxActs \in Nat

VARIABLES
    now, faults, acts, \* the clock, and two bounds: failures and acts so far
    frozen,            \* the owner's freeze
    armed, armedAt,    \* the standing authority and its latest confirmation
    open, opened,      \* the regular session: is it open, since when
    row,               \* what the current set serves of a key
    rec,               \* automaticSubmissionStore.records
    resolved,          \* the moments at which records of a key ended: their revisions, in order
    vetoing,           \* a veto between its reads and its update
    journal, order,    \* the order journal and the wire, per attempt
    pc, view, todo, cur, att, grant, res  \* the scheduler

envVars  == <<now, faults, acts, frozen, armed, armedAt, open, opened, row>>
execVars == <<pc, view, todo, cur, att, grant, res>>
vars     == <<envVars, rec, resolved, vetoing, journal, order, execVars>>

-----------------------------------------------------------------------------
(***************************************************************************)
(* Records.                                                                *)
(***************************************************************************)
Terminal == {"vetoed", "submitted", "superseded", "failed"}
States   == {"none", "pending", "deferred", "submitting"} \cup Terminal

Record == [state : States,
           arm : Nat,               \* ArmedAt
           created : Nat,           \* CreatedAt, when the veto clock started
           submitAt : Nat, resubmitAt : Nat,
           noticed : BOOLEAN,       \* NoticedAt is set
           skip : BOOLEAN,          \* LatchSkippedWindow
           attempt : Attempts \cup {NoAttempt},  \* PreviewTokenID
           own : BOOLEAN,           \* SubmittingAt is not before startedAt
           resolvedAt : Nat, endArm : Nat,       \* ResolvedAt, and the arming then
           carry : BOOLEAN,         \* CarryClock, or ended as re-sized
           size : Nat,              \* ClockQuantity
           seen : Nat]              \* history: ticks this clock's notice stood on a waiting record,
                                    \* for a mandate in the present session

NoRow == [rev |-> 0, ok |-> FALSE]
Row   == {NoRow} \cup [rev : Revisions, ok : BOOLEAN]

waiting(r)  == r.state \in {"pending", "deferred"}
terminal(r) == r.state \in Terminal
due(r) == CASE r.state = "pending"  -> r.submitAt <= now /\ r.resubmitAt <= now /\ (r.noticed \/ r.skip)
            [] r.state = "deferred" -> ~frozen /\ r.resubmitAt <= now
            [] OTHER -> FALSE

EmptyRecord == [state |-> "none", arm |-> 0, created |-> 0, submitAt |-> 0, resubmitAt |-> 0,
                noticed |-> FALSE, skip |-> FALSE, attempt |-> NoAttempt, own |-> FALSE,
                resolvedAt |-> 0, endArm |-> 0, carry |-> FALSE, size |-> 0, seen |-> 0]

\* An ended record keeps its state; its clock is read again only if it carries.
resolve(st) == [EmptyRecord EXCEPT !.state = st]
ResolveCarrying(r, arming) ==
    [r EXCEPT !.state = "superseded", !.resolvedAt = now, !.endArm = arming, !.carry = TRUE]

\* The revisions of a key whose records end at one moment.
Moments == (SUBSET Revisions) \ {{}}
Moment(S) == IF S = {} THEN <<>> ELSE <<S>>

\* The ends of a key without the one of revision v, which ends at most once.
Without(s, v) ==
    IF \E i \in DOMAIN s : v \in s[i]
    THEN LET i == CHOOSE i \in DOMAIN s : v \in s[i]
         IN  SubSeq(s, 1, i - 1) \o Moment(s[i] \ {v}) \o SubSeq(s, i + 1, Len(s))
    ELSE s

Fault == faults < MaxFaults /\ faults' = faults + 1

\* One record changes; an end goes to the back of its key's ends.
Put(id, r) ==
    /\ rec' = [rec EXCEPT ![id] = r]
    /\ resolved' = IF terminal(r) /\ ~terminal(rec[id])
                   THEN [resolved EXCEPT ![id[1]] = Append(@, {id[2]})] ELSE resolved

-----------------------------------------------------------------------------
(***************************************************************************)
(* The scheduler's cycle: recover, reconcile, submit what is due.          *)
(***************************************************************************)
Step(from, to) == pc = from /\ pc' = to

\* What the scheduler read of the set, the authority and the clock: its ends are
\* dated after those already recorded and before any that come later.
Reading == [row |-> row, armed |-> armed, armedAt |-> armedAt,
            ended |-> [k \in Keys |-> Len(resolved[k])]]
NoView  == [row |-> [k \in Keys |-> NoRow], armed |-> FALSE, armedAt |-> 0,
            ended |-> [k \in Keys |-> 0]]

\* Mutant: a send of unclear outcome is left for later.
MutStuckUnclear(r) ==
    r.state = "submitting" /\ ~r.own /\ orderJournalSendOutcome(journal[r.attempt]) # "unclear"

Stuck(r) == r.state = "submitting" /\ ~r.own

\* The journal decides a send a previous process left behind; none is retried.
automaticRestartOutcome(r) ==
    resolve(IF orderJournalSendOutcome(journal[r.attempt]) = "reached" THEN "submitted" ELSE "failed")

recoverAutomaticAfterRestart ==
    LET Ended(k) == Moment({v \in Revisions : Stuck(rec[<<k, v>>])})
    IN  /\ Step("recover", "read")
        /\ rec' = [id \in Ids |-> IF Stuck(rec[id]) THEN automaticRestartOutcome(rec[id]) ELSE rec[id]]
        /\ resolved' = [k \in Keys |-> resolved[k] \o Ended(k)]
        /\ UNCHANGED <<envVars, vetoing, journal, order, view, todo, cur, att, grant, res>>

\* reconcileAutomatic reads the set and the authority, then the broker's book
\* outside the record lock, and only then updates.  A set restored from the
\* last session updates nothing.
ReconcileRead ==
    /\ \/ Step("read", "update") /\ view' = Reading
       \/ Step("read", "list") /\ UNCHANGED view
    /\ UNCHANGED <<envVars, rec, resolved, vetoing, journal, order, todo, cur, att, grant, res>>

\* Mutant: a re-sized row leaves the record of its former size.
MutSupersedeVerdictsAnySize(k, v) ==
    LET r == rec[<<k, v>>] IN
    IF ~waiting(r) THEN {"keep"}
    ELSE IF ~view.armed \/ r.arm # view.armedAt THEN {"end"}
    ELSE IF ~view.row[k].ok THEN {"end", "carry"} ELSE {"keep", "end"}

\* What becomes of a waiting record: kept, ended, or ended with its clock to
\* carry.  Locks, the queue, reserved lines and the policy may end any, and an
\* authority that cannot be read is none.
supersedeVerdicts(k, v) ==
    LET r == rec[<<k, v>>] IN
    IF ~waiting(r) THEN {"keep"}
    ELSE IF ~view.armed \/ r.arm # view.armedAt THEN {"end"}
    ELSE IF view.row[k].rev # v \/ ~view.row[k].ok THEN {"end", "carry"}
    ELSE {"keep", "end"}

Supersede(r, k, verdict) ==
    IF verdict = "keep" THEN r
    ELSE IF verdict = "carry" /\ k \in Mandates THEN ResolveCarrying(r, view.armedAt)
    ELSE resolve("superseded")

\* Mutant: the retry floor of a fresh record is set back by the retry interval.
MutFreshRecordPastFloor(k, v, latched) ==
    [state |-> "pending", arm |-> view.armedAt, created |-> now,
     submitAt |-> now + VetoWindow, resubmitAt |-> now - DeferRetry,
     noticed |-> FALSE, skip |-> latched /\ k \notin Mandates, attempt |-> NoAttempt, own |-> FALSE,
     resolvedAt |-> 0, endArm |-> 0, carry |-> FALSE, size |-> Quantity[v], seen |-> 0]

\* A fresh record: notice and full window, or none of either under the brake.
FreshRecord(k, v, latched) ==
    [state |-> "pending", arm |-> view.armedAt, created |-> now,
     submitAt |-> IF latched /\ k \notin Mandates THEN now ELSE now + VetoWindow, resubmitAt |-> 0,
     noticed |-> FALSE, skip |-> latched /\ k \notin Mandates, attempt |-> NoAttempt, own |-> FALSE,
     resolvedAt |-> 0, endArm |-> 0, carry |-> FALSE, size |-> Quantity[v], seen |-> 0]

\* Mutant: the clock does not pause while the row is out of the set.
MutCarriedRecordUnpaused(r, prior) ==
    [r EXCEPT !.created = prior.created, !.noticed = prior.noticed, !.size = prior.size, !.seen = prior.seen,
              !.submitAt = prior.submitAt]

\* The clock of the row's last record in the breach, paused for the gap.
CarriedRecord(r, prior) ==
    LET paused == IF prior.resolvedAt < prior.submitAt
                  THEN prior.submitAt + (now - prior.resolvedAt) ELSE prior.submitAt
    IN  [r EXCEPT !.created = prior.created, !.noticed = prior.noticed, !.size = prior.size, !.seen = prior.seen,
                  !.submitAt = IF paused > now + VetoWindow THEN now + VetoWindow ELSE paused]

Carries(prior, v) ==
    /\ prior.state = "superseded" /\ prior.carry /\ prior.endArm = view.armedAt
    /\ Quantity[v] <= prior.size + Lot

\* automaticEpisodePrior: the key's record that ended last.  Of two that ended
\* together it is the one whose revision, a hash, sorts later.
EpisodeEnded(k, ends) == k \in Mandates /\ ends[k] # <<>>
automaticEpisodePrior(recs, k, ends) == recs[<<k, CHOOSE v \in ends[k][Len(ends[k])] : TRUE>>]

automaticRecordReplaceable(r) == r.state \in {"none", "superseded"}

\* The keys that get a record: served unblocked, pre-authorised, without one
\* that holds, and not vetoed last in this breach.
WillCreate(recs, ends) ==
    {k \in Keys : LET v == view.row[k].rev IN
        /\ view.armed /\ v # 0 /\ view.row[k].ok /\ automaticRecordReplaceable(recs[<<k, v>>])
        /\ EpisodeEnded(k, ends) => automaticEpisodePrior(recs, k, ends).state # "vetoed"}

\* A session row falls due no earlier than the open allows.
automaticSessionDue(k, t, delay) == IF k \in SessionKeys THEN t + delay ELSE t

CreatedRecord(recs, ends, k, latched, delay) ==
    LET v == view.row[k].rev
        fresh == FreshRecord(k, v, latched)
        carried == IF EpisodeEnded(k, ends) /\ Carries(automaticEpisodePrior(recs, k, ends), v)
                   THEN CarriedRecord(fresh, automaticEpisodePrior(recs, k, ends)) ELSE fresh
    IN  [carried EXCEPT !.submitAt = automaticSessionDue(k, @, delay)]

Verdicts == {verdict \in [Ids -> {"keep", "end", "carry"}] :
                \A id \in Ids : verdict[id] \in supersedeVerdicts(id[1], id[2])}

Superseded(verdict) == [id \in Ids |-> Supersede(rec[id], id[1], verdict[id])]

\* The ends after the verdicts: theirs are dated as the reconcile began.
EndsWith(verdict) ==
    [k \in Keys |-> SubSeq(resolved[k], 1, view.ended[k])
                    \o Moment({v \in Revisions : verdict[<<k, v>>] # "keep"})
                    \o SubSeq(resolved[k], view.ended[k] + 1, Len(resolved[k]))]

\* The records of the keys in C are created over recs, after ends.
Create(recs, ends, C, latched, delay) ==
    /\ rec' = [id \in Ids |-> IF id[1] \in C /\ view.row[id[1]].rev = id[2]
                              THEN CreatedRecord(recs, ends, id[1], latched, delay) ELSE recs[id]]
    /\ resolved' = [k \in Keys |-> IF k \in C THEN Without(ends[k], view.row[k].rev) ELSE ends[k]]

reconcileAutomatic ==
    /\ Step("update", "list")
    /\ \E verdict \in Verdicts :
          \E C \in SUBSET WillCreate(Superseded(verdict), EndsWith(verdict)), latched \in Latches, delay \in SessionDelays :
             Create(Superseded(verdict), EndsWith(verdict), C, latched, delay)
    /\ view' = NoView
    /\ UNCHANGED <<envVars, vetoing, journal, order, todo, cur, att, grant, res>>

\* The records due as the pass begins, and the set it goes by.
submitDueAutomatic ==
    /\ Step("list", "submit")
    /\ todo' = {id \in Ids : due(rec[id])}
    /\ view' = [NoView EXCEPT !.row = [k \in Keys |-> IF \E v \in Revisions : <<k, v>> \in todo'
                                                    THEN row[k] ELSE NoRow]]
    /\ UNCHANGED <<envVars, rec, resolved, vetoing, journal, order, cur, att, grant, res>>

Served(id) == view.row[id[1]].rev = id[2]

Next1(id) == pc = "submit" /\ id \in todo /\ todo' = todo \ {id}

KeepDue == UNCHANGED <<envVars, vetoing, journal, order, view, pc, cur, att, grant, res>>

\* The settling rule, an unconfirmed verdict or a better-ranked row holds the
\* record on its clock.
holdAutomatic(id) == Next1(id) /\ KeepDue /\ UNCHANGED <<rec, resolved>>

SessionClosed(id) == Served(id) /\ id[1] \in SessionKeys /\ ~open

\* The session is not open long enough: the due time moves, the window stays.
rescheduleAutomatic(id) ==
    /\ Next1(id) /\ SessionClosed(id)
    /\ LET Later(t) == IF t > now THEN t ELSE now + 1
           r == rec[id]
       IN  Put(id, CASE r.state = "deferred" -> [r EXCEPT !.resubmitAt = Later(@)]
                     [] r.state = "pending"  -> [r EXCEPT !.submitAt = Later(@)]
                     [] OTHER -> r)
    /\ KeepDue

\* Mutant: a clock from before the session is left to run.
MutClockBeforeSession(id) == FALSE

automaticClockBeforeSession(id) ==
    Served(id) /\ id[1] \in Mandates /\ open /\ rec[id].created < opened

restartAutomaticClock(id) ==
    /\ Next1(id) /\ automaticClockBeforeSession(id)
    /\ \E delay \in SessionDelays :
          Put(id, IF ~waiting(rec[id]) THEN rec[id]
                  ELSE [rec[id] EXCEPT !.created = now, !.submitAt = automaticSessionDue(id[1], now + VetoWindow, delay),
                                       !.noticed = FALSE, !.size = Quantity[id[2]], !.seen = 0])
    /\ KeepDue

EndCycle ==
    /\ Step("submit", "recover") /\ todo = {} /\ view' = NoView
    /\ UNCHANGED <<envVars, rec, resolved, vetoing, journal, order, todo, cur, att, grant, res>>

-----------------------------------------------------------------------------
(***************************************************************************)
(* submitAutomatic, under brokerWriteMu.                                   *)
(***************************************************************************)
Done == pc' = "submit" /\ cur' = NoRecord /\ att' = NoAttempt /\ grant' = 0 /\ res' = "none"

\* A veto or another pass's retry floor may have landed since the list.
StillDue(r) == waiting(r) /\ r.resubmitAt <= now

BeginSubmit(id) ==
    /\ pc = "submit" /\ id \in todo
    /\ ~SessionClosed(id) /\ ~automaticClockBeforeSession(id)
    /\ todo' = todo \ {id}
    /\ IF StillDue(rec[id])
       THEN pc' = "preview" /\ cur' = id /\ grant' = rec[id].arm
       ELSE UNCHANGED <<pc, cur, grant>>
    /\ UNCHANGED <<envVars, rec, resolved, vetoing, journal, order, view, att, res>>

\* Mutant: a refusal of unknown effect is retried.
MutOutcomeRetries(r, k, o) ==
    IF terminal(r) THEN r
    ELSE IF o = "ok" THEN resolve("submitted")
    ELSE [r EXCEPT !.state = "pending", !.resubmitAt = now + DeferRetry]

\* Mutant: a place error is taken for a row that moved on.
MutOutcomeErrorSupersedes(r, k, o) ==
    IF terminal(r) THEN r
    ELSE IF o = "ok" THEN resolve("submitted")
    ELSE IF o = "frozen" THEN [r EXCEPT !.state = "deferred", !.resubmitAt = now + DeferRetry, !.attempt = NoAttempt]
    ELSE resolve("superseded")

\* What the record becomes of the submission's answer o.
outcome(r, k, o) ==
    IF terminal(r) THEN r
    ELSE CASE o = "ok"        -> resolve("submitted")
           [] o = "held"      -> r
           [] o = "disarmed"  -> resolve("superseded")
           [] o = "stale"     -> IF k \in Mandates THEN ResolveCarrying(r, armedAt) ELSE resolve("superseded")
           [] o = "frozen"    -> [r EXCEPT !.state = "deferred", !.resubmitAt = now + DeferRetry,
                                           !.attempt = NoAttempt]
           [] o = "transient" -> [r EXCEPT !.state = "pending", !.resubmitAt = now + DeferRetry]
           [] OTHER           -> resolve("failed")

\* daemonPreAuthorisedOriginBlockers: armed, under the arming of the clock.
Granted == armed /\ armedAt = grant

\* Why a submission may be refused before its intent is staged.  An authority
\* that cannot be read refuses as a disarm does.
Refusals == LET k == cur[1] IN
    {"transient", "failed", "disarmed"} \cup (IF k \in Mandates THEN {"held"} ELSE {})
    \cup (IF row[k].rev # cur[2] THEN {"stale"} ELSE {})
    \cup (IF frozen THEN {"frozen"} ELSE {})

SettleAs(o) == Put(cur, outcome(rec[cur], cur[1], o)) /\ Done

KeepEnv == UNCHANGED <<envVars, vetoing, view, todo>>

RefuseUnstaged ==
    /\ pc = "preview" /\ \E o \in Refusals : SettleAs(o)
    /\ KeepEnv /\ UNCHANGED <<journal, order>>

\* The row is revalidated, the gates pass and the preview mints a token.
previewOrder(a) ==
    /\ Step("preview", "staging")
    /\ row[cur[1]] = [rev |-> cur[2], ok |-> TRUE] /\ Granted /\ ~frozen
    /\ order[a].by = NoRecord /\ att' = a
    /\ KeepEnv /\ UNCHANGED <<rec, resolved, journal, order, cur, grant, res>>

\* Mutant: the intent is staged whatever became of the record.
MutBeforePlaceUnread ==
    /\ Step("staging", "staged")
    /\ rec' = [rec EXCEPT ![cur].state = "submitting", ![cur].attempt = att, ![cur].own = TRUE]
    /\ order' = [order EXCEPT ![att].by = cur]
    /\ KeepEnv /\ UNCHANGED <<resolved, journal, cur, att, grant, res>>

\* The intent is persisted before the broker call, by a record still waiting.
beforePlace ==
    /\ pc = "staging"
    /\ IF waiting(rec[cur])
       THEN /\ rec' = [rec EXCEPT ![cur].state = "submitting", ![cur].attempt = att, ![cur].own = TRUE]
            /\ order' = [order EXCEPT ![att].by = cur]
            /\ pc' = "staged"
            /\ UNCHANGED <<resolved, cur, att, grant, res>>
       ELSE SettleAs("failed") /\ UNCHANGED order
    /\ KeepEnv /\ UNCHANGED journal

\* The intent or a refusal cannot be stored: the record is left as it is, or,
\* if only the intent failed, ends.
StoreFault ==
    /\ Fault
    /\ \/ pc = "staging" /\ SettleAs("failed")
       \/ pc \in {"preview", "staging"} /\ Done /\ UNCHANGED <<rec, resolved>>
    /\ UNCHANGED <<now, acts, frozen, armed, armedAt, open, opened, row,
                   vetoing, view, todo, journal, order>>

-----------------------------------------------------------------------------
(***************************************************************************)
(* placeOrder for the daemon's origin: admission, the journalled attempt,  *)
(* the wire guard, the frame and the journalled return.                    *)
(***************************************************************************)
KeepPlace == KeepEnv /\ UNCHANGED <<rec, resolved, cur, att, grant>>

Journal(t) == journal' = [journal EXCEPT ![att] = Append(@, LocalEvent(t))]

\* A refusal before the first frame; the freeze refuses by its own type.
Refusal == res' \in {"error"} \cup (IF frozen THEN {"frozen"} ELSE {})

placeOrder ==
    /\ pc = "staged"
    /\ \/ Refusal /\ pc' = "answered" /\ UNCHANGED journal
       \/ Granted /\ ~frozen /\ Journal("attempted") /\ pc' = "journalled" /\ UNCHANGED res
    /\ KeepPlace /\ UNCHANGED order

\* Mutant: the wire guard takes no authority lock.
MutWireGuardUnlocked ==
    /\ Step("journalled", "guarded") /\ KeepPlace /\ UNCHANGED <<res, journal, order>>

\* lockStandingAuthorityForWire: the arming is read again under the lock that
\* arming and disarming need, held until the frame is written.
brokerWireGuard ==
    /\ pc = "journalled"
    /\ \/ Refusal /\ pc' = "refused"
       \/ res' = "disarmed" /\ pc' = "refused"
       \/ Granted /\ pc' = "guarded" /\ UNCHANGED res
    /\ KeepPlace /\ UNCHANGED <<journal, order>>

submitBoundConfiguredOrder ==
    /\ pc = "guarded"
    /\ \/ Refusal /\ pc' = "refused" /\ UNCHANGED order
       \/ ~frozen /\ order' = [order EXCEPT ![att].wire = TRUE] /\ pc' = "wrote" /\ UNCHANGED res
    /\ KeepPlace /\ UNCHANGED journal

appendOrderSendOutcome ==
    /\ \/ pc = "wrote" /\ res' = "ok" /\ Journal("completed")
       \/ pc = "wrote" /\ res' = "error" /\ Journal("uncertain")
       \/ pc = "refused" /\ UNCHANGED res /\ Journal("unsent")
    /\ pc' = "answered"
    /\ KeepPlace /\ UNCHANGED order

AppendFault ==
    /\ Fault
    /\ pc \in {"wrote", "refused"} /\ pc' = "answered"
    /\ res' = IF pc = "wrote" THEN "error" ELSE res
    /\ UNCHANGED <<now, acts, frozen, armed, armedAt, open, opened, row,
                   vetoing, view, todo, rec, resolved, cur, att, grant, journal, order>>

settleSubmission ==
    /\ pc = "answered" /\ SettleAs(IF res = "error" THEN "failed" ELSE res)
    /\ KeepEnv /\ UNCHANGED <<journal, order>>

\* The outcome cannot be stored: the record stays submitting until a restart.
SettleFault ==
    /\ Fault /\ pc = "answered" /\ Done
    /\ UNCHANGED <<now, acts, frozen, armed, armedAt, open, opened, row,
                   vetoing, view, todo, rec, resolved, journal, order>>

\* A recovery or a reconcile that cannot read or store changes no record.
HousekeepingFails ==
    /\ Fault
    /\ \/ Step("recover", "read") \/ Step("update", "list")
    /\ view' = NoView
    /\ UNCHANGED <<now, acts, frozen, armed, armedAt, open, opened, row,
                   vetoing, rec, resolved, journal, order, todo, cur, att, grant, res>>

-----------------------------------------------------------------------------
(***************************************************************************)
(* The owner, the alert producer and the world.                            *)
(***************************************************************************)
others == <<resolved, vetoing, journal, order, execVars>>

\* handleDeskAuthorityConfirm and handleDeskAuthorityControl take the authority
\* lock the wire guard holds.
Act == acts < MaxActs /\ acts' = acts + 1

Arm == /\ Act /\ pc # "guarded"
       /\ armed' = TRUE /\ armedAt' = armedAt + 1
       /\ UNCHANGED <<now, faults, frozen, open, opened, row, rec, others>>

Disarm == /\ Act /\ "disarm" \in Acts
          /\ armed /\ pc # "guarded" /\ armed' = FALSE
          /\ UNCHANGED <<now, faults, frozen, armedAt, open, opened, row, rec, others>>

SetFrozen == /\ Act /\ "freeze" \in Acts /\ frozen' = ~frozen
             /\ UNCHANGED <<now, faults, armed, armedAt, open, opened, row, rec, others>>

\* The keys in play are bounded.
Used(k) == row[k] # NoRow \/ vetoing[k].rev # -1 \/ \E v \in Revisions : rec[<<k, v>>].state # "none"
InPlay(k) == Cardinality({k} \cup {j \in Keys : Used(j)}) <= MaxLines

\* A refresh publishes another set.
Refresh(k, w) == /\ Act /\ InPlay(k)
                 /\ row[k] # w /\ row' = [row EXCEPT ![k] = w]
                 /\ UNCHANGED <<now, faults, frozen, armed, armedAt, open, opened, rec, others>>

\* The alert producer accepted the notice: the window runs from it.
markAutomaticNoticed(id) ==
    /\ rec[id].state = "pending" /\ ~rec[id].noticed
    /\ LET r == rec[id]
           from == IF r.skip \/ r.submitAt > now + VetoWindow THEN r.submitAt ELSE now + VetoWindow
       IN  rec' = [rec EXCEPT ![id].noticed = TRUE, ![id].submitAt = from]
    /\ UNCHANGED <<envVars, others>>

\* A veto reads the set and the policy first, then updates.  It names a
\* revision, or 0: the live record of the key.
NoVeto == [rev |-> -1, served |-> 0, allowed |-> FALSE]

VetoRead(k, v) ==
    /\ Act /\ "veto" \in Acts /\ InPlay(k) /\ vetoing[k] = NoVeto
    /\ vetoing' = [vetoing EXCEPT ![k] = [rev |-> v, served |-> row[k].rev, allowed |-> armed]]
    /\ UNCHANGED <<now, faults, frozen, armed, armedAt, open, opened, row, rec, resolved, journal, order, execVars>>

\* The revision a veto is about, 0 for none.
VetoTarget(k) ==
    LET q == vetoing[k]
        live == {v \in Revisions : waiting(rec[<<k, v>>]) \/ rec[<<k, v>>].state = "submitting"}
    IN  IF q.rev # 0 THEN {q.rev} ELSE IF live # {} THEN live ELSE {q.served}

\* A waiting record ends.  With no record the served row is held before it
\* ever gets a window.
Vetoed(r, k, v) ==
    IF waiting(r) \/ (r.state = "none" /\ v = vetoing[k].served /\ vetoing[k].allowed)
    THEN resolve("vetoed") ELSE r

Veto(k) ==
    /\ vetoing[k] # NoVeto
    /\ vetoing' = [vetoing EXCEPT ![k] = NoVeto]
    /\ \E v \in VetoTarget(k) : IF v = 0 THEN UNCHANGED <<rec, resolved>>
                                ELSE Put(<<k, v>>, Vetoed(rec[<<k, v>>], k, v))
    /\ UNCHANGED <<envVars, journal, order, execVars>>

\* A minute passes.  No broker read of a reconcile takes as long, and no
\* submission lasts from one session into the next.
Tick ==
    /\ now < MaxTime /\ now' = now + 1 /\ pc # "update"
    /\ \/ UNCHANGED <<acts, open, opened>>
       \/ /\ Act /\ "session" \in Acts /\ pc \in {"recover", "read", "list", "submit"} /\ open' = ~open
          /\ opened' = IF open THEN opened ELSE now + 1
    /\ rec' = [id \in Ids |->
                 IF ~waiting(rec[id]) THEN rec[id]
                 ELSE IF ~open /\ open' /\ id[1] \in Mandates THEN [rec[id] EXCEPT !.seen = 0]
                 ELSE IF rec[id].noticed /\ rec[id].seen < VetoWindow THEN [rec[id] EXCEPT !.seen = @ + 1]
                 ELSE rec[id]]
    /\ UNCHANGED <<faults, frozen, armed, armedAt, row, others>>

\* The broker answers an order it received.
Callback(a) ==
    /\ order[a].wire /\ ~Has(journal[a], "acknowledged")
    /\ journal' = [journal EXCEPT ![a] = Append(@, BrokerEvent("acknowledged", "Submitted", 0))]
    /\ UNCHANGED <<envVars, rec, resolved, vetoing, order, execVars>>

\* A crash and a start: the scheduler and the vetoes under way are lost.
Restart ==
    /\ Fault
    /\ rec' = [id \in Ids |-> [rec[id] EXCEPT !.own = FALSE]]
    /\ vetoing' = [k \in Keys |-> NoVeto]
    /\ pc' = "recover" /\ view' = NoView /\ todo' = {} /\ cur' = NoRecord /\ att' = NoAttempt
    /\ grant' = 0 /\ res' = "none"
    /\ UNCHANGED <<now, acts, frozen, armed, armedAt, open, opened, row, resolved, journal, order>>

-----------------------------------------------------------------------------
Init ==
    /\ now = 0 /\ faults = 0 /\ acts = 0 /\ frozen = FALSE /\ armed = FALSE /\ armedAt = 0
    /\ open \in BOOLEAN /\ opened = 0
    /\ row = NoView.row
    /\ rec = [id \in Ids |-> EmptyRecord]
    /\ resolved = [k \in Keys |-> <<>>] /\ vetoing = [k \in Keys |-> NoVeto]
    /\ journal = [a \in Attempts |-> <<>>]
    /\ order = [a \in Attempts |-> [by |-> NoRecord, wire |-> FALSE]]
    /\ pc = "recover" /\ view = NoView /\ todo = {} /\ cur = NoRecord /\ att = NoAttempt
    /\ grant = 0 /\ res = "none"

Scheduler ==
    \/ recoverAutomaticAfterRestart \/ ReconcileRead \/ reconcileAutomatic \/ submitDueAutomatic
    \/ \E id \in Ids : holdAutomatic(id) \/ rescheduleAutomatic(id) \/ restartAutomaticClock(id) \/ BeginSubmit(id)
    \/ EndCycle \/ RefuseUnstaged \/ (\E a \in Attempts : previewOrder(a)) \/ beforePlace
    \/ placeOrder \/ brokerWireGuard \/ submitBoundConfiguredOrder \/ appendOrderSendOutcome \/ settleSubmission

Owner ==
    \/ Arm \/ Disarm \/ SetFrozen
    \/ \E k \in Keys : Veto(k) \/ \E v \in 0..MaxRevision : VetoRead(k, v)

World ==
    \/ \E k \in Keys, w \in Row : Refresh(k, w)
    \/ \E id \in Ids : markAutomaticNoticed(id)
    \/ \E a \in Attempts : Callback(a)

Faults == StoreFault \/ AppendFault \/ SettleFault \/ HousekeepingFails \/ Restart

Next == Scheduler \/ Owner \/ World \/ Faults \/ Tick

Spec == Init /\ [][Next]_vars

\* The proposal engine's loop runs the scheduler.
FairSpec == Spec /\ WF_vars(Scheduler)

-----------------------------------------------------------------------------
(***************************************************************************)
(* Properties.                                                             *)
(***************************************************************************)
PCs == {"recover", "read", "update", "list", "submit", "preview", "staging", "staged", "journalled",
        "guarded", "wrote", "refused", "answered"}

\* The types of the variables.
TypeOK ==
    /\ now \in Nat /\ faults \in Nat /\ acts \in Nat /\ frozen \in BOOLEAN
    /\ armed \in BOOLEAN /\ armedAt \in Nat
    /\ open \in BOOLEAN /\ opened \in Nat
    /\ row \in [Keys -> Row]
    /\ rec \in [Ids -> Record]
    /\ resolved \in [Keys -> Seq(Moments)]
    /\ vetoing \in [Keys -> {NoVeto} \cup [rev : 0..MaxRevision, served : 0..MaxRevision, allowed : BOOLEAN]]
    /\ journal \in [Attempts -> Seq(Event)]
    /\ order \in [Attempts -> [by : Ids \cup {NoRecord}, wire : BOOLEAN]]
    /\ pc \in PCs
    /\ view \in [row : [Keys -> Row], armed : BOOLEAN, armedAt : Nat, ended : [Keys -> Nat]]
    /\ todo \subseteq Ids /\ cur \in Ids \cup {NoRecord} /\ att \in Attempts \cup {NoAttempt}
    /\ grant \in Nat /\ res \in {"none", "ok", "error", "frozen", "disarmed"}

\* One proposal revision never becomes two broker orders, whatever retries,
\* unsaved outcomes and crashes submitAutomatic goes through.
OneOrderPerRevision ==
    \A a, b \in Attempts : order[a].wire /\ order[b].wire /\ order[a].by = order[b].by => a = b

\* A record the owner reads as vetoed, superseded or waiting has nothing at the
\* broker, and one that reads submitted has.
RecordMatchesWire ==
    \A id \in Ids :
        LET sent == \E a \in Attempts : order[a].wire /\ order[a].by = id
        IN  /\ rec[id].state \in {"none", "pending", "deferred", "vetoed", "superseded"} => ~sent
            /\ rec[id].state = "submitted" => sent

\* A line never waits at two sizes: reconcileAutomatic ends the record of one
\* revision before another's clock starts.
OneWaitingPerLine ==
    \A i, j \in Ids : i[1] = j[1] /\ waiting(rec[i]) /\ waiting(rec[j]) => i = j

Sends(a) == ~order[a].wire /\ order'[a].wire

\* No order is sent unless its notice stood on a record the owner could veto
\* for the whole window, in the set or within the clock it carried; the
\* drawdown brake alone skips it, and never for a mandate reduction.
FullVetoWindow ==
    [][\A a \in Attempts : Sends(a) =>
          LET r == rec[order[a].by]
          IN  r.seen >= VetoWindow \/ (r.skip /\ order[a].by[1] \notin Mandates)]_vars

\* A frame leaves only while automatic trading is armed, by the same arming the
\* veto clock ran under, and not frozen: no disarm, no rearm and no freeze slips
\* between the wire guard's check and the bytes.
SentUnderItsArming ==
    [][\A a \in Attempts : Sends(a) => armed /\ ~frozen /\ rec[order[a].by].arm = armedAt]_vars

\* A veto is for good: no retry, recovery or returning row revives the record,
\* and no order of that revision is written after it.
VetoIsForGood ==
    [][\A id \in Ids : rec[id].state = "vetoed" =>
          /\ rec'[id].state = "vetoed"
          /\ \A a \in Attempts : Sends(a) => order[a].by # id]_vars

\* automaticNewSessionReason: a mandate reduction gets a fresh notice and a full
\* window in the session it is sent in, never a send at the open on a clock the
\* owner may have slept through.  The check is made of a row the set serves as
\* the pass begins; one that is back in time for the revalidation escapes it.
FreshWindowInSession ==
    [][\A a \in Attempts : Sends(a) /\ order[a].by[1] \in Mandates /\ Served(order[a].by)
          => rec[order[a].by].seen >= VetoWindow]_vars

\* A submission an earlier process left behind is resolved.
RecoverySettles ==
    \A id \in Ids : rec[id].state = "submitting" /\ ~rec[id].own ~> rec[id].state # "submitting"

=============================================================================
