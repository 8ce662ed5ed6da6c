-------------------------- MODULE QueuedTypeProofs --------------------------
(***************************************************************************)
(* QueuedAuthorisation keeps its types, for every number of records,       *)
(* attempts, lines and accounts, every bound and every kind of order.  The *)
(* lemmas come first that all its proofs use: what each rewrite of a       *)
(* record preserves, and what the journal of an attempt proves.            *)
(***************************************************************************)
EXTENDS QueuedAuthorisation, TLAPS

LOCAL INSTANCE WellFoundedInduction


(***************************************************************************)
(* What each rewrite of a record leaves alone: the terms the owner signed, *)
(* and no claim on a line out of nothing.                                  *)
(***************************************************************************)
Keeps(r, s) ==
    /\ s \in Record
    /\ s.line = r.line /\ s.kind = r.kind /\ s.max = r.max
    /\ Claims(s) => Claims(r)

\* Every rewrite of a record keeps its terms: ending or marking it, moving a live one between live states
\* (resolve), and the passes and calls of the queue (endUnreadableQueued, recoverQueuedAfterRestart,
\* endFlatProtectionQueues, expireQueued, followQueuedSent, QueueCancel, settleSend).
LEMMA RewritesKeep ==
    \A r \in Record :
        /\ Keeps(r, r) /\ Keeps(r, EndUnreadable(r)) /\ Keeps(r, EndFlat(r)) /\ Keeps(r, Expire(r))
        /\ r.state = "sending" => Keeps(r, RecoverRecord(r))
        /\ Followed(r) => Keeps(r, FollowRecord(r))
        /\ \A p \in BOOLEAN : Keeps(r, CancelRecord(r, p))
        /\ \A o : Keeps(r, SettleRecord(r, o))
        /\ \A st \in FinalStates : \A why \in Codes : Keeps(r, resolve(r, st, why))
        /\ Claims(r) => Keeps(r, [r EXCEPT !.state = "held"])
\* Ending a record keeps its terms.
<1>ResolveKeeps. ASSUME NEW r \in Record, NEW st \in FinalStates, NEW why \in Codes
                 PROVE  Keeps(r, resolve(r, st, why))
  BY <1>ResolveKeeps, Zenon DEF Keeps, resolve, Record, FinalStates, States, Claims, liveIntent, waiting
\* Marking a record keeps its terms.
<1>FlagsKeep. ASSUME NEW r \in Record
              PROVE  /\ Keeps(r, r)
                     /\ Keeps(r, [r EXCEPT !.bad = FALSE])
                     /\ Keeps(r, [r EXCEPT !.ended = TRUE])
                     /\ Keeps(r, [r EXCEPT !.cancel = TRUE])
                     /\ Keeps(r, [r EXCEPT !.cancel = TRUE, !.ended = TRUE])
                     /\ Keeps(r, [r EXCEPT !.ended = TRUE, !.cancel = TRUE])
  BY <1>FlagsKeep, Zenon DEF Keeps, Record, Claims, liveIntent, waiting
\* Moving a live record between live states keeps its terms.
<1>ClaimKeeps. ASSUME NEW r \in Record, Claims(r), NEW st \in {"held", "sent"}
               PROVE  /\ Keeps(r, [r EXCEPT !.state = st])
                      /\ Keeps(r, [r EXCEPT !.accepted = TRUE, !.state = st])
  BY <1>ClaimKeeps, Zenon DEF Keeps, Record, Claims, liveIntent, waiting, States
\* Forgetting a spent token keeps the terms.
<1>ClearAttemptKeeps. ASSUME NEW r \in Record, Claims(r), NEW st \in {"armed", "held"}
                      PROVE  Keeps(r, [ClearAttempt(r) EXCEPT !.state = st])
  <2> USE <1>ClearAttemptKeeps
  <2>1. 0 \in 0..MaxPosition
    BY BoundsAssumption DEF BoundsAssumption
  <2> QED BY <2>1, Zenon DEF Keeps, ClearAttempt, Record, States, Claims, liveIntent, waiting
\* Two rewrites that keep the terms compose.
<1>KeepsTransitive. ASSUME NEW r, NEW s, NEW t, Keeps(r, s), Keeps(s, t) PROVE Keeps(r, t)
  BY <1>KeepsTransitive DEF Keeps
\* endUnreadableQueued keeps the terms.
<1>EndUnreadableKeeps. ASSUME NEW r \in Record PROVE Keeps(r, EndUnreadable(r))
  <2> USE <1>EndUnreadableKeeps
  <2>1. CASE ~r.bad \/ final(r) \/ r.state = "none"
    BY <2>1, <1>FlagsKeep, Zenon DEF EndUnreadable
  <2>2. CASE ~(~r.bad \/ final(r) \/ r.state = "none")
    <3> DEFINE st == IF r.state \in {"prepared", "armed", "held"} THEN "cancelled" ELSE "failed"
               s == resolve(r, st, "record_unreadable")
    <3>1. st \in FinalStates /\ "record_unreadable" \in Codes
      BY DEF FinalStates, Codes
    <3>2. Keeps(r, s)
      BY <3>1, <1>ResolveKeeps
    <3>3. Keeps(s, [s EXCEPT !.bad = FALSE])
      <4>1. s \in Record
        BY <3>2 DEF Keeps
      <4> HIDE DEF s
      <4> QED BY <4>1, <1>FlagsKeep, Zenon
    <3>4. EndUnreadable(r) = [s EXCEPT !.bad = FALSE]
      BY <2>2 DEF EndUnreadable
    <3> QED BY <3>2, <3>3, <3>4, <1>KeepsTransitive
  <2> QED BY <2>1, <2>2
\* recoverQueuedAfterRestart keeps the terms.
<1>RecoverKeeps. ASSUME NEW r \in Record, r.state = "sending" PROVE Keeps(r, RecoverRecord(r))
  <2> USE <1>RecoverKeeps
  <2>1. Claims(r)
    BY DEF Claims, liveIntent
  <2>2. {"failed", "cancelled"} \subseteq FinalStates /\ {"send_outcome_unclear", "owner_cancelled"} \subseteq Codes
    BY DEF FinalStates, Codes
  <2> QED BY <2>1, <2>2, <1>ClaimKeeps, <1>ClearAttemptKeeps, <1>ResolveKeeps, Zenon DEF RecoverRecord
\* endFlatProtectionQueues keeps the terms.
<1>EndFlatKeeps. ASSUME NEW r \in Record PROVE Keeps(r, EndFlat(r))
  <2> USE <1>EndFlatKeeps
  <2> DEFINE s == resolve(r, "cancelled", "position_changed")
  <2>1. "cancelled" \in FinalStates /\ "position_changed" \in Codes
    BY DEF FinalStates, Codes
  <2>2. Keeps(r, s)
    BY <2>1, <1>ResolveKeeps
  <2>3. Keeps(r, [s EXCEPT !.ended = TRUE])
    <3>1. s \in Record
      BY <2>2 DEF Keeps
    <3> HIDE DEF s
    <3>2. Keeps(s, [s EXCEPT !.ended = TRUE])
      BY <3>1, <1>FlagsKeep, Zenon
    <3> QED BY <2>2, <3>2, <1>KeepsTransitive
  <2> QED BY <2>3, <1>FlagsKeep, Zenon DEF EndFlat
\* expireQueued keeps the terms.
<1>ExpireKeeps. ASSUME NEW r \in Record PROVE Keeps(r, Expire(r))
  <2> USE <1>ExpireKeeps
  <2>1. "expired" \in FinalStates /\ {"not_armed", "window_ended"} \subseteq Codes
    BY DEF FinalStates, Codes
  <2> QED BY <2>1, <1>ResolveKeeps, <1>FlagsKeep, Zenon DEF Expire
\* An ended order's resolution keeps the terms.
<1>ResolutionKeeps. ASSUME NEW r \in Record, NEW s \in LifecycleStatuses, NEW n
                    PROVE  Keeps(r, queuedOrderResolution(r, s, n))
  <2> USE <1>ResolutionKeeps
  <2>1. {"filled", "failed", "partially_filled", "expired_unfilled"} \subseteq FinalStates
    BY DEF FinalStates
  <2>2. "" \in Codes /\ "fill_unconfirmed" \in Codes /\ s \in Codes
    BY Zenon DEF Codes
  <2> QED BY <2>1, <2>2, <1>ResolveKeeps, <1>FlagsKeep, Zenon DEF queuedOrderResolution
\* The fold yields one of the lifecycle statuses.
<1>LifecycleStatusType. ASSUME NEW j, NEW d \in BOOLEAN PROVE LifecycleStatus(j, d) \in LifecycleStatuses
  BY <1>LifecycleStatusType DEF LifecycleStatus, mapOrderViewLifecycleStatus, LifecycleStatuses
\* followQueuedSent keeps the terms.
<1>FollowKeeps. ASSUME NEW r \in Record, Followed(r) PROVE Keeps(r, FollowRecord(r))
  <2> USE <1>FollowKeeps
  <2> DEFINE s == LifecycleStatus(journal[r.attempt], r.kind \in DayKinds /\ DayEnd <= now)
             n == ViewFilled(journal[r.attempt])
             t == [r EXCEPT !.accepted = TRUE, !.state = "sent"]
  <2>1. Claims(r)
    BY DEF Followed, Claims, liveIntent, waiting
  <2>2. s \in LifecycleStatuses
    BY <1>LifecycleStatusType, Zenon
  <2>3. Keeps(r, t) /\ Keeps(r, [r EXCEPT !.state = "held"])
    BY <2>1, <1>ClaimKeeps, Zenon
  <2> HIDE DEF s, n, t
  <2>4. Keeps(t, queuedOrderResolution(t, s, n))
    <3>1. t \in Record
      BY <2>3 DEF Keeps
    <3> QED BY <2>2, <3>1, <1>ResolutionKeeps
  <2>5. Keeps(r, queuedOrderResolution(t, s, n))
    BY <2>3, <2>4, <1>KeepsTransitive
  <2>6. Keeps(r, queuedOrderResolution(r, s, n))
    BY <2>2, <1>ResolutionKeeps
  <2> QED BY <2>3, <2>5, <2>6 DEF FollowRecord, s, n, t
\* QueueCancel keeps the terms.
<1>CancelKeeps. ASSUME NEW r \in Record, NEW p \in BOOLEAN PROVE Keeps(r, CancelRecord(r, p))
  <2> USE <1>CancelKeeps
  <2>1. "cancelled" \in FinalStates /\ "owner_cancelled" \in Codes
    BY DEF FinalStates, Codes
  <2> QED BY <2>1, <1>ResolveKeeps, <1>FlagsKeep, Zenon DEF CancelRecord
\* Settling a send's outcome keeps the terms.
<1>SettleKeeps. ASSUME NEW r \in Record, NEW o PROVE Keeps(r, SettleRecord(r, o))
  <2> USE <1>SettleKeeps
  <2>1. {"cancelled", "failed"} \subseteq FinalStates /\ {"owner_cancelled", "send_outcome_unclear"} \subseteq Codes
    BY DEF FinalStates, Codes
  <2>2. r.state = "sending" => Claims(r)
    BY DEF Claims, liveIntent
  <2> QED BY <2>1, <2>2, <1>ResolveKeeps, <1>FlagsKeep, <1>ClaimKeeps, <1>ClearAttemptKeeps, Zenon DEF SettleRecord
<1> QED BY <1>ResolveKeeps, <1>FlagsKeep, <1>ClaimKeeps, <1>EndUnreadableKeeps, <1>RecoverKeeps, <1>EndFlatKeeps,
           <1>ExpireKeeps, <1>FollowKeeps, <1>CancelKeeps, <1>SettleKeeps, Zenon

-----------------------------------------------------------------------------
(***************************************************************************)
(* What the journal of an attempt proves.                                  *)
(***************************************************************************)
Unframed == {<<>>, <<LocalEvent("attempted")>>, <<LocalEvent("attempted"), LocalEvent("unsent")>>}

\* The journal of a frame never proves it unsent (queuedJournalSendOutcome).
LEMMA FramedOutcome ==
    ASSUME NEW j, Has(j, "attempted"), ~Has(j, "unsent"), NEW k
    PROVE  queuedJournalSendOutcome(j, k) \in {"reached", "unclear"}
BY DEF queuedJournalSendOutcome, orderJournalSendOutcome, ownerJournalSendOutcome, Has, ReachedTypes

\* An attempt with no frame never reads as one that reached the broker, and its order view shows no fill and
\* no state of an order at the broker.
LEMMA UnframedReads ==
    \A j \in Unframed :
        /\ \A k : queuedJournalSendOutcome(j, k) \in {"none", "failed_unsent", "unclear"}
        /\ \A d \in BOOLEAN : LifecycleStatus(j, d) \in {"none", "unknown_reconcile_required", "rejected",
                                                         "pending_submit", "expired_inferred"}
        /\ ViewFilled(j) = 0
\* An attempt with no frame has only local events, which report no status and no fill.
<1>UnframedEvents. ASSUME NEW j \in Unframed
                   PROVE  \A i \in DOMAIN j : j[i].status = "" /\ j[i].filled = 0 /\ j[i].type \in {"attempted", "unsent"}
  <2> USE <1>UnframedEvents
  <2> DEFINE A == LocalEvent("attempted")
             U == LocalEvent("unsent")
  <2>1. A.status = "" /\ A.filled = 0 /\ A.type = "attempted"
    BY DEF LocalEvent
  <2>2. U.status = "" /\ U.filled = 0 /\ U.type = "unsent"
    BY DEF LocalEvent
  <2> HIDE DEF A, U
  <2>3. \A i \in DOMAIN j : j[i] \in {A, U}
    <3>1. j = <<>> \/ j = <<A>> \/ j = <<A, U>>
      BY DEF Unframed, A, U
    <3>2. CASE j = <<>>
      BY <3>2
    <3>3. CASE j = <<A>>
      BY <3>3
    <3>4. CASE j = <<A, U>>
      BY <3>4
    <3> QED BY <3>1, <3>2, <3>3, <3>4
  <2> QED BY <2>1, <2>2, <2>3, Zenon
\* An attempt with no frame never reads as one that reached the broker.
<1>UnframedOutcome. ASSUME NEW j \in Unframed, NEW k
                    PROVE  queuedJournalSendOutcome(j, k) \in {"none", "failed_unsent", "unclear"}
  <2> USE <1>UnframedOutcome
  <2>1. \A i \in DOMAIN j : j[i].type \in {"attempted", "unsent"}
    BY <1>UnframedEvents, Zenon
  <2> QED BY <2>1 DEF queuedJournalSendOutcome, orderJournalSendOutcome, ownerJournalSendOutcome,
                      Has, ReachedTypes
\* Its order view shows no fill and no state of an order at the broker.
<1>UnframedView. ASSUME NEW j \in Unframed, NEW d \in BOOLEAN
                 PROVE  /\ LifecycleStatus(j, d) \in {"none", "unknown_reconcile_required", "rejected",
                                                      "pending_submit", "expired_inferred"}
                        /\ ViewFilled(j) = 0
  <2> USE <1>UnframedView
  <2>1. \A i \in DOMAIN j : j[i].status = "" /\ j[i].filled = 0 /\ j[i].type \in {"attempted", "unsent"}
    BY <1>UnframedEvents, Zenon
  <2>2. ViewFilled(j) = 0
    BY <2>1, Zenon DEF ViewFilled
  <2>3. CASE j = <<>>
    BY <2>2, <2>3 DEF LifecycleStatus
  <2>4. CASE j # <<>>
    <3>1. DOMAIN j = {1} \/ DOMAIN j = {1, 2}
      BY <2>4 DEF Unframed
    <3>2. \A i \in DOMAIN j : ~TerminalEvent(j[i])
      BY <2>1, Zenon DEF TerminalEvent
    <3>3. \A i \in DOMAIN j : Merged(j, i)
      <4> SUFFICES ASSUME NEW i \in DOMAIN j PROVE Merged(j, i)
        OBVIOUS
      <4>1. \A k \in 1..(i-1) : k \in DOMAIN j
        BY <3>1
      <4> QED BY <4>1, <3>2, <2>1, Zenon DEF Merged
    <3>4. LastMerged(j) \in DOMAIN j
      <4>1. \E i \in DOMAIN j : Merged(j, i) /\ \A k \in DOMAIN j : Merged(j, k) => k <= i
        BY <3>1, <3>3
      <4> QED BY <4>1 DEF LastMerged
    <3> DEFINE last == j[LastMerged(j)]
    <3>5. last.status = "" /\ last.type \in {"attempted", "unsent"}
      BY <3>4, <2>1, Zenon
    <3> HIDE DEF last
    <3>6. mapOrderViewLifecycleStatus(j) \in {"rejected", "unknown_reconcile_required", "pending_submit"}
      BY <3>5, Zenon DEF mapOrderViewLifecycleStatus, last
    <3> QED BY <2>2, <3>6 DEF LifecycleStatus
  <2> QED BY <2>3, <2>4
<1> QED BY <1>UnframedOutcome, <1>UnframedView, Zenon

-----------------------------------------------------------------------------
(***************************************************************************)
(* Rewrites that keep a record honest: it still says the truth of its      *)
(* attempt, forgets it only unframed and unflagged, never leaves a final   *)
(* state, and is not armed again once flagged.                             *)
(***************************************************************************)
Honest(r, s) ==
    /\ RecordOK(s)
    /\ \/ s.attempt = r.attempt
       \/ s.attempt = NoAttempt /\ ~AttemptFramed(r) /\ ~r.cancel /\ ~r.ended /\ ~final(r)
    /\ final(r) => s.state = r.state
    /\ r.cancel \/ r.ended => s.state \notin {"armed", "prepared"}
    /\ r.state # "none" => s.state # "none"

USE DEF Honest, RecordOK, SaysSent, SaysUnsent, AttemptFramed, final, ownerQueueProtection

\* The outcome the journal or the freeze proves never contradicts the wire.
OutcomeFits(r, o) ==
    /\ o \in {"reached", "unclear", "none", "failed_unsent"}
    /\ o = "reached" => AttemptFramed(r)
    /\ o \in {"none", "failed_unsent"} => ~AttemptFramed(r)

\* The journal never proves a framed attempt unsent, nor an unframed one sent.
LEMMA JournalOutcomeFits ==
    ASSUME NEW r \in Record, r.attempt # NoAttempt, JournalOK(r.attempt)
    PROVE  OutcomeFits(r, queuedJournalSendOutcome(journal[r.attempt], r.kind))
<1>1. CASE Framed(r.attempt)
  BY <1>1, FramedOutcome DEF JournalOK, OutcomeFits
<1>2. CASE ~Framed(r.attempt)
  BY <1>2, UnframedReads DEF JournalOK, OutcomeFits, Unframed
<1> QED BY <1>1, <1>2

\* Every rewrite of a record is honest: the passes and calls of the queue, a fresh preparation, arming or
\* holding or ending a record that names no attempt, and the reread at a restart.
LEMMA RewritesHonest ==
    \A r \in Record : RecordOK(r) =>
        /\ Honest(r, r) /\ Honest(r, EndUnreadable(r)) /\ Honest(r, EndFlat(r)) /\ Honest(r, Expire(r))
        /\ \A p \in BOOLEAN : Honest(r, CancelRecord(r, p))
        /\ r.state = "sending" /\ JournalOK(r.attempt) => Honest(r, RecoverRecord(r))
        /\ Followed(r) /\ JournalOK(r.attempt) => Honest(r, FollowRecord(r))
        /\ \A o : OutcomeFits(r, o) => Honest(r, SettleRecord(r, o))
        /\ r.state = "none" =>
              \A k, l, n, p, t : Honest(r, [r EXCEPT !.state = "prepared", !.kind = k, !.line = l, !.max = n,
                                                     !.signed = p, !.armBy = t])
        /\ r.state \in {"prepared", "armed", "held"} /\ r.attempt = NoAttempt =>
              /\ Honest(r, [r EXCEPT !.state = "armed"])
              /\ Honest(r, [r EXCEPT !.state = "held"])
              /\ \A why : Honest(r, resolve(r, "cancelled", why)) /\ Honest(r, resolve(r, "expired", why))
        /\ \A b : Honest(r, [r EXCEPT !.bad = b, !.own = FALSE])
\* Leaving a record alone is honest.
<1>SameHonest. ASSUME NEW r \in Record, RecordOK(r) PROVE Honest(r, r)
  BY <1>SameHonest DEF FinalStates
\* Ending an unreadable record is honest.
<1>EndUnreadableHonest. ASSUME NEW r \in Record, RecordOK(r) PROVE Honest(r, EndUnreadable(r))
  BY <1>EndUnreadableHonest DEF Record, EndUnreadable, resolve, FinalStates
\* Ending a flat position's mandate is honest.
<1>EndFlatHonest. ASSUME NEW r \in Record, RecordOK(r) PROVE Honest(r, EndFlat(r))
  BY <1>EndFlatHonest DEF Record, States, EndFlat, resolve, FinalStates, waiting
\* Expiring a record is honest: what expires has no attempt.
<1>ExpireHonest. ASSUME NEW r \in Record, RecordOK(r) PROVE Honest(r, Expire(r))
  BY <1>ExpireHonest DEF Record, Expire, resolve, FinalStates, waiting
\* Cancelling is honest: what ends cancelled has no attempt.
<1>CancelHonest. ASSUME NEW r \in Record, RecordOK(r), NEW p \in BOOLEAN PROVE Honest(r, CancelRecord(r, p))
  BY <1>CancelHonest DEF Record, CancelRecord, resolve, FinalStates, waiting
\* Recovery is honest, since the journal is.
<1>RecoverHonest. ASSUME NEW r \in Record, RecordOK(r), r.state = "sending", JournalOK(r.attempt)
                  PROVE  Honest(r, RecoverRecord(r))
  <2> USE <1>RecoverHonest
  <2> DEFINE o == queuedJournalSendOutcome(journal[r.attempt], r.kind)
  <2>1. OutcomeFits(r, o)
    BY JournalOutcomeFits
  <2> HIDE DEF o
  <2> QED BY <2>1 DEF o, OutcomeFits, RecoverRecord, Record, ClearAttempt, resolve, FinalStates
\* Settling under an outcome that fits the wire is honest.
<1>SettleHonest. ASSUME NEW r \in Record, RecordOK(r), NEW o, OutcomeFits(r, o)
                 PROVE  Honest(r, SettleRecord(r, o))
  BY <1>SettleHonest DEF OutcomeFits, SettleRecord, Record, ClearAttempt, resolve, FinalStates
\* Resolving a framed order by its view is honest.
<1>ResolutionHonest. ASSUME NEW r \in Record, RecordOK(r), AttemptFramed(r), ~final(r), r.state \notin {"armed", "prepared", "none"},
                            NEW s, NEW n
                     PROVE  Honest(r, queuedOrderResolution(r, s, n))
  BY <1>ResolutionHonest, Zenon DEF queuedOrderResolution, resolve, Record, FinalStates
\* Following an order by its view is honest, framed or not.
<1>FollowHonest. ASSUME NEW r \in Record, RecordOK(r), Followed(r), JournalOK(r.attempt)
                 PROVE  Honest(r, FollowRecord(r))
  <2> USE <1>FollowHonest
  <2> DEFINE s == LifecycleStatus(journal[r.attempt], r.kind \in DayKinds /\ DayEnd <= now)
             n == ViewFilled(journal[r.attempt])
  <2>1. CASE Framed(r.attempt)
    <3> DEFINE t == [r EXCEPT !.accepted = TRUE, !.state = "sent"]
               h == [r EXCEPT !.state = "held"]
    <3>1. r.state \in {"sent", "held"} /\ AttemptFramed(r)
      BY <2>1 DEF Followed
    <3>2. /\ t \in Record /\ RecordOK(t) /\ AttemptFramed(t) /\ t.state = "sent"
          /\ t.attempt = r.attempt /\ t.cancel = r.cancel /\ t.ended = r.ended
      BY <3>1, Zenon DEF Record, States, FinalStates
    <3>3. r.kind = "stop" => Honest(r, h)
      BY <3>1 DEF Record, FinalStates
    <3> HIDE DEF s, n, t, h
    <3>4. Honest(t, queuedOrderResolution(t, s, n))
      BY <3>2, <1>ResolutionHonest, Zenon DEF FinalStates
    <3>5. Honest(r, queuedOrderResolution(t, s, n))
      BY <3>1, <3>2, <3>4, Zenon DEF FinalStates
    <3>6. Honest(r, queuedOrderResolution(r, s, n))
      BY <3>1, <1>ResolutionHonest, Zenon DEF FinalStates
    <3> HIDE DEF Honest, RecordOK, SaysSent, SaysUnsent, AttemptFramed
    <3>7. FollowRecord(r) = IF ownerQueueProtection(r) /\ ~r.accepted /\ s = "rejected" THEN h
                            ELSE IF ownerQueueProtection(r) /\ ~r.accepted /\ s \in {"submitted", "filled"}
                            THEN queuedOrderResolution(t, s, n) ELSE queuedOrderResolution(r, s, n)
      BY DEF s, n, t, h, FollowRecord
    <3> QED BY <3>3, <3>5, <3>6, <3>7
  <2>2. CASE ~Framed(r.attempt)
    <3>1. s \in {"none", "unknown_reconcile_required", "rejected", "pending_submit", "expired_inferred"} /\ n = 0
      BY <2>2, UnframedReads, Zenon DEF JournalOK, Unframed
    <3>2. r.state = "held" /\ r.kind = "stop" /\ ~r.accepted
      BY <2>2 DEF Followed, Record
    <3>3. r.qty \in Nat
      BY BoundsAssumption DEF Record, BoundsAssumption
    <3> HIDE DEF s, n
    <3>4. FollowRecord(r) \in {r, [r EXCEPT !.state = "held"], resolve(r, "expired_unfilled", "expired_inferred")}
      <4>1. FollowRecord(r) = IF s = "rejected" THEN [r EXCEPT !.state = "held"]
                              ELSE IF s \in {"submitted", "filled"}
                              THEN queuedOrderResolution([r EXCEPT !.accepted = TRUE, !.state = "sent"], s, n)
                              ELSE queuedOrderResolution(r, s, n)
        BY <3>2 DEF s, n, FollowRecord
      <4>2. s \notin {"submitted", "filled", "closed_reconciled", "cancelled"}
        BY <3>1
      <4>3. s # "rejected" => queuedOrderResolution(r, s, n) \in {r, resolve(r, "expired_unfilled", "expired_inferred")}
        <5>1. s \in {"none", "unknown_reconcile_required", "pending_submit"} => queuedOrderResolution(r, s, n) = r
          BY Zenon DEF queuedOrderResolution, orderLifecycleStatusIsTerminal
        <5>2. ~(r.qty > 0 /\ n >= r.qty) /\ ~(n > 0)
          BY <3>1, <3>3
        <5>3. s = "expired_inferred" => queuedOrderResolution(r, s, n) = resolve(r, "expired_unfilled", "expired_inferred")
          BY <5>2, Zenon DEF queuedOrderResolution, orderLifecycleStatusIsTerminal
        <5> QED BY <3>1, <5>1, <5>3
      <4> QED BY <4>1, <4>2, <4>3
    <3>5. Honest(r, r) /\ Honest(r, [r EXCEPT !.state = "held"])
      BY <3>2 DEF Record, FinalStates
    <3>6. Honest(r, resolve(r, "expired_unfilled", "expired_inferred"))
      BY <3>2 DEF Record, FinalStates, resolve
    <3> HIDE DEF Honest
    <3> QED BY <3>4, <3>5, <3>6
  <2> QED BY <2>1, <2>2
\* Preparing a fresh record is honest.
<1>PrepareHonest. ASSUME NEW r \in Record, RecordOK(r), r.state = "none",
                         NEW k, NEW l, NEW n, NEW p, NEW t
                  PROVE  Honest(r, [r EXCEPT !.state = "prepared", !.kind = k, !.line = l, !.max = n, !.signed = p, !.armBy = t])
  BY <1>PrepareHonest DEF Record, FinalStates
\* A record with no attempt may be armed, held or ended unsent.
<1>WaitingHonest. ASSUME NEW r \in Record, RecordOK(r), r.state \in {"prepared", "armed", "held"}, r.attempt = NoAttempt, NEW why
                  PROVE  /\ Honest(r, [r EXCEPT !.state = "armed"])
                         /\ Honest(r, [r EXCEPT !.state = "held"])
                         /\ Honest(r, resolve(r, "cancelled", why))
                         /\ Honest(r, resolve(r, "expired", why))
  BY <1>WaitingHonest DEF Record, FinalStates, resolve
\* A restart changes only what the new process can read.
<1>RestartHonest. ASSUME NEW r \in Record, RecordOK(r), NEW b PROVE Honest(r, [r EXCEPT !.bad = b, !.own = FALSE])
  BY <1>RestartHonest DEF Record, FinalStates
<1> HIDE DEF Honest, RecordOK, SaysSent, SaysUnsent, AttemptFramed, final, ownerQueueProtection
<1> QED BY <1>SameHonest, <1>EndUnreadableHonest, <1>EndFlatHonest, <1>ExpireHonest, <1>CancelHonest,
           <1>RecoverHonest,
           <1>SettleHonest, <1>FollowHonest, <1>PrepareHonest, <1>WaitingHonest, <1>RestartHonest, Zenon

HIDE DEF Honest, RecordOK, SaysSent, SaysUnsent, AttemptFramed, final, ownerQueueProtection

-----------------------------------------------------------------------------
(***************************************************************************)
(* What a record says of the fill.  An event of the journal was so when it *)
(* was journalled; a fill only grows, and a cancelled or rejected order's  *)
(* is final.  What a final record says it read from such events.           *)
(***************************************************************************)
EventTrue(o, e) ==
    /\ e.filled <= o.fill
    /\ e.status = "Cancelled" => o.wire = "ended" /\ o.fill = e.filled /\ o.fill # o.qty
    /\ e.type = "error" => o.wire = "rejected"

OrderTrue(o, j) ==
    /\ o.fill <= o.qty
    /\ o.wire \notin {"working", "ended"} => o.fill = 0
    /\ \A i \in DOMAIN j : EventTrue(o, j[i])

FillTrue(r, o) ==
    /\ r.qty = o.qty
    /\ r.state = "filled" => o.fill = o.qty
    /\ r.state = "partially_filled" /\ r.code = "cancelled" => o.wire = "ended" /\ o.fill \in 1..(o.qty - 1)
    /\ r.state = "expired_unfilled" /\ r.code = "cancelled" => o.wire = "ended" /\ o.fill = 0
    /\ r.state = "expired_unfilled" /\ r.code = "rejected" /\ o.wire # "none" => o.wire = "rejected" /\ o.fill = 0

Order == [by : QueueIds \cup {NoQueue}, qty : 0..MaxPosition, wire : Wires, fill : 0..MaxPosition]

\* A record that follows its order says the truth of its fill, whether or not the attempt was framed, when the
\* journal's events were true of the order (followQueuedSent, mapOrderViewLifecycleStatus, queuedOrderResolution).
LEMMA FollowReadsTrue ==
    TypeOK => \A r \in Record :
        /\ r.attempt \in Attempts /\ Followed(r) /\ JournalOK(r.attempt)
        /\ OrderTrue(order[r.attempt], journal[r.attempt]) /\ FillTrue(r, order[r.attempt])
        => FillTrue(FollowRecord(r), order[r.attempt]) /\ FollowRecord(r).attempt = r.attempt
\* A set of positions of a sequence has a last one.
<1>LastExists. ASSUME NEW n \in Nat, NEW I \in SUBSET (1..n), I # {}
               PROVE  \E i \in I : \A k \in I : k <= i
  <2> USE <1>LastExists
  <2> DEFINE T == {n - i : i \in I}
  <2>1. \A i \in I : i \in Nat /\ n - i \in Nat
    OBVIOUS
  <2>2. T \subseteq Nat /\ T # {}
    BY <2>1, Zenon
  <2>3. \A k \in I : n - k \in T
    OBVIOUS
  <2>4. \A x \in T : \E i \in I : x = n - i
    OBVIOUS
  <2> HIDE DEF T
  <2>5. PICK x \in T : \A y \in T : ~(<<y, x>> \in OpToRel(<, Nat))
    BY <2>2, NatLessThanWellFounded, WFMin, Zenon
  <2>6. \A y \in T : x <= y
    <3>1. \A y \in T : y \in Nat /\ x \in Nat /\ (y < x => <<y, x>> \in OpToRel(<, Nat))
      BY <2>2 DEF OpToRel
    <3>2. \A y \in T : ~(y < x)
      BY <2>5, <3>1, Zenon
    <3>3. x \in Nat /\ \A y \in T : y \in Nat
      BY <2>2
    <3> QED BY <3>2, <3>3
  <2>7. PICK i \in I : x = n - i
    BY <2>4
  <2>8. \A k \in I : n - i <= n - k
    BY <2>3, <2>6, <2>7
  <2>9. \A k \in I : k <= i
    BY <2>1, <2>8
  <2> QED BY <2>9
\* The first event is always merged, so a journal has a last merged event.
<1>LastMergedIs. ASSUME NEW j \in Seq(Event), j # <<>>
                 PROVE  /\ LastMerged(j) \in DOMAIN j /\ Merged(j, LastMerged(j))
                        /\ \A k \in DOMAIN j : Merged(j, k) => k <= LastMerged(j)
  <2> USE <1>LastMergedIs
  <2> DEFINE I == {i \in DOMAIN j : Merged(j, i)}
  <2>1. Len(j) \in Nat /\ DOMAIN j = 1..Len(j) /\ 1 \in DOMAIN j
    OBVIOUS
  <2>2. Merged(j, 1)
    <3>1. 1..(1-1) = {}
      OBVIOUS
    <3> QED BY <3>1 DEF Merged
  <2>3. I \in SUBSET (1..Len(j)) /\ I # {}
    BY <2>1, <2>2
  <2>4. \E i \in I : \A k \in I : k <= i
    BY <2>1, <2>3, <1>LastExists, Zenon
  <2>5. \E i \in DOMAIN j : Merged(j, i) /\ \A k \in DOMAIN j : Merged(j, k) => k <= i
    BY <2>4
  <2> QED BY <2>5, Zenon DEF LastMerged
\* The fill of a view is the last that a merged event reports.
<1>ViewFilledIs. ASSUME NEW j \in Seq(Event)
                 PROVE  \/ ViewFilled(j) = 0 /\ \A i \in DOMAIN j : Merged(j, i) => j[i].filled = 0
                        \/ \E i \in DOMAIN j : j[i].filled # 0 /\ ViewFilled(j) = j[i].filled
  <2> USE <1>ViewFilledIs
  <2> DEFINE I == {i \in DOMAIN j : Merged(j, i) /\ j[i].filled # 0}
             last == CHOOSE i \in I : \A k \in I : k <= i
  <2>1. CASE I = {}
    BY <2>1 DEF ViewFilled
  <2>2. CASE I # {}
    <3>1. Len(j) \in Nat /\ I \in SUBSET (1..Len(j))
      OBVIOUS
    <3>2. \E i \in I : \A k \in I : k <= i
      BY <2>2, <3>1, <1>LastExists, Zenon
    <3>3. last \in I
      BY <3>2, Zenon
    <3>4. ViewFilled(j) = j[last].filled
      BY <2>2 DEF ViewFilled
    <3> HIDE DEF last
    <3> QED BY <3>3, <3>4
  <2> QED BY <2>1, <2>2
\* What the folded view of a frame's journal says is so (loadOrderViews).
<1>ViewTrue. ASSUME NEW j \in Seq(Event), NEW o \in Order, OrderTrue(o, j), Has(j, "attempted"), ~Has(j, "unsent"),
                    NEW d \in BOOLEAN
             PROVE  /\ ViewFilled(j) \in Nat /\ ViewFilled(j) <= o.fill
                    /\ LifecycleStatus(j, d) = "cancelled" =>
                         o.wire = "ended" /\ o.fill # o.qty /\ (ViewFilled(j) = 0 => o.fill = 0)
                    /\ LifecycleStatus(j, d) = "rejected" => o.wire = "rejected"
  <2> USE <1>ViewTrue
  <2>1. \A i \in DOMAIN j : EventTrue(o, j[i]) /\ j[i].filled \in Nat
    <3>1. \A i \in DOMAIN j : j[i] \in Event
      OBVIOUS
    <3>2. \A e \in Event : e.filled \in Nat
      BY DEF Event
    <3> QED BY <3>1, <3>2 DEF OrderTrue
  <2>2. o.fill \in Nat
    BY BoundsAssumption DEF Order, BoundsAssumption
  <2>3. ViewFilled(j) \in Nat /\ ViewFilled(j) <= o.fill
    <3>1. \A i \in DOMAIN j : j[i].filled <= o.fill
      BY <2>1 DEF EventTrue
    <3> QED BY <2>1, <2>2, <3>1, <1>ViewFilledIs
  <2>4. j # <<>>
    BY DEF Has
  <2> DEFINE n == LastMerged(j)
             last == j[n]
  <2>5. n \in DOMAIN j /\ Merged(j, n)
    BY <2>4, <1>LastMergedIs
  <2>6. EventTrue(o, last) /\ last.filled \in Nat /\ last.type # "unsent"
    BY <2>1, <2>5 DEF Has
  <2> HIDE DEF n
  <2>7. LifecycleStatus(j, d) = "cancelled" => last.status = "Cancelled"
    BY <2>4 DEF LifecycleStatus, mapOrderViewLifecycleStatus, orderLifecycleStatusIsTerminal, n
  <2>8. LifecycleStatus(j, d) = "rejected" => last.type \in {"error", "unsent"}
    BY <2>4 DEF LifecycleStatus, mapOrderViewLifecycleStatus, orderLifecycleStatusIsTerminal, n
  <2>9. ViewFilled(j) = 0 => last.filled = 0
    <3>1. CASE \A i \in DOMAIN j : Merged(j, i) => j[i].filled = 0
      BY <2>5, <3>1
    <3>2. CASE \E i \in DOMAIN j : j[i].filled # 0 /\ ViewFilled(j) = j[i].filled
      BY <3>2
    <3> QED BY <3>1, <3>2, <1>ViewFilledIs
  <2> HIDE DEF last
  <2> QED BY <2>3, <2>6, <2>7, <2>8, <2>9 DEF EventTrue
\* A resolution from a true view says the truth (queuedOrderResolution).
<1>ResolutionTrue. ASSUME NEW r \in Record, NEW o \in Order, r.qty = o.qty, ~final(r), o.fill <= o.qty,
                          NEW s, NEW n \in Nat, n <= o.fill, s = "cancelled" => o.wire = "ended" /\ o.fill # o.qty /\ (n = 0 => o.fill = 0),
                          s = "rejected" /\ o.wire # "none" => o.wire = "rejected" /\ o.fill = 0
                   PROVE  FillTrue(queuedOrderResolution(r, s, n), o) /\ queuedOrderResolution(r, s, n).attempt = r.attempt
  <2> USE <1>ResolutionTrue
  <2>1. /\ o.fill \in Nat /\ o.qty \in Nat
        /\ r.state \notin {"filled", "partially_filled", "expired_unfilled"}
    BY BoundsAssumption DEF Order, BoundsAssumption, final, FinalStates
  <2>2. ASSUME NEW t, NEW st, NEW why, t = resolve(r, st, why)
        PROVE  t.state = st /\ t.code = why /\ t.attempt = r.attempt /\ t.qty = r.qty
    BY <2>2, Zenon DEF resolve, Record
  <2> DEFINE t == queuedOrderResolution(r, s, n)
  <2>3. \/ t = r
        \/ n >= r.qty /\ \E why : t = resolve(r, "filled", why)
        \/ t = resolve(r, "failed", "fill_unconfirmed")
        \/ n > 0 /\ t = resolve(r, "partially_filled", s)
        \/ ~(n > 0) /\ t = resolve(r, "expired_unfilled", s)
    BY Zenon DEF queuedOrderResolution
  <2> SUFFICES FillTrue(t, o) /\ t.attempt = r.attempt
    OBVIOUS
  <2> HIDE DEF t
  <2>4. CASE t = r
    BY <2>1, <2>4 DEF FillTrue
  <2>5. CASE n >= r.qty /\ \E why : t = resolve(r, "filled", why)
    <3>1. t.state = "filled" /\ t.attempt = r.attempt /\ t.qty = r.qty
      BY <2>2, <2>5
    <3>2. o.fill = o.qty
      BY <2>1, <2>5
    <3> QED BY <3>1, <3>2 DEF FillTrue
  <2>6. CASE t = resolve(r, "failed", "fill_unconfirmed")
    <3>1. t.state = "failed" /\ t.attempt = r.attempt /\ t.qty = r.qty
      BY <2>2, <2>6
    <3> QED BY <2>1, <3>1 DEF FillTrue
  <2>7. CASE n > 0 /\ t = resolve(r, "partially_filled", s)
    <3>1. t.state = "partially_filled" /\ t.code = s /\ t.attempt = r.attempt /\ t.qty = r.qty
      BY <2>2, <2>7
    <3> QED BY <2>1, <2>7, <3>1 DEF FillTrue
  <2>8. CASE ~(n > 0) /\ t = resolve(r, "expired_unfilled", s)
    <3>1. t.state = "expired_unfilled" /\ t.code = s /\ t.attempt = r.attempt /\ t.qty = r.qty
      BY <2>2, <2>8
    <3> QED BY <2>1, <2>8, <3>1 DEF FillTrue
  <2> QED BY <2>3, <2>4, <2>5, <2>6, <2>7, <2>8
\* So a followed record says the truth, whether or not its attempt was framed.
<1>FollowTrue. ASSUME TypeOK, NEW r \in Record, r.attempt \in Attempts, Followed(r), JournalOK(r.attempt),
                      OrderTrue(order[r.attempt], journal[r.attempt]), FillTrue(r, order[r.attempt])
               PROVE  FillTrue(FollowRecord(r), order[r.attempt]) /\ FollowRecord(r).attempt = r.attempt
  <2> USE <1>FollowTrue
  <2> DEFINE o == order[r.attempt]
             j == journal[r.attempt]
             d == r.kind \in DayKinds /\ DayEnd <= now
             s == LifecycleStatus(j, d)
             n == ViewFilled(j)
             t == [r EXCEPT !.accepted = TRUE, !.state = "sent"]
             h == [r EXCEPT !.state = "held"]
  <2>1. o \in Order /\ j \in Seq(Event) /\ d \in BOOLEAN /\ r.qty = o.qty /\ o.fill <= o.qty /\ ~final(r)
    BY Zenon DEF TypeOK, Order, FillTrue, OrderTrue, Followed, final, FinalStates
  <2>2. /\ n \in Nat /\ n <= o.fill
        /\ s = "cancelled" => o.wire = "ended" /\ o.fill # o.qty /\ (n = 0 => o.fill = 0)
        /\ s = "rejected" /\ o.wire # "none" => o.wire = "rejected" /\ o.fill = 0
    <3>1. CASE Framed(r.attempt)
      <4>1. Has(j, "attempted") /\ ~Has(j, "unsent")
        BY <3>1, Zenon DEF JournalOK
      <4> HIDE DEF d, j
      <4>2. /\ n \in Nat /\ n <= o.fill
            /\ s = "cancelled" => o.wire = "ended" /\ o.fill # o.qty /\ (n = 0 => o.fill = 0)
            /\ s = "rejected" => o.wire = "rejected"
        BY <2>1, <4>1, <1>ViewTrue DEF j
      <4> QED BY <4>2, Zenon DEF OrderTrue
    <3>2. CASE ~Framed(r.attempt)
      <4>1. j \in Unframed
        BY <3>2, Zenon DEF JournalOK, Unframed
      <4> HIDE DEF d, j
      <4>2. n = 0 /\ s \in {"none", "unknown_reconcile_required", "rejected", "pending_submit", "expired_inferred"}
        BY <2>1, <4>1, UnframedReads, Zenon
      <4>3. o.fill = 0 /\ o.wire = "none"
        BY <3>2 DEF OrderTrue, Framed
      <4> HIDE DEF o, s, n
      <4> QED BY <4>2, <4>3
    <3> QED BY <3>1, <3>2, Zenon
  <2>3. /\ t \in Record /\ t.qty = r.qty /\ t.attempt = r.attempt /\ t.state = "sent"
        /\ h.qty = r.qty /\ h.attempt = r.attempt /\ h.state = "held"
    BY Zenon DEF Record, States
  <2>4. FollowRecord(r) \in {h, queuedOrderResolution(t, s, n), queuedOrderResolution(r, s, n)}
    BY Zenon DEF FollowRecord
  <2> HIDE DEF o, j, d, s, n, t, h
  <2>5. FillTrue(h, o) /\ ~final(t)
    BY <2>1, <2>3, Zenon DEF FillTrue, final, FinalStates
  <2>6. FillTrue(queuedOrderResolution(t, s, n), o) /\ queuedOrderResolution(t, s, n).attempt = r.attempt
    BY <2>1, <2>2, <2>3, <2>5, <1>ResolutionTrue, Zenon
  <2>7. FillTrue(queuedOrderResolution(r, s, n), o) /\ queuedOrderResolution(r, s, n).attempt = r.attempt
    BY <2>1, <2>2, <1>ResolutionTrue
  <2> QED BY <2>3, <2>4, <2>5, <2>6, <2>7, Zenon DEF o
<1> QED BY <1>FollowTrue, Zenon

-----------------------------------------------------------------------------
(* Types *)

\* Initial states are typed.
LEMMA TypeInit == Init => TypeOK
<1> SUFFICES ASSUME Init PROVE TypeOK
  OBVIOUS
<1>1. rec \in [QueueIds -> Record]
  <2>1. FirstLine \in Lines
    BY QueueAssumption DEF QueueAssumption, FirstLine
  <2>2. 0 \in 0..MaxPosition
    BY BoundsAssumption DEF BoundsAssumption
  <2>3. NoRecord \in Record
    BY <2>1, <2>2 DEF NoRecord, Record, States, Codes
  <2> QED BY <2>3 DEF Init
<1>2. 0 \in 0..MaxPosition
  BY BoundsAssumption DEF BoundsAssumption
<1>3. account \in Accounts \cup {NoAccount} /\ position \in [Lines -> 0..MaxPosition]
  BY BoundsAssumption, Zenon DEF Init, BoundsAssumption
<1>4. journal \in [Attempts -> Seq(Event)]
  BY DEF Init
<1>5. order \in [Attempts -> [by : QueueIds \cup {NoQueue}, qty : 0..MaxPosition,
                              wire : Wires, fill : 0..MaxPosition]]
  BY <1>2 DEF Init, Wires
<1>6. bind \in [qty : 0..MaxPosition, pos : 0..MaxPosition, gen : Nat, session : Nat]
  BY <1>2 DEF Init, NoBind
<1>7. arming \in [QueueIds -> Int]
  BY DEF Init
<1> QED BY <1>1, <1>3, <1>4, <1>5, <1>6, <1>7, Zenon DEF Init, TypeOK, PCs

\* Every step keeps the types: the owner's calls, the passes of a cycle, each step of a send, the world's,
\* a restart's and every fault's.
LEMMA TypeStep ==
    TypeOK /\ CursorOK /\ Next => TypeOK'
\* Rewriting records by a rule that keeps their type.
<1>HousekeepingType. ASSUME TypeOK, HousekeepingKeeps, pc' \in PCs, rec' \in [QueueIds -> Record]
                     PROVE  TypeOK'
  BY <1>HousekeepingType, Zenon DEF TypeOK, HousekeepingKeeps, envVars
\* Owner actions keep the types.
<1>OwnerType. ASSUME TypeOK, Owner PROVE TypeOK'
  <2> USE <1>OwnerType
  <2> USE DEF TypeOK, envVars, execVars
  <2>1. ASSUME NEW q \in QueueIds, NEW l \in Lines, NEW k \in Kinds, NEW n \in 1..MaxPosition, QueuePrepare(q, l, k, n)
        PROVE  TypeOK'
    <3>1. [rec[q] EXCEPT !.state = "prepared", !.kind = k, !.line = l, !.max = n,
                         !.signed = position[l], !.armBy = now + ArmWindow] \in Record
      <4>1. n \in 0..MaxPosition /\ position[l] \in 0..MaxPosition /\ now + ArmWindow \in Nat /\ k \in {"rule", "exact", "stop"}
        BY BoundsAssumption, QueueAssumption DEF BoundsAssumption, QueueAssumption
      <4>2. rec[q] \in Record
        OBVIOUS
      <4> QED BY <4>1, <4>2, Zenon DEF Record, States
    <3>2. \A o \in QueueIds : resolve(rec[o], "cancelled", "superseded") \in Record
      <4>1. "cancelled" \in FinalStates /\ "superseded" \in Codes
        BY DEF FinalStates, Codes
      <4> QED BY <4>1, RewritesKeep, Zenon DEF Keeps
    <3>3. rec' \in [QueueIds -> Record]
      BY <2>1, <3>1, <3>2, Zenon DEF QueuePrepare
    <3> QED BY <2>1, <3>3, Zenon DEF QueuePrepare
  <2>2. ASSUME NEW q \in QueueIds, QueueArmCheck(q) PROVE TypeOK'
    <3>1. now \in Int /\ arming \in [QueueIds -> Int] /\ arming' = [arming EXCEPT ![q] = now]
      BY <2>2 DEF QueueArmCheck
    <3>2. arming' \in [QueueIds -> Int]
      BY <3>1, Zenon
    <3> QED BY <2>2, <3>2, Zenon DEF QueueArmCheck
  <2>3. ASSUME NEW q \in QueueIds, QueueArm(q) PROVE TypeOK'
    <3>1. [rec[q] EXCEPT !.state = "armed"] \in Record
      <4>1. rec[q] \in Record
        OBVIOUS
      <4> HIDE DEF TypeOK
      <4> QED BY <4>1 DEF Record, States
    <3>2. rec' = rec \/ rec' = [rec EXCEPT ![q] = [rec[q] EXCEPT !.state = "armed"]]
      BY <2>3 DEF QueueArm
    <3>3. rec' \in [QueueIds -> Record]
      BY <3>1, <3>2, Zenon
    <3>4. -1 \in Int /\ arming' \in [QueueIds -> Int]
      BY <2>3 DEF QueueArm
    <3> QED BY <2>3, <3>3, <3>4, Zenon DEF QueueArm
  <2>4. ASSUME NEW q \in QueueIds, expireUnarmed(q) PROVE TypeOK'
    <3>1. "expired" \in FinalStates /\ "not_armed" \in Codes
      BY DEF FinalStates, Codes
    <3>2. rec' \in [QueueIds -> Record]
      BY <2>4, <3>1, RewritesKeep, Zenon DEF expireUnarmed, Keeps
    <3> QED BY <2>4, <3>2, Zenon DEF expireUnarmed
  <2>5. ASSUME NEW S \in SUBSET QueueIds, NEW p \in BOOLEAN, QueueCancel(S, p) PROVE TypeOK'
    <3>1. \A q \in QueueIds : rec[q] \in Record /\ CancelRecord(rec[q], p) \in Record
      BY RewritesKeep, Zenon DEF Keeps
    <3>2. rec' \in [QueueIds -> Record]
      BY <2>5, <3>1 DEF QueueCancel
    <3> QED BY <2>5, <3>2, SMTT(30) DEF QueueCancel
  <2> QED BY <2>1, <2>2, <2>3, <2>4, <2>5, Zenon DEF Owner
\* Housekeeping keeps the types.
<1>HousekeepingStepType. ASSUME TypeOK, endUnreadableQueued \/ recoverQueuedAfterRestart \/ endFlatProtectionQueues
                                        \/ expireQueued \/ followQueuedSent
                         PROVE  TypeOK'
  <2> USE <1>HousekeepingStepType
  <2>0. \A q \in QueueIds : /\ EndUnreadable(rec[q]) \in Record /\ EndFlat(rec[q]) \in Record /\ Expire(rec[q]) \in Record
                            /\ Stuck(rec[q]) => RecoverRecord(rec[q]) \in Record
                            /\ Followed(rec[q]) => FollowRecord(rec[q]) \in Record
    <3>1. \A q \in QueueIds : rec[q] \in Record /\ (Stuck(rec[q]) => rec[q].state = "sending")
      BY DEF TypeOK, Stuck
    <3> QED BY <3>1, RewritesKeep, Zenon DEF Keeps
  <2>1. CASE endUnreadableQueued
    <3>1. rec' \in [QueueIds -> Record]
      BY <2>0, <2>1 DEF endUnreadableQueued, TypeOK
    <3> QED BY <2>1, <3>1, <1>HousekeepingType DEF endUnreadableQueued, Step, PCs
  <2>2. CASE recoverQueuedAfterRestart
    <3>1. rec' \in [QueueIds -> Record]
      BY <2>0, <2>2 DEF recoverQueuedAfterRestart, TypeOK
    <3> QED BY <2>2, <3>1, <1>HousekeepingType DEF recoverQueuedAfterRestart, Step, PCs
  <2>3. CASE endFlatProtectionQueues
    <3>1. rec' \in [QueueIds -> Record]
      BY <2>0, <2>3 DEF endFlatProtectionQueues, TypeOK
    <3> QED BY <2>3, <3>1, <1>HousekeepingType, Zenon DEF endFlatProtectionQueues, Step, PCs
  <2>4. CASE expireQueued
    <3>1. rec' \in [QueueIds -> Record]
      BY <2>0, <2>4 DEF expireQueued, TypeOK
    <3> QED BY <2>4, <3>1, <1>HousekeepingType, Zenon DEF expireQueued, Step, PCs
  <2>5. CASE followQueuedSent
    <3>1. rec' \in [QueueIds -> Record]
      BY <2>0, <2>5 DEF followQueuedSent, TypeOK
    <3> QED BY <2>5, <3>1, <1>HousekeepingType, Zenon DEF followQueuedSent, Step, PCs
  <2> QED BY <2>1, <2>2, <2>3, <2>4, <2>5
\* holdQueued and cancelQueued keep the types.
<1>ApplyType. ASSUME TypeOK, NEW q \in QueueIds, NEW v \in Codes \cup {"skip", "go", "hold"}, Apply(q, v)
              PROVE  /\ rec' \in [QueueIds -> Record]
                     /\ \A o \in QueueIds : Keeps(rec[o], rec'[o])
  <2> USE <1>ApplyType
  <2>0. rec \in [QueueIds -> Record]
    BY DEF TypeOK
  <2>1. CASE rec' = rec
    BY <2>0, <2>1, RewritesKeep, Zenon
  <2>2. CASE rec' # rec
    <3> DEFINE s == IF v = "hold" THEN [rec[q] EXCEPT !.state = "held"] ELSE resolve(rec[q], "cancelled", v)
    <3>1. rec' = [rec EXCEPT ![q] = s] /\ waiting(rec[q]) /\ v \in Codes \cup {"hold"}
      BY <2>2 DEF Apply
    <3>2. "cancelled" \in FinalStates /\ Claims(rec[q])
      BY <3>1 DEF FinalStates, Claims, liveIntent
    <3>3. Keeps(rec[q], s)
      BY <2>0, <3>1, <3>2, RewritesKeep, Zenon
    <3> HIDE DEF s
    <3>4. s \in Record
      BY <3>3 DEF Keeps
    <3>5. rec' \in [QueueIds -> Record]
      BY <2>0, <3>1, <3>4
    <3> QED BY <2>0, <3>1, <3>3, <3>5, RewritesKeep, Zenon
  <2> QED BY <2>1, <2>2
\* Every verdict that cancels is a reason code.
<1>VerdictCodes. ASSUME NEW r
                 PROVE  /\ settleQueuedRefusal(r) \subseteq Codes \cup {"skip", "go", "hold"}
                        /\ executeVerdicts(r) \subseteq Codes \cup {"skip", "go", "hold"}
                        /\ {"skip", "position_changed", "send_refused", "record_unreadable"} \subseteq Codes \cup {"skip", "go", "hold"}
  BY <1>VerdictCodes, Zenon DEF settleQueuedRefusal, executeVerdicts, Codes
\* The empty binding is typed.
<1>NoBindType. NoBind \in [qty : 0..MaxPosition, pos : 0..MaxPosition, gen : Nat, session : Nat]
  BY BoundsAssumption DEF BoundsAssumption, NoBind
\* A refusal keeps the types.
<1>RefuseType. ASSUME TypeOK, cur \in QueueIds, NEW V \in SUBSET (Codes \cup {"skip", "go", "hold"}), Refuse(V)
               PROVE  TypeOK' /\ \A o \in QueueIds : Keeps(rec[o], rec'[o])
  <2> USE <1>RefuseType
  <2>1. PICK v \in V : Apply(cur, v)
    BY DEF Refuse
  <2>2. rec' \in [QueueIds -> Record] /\ \A o \in QueueIds : Keeps(rec[o], rec'[o])
    BY <2>1, <1>ApplyType
  <2> QED BY <2>2, <1>NoBindType, Zenon DEF Refuse, Done, TypeOK, PCs, envVars
\* Each step of a send keeps the types.
<1>SendType. ASSUME TypeOK, CursorOK,
                    \/ \E q \in QueueIds : executeQueued(q)
                    \/ sendQueued \/ (\E a \in Attempts : previewOrder(a)) \/ beforePlace \/ RefusalFault
             PROVE  TypeOK'
  <2> USE <1>SendType
  <2> DEFINE Verdicts == Codes \cup {"skip", "go", "hold"}
  <2>0. rec \in [QueueIds -> Record] /\ (pc \in {"locked", "preview", "staging"} => cur \in QueueIds)
    BY Zenon DEF TypeOK, CursorOK, Working
  <2>1. ASSUME NEW q \in QueueIds, executeQueued(q) PROVE TypeOK'
    <3>1. PICK v \in executeVerdicts(rec[q]) : /\ Apply(q, v)
                                               /\ pc' = IF v = "go" THEN "locked" ELSE pc
                                               /\ cur' = IF v = "go" THEN q ELSE cur
      BY <2>1 DEF executeQueued
    <3>2. rec' \in [QueueIds -> Record]
      BY <3>1, <1>VerdictCodes, <1>ApplyType
    <3> QED BY <2>1, <3>1, <3>2, Zenon DEF executeQueued, TypeOK, PCs, envVars
  <2>2. CASE sendQueued
    <3>1. cur \in QueueIds
      BY <2>0, <2>2 DEF sendQueued
    <3>2. CASE Refuse({"skip"})
      BY <3>1, <3>2, <1>RefuseType, <1>VerdictCodes, Zenon
    <3>3. CASE \E m \in BOOLEAN : Refuse(settleQueuedRefusal(rec[cur]) \cup (IF m THEN {"position_changed"} ELSE {}))
      BY <3>1, <3>3, <1>RefuseType, <1>VerdictCodes
    <3>4. ASSUME NEW n \in SendQuantities(rec[cur]), bind' = [bind EXCEPT !.qty = n], pc' = "preview",
                 UNCHANGED <<envVars, rec, arming, journal, order, todo, cur, att, res>>
          PROVE  TypeOK'
      <4>1. rec[cur] \in Record
        BY <2>0, <3>1
      <4>2. rec[cur].max \in 0..MaxPosition /\ rec[cur].kind \in {"rule", "exact", "stop"} /\ rec[cur].line \in Lines
        BY <4>1 DEF Record
      <4>3. n \in 0..MaxPosition
        <5>1. MaxPosition \in Nat /\ position[rec[cur].line] \in 0..MaxPosition
          BY <4>2, BoundsAssumption DEF BoundsAssumption, TypeOK
        <5>2. n \in 1..rec[cur].max \/ n = rec[cur].max \/ n = position[rec[cur].line]
          BY <4>2, <3>4 DEF SendQuantities
        <5> QED BY <4>2, <5>1, <5>2
      <4> QED BY <3>4, <4>3, Zenon DEF TypeOK, envVars, PCs
    <3> QED BY <2>2, <3>2, <3>3, <3>4, Zenon DEF sendQueued
  <2>3. ASSUME NEW a \in Attempts, previewOrder(a) PROVE TypeOK'
    <3>1. cur \in QueueIds
      BY <2>0, <2>3, Zenon DEF previewOrder
    <3>2. CASE Refuse(settleQueuedRefusal(rec[cur])) \/ Refuse({"send_refused"})
      BY <3>1, <3>2, <1>RefuseType, <1>VerdictCodes
    <3>3. CASE /\ att' = a /\ bind' = [bind EXCEPT !.pos = position[rec[cur].line], !.gen = gen] /\ pc' = "staging"
               /\ UNCHANGED <<envVars, rec, arming, journal, order, todo, cur, res>>
      <4>1. rec[cur].line \in Lines
        BY <2>0, <3>1, Zenon DEF Record
      <4> QED BY <3>3, <4>1, Zenon DEF TypeOK, envVars, PCs
    <3> QED BY <2>3, <3>2, <3>3 DEF previewOrder
  <2>4. CASE beforePlace
    <3>1. cur \in QueueIds /\ att \in Attempts
      BY <2>0, <2>4, Zenon DEF beforePlace, CursorOK
    <3>2. CASE Refuse({"skip"}) \/ Refuse({"record_unreadable"})
      BY <3>1, <3>2, <1>RefuseType, <1>VerdictCodes
    <3>3. CASE /\ rec' = [rec EXCEPT ![cur].state = "sending", ![cur].attempt = att,
                                     ![cur].qty = bind.qty, ![cur].at = now, ![cur].own = TRUE]
               /\ order' = [order EXCEPT ![att].by = cur, ![att].qty = bind.qty]
               /\ pc' = "staged"
               /\ UNCHANGED <<envVars, arming, journal, todo, cur, att, bind, res>>
      <4> DEFINE s == [rec[cur] EXCEPT !.state = "sending", !.attempt = att, !.qty = bind.qty, !.at = now, !.own = TRUE]
      <4>1. rec' = [rec EXCEPT ![cur] = s]
        BY <2>0, <3>1, <3>3, Zenon
      <4>2. s \in Record
        <5>1. rec[cur] \in Record /\ bind.qty \in 0..MaxPosition /\ now \in Nat
          BY <2>0, <3>1 DEF TypeOK
        <5> QED BY <3>1, <5>1, Zenon DEF Record, States
      <4> HIDE DEF s
      <4>3. rec' \in [QueueIds -> Record]
        BY <2>0, <4>1, <4>2, Zenon
      <4>4. order' \in [Attempts -> [by : QueueIds \cup {NoQueue}, qty : 0..MaxPosition, wire : Wires, fill : 0..MaxPosition]]
        <5> DEFINE o == [order[att] EXCEPT !.by = cur, !.qty = bind.qty]
        <5>1. /\ bind.qty \in 0..MaxPosition
              /\ order \in [Attempts -> [by : QueueIds \cup {NoQueue}, qty : 0..MaxPosition, wire : Wires, fill : 0..MaxPosition]]
          BY DEF TypeOK
        <5>2. order' = [order EXCEPT ![att] = o]
          BY <3>1, <3>3, <5>1, Zenon
        <5>3. o \in [by : QueueIds \cup {NoQueue}, qty : 0..MaxPosition, wire : Wires, fill : 0..MaxPosition]
          BY <3>1, <5>1, Zenon
        <5> HIDE DEF o
        <5> QED BY <3>1, <5>1, <5>2, <5>3, Zenon
      <4> QED BY <3>1, <3>3, <4>3, <4>4, Zenon DEF TypeOK, envVars, PCs
    <3> QED BY <2>4, <3>2, <3>3, Zenon DEF beforePlace
  <2>5. CASE RefusalFault
    <3>1. cur \in QueueIds
      BY <2>0, <2>5 DEF RefusalFault
    <3>2. \E v \in Verdicts : Apply(cur, v)
      BY <2>5, <1>VerdictCodes DEF RefusalFault
    <3>3. rec' \in [QueueIds -> Record]
      BY <3>1, <3>2, <1>ApplyType
    <3>4. /\ faults' = faults + 1 /\ Done
          /\ UNCHANGED <<now, frozen, gen, account, session, position, arming, journal, order, todo>>
      BY <2>5 DEF RefusalFault, Fault
    <3>5. faults' \in Nat
      BY <3>4 DEF TypeOK
    <3> QED BY <3>3, <3>4, <3>5, <1>NoBindType, Zenon DEF Done, TypeOK, PCs
  <2> QED BY <2>1, <2>2, <2>3, <2>4, <2>5, Zenon
\* Placing, guarding, writing and settling keep the types.
<1>PlaceType. ASSUME TypeOK, CursorOK,
                     \/ placeOrder \/ brokerWireGuard \/ submitBoundConfiguredOrder \/ appendOrderSendOutcome
                     \/ AppendFault \/ settleSend \/ SettleFault
              PROVE  TypeOK'
  <2> USE <1>PlaceType
  <2>1. ASSUME NEW t \in EventTypes, journal' = [journal EXCEPT ![att] = Append(@, LocalEvent(t))], att \in Attempts
        PROVE  journal' \in [Attempts -> Seq(Event)]
    <3>1. LocalEvent(t) \in Event
      BY Zenon DEF LocalEvent, Event, BrokerStatuses
    <3> QED BY <2>1, <3>1 DEF TypeOK
  <2>2. pc \in InSend => att \in Attempts /\ cur \in QueueIds
    BY Zenon DEF CursorOK, Working
  <2>3. CASE placeOrder
    <3>1. journal' \in [Attempts -> Seq(Event)]
      BY <2>1, <2>2, <2>3, Zenon DEF placeOrder, InSend, EventTypes, TypeOK
    <3> QED BY <2>3, <3>1, Zenon DEF placeOrder, TypeOK, Keep, Refusal, PCs
  <2>4. CASE brokerWireGuard
    BY <2>4, Zenon DEF brokerWireGuard, TypeOK, Keep, Refusal, PCs
  <2>5. CASE submitBoundConfiguredOrder
    <3>1. order' \in [Attempts -> [by : QueueIds \cup {NoQueue}, qty : 0..MaxPosition, wire : Wires, fill : 0..MaxPosition]]
      <4>1. order' = order \/ order' = [order EXCEPT ![att].wire = "flying"]
        BY <2>5 DEF submitBoundConfiguredOrder
      <4>2. att \in Attempts
        BY <2>2, <2>5 DEF submitBoundConfiguredOrder, InSend
      <4>3. "flying" \in Wires
        BY DEF Wires
      <4>4. order \in [Attempts -> [by : QueueIds \cup {NoQueue}, qty : 0..MaxPosition, wire : Wires, fill : 0..MaxPosition]]
        BY DEF TypeOK
      <4>5. CASE order' = [order EXCEPT ![att].wire = "flying"]
        BY <4>2, <4>3, <4>4, <4>5, Zenon
      <4> QED BY <4>1, <4>4, <4>5
    <3> QED BY <2>5, <3>1, Zenon DEF submitBoundConfiguredOrder, TypeOK, Keep, Refusal, PCs
  <2>6. CASE appendOrderSendOutcome
    <3>1. journal' \in [Attempts -> Seq(Event)]
      BY <2>1, <2>2, <2>6, Zenon DEF appendOrderSendOutcome, InSend, EventTypes
    <3> QED BY <2>6, <3>1, ZenonT(30) DEF appendOrderSendOutcome, TypeOK, Keep, PCs
  <2>7. CASE AppendFault
    BY <2>7, SMTT(30) DEF AppendFault, Fault, TypeOK, PCs
  <2>8. ASSUME NEW o, pc = "answered", rec' = [rec EXCEPT ![cur] = SettleRecord(@, o)]
        PROVE  rec' \in [QueueIds -> Record]
    <3>1. rec \in [QueueIds -> Record] /\ cur \in QueueIds
      BY <2>2, <2>8 DEF TypeOK, InSend
    <3>2. SettleRecord(rec[cur], o) \in Record
      BY <3>1, RewritesKeep, Zenon DEF Keeps
    <3> QED BY <2>8, <3>1, <3>2
  <2>9. CASE settleSend
    <3>1. rec' \in [QueueIds -> Record]
      BY <2>8, <2>9, Zenon DEF settleSend
    <3>2. /\ pc' = "execute" /\ cur' = NoQueue /\ att' = NoAttempt /\ bind' = NoBind /\ res' = "none"
          /\ UNCHANGED <<now, faults, frozen, gen, account, session, position, arming, journal, order, todo>>
      BY <2>9 DEF settleSend, Done, envVars
    <3> QED BY <3>1, <3>2, <1>NoBindType, Zenon DEF TypeOK, PCs
  <2>10. CASE SettleFault
    <3>1. rec' \in [QueueIds -> Record]
      BY <2>8, <2>10, Zenon DEF SettleFault, TypeOK
    <3>2. faults' \in Nat
      BY <2>10 DEF SettleFault, Fault, TypeOK
    <3>3. /\ pc' = "execute" /\ cur' = NoQueue /\ att' = NoAttempt /\ bind' = NoBind /\ res' = "none"
          /\ UNCHANGED <<now, frozen, gen, account, session, position, arming, journal, order, todo>>
      BY <2>10 DEF SettleFault, Done
    <3> QED BY <3>1, <3>2, <3>3, <1>NoBindType, Zenon DEF TypeOK, PCs
  <2> QED BY <2>3, <2>4, <2>5, <2>6, <2>7, <2>9, <2>10, Zenon
\* The world, restarts and the bookkeeping of a cycle keep the types.
<1>WorldType. ASSUME TypeOK, World \/ Tick \/ Restart \/ HousekeepingFails \/ runQueuedCycle \/ EndCycle \/ ExecuteFault
              PROVE  TypeOK'
  <2> USE <1>WorldType
  <2> DEFINE Orders == [by : QueueIds \cup {NoQueue}, qty : 0..MaxPosition, wire : Wires, fill : 0..MaxPosition]
  <2>1. CASE Tick \/ SetFrozen \/ Reconnect
    <3>0. now \in Nat /\ gen \in Nat /\ session \in Nat
      BY DEF TypeOK
    <3>1. now' \in Nat /\ gen' \in Nat /\ session' \in Nat
      <4>1. /\ now' = now \/ now' = now + 1
            /\ gen' = gen \/ gen' = gen + 1
            /\ session' = session \/ session' = session + 1
        BY <2>1 DEF Tick, SetFrozen, Reconnect
      <4> QED BY <3>0, <4>1
    <3>2. frozen' \in BOOLEAN
      BY <2>1, Zenon DEF Tick, SetFrozen, Reconnect, TypeOK
    <3>3. UNCHANGED <<faults, account, position, rec, arming, journal, order, pc, todo, cur, att, bind, res>>
      BY <2>1, Zenon DEF Tick, SetFrozen, Reconnect, others, execVars
    <3> QED BY <3>1, <3>2, <3>3, Zenon DEF TypeOK
  <2>2. ASSUME NEW l \in Lines, NEW n \in Positions, PortfolioUpdate(l, n) PROVE TypeOK'
    <3>1. n \in 0..MaxPosition
      BY BoundsAssumption DEF BoundsAssumption
    <3> QED BY <2>2, <3>1, Zenon DEF PortfolioUpdate, TypeOK, others, execVars
  <2>3. ASSUME NEW a \in Attempts, order' \in [Attempts -> Orders], UNCHANGED <<envVars, rec, arming, journal, execVars>>
        PROVE  TypeOK'
    BY <2>3, Zenon DEF TypeOK, envVars, execVars
  <2>4. ASSUME NEW a \in Attempts, BrokerReceive(a) \/ BrokerCancel(a) PROVE TypeOK'
    <3>1. PICK w \in Wires : Broker(a, w)
      BY <2>4 DEF BrokerReceive, BrokerCancel, Wires
    <3> QED BY <2>3, <3>1, Zenon DEF Broker, TypeOK
  <2>5. ASSUME NEW a \in Attempts, BrokerFill(a) PROVE TypeOK'
    <3>1. order[a].fill + 1 \in 0..MaxPosition
      <4>1. order[a].fill \in 0..MaxPosition /\ order[a].qty \in 0..MaxPosition /\ order[a].fill < order[a].qty
        BY <2>5 DEF BrokerFill, TypeOK
      <4> QED BY <4>1, BoundsAssumption DEF BoundsAssumption
    <3>2. "ended" \in Wires /\ order[a].wire \in Wires
      BY DEF TypeOK, Wires
    <3>3. order' \in [Attempts -> Orders]
      <4> DEFINE w == IF order[a].fill + 1 = order[a].qty THEN "ended" ELSE order[a].wire
      <4>1. w \in Wires
        BY <3>2
      <4>2. order' = [order EXCEPT ![a].fill = @ + 1, ![a].wire = w]
        BY <2>5 DEF BrokerFill, TypeOK
      <4> HIDE DEF w
      <4> DEFINE o == [order[a] EXCEPT !.fill = @ + 1, !.wire = w]
      <4>3. order \in [Attempts -> Orders]
        BY DEF TypeOK
      <4>4. order' = [order EXCEPT ![a] = o]
        BY <4>2, <4>3, Zenon
      <4>5. o \in Orders
        BY <3>1, <4>1, <4>3, Zenon
      <4> HIDE DEF o
      <4> QED BY <4>3, <4>4, <4>5, Zenon
    <3> QED BY <2>3, <2>5, <3>3, Zenon DEF BrokerFill
  <2>6. ASSUME NEW a \in Attempts, NEW e \in Event, journal' = [journal EXCEPT ![a] = Append(@, e)],
               UNCHANGED <<envVars, rec, arming, order, execVars>>
        PROVE  TypeOK'
    <3>1. journal' \in [Attempts -> Seq(Event)]
      BY <2>6 DEF TypeOK
    <3> QED BY <2>6, <3>1, Zenon DEF TypeOK, envVars, execVars
  <2>7. ASSUME NEW a \in Attempts, Callback(a) PROVE TypeOK'
    <3>1. order[a].fill \in Nat
      BY BoundsAssumption DEF TypeOK, BoundsAssumption
    <3>2. BrokerReport(a) \in Event /\ BrokerEvent("acknowledged", "Submitted", 0) \in Event
      BY <3>1 DEF BrokerReport, BrokerEvent, LocalEvent, Event, EventTypes, BrokerStatuses
    <3> QED BY <2>6, <2>7, <3>2, Zenon DEF Callback
  <2>8. ASSUME NEW a \in Attempts, reconcileOrderJournalWithBroker(a) PROVE TypeOK'
    <3>1. LocalEvent("absent") \in Event
      BY DEF LocalEvent, Event, EventTypes, BrokerStatuses
    <3> QED BY <2>6, <2>8, <3>1, Zenon DEF reconcileOrderJournalWithBroker
  <2>9. CASE Restart
    <3>1. PICK B \in SUBSET QueueIds : rec' = [q \in QueueIds |-> [rec[q] EXCEPT !.bad = q \in B, !.own = FALSE]]
      BY <2>9, Zenon DEF Restart
    <3>2. ASSUME NEW q \in QueueIds PROVE [rec[q] EXCEPT !.bad = q \in B, !.own = FALSE] \in Record
      <4> DEFINE b == q \in B
      <4>1. rec[q] \in Record /\ b \in BOOLEAN
        BY DEF TypeOK
      <4> HIDE DEF b
      <4>2. [rec[q] EXCEPT !.bad = b, !.own = FALSE] \in Record
        BY <4>1, Zenon DEF Record
      <4> QED BY <4>2 DEF b
    <3>3. rec' \in [QueueIds -> Record]
      BY <3>1, <3>2, Zenon
    <3>4. account' \in Accounts \cup {NoAccount}
      BY <2>9, BoundsAssumption, Zenon DEF Restart, BoundsAssumption
    <3>5. /\ faults' = faults + 1 /\ arming' = [q \in QueueIds |-> -1]
          /\ pc' = "unreadable" /\ todo' = {} /\ cur' = NoQueue /\ att' = NoAttempt
          /\ bind' = NoBind /\ res' = "none"
          /\ UNCHANGED <<now, frozen, gen, session, position, journal, order>>
      BY <2>9, Zenon DEF Restart, Fault
    <3>6. arming' \in [QueueIds -> Int]
      BY <3>5
    <3>7. faults' \in Nat
      <4>1. faults \in Nat
        BY Zenon DEF TypeOK
      <4> QED BY <3>5, <4>1
    <3> QED BY <3>3, <3>4, <3>5, <3>6, <3>7, <1>NoBindType, Zenon DEF TypeOK, PCs
  <2>10. CASE HousekeepingFails
    <3>1. faults \in Nat /\ faults' = faults + 1
      BY <2>10, Zenon DEF HousekeepingFails, Fault, TypeOK
    <3>2. faults' \in Nat
      BY <3>1
    <3>3. pc' \in PCs
      BY <2>10, Zenon DEF HousekeepingFails, Step, PCs
    <3> QED BY <2>10, <3>2, <3>3, Zenon DEF HousekeepingFails, TypeOK
  <2>11. CASE runQueuedCycle \/ EndCycle
    BY <2>11, Zenon DEF runQueuedCycle, EndCycle, Step, TypeOK, PCs, envVars
  <2>12. CASE ExecuteFault
    <3>1. todo' \subseteq QueueIds
      BY <2>12 DEF ExecuteFault, TypeOK
    <3>2. faults \in Nat /\ faults' = faults + 1
      BY <2>12, Zenon DEF ExecuteFault, Fault, TypeOK
    <3>3. faults' \in Nat
      BY <3>2
    <3> QED BY <2>12, <3>1, <3>3, Zenon DEF ExecuteFault, TypeOK
  <2> QED BY <2>1, <2>2, <2>4, <2>5, <2>7, <2>8, <2>9, <2>10, <2>11, <2>12, Zenon DEF World
<1> QED BY <1>OwnerType, <1>HousekeepingStepType, <1>SendType, <1>PlaceType, <1>WorldType, Zenon DEF Next,
           Executor, Faults
=============================================================================
