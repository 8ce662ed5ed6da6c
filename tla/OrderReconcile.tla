--------------------------- MODULE OrderReconcile ---------------------------
(***************************************************************************)
(* The sweep that squares the order journal with the broker                *)
(* (internal/daemon/order_reconcile.go), the callbacks the journal is      *)
(* written from (order_lifecycle.go), and the single open-order request    *)
(* both share (pkg/ibkr/open_order_snapshot.go).                           *)
(*                                                                         *)
(* A broker callback is appended to the journal on arrival.  When it       *)
(* cannot be, a failure counter moves and then a latch is set, and every   *)
(* conclusion drawn from the journal fails closed until a sweep clears the *)
(* latch.  A sweep asks the broker for its complete list of open orders,   *)
(* closes the accepted rows that are not on it, and clears the latch when  *)
(* no callback failed since it began.  It commits only if the session, the *)
(* callback generation and the journal head are the ones it read.          *)
(*                                                                         *)
(* The four counters (failures, generation, journal head, connector epoch) *)
(* only grow and are only compared for equality with an earlier reading.   *)
(* Each is kept as one flag per reader: whether it moved since the reading.*)
(***************************************************************************)
EXTENDS Naturals, FiniteSets, Sequences

CONSTANTS
    Orders,     \* the orders this daemon places in one account and mode
    Sweeps,     \* concurrent callers of reconcileOrderJournalWithBroker
    MayJoinLate,\* a sweep may join a request a callback failed under
    MaxFaults   \* failed appends, lost connections, timeouts and errors

ASSUME ReconcileAssumption ==
    /\ MayJoinLate \in BOOLEAN
    /\ MaxFaults \in Nat

VARIABLES
    broker,     \* what each order is at the broker
    view,       \* the journal's row for each order
    aged,       \* accepted rows quiet for orderReconcileGrace
    sending,    \* placements whose send has not been journalled as returned
    line,       \* the current session's messages, in order
    late,       \* callbacks the readers of retired connectors still hold
    request,    \* reqAllOpenOrders as the broker serves it
    flight,     \* Connector.openOrderSnapshot
    poisoned,   \* Connector.openOrderSnapshotPoison names this session
    latch,      \* orderLifecyclePersistenceUncertain
    marking,    \* between failures.Add(1) and latch.Store(true)
    missed,     \* orders whose last fact reached the daemon, not the journal
    sweep,      \* one reconcileOrderJournalWithBroker call each
    faults

vars == <<broker, view, aged, sending, line, late, request, flight, poisoned,
          latch, marking, missed, sweep, faults>>

world == <<broker, view, aged, sending, line, late, request>>

-----------------------------------------------------------------------------
(* State                                                                   *)

Callbacks == {"open", "ended"} \X Orders

Messages == Callbacks \cup {<<"end">>}

Markers == {"reader", "late", "place"}

NoRequest == [state |-> "none", left |-> {}]

NoFlight == [state |-> "none", orders |-> {}, failed |-> FALSE, moved |-> FALSE]

\* failed, drifted, appended and replaced say that the failure counter, the
\* callback generation, the journal head and the connector moved since read.
IdleSweep ==
    [pc |-> "idle", uncertain |-> FALSE, snap |-> {}, closing |-> {},
     failed |-> FALSE, drifted |-> FALSE, appended |-> FALSE,
     replaced |-> FALSE]

Requests ==
    [state : {"none", "asked", "answering"}, left : SUBSET Orders]

Flights ==
    [state : {"none", "open", "ended"}, orders : SUBSET Orders,
     failed : BOOLEAN, moved : BOOLEAN]

SweepCalls ==
    [pc : {"idle", "begun", "sampled", "waiting", "got", "read", "clear",
           "recheck"},
     uncertain : BOOLEAN, snap : SUBSET Orders, closing : SUBSET Orders,
     failed : BOOLEAN, drifted : BOOLEAN, appended : BOOLEAN,
     replaced : BOOLEAN]

TypeOK ==
    /\ broker \in [Orders -> {"unsent", "working", "ended"}]
    /\ view \in [Orders -> {"none", "sent", "accepted", "closed"}]
    /\ aged \subseteq {o \in Orders : view[o] = "accepted"}
    /\ sending \subseteq Orders
    /\ line \in Seq(Messages)
    /\ late \subseteq Callbacks
    /\ request \in Requests
    /\ flight \in Flights
    /\ poisoned \in BOOLEAN
    /\ latch \in BOOLEAN
    /\ marking \subseteq Markers
    /\ missed \subseteq Orders
    /\ sweep \in [Sweeps -> SweepCalls]
    /\ faults \in 0..MaxFaults

Init ==
    /\ broker = [o \in Orders |-> "unsent"]
    /\ view = [o \in Orders |-> "none"]
    /\ aged = {}
    /\ sending = {}
    /\ line = <<>>
    /\ late = {}
    /\ request = NoRequest
    /\ flight = NoFlight
    /\ poisoned = FALSE
    /\ latch = FALSE
    /\ marking = {}
    /\ missed = {}
    /\ sweep = [s \in Sweeps |-> IdleSweep]
    /\ faults = 0

-----------------------------------------------------------------------------
(* What moves under the readers                                            *)

Live(pcs) == {s \in Sweeps : sweep[s].pc \in pcs}

\* The evidence barrier's exclusive side is held.
Committing == Live({"clear", "recheck"}) # {}

Fault ==
    /\ faults < MaxFaults
    /\ faults' = faults + 1

Sampled == {"sampled", "waiting", "got", "read", "clear", "recheck"}

\* Only a sweep that saw the latch set compares the failure counter.
Failed(ss) ==
    [s \in Sweeps |->
        IF ss[s].pc \in Sampled /\ ss[s].uncertain
          THEN [ss[s] EXCEPT !.failed = TRUE] ELSE ss[s]]

\* The generation a sweep holds is that of the connector it captured.
Drifted(ss) ==
    [s \in Sweeps |->
        IF ss[s].pc \in {"got", "read"} /\ ~ss[s].replaced
          THEN [ss[s] EXCEPT !.drifted = TRUE] ELSE ss[s]]

Appended(ss) ==
    [s \in Sweeps |->
        IF ss[s].pc = "read" THEN [ss[s] EXCEPT !.appended = TRUE] ELSE ss[s]]

Replaced(ss) ==
    [s \in Sweeps |->
        IF ss[s].pc \in Sampled THEN [ss[s] EXCEPT !.replaced = TRUE] ELSE ss[s]]

FlightFailed(f) == [f EXCEPT !.failed = f.state # "none"]

\* The generation a flight will return is read when its end arrives.
FlightDrifted(f) == [f EXCEPT !.moved = f.state = "ended"]

\* Mutant: a journal event leaves the row's UpdatedAt alone.
MutTouchedNot(o) == aged

\* A journal event for the row restarts its grace.
Touched(o) == aged \ {o}

-----------------------------------------------------------------------------
(* Orders: placed by the daemon, ended by the broker                       *)

\* The attempt is journalled, then the frame is written under brokerWriteMu.
Place(o) ==
    /\ view[o] = "none"
    /\ sending = {}
    /\ ~Committing
    /\ view' = [view EXCEPT ![o] = "sent"]
    /\ sending' = {o}
    /\ broker' = [broker EXCEPT ![o] = "working"]
    /\ line' = Append(line, <<"open", o>>)
    /\ sweep' = Appended(sweep)
    /\ UNCHANGED <<aged, late, request, flight, poisoned, latch, marking,
                   missed, faults>>

\* appendOrderSendCompleted, outside every barrier.
SendReturned(o) ==
    /\ o \in sending
    /\ sending' = {}
    /\ aged' = Touched(o)
    /\ sweep' = Appended(sweep)
    /\ UNCHANGED <<broker, view, line, late, request, flight, poisoned, latch,
                   marking, missed, faults>>

SendReturnUnwritten(o) ==
    /\ o \in sending
    /\ "place" \notin marking
    /\ Fault
    /\ sending' = {}
    /\ missed' = IF view[o] = "sent" THEN missed \cup {o} ELSE missed
    /\ marking' = marking \cup {"place"}
    /\ sweep' = Failed(sweep)
    /\ flight' = FlightFailed(flight)
    /\ UNCHANGED <<broker, view, aged, line, late, request, poisoned, latch>>

\* The order fills or is cancelled; the broker says so once.
Ends(o) ==
    /\ broker[o] = "working"
    /\ broker' = [broker EXCEPT ![o] = "ended"]
    /\ line' = Append(line, <<"ended", o>>)
    /\ request' = [request EXCEPT !.left = @ \ {o}]
    /\ UNCHANGED <<view, aged, sending, late, flight, poisoned, latch, marking,
                   missed, sweep, faults>>

\* Ten minutes pass without a journal event for the row.
Age(o) ==
    /\ view[o] = "accepted"
    /\ o \notin aged
    /\ aged' = aged \cup {o}
    /\ UNCHANGED <<broker, view, sending, line, late, request, flight,
                   poisoned, latch, marking, missed, sweep, faults>>

-----------------------------------------------------------------------------
(* The broker answers reqAllOpenOrders: one openOrder for each order       *)
(* working when it reads the request, live callbacks in between, and then  *)
(* openOrderEnd.                                                           *)

ReadRequest ==
    /\ request.state = "asked"
    /\ request' = [state |-> "answering",
                   left |-> {o \in Orders : broker[o] = "working"}]
    /\ UNCHANGED <<broker, view, aged, sending, line, late, flight, poisoned,
                   latch, marking, missed, sweep, faults>>

AnswerOrder(o) ==
    /\ o \in request.left
    /\ request' = [request EXCEPT !.left = @ \ {o}]
    /\ line' = Append(line, <<"open", o>>)
    /\ UNCHANGED <<broker, view, aged, sending, late, flight, poisoned, latch,
                   marking, missed, sweep, faults>>

AnswerEnd ==
    /\ request.state = "answering"
    /\ request.left = {}
    /\ request' = NoRequest
    /\ line' = Append(line, <<"end">>)
    /\ UNCHANGED <<broker, view, aged, sending, late, flight, poisoned, latch,
                   marking, missed, sweep, faults>>

-----------------------------------------------------------------------------
(* Callbacks: dispatchOrderLifecycleReceiptUnderBarrier moves the          *)
(* generation and runs boundOrderLifecycleHandler on the barrier's read    *)
(* side; markOrderLifecyclePersistenceUncertain moves the failure counter  *)
(* and sets the latch in a second step.                                    *)

RowAfter(kind, row) ==
    IF kind = "ended" THEN "closed" ELSE IF row = "sent" THEN "accepted" ELSE row

\* A callback the journal misses matters when its row does not say it yet.
MissedAfter(kind, o) ==
    IF RowAfter(kind, view[o]) = view[o] THEN missed ELSE missed \cup {o}

Collected(f, kind, o) ==
    IF kind = "open" /\ f.state = "open"
      THEN [f EXCEPT !.orders = @ \cup {o}] ELSE f

Dispatched ==
    /\ line # <<>>
    /\ Head(line) \in Callbacks
    /\ "reader" \notin marking
    /\ ~Committing
    /\ line' = Tail(line)

Callback ==
    /\ Dispatched
    /\ LET kind == Head(line)[1]
           o == Head(line)[2]
       IN /\ view' = [view EXCEPT ![o] = RowAfter(kind, @)]
          /\ aged' = Touched(o)
          /\ missed' = missed \ {o}
          /\ flight' = FlightDrifted(Collected(flight, kind, o))
    /\ sweep' = Appended(Drifted(sweep))
    /\ UNCHANGED <<broker, sending, late, request, poisoned, latch, marking,
                   faults>>

CallbackUnwritten ==
    /\ Dispatched
    /\ Fault
    /\ LET kind == Head(line)[1]
           o == Head(line)[2]
       IN /\ missed' = MissedAfter(kind, o)
          /\ flight' = FlightFailed(FlightDrifted(Collected(flight, kind, o)))
    /\ marking' = marking \cup {"reader"}
    /\ sweep' = Failed(Drifted(sweep))
    /\ UNCHANGED <<broker, view, aged, sending, late, request, poisoned, latch>>

\* A retired connector's handler stays registered; its callbacks run under
\* that connector's own barrier and are refused, never journalled.
LateCallback ==
    /\ "late" \notin marking
    /\ \E m \in late :
          /\ late' = late \ {m}
          /\ missed' = MissedAfter(m[1], m[2])
    /\ marking' = marking \cup {"late"}
    /\ sweep' = Failed(sweep)
    /\ flight' = FlightFailed(flight)
    /\ UNCHANGED <<broker, view, aged, sending, line, request, poisoned, latch,
                   faults>>

StoreLatch(m) ==
    /\ m \in marking
    /\ latch' = TRUE
    /\ marking' = marking \ {m}
    /\ UNCHANGED <<world, flight, poisoned, missed, sweep, faults>>

-----------------------------------------------------------------------------
(* The one open-order request of a session                                 *)

\* finishOpenOrderSnapshotFrom: an end without a flight is ignored.
SnapshotEnd ==
    /\ line # <<>>
    /\ Head(line) = <<"end">>
    /\ "reader" \notin marking
    /\ line' = Tail(line)
    /\ flight' = IF flight.state = "open"
                   THEN [flight EXCEPT !.state = "ended"] ELSE flight
    /\ UNCHANGED <<broker, view, aged, sending, late, request, poisoned, latch,
                   marking, missed, sweep, faults>>

Waiters == {s \in Live({"waiting"}) : ~sweep[s].replaced}

\* completeOpenOrderSnapshotFlight with a complete result.
FlightDone ==
    /\ flight.state = "ended"
    /\ flight' = NoFlight
    /\ sweep' = [s \in Sweeps |->
          IF s \in Waiters
            THEN [sweep[s] EXCEPT !.pc = "got", !.snap = flight.orders,
                                  !.drifted = flight.moved]
            ELSE sweep[s]]
    /\ UNCHANGED <<world, poisoned, latch, marking, missed, faults>>

\* Mutant: a request that timed out leaves the session readable.
MutTimeoutUnpoisoned ==
    /\ flight.state = "open"
    /\ Fault
    /\ flight' = NoFlight
    /\ sweep' = [s \in Sweeps |-> IF s \in Waiters THEN IdleSweep ELSE sweep[s]]
    /\ UNCHANGED <<world, poisoned, latch, marking, missed>>

\* No end before the protocol deadline, or a send that may have been written.
FlightPoisons ==
    /\ flight.state = "open"
    /\ Fault
    /\ flight' = NoFlight
    /\ poisoned' = TRUE
    /\ sweep' = [s \in Sweeps |-> IF s \in Waiters THEN IdleSweep ELSE sweep[s]]
    /\ UNCHANGED <<world, latch, marking, missed>>

\* The frame was not written, or the list overlapped a modify preview.
FlightFails ==
    /\ \/ /\ flight.state = "open" /\ request.state = "asked"
          /\ request' = NoRequest
       \/ /\ flight.state = "ended"
          /\ UNCHANGED request
    /\ Fault
    /\ flight' = NoFlight
    /\ sweep' = [s \in Sweeps |-> IF s \in Waiters THEN IdleSweep ELSE sweep[s]]
    /\ UNCHANGED <<broker, view, aged, sending, line, late, poisoned, latch,
                   marking, missed>>

StartFlight ==
    /\ flight' = [NoFlight EXCEPT !.state = "open"]
    /\ request' = [NoRequest EXCEPT !.state = "asked"]

\* Protection, proposals and previews read open orders through the same flight.
OtherRead ==
    /\ flight.state = "none"
    /\ ~poisoned
    /\ StartFlight
    /\ UNCHANGED <<broker, view, aged, sending, line, late, poisoned, latch,
                   marking, missed, sweep, faults>>

\* The connection is replaced by a new Connector: what the old one had read
\* is still dispatched there (an end finishes no flight of the new one), the
\* rest is never replayed.
Replace ==
    /\ ~Committing
    /\ "reader" \notin marking
    /\ \E n \in 0..Len(line) :
          late' = late \cup {m \in Callbacks : \E i \in 1..n : line[i] = m}
    /\ line' = <<>>
    /\ request' = NoRequest
    /\ flight' = NoFlight
    /\ poisoned' = FALSE
    /\ sweep' = Replaced(sweep)
    /\ UNCHANGED <<broker, view, aged, sending, latch, marking, missed>>

Lose ==
    /\ Fault
    /\ Replace

\* redialPoisonedOpenOrderSnapshot, never under brokerWriteMu.
Redial ==
    /\ poisoned
    /\ sending = {}
    /\ Replace
    /\ UNCHANGED faults

-----------------------------------------------------------------------------
(* reconcileOrderJournalWithBroker                                         *)

Closable(o, uncertain) ==
    /\ view[o] = "accepted"
    /\ uncertain \/ o \in aged

\* Mutant: the latch alone does not start a sweep.
MutBeginNeedsCandidate(s) ==
    /\ sweep[s].pc = "idle"
    /\ \E o \in Orders : Closable(o, FALSE)
    /\ sweep' = [sweep EXCEPT ![s].pc = "begun", ![s].uncertain = latch]
    /\ UNCHANGED <<world, flight, poisoned, latch, marking, missed, faults>>

\* Mutant: only the latch starts a sweep.
MutBeginNeedsLatch(s) ==
    /\ sweep[s].pc = "idle"
    /\ latch
    /\ sweep' = [sweep EXCEPT ![s].pc = "begun", ![s].uncertain = latch]
    /\ UNCHANGED <<world, flight, poisoned, latch, marking, missed, faults>>

Begin(s) ==
    /\ sweep[s].pc = "idle"
    /\ latch \/ \E o \in Orders : Closable(o, FALSE)
    /\ sweep' = [sweep EXCEPT ![s].pc = "begun", ![s].uncertain = latch]
    /\ UNCHANGED <<world, flight, poisoned, latch, marking, missed, faults>>

\* The connector, its epoch and the failure counter are read.
Sample(s) ==
    /\ sweep[s].pc = "begun"
    /\ sweep' = [sweep EXCEPT ![s].pc = "sampled"]
    /\ UNCHANGED <<world, flight, poisoned, latch, marking, missed, faults>>

Refuse(s) ==
    /\ sweep' = [sweep EXCEPT ![s] = IdleSweep]
    /\ UNCHANGED <<world, flight, poisoned, latch, marking, missed>>

\* SnapshotOpenOrders joins the flight under way or starts one.
Join(s) ==
    /\ sweep[s].pc = "sampled"
    /\ ~sweep[s].replaced
    /\ ~poisoned
    /\ \/ /\ flight.state = "none"
          /\ StartFlight
       \/ /\ flight.state # "none"
          /\ MayJoinLate \/ ~flight.failed
          /\ UNCHANGED <<flight, request>>
    /\ sweep' = [sweep EXCEPT ![s].pc = "waiting"]
    /\ UNCHANGED <<broker, view, aged, sending, line, late, poisoned, latch,
                   marking, missed, faults>>

\* No connection, a poisoned session, or a flight that went with its session.
Unavailable(s) ==
    /\ \/ sweep[s].pc = "sampled" /\ (sweep[s].replaced \/ poisoned)
       \/ sweep[s].pc = "waiting" /\ sweep[s].replaced
    /\ Refuse(s)
    /\ UNCHANGED faults

\* The caller's deadline, a journal that cannot be read or keeps changing,
\* an append that fails.
GiveUp(s) ==
    /\ sweep[s].pc \in {"waiting", "got", "read"}
    /\ Fault
    /\ Refuse(s)

\* Mutant: the failure counter is sampled after the snapshot.
MutSampleAfterSnapshot(s) ==
    /\ sweep[s].pc = "got"
    /\ sweep' = [sweep EXCEPT
          ![s].pc = "read", ![s].snap = {}, ![s].failed = FALSE,
          ![s].closing = {o \in Orders \ sweep[s].snap :
                              Closable(o, sweep[s].uncertain)}]
    /\ UNCHANGED <<world, flight, poisoned, latch, marking, missed, faults>>

\* loadOrderViewsAtStableHead, and the rows to close.
Reload(s) ==
    /\ sweep[s].pc = "got"
    /\ sweep' = [sweep EXCEPT
          ![s].pc = "read", ![s].snap = {},
          ![s].closing = {o \in Orders \ sweep[s].snap :
                              Closable(o, sweep[s].uncertain)}]
    /\ UNCHANGED <<world, flight, poisoned, latch, marking, missed, faults>>

\* Session and generation under the barrier, then the compare-and-append.
Stable(w) == ~w.replaced /\ ~w.drifted /\ ~w.appended

Drift(s) ==
    /\ sweep[s].pc = "read"
    /\ ~Stable(sweep[s])
    /\ Refuse(s)
    /\ UNCHANGED faults

Commit(s) ==
    /\ sweep[s].pc = "read"
    /\ Stable(sweep[s])
    /\ ~Committing
    /\ "reader" \notin marking
    /\ LET w == sweep[s]
           others == IF w.closing = {} THEN sweep ELSE Appended(sweep)
       IN /\ view' = [o \in Orders |->
                         IF o \in w.closing THEN "closed" ELSE view[o]]
          /\ aged' = aged \ w.closing
          /\ missed' = missed \ w.closing
          /\ sweep' = [others EXCEPT ![s] =
                IF w.uncertain /\ ~w.failed
                  THEN [w EXCEPT !.pc = "clear", !.closing = {}]
                  ELSE IdleSweep]
    /\ UNCHANGED <<broker, sending, line, late, request, flight, poisoned,
                   latch, marking, faults>>

ClearLatch(s) ==
    /\ sweep[s].pc = "clear"
    /\ latch' = FALSE
    /\ sweep' = [sweep EXCEPT ![s].pc = "recheck"]
    /\ UNCHANGED <<world, flight, poisoned, marking, missed, faults>>

Recheck(s) ==
    /\ sweep[s].pc = "recheck"
    /\ latch' = (latch \/ sweep[s].failed)
    /\ sweep' = [sweep EXCEPT ![s] = IdleSweep]
    /\ UNCHANGED <<world, flight, poisoned, marking, missed, faults>>

-----------------------------------------------------------------------------

OrderStep ==
    \E o \in Orders :
        \/ Place(o) \/ SendReturned(o) \/ SendReturnUnwritten(o)
        \/ Ends(o) \/ Age(o) \/ AnswerOrder(o)

LineStep ==
    \/ ReadRequest \/ AnswerEnd \/ Callback \/ CallbackUnwritten
    \/ LateCallback \/ \E m \in Markers : StoreLatch(m)

FlightStep ==
    \/ SnapshotEnd \/ FlightDone \/ FlightPoisons \/ FlightFails \/ OtherRead
    \/ Lose \/ Redial

SweepStep(s) ==
    \/ Begin(s) \/ Sample(s) \/ Join(s) \/ Unavailable(s) \/ GiveUp(s)
    \/ Reload(s) \/ Drift(s) \/ Commit(s) \/ ClearLatch(s) \/ Recheck(s)

Next == OrderStep \/ LineStep \/ FlightStep \/ \E s \in Sweeps : SweepStep(s)

Spec == Init /\ [][Next]_vars

\* The broker answers, readers and markers run on, the clock moves.  A sweep
\* reloads and commits in milliseconds after its snapshot while other requests
\* are minutes apart, so it is not overtaken for ever.
FairSpec ==
    /\ Spec
    /\ \A o \in Orders : /\ WF_vars(SendReturned(o))
                         /\ WF_vars(Age(o))
                         /\ WF_vars(AnswerOrder(o))
    /\ WF_vars(ReadRequest) /\ WF_vars(AnswerEnd)
    /\ WF_vars(Callback) /\ WF_vars(LateCallback)
    /\ \A m \in Markers : WF_vars(StoreLatch(m))
    /\ WF_vars(SnapshotEnd) /\ WF_vars(FlightDone) /\ WF_vars(Redial)
    /\ \A s \in Sweeps :
          /\ WF_vars(Begin(s)) /\ WF_vars(Sample(s)) /\ SF_vars(Join(s))
          /\ WF_vars(Unavailable(s)) /\ WF_vars(Drift(s))
          /\ WF_vars(Reload(s)) /\ SF_vars(Reload(s) /\ Stable(sweep[s]))
          /\ SF_vars(Commit(s))
          /\ WF_vars(ClearLatch(s)) /\ WF_vars(Recheck(s))

-----------------------------------------------------------------------------
(* Properties                                                              *)

\* A row is never closed, by a callback or by a sweep, while its order still
\* works at the broker: the snapshot was complete, of this session, and
\* nothing arrived between its end and the append.
AbsentIsGone ==
    \A o \in Orders : view[o] = "closed" => broker[o] = "ended"

\* A row that was never accepted and whose order is over shows as an
\* unacknowledged send by itself; every other lost fact needs the latch.
Unsaid == {o \in missed : ~(view[o] = "sent" /\ broker[o] = "ended")}

\* While a fact that arrived is missing from the journal the latch is set,
\* except in the instants in which it is being set or re-checked: the clear in
\* order_reconcile.go never outruns a failure.
LatchCoversLoss ==
    Unsaid # {} /\ marking = {} /\ Live({"recheck"}) = {} => latch

\* Once callbacks stop failing the latch is cleared.
LatchClears == latch ~> ~latch

\* A row whose last callback was lost with its connection is closed in the
\* end, whether or not the latch was ever set.
StaleRowCloses ==
    \A o \in Orders :
        (view[o] = "accepted" /\ broker[o] = "ended") ~> (view[o] = "closed")

=============================================================================
