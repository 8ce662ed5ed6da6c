------------------------ MODULE OrderReconcileProofs ------------------------
(***************************************************************************)
(* For any orders and any number of concurrent sweeps: a row is closed     *)
(* only when its order is over, and the latch covers every fact the        *)
(* journal misses.                                                         *)
(***************************************************************************)
EXTENDS OrderReconcile, TLAPS

-----------------------------------------------------------------------------
(* Types                                                                   *)

\* The flags the counters become keep the shape of a sweep.
LEMMA FlagTypes ==
    ASSUME NEW ss \in [Sweeps -> SweepCalls]
    PROVE  /\ Failed(ss) \in [Sweeps -> SweepCalls]
           /\ Drifted(ss) \in [Sweeps -> SweepCalls]
           /\ Appended(ss) \in [Sweeps -> SweepCalls]
           /\ Replaced(ss) \in [Sweeps -> SweepCalls]
<1>1. \A s \in Sweeps : /\ [ss[s] EXCEPT !.failed = TRUE] \in SweepCalls
                        /\ [ss[s] EXCEPT !.drifted = TRUE] \in SweepCalls
                        /\ [ss[s] EXCEPT !.appended = TRUE] \in SweepCalls
                        /\ [ss[s] EXCEPT !.replaced = TRUE] \in SweepCalls
  BY Zenon DEF SweepCalls
<1> QED BY <1>1, Zenon DEF Failed, Drifted, Appended, Replaced

\* What callbacks do to the flight keeps its shape.
LEMMA FlightTypes ==
    ASSUME NEW f \in Flights
    PROVE  /\ FlightFailed(f) \in Flights
           /\ FlightDrifted(f) \in Flights
           /\ \A kind : \A o \in Orders : Collected(f, kind, o) \in Flights
BY Zenon DEF Flights, FlightFailed, FlightDrifted, Collected

\* The idle records have their types.
LEMMA IdleTypes ==
    IdleSweep \in SweepCalls /\ NoFlight \in Flights /\ NoRequest \in Requests
BY DEF IdleSweep, SweepCalls, NoFlight, Flights, NoRequest, Requests

\* The head of the line is a callback about one order.
LEMMA HeadCallback ==
    ASSUME TypeOK, Dispatched
    PROVE  /\ Head(line)[1] \in {"open", "ended"}
           /\ Head(line)[2] \in Orders
           /\ Head(line) = <<Head(line)[1], Head(line)[2]>>
           /\ Len(line) > 0
           /\ Head(line) = line[1]
           /\ line' \in Seq(Messages)
           /\ Len(line') = Len(line) - 1
           /\ \A i \in 1..Len(line') : line'[i] = line[i + 1]
<1>1. Head(line) \in {"open", "ended"} \X Orders /\ line # <<>> /\ line \in Seq(Messages)
  BY DEF Dispatched, Callbacks, TypeOK
<1>2. line' = Tail(line)
  BY DEF Dispatched
<1>3. /\ Len(line) > 0
      /\ Head(line) = line[1]
      /\ Tail(line) \in Seq(Messages)
      /\ Len(Tail(line)) = Len(line) - 1
      /\ \A i \in 1..Len(Tail(line)) : Tail(line)[i] = line[i + 1]
  BY <1>1
<1> QED BY <1>1, <1>2, <1>3

\* Every step keeps the types.
LEMMA TypeStep ==
    ASSUME TypeOK, [Next]_vars
    PROVE  TypeOK'
<1> USE ReconcileAssumption DEF ReconcileAssumption
<1>1. CASE UNCHANGED vars
  BY <1>1 DEF vars, TypeOK
<1>2. ASSUME NEW o \in Orders, Place(o)
      PROVE  TypeOK'
  <2>1. Appended(sweep) \in [Sweeps -> SweepCalls]
    BY FlagTypes DEF TypeOK
  <2>2. <<"open", o>> \in Messages
    BY DEF Messages, Callbacks
  <2>3. Append(line, <<"open", o>>) \in Seq(Messages)
    BY <2>2 DEF TypeOK
  <2> QED BY <1>2, <2>1, <2>3 DEF Place, TypeOK
<1>3. ASSUME NEW o \in Orders, SendReturned(o)
      PROVE  TypeOK'
  BY <1>3, FlagTypes DEF SendReturned, TypeOK, Touched
<1>4. ASSUME NEW o \in Orders, SendReturnUnwritten(o)
      PROVE  TypeOK'
  BY <1>4, FlagTypes, FlightTypes
     DEF SendReturnUnwritten, Fault, TypeOK, Markers
<1>5. ASSUME NEW o \in Orders, Ends(o)
      PROVE  TypeOK'
  <2>1. Append(line, <<"ended", o>>) \in Seq(Messages)
    BY DEF TypeOK, Messages, Callbacks
  <2>2. [request EXCEPT !.left = @ \ {o}] \in Requests
    BY DEF TypeOK, Requests
  <2> QED BY <1>5, <2>1, <2>2 DEF Ends, TypeOK
<1>6. ASSUME NEW o \in Orders, Age(o)
      PROVE  TypeOK'
  BY <1>6 DEF Age, TypeOK
<1>7. ASSUME NEW o \in Orders, AnswerOrder(o)
      PROVE  TypeOK'
  <2>1. Append(line, <<"open", o>>) \in Seq(Messages)
    BY DEF TypeOK, Messages, Callbacks
  <2>2. [request EXCEPT !.left = @ \ {o}] \in Requests
    BY DEF TypeOK, Requests
  <2> QED BY <1>7, <2>1, <2>2 DEF AnswerOrder, TypeOK
<1>8. CASE ReadRequest
  BY <1>8 DEF ReadRequest, TypeOK, Requests
<1>9. CASE AnswerEnd
  <2>1. Append(line, <<"end">>) \in Seq(Messages)
    BY DEF TypeOK, Messages
  <2> QED BY <1>9, <2>1, IdleTypes DEF AnswerEnd, TypeOK
<1>10. CASE Callback
  <2>1. line' \in Seq(Messages) /\ Head(line)[2] \in Orders
        /\ Head(line)[1] \in {"open", "ended"}
    BY <1>10, HeadCallback DEF Callback
  <2>2. Appended(Drifted(sweep)) \in [Sweeps -> SweepCalls]
    BY FlagTypes DEF TypeOK
  <2>3. FlightDrifted(Collected(flight, Head(line)[1], Head(line)[2])) \in Flights
    BY <2>1, FlightTypes DEF TypeOK
  <2>4. view' \in [Orders -> {"none", "sent", "accepted", "closed"}]
    BY <1>10, <2>1 DEF Callback, TypeOK, RowAfter
  <2>5. aged' \subseteq {o \in Orders : view'[o] = "accepted"}
    BY <1>10, <2>1 DEF Callback, TypeOK, Touched
  <2> QED BY <1>10, <2>1, <2>2, <2>3, <2>4, <2>5 DEF Callback, TypeOK
<1>11. CASE CallbackUnwritten
  <2>1. line' \in Seq(Messages) /\ Head(line)[2] \in Orders
    BY <1>11, HeadCallback DEF CallbackUnwritten
  <2>2. Failed(Drifted(sweep)) \in [Sweeps -> SweepCalls]
    BY FlagTypes DEF TypeOK
  <2>3. FlightFailed(FlightDrifted(Collected(flight, Head(line)[1], Head(line)[2])))
          \in Flights
    BY <2>1, FlightTypes DEF TypeOK
  <2>4. missed' \subseteq Orders
    BY <1>11, <2>1 DEF CallbackUnwritten, MissedAfter, TypeOK
  <2> QED BY <1>11, <2>1, <2>2, <2>3, <2>4
          DEF CallbackUnwritten, Fault, TypeOK, Markers
<1>12. CASE LateCallback
  <2>1. missed' \subseteq Orders /\ late' \subseteq Callbacks
    BY <1>12 DEF LateCallback, MissedAfter, TypeOK, Callbacks
  <2> QED BY <1>12, <2>1, FlagTypes, FlightTypes DEF LateCallback, TypeOK, Markers
<1>13. ASSUME NEW m \in Markers, StoreLatch(m)
       PROVE  TypeOK'
  BY <1>13 DEF StoreLatch, world, TypeOK
<1>14. CASE SnapshotEnd
  <2>1. line' \in Seq(Messages)
    BY <1>14 DEF SnapshotEnd, TypeOK
  <2>2. flight' \in Flights
    BY <1>14, Zenon DEF SnapshotEnd, TypeOK, Flights
  <2> QED BY <1>14, <2>1, <2>2 DEF SnapshotEnd, TypeOK
<1>15. CASE FlightDone
  <2>0. flight.orders \in SUBSET Orders /\ flight.moved \in BOOLEAN
    BY DEF TypeOK, Flights
  <2>1. ASSUME NEW w \in SweepCalls, NEW os \in SUBSET Orders, NEW b \in BOOLEAN
        PROVE  [w EXCEPT !.pc = "got", !.snap = os, !.drifted = b] \in SweepCalls
    BY Zenon DEF SweepCalls
  <2>2. sweep' \in [Sweeps -> SweepCalls]
    BY <1>15, <2>0, <2>1, Zenon DEF FlightDone, TypeOK
  <2> QED BY <1>15, <2>2, IdleTypes, Zenon DEF FlightDone, world, TypeOK
<1>16. CASE FlightPoisons
  BY <1>16, IdleTypes DEF FlightPoisons, Fault, world, TypeOK
<1>20. CASE FlightFails
  <2>1. request' \in Requests /\ flight' \in Flights
    BY <1>20 DEF FlightFails, NoRequest, NoFlight, Requests, Flights, TypeOK
  <2> QED BY <1>20, <2>1, IdleTypes DEF FlightFails, Fault, TypeOK
<1>17. CASE OtherRead
  BY <1>17, Zenon DEF OtherRead, StartFlight, NoFlight, NoRequest, Flights, Requests,
               TypeOK
<1>18. CASE Lose \/ Redial
  <2>1. Replace /\ faults' \in 0..MaxFaults
    BY <1>18 DEF Lose, Redial, Fault, TypeOK
  <2>2. late' \subseteq Callbacks
    BY <2>1 DEF Replace, TypeOK
  <2>3. line' \in Seq(Messages)
    BY <2>1 DEF Replace
  <2> QED BY <2>1, <2>2, <2>3, IdleTypes, FlagTypes, Zenon DEF Replace, TypeOK
<1>19. ASSUME NEW s \in Sweeps, SweepStep(s)
       PROVE  TypeOK'
  <2>1. CASE Begin(s) \/ Sample(s) \/ Reload(s)
    <3>1. ASSUME NEW w \in SweepCalls, NEW os \in SUBSET Orders,
                 NEW b \in BOOLEAN
          PROVE  /\ [w EXCEPT !.pc = "begun", !.uncertain = b] \in SweepCalls
                 /\ [w EXCEPT !.pc = "sampled"] \in SweepCalls
                 /\ [w EXCEPT !.pc = "read", !.snap = {}, !.closing = os]
                      \in SweepCalls
      BY Zenon DEF SweepCalls
    <3>2. /\ sweep[s] \in SweepCalls /\ latch \in BOOLEAN
          /\ sweep \in [Sweeps -> SweepCalls]
      BY DEF TypeOK
    <3>3. CASE Begin(s)
      BY <3>1, <3>2, <3>3, Zenon DEF Begin, world, TypeOK
    <3>4. CASE Sample(s)
      BY <3>1, <3>2, <3>4, Zenon DEF Sample, world, TypeOK
    <3>5. CASE Reload(s)
      <4> DEFINE os == {o \in Orders \ sweep[s].snap :
                            Closable(o, sweep[s].uncertain)}
      <4>1. os \in SUBSET Orders
        OBVIOUS
      <4>2. sweep' = [sweep EXCEPT ![s] = [sweep[s] EXCEPT
                         !.pc = "read", !.snap = {}, !.closing = os]]
        BY <3>5, <3>2, Zenon DEF Reload
      <4>3. [sweep[s] EXCEPT !.pc = "read", !.snap = {}, !.closing = os]
              \in SweepCalls
        BY <4>1, <3>1, <3>2, Zenon
      <4> HIDE DEF os
      <4>4. sweep' \in [Sweeps -> SweepCalls]
        BY <4>2, <4>3, <3>2
      <4> QED BY <3>5, <4>4 DEF Reload, world, TypeOK
    <3> QED BY <2>1, <3>3, <3>4, <3>5
  <2>2. CASE Join(s)
    <3>1. sweep' \in [Sweeps -> SweepCalls]
      BY <2>2 DEF Join, TypeOK, SweepCalls
    <3>2. flight' \in Flights /\ request' \in Requests
      BY <2>2, Zenon DEF Join, StartFlight, NoFlight, NoRequest, Flights, Requests,
                  TypeOK
    <3> QED BY <2>2, <3>1, <3>2 DEF Join, TypeOK
  <2>3. CASE Unavailable(s) \/ GiveUp(s) \/ Drift(s)
    <3>1. Refuse(s) /\ faults' \in 0..MaxFaults
      BY <2>3 DEF Unavailable, GiveUp, Drift, Fault, TypeOK
    <3> QED BY <3>1, IdleTypes DEF Refuse, world, TypeOK
  <2>4. CASE Commit(s)
    <3>1. Appended(sweep) \in [Sweeps -> SweepCalls]
      BY FlagTypes DEF TypeOK
    <3>2. [sweep[s] EXCEPT !.pc = "clear", !.closing = {}] \in SweepCalls
      BY ZenonT(30) DEF TypeOK, SweepCalls
    <3>3. sweep' \in [Sweeps -> SweepCalls]
      BY <2>4, <3>1, <3>2, IdleTypes DEF Commit, TypeOK
    <3>4. /\ view' \in [Orders -> {"none", "sent", "accepted", "closed"}]
          /\ aged' \subseteq {o \in Orders : view'[o] = "accepted"}
          /\ missed' \subseteq Orders
      BY <2>4 DEF Commit, TypeOK
    <3> QED BY <2>4, <3>3, <3>4 DEF Commit, TypeOK
  <2>5. CASE ClearLatch(s) \/ Recheck(s)
    <3>1. sweep' \in [Sweeps -> SweepCalls]
      <4>1. sweep[s] \in SweepCalls /\ sweep \in [Sweeps -> SweepCalls]
        BY DEF TypeOK
      <4>2. [sweep[s] EXCEPT !.pc = "recheck"] \in SweepCalls
        BY <4>1 DEF SweepCalls
      <4>3. CASE ClearLatch(s)
        BY <4>1, <4>2, <4>3 DEF ClearLatch
      <4>4. CASE Recheck(s)
        BY <4>1, <4>4, IdleTypes DEF Recheck
      <4> QED BY <2>5, <4>3, <4>4
    <3>2. latch' \in BOOLEAN
      BY <2>5, Zenon DEF ClearLatch, Recheck, TypeOK, SweepCalls
    <3> QED BY <2>5, <3>1, <3>2 DEF ClearLatch, Recheck, world, TypeOK
  <2> QED BY <1>19, <2>1, <2>2, <2>3, <2>4, <2>5 DEF SweepStep
<1> QED
  BY <1>1, <1>2, <1>3, <1>4, <1>5, <1>6, <1>7, <1>8, <1>9, <1>10, <1>11, <1>12,
     <1>13, <1>14, <1>15, <1>16, <1>17, <1>18, <1>19, <1>20
     DEF Next, OrderStep, LineStep, FlightStep

-----------------------------------------------------------------------------
(* The inductive invariant                                                 *)

\* An openOrder for o stands on the line before place k.
OpenBefore(o, k) == \E i \in 1..Len(line) : i < k /\ line[i] = <<"open", o>>

NoEnd == \A k \in 1..Len(line) : line[k] # <<"end">>

\* Whoever is spoken of was placed, an ended order has ended, and only an open
\* row can miss a fact.
Spoken ==
    /\ \A o \in Orders : view[o] = "none" <=> broker[o] = "unsent"
    /\ \A i \in 1..Len(line) : \A o \in Orders :
          /\ line[i] = <<"open", o>> => view[o] # "none"
          /\ line[i] = <<"ended", o>> => broker[o] = "ended"
    /\ \A o \in Orders :
          <<"open", o>> \in late \/ <<"ended", o>> \in late => view[o] # "none"
    /\ \A o \in request.left : broker[o] = "working"
    /\ \A o \in missed : view[o] \in {"sent", "accepted"}

\* One request at a time: a session whose request ended without its answer is
\* poisoned, so an end on the line belongs to the open flight.
OneRequest ==
    /\ flight.state # "none" => ~poisoned
    /\ ~poisoned /\ flight.state # "open" => request.state = "none" /\ NoEnd
    /\ flight.state = "open" /\ request.state # "none" => NoEnd
    /\ flight.state = "open" =>
          \A i, j \in 1..Len(line) :
              line[i] = <<"end">> /\ line[j] = <<"end">> => i = j

\* A working order is on its way into the flight, or its row cannot be
\* accepted before the flight's end is read.
Answered ==
    flight.state = "open" =>
      /\ request.state = "answering" =>
            \A o \in Orders : broker[o] = "working" =>
               o \in request.left \/ o \in flight.orders
                 \/ OpenBefore(o, Len(line) + 1)
      /\ \A k \in 1..Len(line) : line[k] = <<"end">> =>
            \A o \in Orders : broker[o] = "working" =>
               o \in flight.orders \/ OpenBefore(o, k) \/ view[o] # "accepted"

\* What a complete list leaves out has ended.
Complete ==
    /\ flight.state = "ended" /\ ~flight.moved =>
          \A o \in Orders \ flight.orders :
              view[o] = "accepted" => broker[o] = "ended"
    /\ \A s \in Sweeps :
          /\ sweep[s].pc = "got" /\ ~sweep[s].replaced /\ ~sweep[s].drifted =>
                \A o \in Orders \ sweep[s].snap :
                    view[o] = "accepted" => broker[o] = "ended"
          /\ sweep[s].pc = "read" /\ Stable(sweep[s]) =>
                \A o \in sweep[s].closing : broker[o] = "ended"

\* A fact missed before an unfailed flight is told again by it, or is about an
\* order that is over.
Retold ==
    ~flight.failed =>
      /\ flight.state # "none" => missed \cap flight.orders = {}
      /\ flight.state = "open" /\ request.state = "answering" =>
            \A o \in missed : broker[o] = "working" =>
                o \in request.left \/ OpenBefore(o, Len(line) + 1)
      /\ flight.state = "open" =>
            \A k \in 1..Len(line) : line[k] = <<"end">> =>
               \A o \in missed : broker[o] = "working" => OpenBefore(o, k)
      /\ flight.state = "ended" /\ ~flight.moved =>
            \A o \in missed : broker[o] = "ended"

Unfailed(w) == ~w.replaced /\ w.uncertain /\ ~w.failed

\* What an uncertain sweep no failure reached may still have to close, and
\* why nothing is missed when it clears the latch.
Covered ==
    \A s \in Sweeps :
      /\ sweep[s].pc = "waiting" /\ Unfailed(sweep[s]) =>
            flight.state # "none" /\ ~flight.failed
      /\ sweep[s].pc = "got" /\ Unfailed(sweep[s]) /\ ~sweep[s].drifted =>
            \A o \in missed : broker[o] = "ended" /\ o \notin sweep[s].snap
      /\ sweep[s].pc = "read" /\ Unfailed(sweep[s]) /\ Stable(sweep[s]) =>
            \A o \in missed : /\ broker[o] = "ended"
                              /\ view[o] = "accepted" => o \in sweep[s].closing
      /\ sweep[s].pc \in {"clear", "recheck"} =>
            sweep[s].uncertain /\ (~sweep[s].failed => Unsaid = {})

\* The latch, a mark under way or a clear about to be taken back.
Latched ==
    Unsaid # {} =>
      \/ latch
      \/ marking # {}
      \/ \E s \in Sweeps : sweep[s].pc = "recheck" /\ sweep[s].failed

-----------------------------------------------------------------------------
(* Steps and their parts                                                   *)

Started ==
    /\ ~poisoned
    /\ flight.state = "none"
    /\ StartFlight
    /\ UNCHANGED <<broker, view, line, late, poisoned, missed>>

Still == UNCHANGED <<broker, view, line, late, request, flight, poisoned, missed>>

\* The steps that reach an order, a message or the flight.
LEMMA StepCases ==
    ASSUME [Next]_vars
    PROVE  \/ Still
           \/ \E o \in Orders : \/ Place(o) \/ SendReturnUnwritten(o)
                                \/ Ends(o) \/ AnswerOrder(o)
           \/ ReadRequest \/ AnswerEnd \/ Callback \/ CallbackUnwritten
           \/ LateCallback \/ SnapshotEnd \/ FlightDone \/ FlightPoisons
           \/ FlightFails \/ Started \/ Replace
           \/ \E s \in Sweeps : Commit(s)
<1>1. CASE UNCHANGED vars
  BY <1>1 DEF vars, Still
<1>2. CASE OrderStep
  BY <1>2 DEF OrderStep, SendReturned, Age, Still
<1>3. CASE LineStep
  BY <1>3 DEF LineStep, StoreLatch, world, Still
<1>4. CASE FlightStep
  BY <1>4 DEF FlightStep, OtherRead, Lose, Redial, Started
<1>5. ASSUME NEW s \in Sweeps, SweepStep(s)
      PROVE  Still \/ Started \/ Commit(s)
  <2>1. CASE Join(s)
    BY <2>1 DEF Join, Still, Started
  <2>2. CASE Unavailable(s) \/ GiveUp(s) \/ Drift(s)
    BY <2>2 DEF Unavailable, GiveUp, Drift, Refuse, world, Still
  <2>3. CASE Begin(s) \/ Sample(s) \/ Reload(s) \/ ClearLatch(s) \/ Recheck(s)
    BY <2>3, Zenon DEF Begin, Sample, Reload, ClearLatch, Recheck, world, Still
  <2> QED BY <1>5, <2>1, <2>2, <2>3 DEF SweepStep
<1> QED BY <1>1, <1>2, <1>3, <1>4, <1>5 DEF Next

\* What callbacks do to the flight, field by field.
LEMMA FlightFields ==
    ASSUME NEW f \in Flights
    PROVE  /\ FlightFailed(f).state = f.state
           /\ FlightFailed(f).orders = f.orders
           /\ FlightFailed(f).moved = f.moved
           /\ FlightFailed(f).failed <=> f.state # "none"
           /\ FlightDrifted(f).state = f.state
           /\ FlightDrifted(f).orders = f.orders
           /\ FlightDrifted(f).failed = f.failed
           /\ FlightDrifted(f).moved <=> f.state = "ended"
           /\ \A kind : \A o \in Orders :
                /\ Collected(f, kind, o).state = f.state
                /\ Collected(f, kind, o).failed = f.failed
                /\ Collected(f, kind, o).orders =
                      IF kind = "open" /\ f.state = "open"
                        THEN f.orders \cup {o} ELSE f.orders
BY Zenon DEF Flights, FlightFailed, FlightDrifted, Collected

\* What a callback on the line does to the flight.
LEMMA HeadFlight ==
    ASSUME TypeOK, Callback \/ CallbackUnwritten
    PROVE  /\ flight'.state = flight.state
           /\ flight'.orders =
                 IF Head(line)[1] = "open" /\ flight.state = "open"
                   THEN flight.orders \cup {Head(line)[2]} ELSE flight.orders
           /\ flight'.moved <=> flight.state = "ended"
           /\ Callback => flight'.failed = flight.failed
           /\ CallbackUnwritten => (flight'.failed <=> flight.state # "none")
<1> DEFINE c == Collected(flight, Head(line)[1], Head(line)[2])
           d == FlightDrifted(c)
<1>1. Head(line)[2] \in Orders /\ flight \in Flights
  BY HeadCallback DEF Callback, CallbackUnwritten, TypeOK
<1>2. /\ c \in Flights
      /\ c.state = flight.state /\ c.failed = flight.failed
      /\ c.orders = IF Head(line)[1] = "open" /\ flight.state = "open"
                      THEN flight.orders \cup {Head(line)[2]} ELSE flight.orders
  <2>1. CASE Head(line)[1] = "open" /\ flight.state = "open"
    <3>1. c = [flight EXCEPT !.orders = @ \cup {Head(line)[2]}]
      BY <2>1 DEF Collected
    <3> QED BY <1>1, <2>1, <3>1 DEF Flights
  <2>2. CASE ~(Head(line)[1] = "open" /\ flight.state = "open")
    <3>1. c = flight
      BY <2>2 DEF Collected
    <3> QED BY <1>1, <2>2, <3>1
  <2> QED BY <2>1, <2>2
<1>3. Callback => flight' = d
  BY DEF Callback
<1>4. CallbackUnwritten => flight' = FlightFailed(d)
  BY DEF CallbackUnwritten
<1> HIDE DEF c
<1>5. /\ d \in Flights
      /\ d.state = c.state /\ d.orders = c.orders /\ d.failed = c.failed
      /\ d.moved <=> c.state = "ended"
  BY <1>2, FlightFields, FlightTypes
<1> HIDE DEF d
<1>6. /\ FlightFailed(d).state = d.state
      /\ FlightFailed(d).orders = d.orders
      /\ FlightFailed(d).moved = d.moved
      /\ FlightFailed(d).failed <=> d.state # "none"
  BY <1>5, FlightFields
<1>7. CASE Callback /\ ~CallbackUnwritten
  BY <1>2, <1>3, <1>5, <1>7
<1>8. CASE CallbackUnwritten /\ ~Callback
  BY <1>2, <1>4, <1>5, <1>6, <1>8
<1>9. ~(Callback /\ CallbackUnwritten)
  BY DEF Callback, CallbackUnwritten, Fault, TypeOK
<1> QED BY <1>7, <1>8, <1>9

\* The line grows at its end.
LEMMA Grown ==
    ASSUME NEW l \in Seq(Messages), NEW m \in Messages
    PROVE  /\ Len(Append(l, m)) = Len(l) + 1
           /\ Len(l) \in Nat
           /\ \A i \in 1..Len(l) : Append(l, m)[i] = l[i]
           /\ Append(l, m)[Len(l) + 1] = m
           /\ \A i \in 1..Len(Append(l, m)) :
                 \/ i \in 1..Len(l) /\ Append(l, m)[i] = l[i]
                 \/ i = Len(l) + 1 /\ Append(l, m)[i] = m
OBVIOUS

\* The messages differ by kind and by order.
LEMMA Distinct ==
    /\ \A o \in Orders : /\ <<"open", o>> \in Messages
                         /\ <<"ended", o>> \in Messages
                         /\ <<"open", o>> # <<"end">>
                         /\ <<"ended", o>> # <<"end">>
    /\ \A o, p \in Orders : /\ <<"open", o>> # <<"ended", p>>
                            /\ <<"open", o>> = <<"open", p>> => o = p
                            /\ <<"ended", o>> = <<"ended", p>> => o = p
    /\ <<"end">> \in Messages
BY DEF Messages, Callbacks

-----------------------------------------------------------------------------
(* Who is spoken of                                                        *)

\* A message that speaks true joins the line.
LEMMA SpokenLine ==
    ASSUME TypeOK, Spoken, NEW m \in Messages, line' = Append(line, m),
           \A p \in Orders : view[p] # "none" => view'[p] # "none",
           \A p \in Orders : broker[p] = "ended" => broker'[p] = "ended",
           \A p \in Orders : m = <<"open", p>> => view'[p] # "none",
           \A p \in Orders : m = <<"ended", p>> => broker'[p] = "ended"
    PROVE  \A i \in 1..Len(line') : \A p \in Orders :
              /\ line'[i] = <<"open", p>> => view'[p] # "none"
              /\ line'[i] = <<"ended", p>> => broker'[p] = "ended"
<1> SUFFICES ASSUME NEW i \in 1..Len(line'), NEW p \in Orders
             PROVE  /\ line'[i] = <<"open", p>> => view'[p] # "none"
                    /\ line'[i] = <<"ended", p>> => broker'[p] = "ended"
  OBVIOUS
<1>1. \/ i \in 1..Len(line) /\ line'[i] = line[i]
      \/ line'[i] = m
  BY Grown DEF TypeOK
<1>2. CASE i \in 1..Len(line) /\ line'[i] = line[i]
  BY <1>2 DEF Spoken
<1>3. CASE line'[i] = m
  BY <1>3
<1> QED BY <1>1, <1>2, <1>3

\* Every step keeps what is said of the orders true.
LEMMA SpokenStep ==
    ASSUME TypeOK, Spoken, Complete, [Next]_vars
    PROVE  Spoken'
<1>0. line \in Seq(Messages) /\ request \in Requests
  BY DEF TypeOK
<1>1. CASE Still
  BY <1>1 DEF Still, Spoken
<1>2. ASSUME NEW o \in Orders, Place(o)
      PROVE  Spoken'
  <2>1. line' = Append(line, <<"open", o>>) /\ <<"open", o>> \in Messages
    BY <1>2, Distinct, Zenon DEF Place
  <2>2. /\ \A p \in Orders : view'[p] = "none" <=> broker'[p] = "unsent"
        /\ \A p \in Orders : view[p] # "none" => view'[p] # "none"
        /\ view'[o] # "none"
        /\ \A p \in Orders : broker[p] = "ended" => broker'[p] = "ended"
        /\ \A p \in request.left : broker'[p] = "working"
        /\ \A p \in missed : view'[p] \in {"sent", "accepted"}
    BY <1>2 DEF Place, Spoken, TypeOK, Requests
  <2>3. \A i \in 1..Len(line') : \A p \in Orders :
          /\ line'[i] = <<"open", p>> => view'[p] # "none"
          /\ line'[i] = <<"ended", p>> => broker'[p] = "ended"
    BY <2>1, <2>2, SpokenLine, Distinct DEF Spoken
  <2> QED BY <1>2, <2>2, <2>3 DEF Place, Spoken
<1>3. ASSUME NEW o \in Orders, SendReturnUnwritten(o)
      PROVE  Spoken'
  BY <1>3 DEF SendReturnUnwritten, Spoken
<1>4. ASSUME NEW o \in Orders, Ends(o)
      PROVE  Spoken'
  <2>1. line' = Append(line, <<"ended", o>>) /\ <<"ended", o>> \in Messages
    BY <1>4, Distinct, Zenon DEF Ends
  <2>2. /\ \A p \in Orders : view'[p] = "none" <=> broker'[p] = "unsent"
        /\ view' = view
        /\ broker'[o] = "ended"
        /\ \A p \in Orders : broker[p] = "ended" => broker'[p] = "ended"
    BY <1>4 DEF Ends, Spoken, TypeOK
  <2>3. \A i \in 1..Len(line') : \A p \in Orders :
          /\ line'[i] = <<"open", p>> => view'[p] # "none"
          /\ line'[i] = <<"ended", p>> => broker'[p] = "ended"
    <3>1. \A p \in Orders : <<"ended", o>> = <<"ended", p>> => broker'[p] = "ended"
      BY <2>2, Distinct
    <3>2. \A p \in Orders : <<"ended", o>> # <<"open", p>>
      BY Distinct
    <3> QED BY <2>1, <2>2, <3>1, <3>2, SpokenLine, Zenon
  <2>4. \A p \in request'.left : broker'[p] = "working"
    BY <1>0, <1>4 DEF Ends, Spoken, TypeOK, Requests
  <2> QED BY <1>4, <2>2, <2>3, <2>4 DEF Ends, Spoken
<1>5. ASSUME NEW o \in Orders, AnswerOrder(o)
      PROVE  Spoken'
  <2>1. line' = Append(line, <<"open", o>>) /\ <<"open", o>> \in Messages
    BY <1>5, Distinct, Zenon DEF AnswerOrder
  <2>2. view[o] # "none" /\ view' = view /\ broker' = broker
    BY <1>5 DEF AnswerOrder, Spoken
  <2>3. \A i \in 1..Len(line') : \A p \in Orders :
          /\ line'[i] = <<"open", p>> => view'[p] # "none"
          /\ line'[i] = <<"ended", p>> => broker'[p] = "ended"
    <3>1. \A p \in Orders : <<"open", o>> = <<"open", p>> => view'[p] # "none"
      BY <2>2, Distinct
    <3>2. \A p \in Orders : <<"open", o>> # <<"ended", p>>
      BY Distinct
    <3> QED BY <2>1, <2>2, <3>1, <3>2, SpokenLine
  <2>4. \A p \in request'.left : broker'[p] = "working"
    BY <1>0, <1>5 DEF AnswerOrder, Spoken, Requests
  <2> QED BY <1>5, <2>2, <2>3, <2>4 DEF AnswerOrder, Spoken
<1>6. CASE ReadRequest
  BY <1>6 DEF ReadRequest, Spoken
<1>7. CASE AnswerEnd
  <2>1. line' = Append(line, <<"end">>) /\ <<"end">> \in Messages
    BY <1>7, Distinct DEF AnswerEnd
  <2>2. view' = view /\ broker' = broker
    BY <1>7 DEF AnswerEnd
  <2>3. \A i \in 1..Len(line') : \A p \in Orders :
          /\ line'[i] = <<"open", p>> => view'[p] # "none"
          /\ line'[i] = <<"ended", p>> => broker'[p] = "ended"
    BY <2>1, <2>2, SpokenLine, Distinct
  <2> QED BY <1>7, <2>2, <2>3 DEF AnswerEnd, NoRequest, Spoken
<1>8. CASE Callback
  <2> DEFINE kind == Head(line)[1]
             o == Head(line)[2]
  <2>1. /\ o \in Orders /\ kind \in {"open", "ended"}
        /\ line[1] = <<kind, o>> /\ Len(line) > 0
        /\ Len(line') = Len(line) - 1
        /\ \A i \in 1..Len(line') : line'[i] = line[i + 1]
    BY <1>8, HeadCallback DEF Callback
  <2>2. Len(line) \in Nat
    BY <1>0
  <2>3. view' = [view EXCEPT ![o] = RowAfter(kind, view[o])]
        /\ missed' = missed \ {o} /\ broker' = broker
    BY <1>8 DEF Callback
  <2> HIDE DEF kind, o
  <2>4. view[o] # "none"
    <3>1. CASE kind = "open"
      BY <3>1, <2>1, <2>2 DEF Spoken
    <3>2. CASE kind = "ended"
      BY <3>2, <2>1, <2>2 DEF Spoken
    <3> QED BY <2>1, <3>1, <3>2
  <2>5. /\ \A p \in Orders : view'[p] = "none" <=> view[p] = "none"
        /\ \A p \in Orders : p # o => view'[p] = view[p]
    BY <2>1, <2>3, <2>4 DEF TypeOK, RowAfter
  <2>6. \A i \in 1..Len(line') : \A p \in Orders :
          /\ line'[i] = <<"open", p>> => view'[p] # "none"
          /\ line'[i] = <<"ended", p>> => broker'[p] = "ended"
    BY <2>1, <2>2, <2>3, <2>5 DEF Spoken
  <2>7. \A p \in missed' : view'[p] \in {"sent", "accepted"}
    BY <2>3, <2>5 DEF Spoken, TypeOK
  <2>8. late' = late /\ request' = request
    BY <1>8 DEF Callback
  <2> QED BY <2>3, <2>5, <2>6, <2>7, <2>8 DEF Spoken
<1>9. CASE CallbackUnwritten
  <2> DEFINE kind == Head(line)[1]
             o == Head(line)[2]
  <2>1. /\ o \in Orders /\ kind \in {"open", "ended"}
        /\ line[1] = <<kind, o>> /\ Len(line) > 0
        /\ Len(line') = Len(line) - 1
        /\ \A i \in 1..Len(line') : line'[i] = line[i + 1]
    BY <1>9, HeadCallback DEF CallbackUnwritten
  <2>2. Len(line) \in Nat
    BY <1>0
  <2>3. /\ view' = view /\ broker' = broker /\ late' = late
        /\ request' = request /\ missed' = MissedAfter(kind, o)
    BY <1>9 DEF CallbackUnwritten
  <2> HIDE DEF kind, o
  <2>4. view[o] # "none"
    <3>1. CASE kind = "open"
      BY <3>1, <2>1, <2>2 DEF Spoken
    <3>2. CASE kind = "ended"
      BY <3>2, <2>1, <2>2 DEF Spoken
    <3> QED BY <2>1, <3>1, <3>2
  <2>5. \A p \in missed' : view[p] \in {"sent", "accepted"}
    BY <2>1, <2>3, <2>4 DEF MissedAfter, RowAfter, Spoken, TypeOK
  <2>6. \A i \in 1..Len(line') : \A p \in Orders :
          /\ line'[i] = <<"open", p>> => view[p] # "none"
          /\ line'[i] = <<"ended", p>> => broker[p] = "ended"
    BY <2>1, <2>2 DEF Spoken
  <2> QED BY <2>3, <2>5, <2>6 DEF Spoken
<1>10. CASE LateCallback
  <2>1. PICK m \in late : late' = late \ {m} /\ missed' = MissedAfter(m[1], m[2])
    BY <1>10 DEF LateCallback
  <2>2. m[1] \in {"open", "ended"} /\ m[2] \in Orders /\ m = <<m[1], m[2]>>
    BY DEF TypeOK, Callbacks
  <2>3. view[m[2]] # "none"
    <3>1. CASE m[1] = "open"
      <4>1. <<"open", m[2]>> \in late
        BY <3>1, <2>1, <2>2
      <4> QED BY <4>1, <2>2, Zenon DEF Spoken
    <3>2. CASE m[1] = "ended"
      <4>1. <<"ended", m[2]>> \in late
        BY <3>2, <2>1, <2>2
      <4> QED BY <4>1, <2>2, Zenon DEF Spoken
    <3> QED BY <2>2, <3>1, <3>2
  <2>4. \A p \in missed' : view[p] \in {"sent", "accepted"}
    BY <2>1, <2>2, <2>3 DEF MissedAfter, RowAfter, Spoken, TypeOK
  <2> QED BY <1>10, <2>1, <2>4 DEF LateCallback, Spoken
<1>11. CASE SnapshotEnd
  <2>1. /\ Len(line') = Len(line) - 1 /\ Len(line) \in Nat
        /\ \A i \in 1..Len(line') : line'[i] = line[i + 1]
    BY <1>0, <1>11 DEF SnapshotEnd
  <2>2. \A i \in 1..Len(line') : \A p \in Orders :
          /\ line'[i] = <<"open", p>> => view[p] # "none"
          /\ line'[i] = <<"ended", p>> => broker[p] = "ended"
    BY <2>1, SMTT(30) DEF Spoken
  <2> QED BY <1>11, <2>2 DEF SnapshotEnd, Spoken
<1>12. CASE FlightDone \/ FlightPoisons
  <2>1. /\ broker' = broker /\ view' = view /\ line' = line /\ late' = late
        /\ request' = request /\ missed' = missed
    BY <1>12, Zenon DEF FlightDone, FlightPoisons, world
  <2> QED BY <2>1 DEF Spoken
<1>19. CASE FlightFails
  <2>1. /\ broker' = broker /\ view' = view /\ line' = line /\ late' = late
        /\ request'.left \subseteq request.left /\ missed' = missed
    BY <1>19 DEF FlightFails, NoRequest
  <2> QED BY <2>1 DEF Spoken
<1>13. CASE Started
  BY <1>13 DEF Started, StartFlight, NoRequest, Spoken
<1>14. CASE Replace
  <2>1. PICK n \in 0..Len(line) :
           late' = late \cup {m \in Callbacks : \E i \in 1..n : line[i] = m}
    BY <1>14 DEF Replace
  <2>2. \A p \in Orders :
           <<"open", p>> \in late' \/ <<"ended", p>> \in late' => view[p] # "none"
    <3> SUFFICES ASSUME NEW p \in Orders,
                        <<"open", p>> \in late' \/ <<"ended", p>> \in late'
                 PROVE  view[p] # "none"
      OBVIOUS
    <3>1. CASE <<"open", p>> \in late \/ <<"ended", p>> \in late
      BY <3>1 DEF Spoken
    <3>2. CASE \E i \in 1..n : line[i] = <<"open", p>>
      BY <1>0, <3>2 DEF Spoken
    <3>3. CASE \E i \in 1..n : line[i] = <<"ended", p>>
      <4>1. broker[p] = "ended"
        BY <1>0, <3>3 DEF Spoken
      <4> QED BY <4>1 DEF Spoken
    <3> QED BY <2>1, <3>1, <3>2, <3>3
  <2>3. Len(line') = 0
    BY <1>14 DEF Replace
  <2> QED BY <1>14, <2>2, <2>3 DEF Replace, NoRequest, Spoken
<1>15. ASSUME NEW s \in Sweeps, Commit(s)
       PROVE  Spoken'
  <2>1. \A p \in sweep[s].closing : broker[p] = "ended"
    BY <1>15 DEF Commit, Complete
  <2>2. /\ view' = [p \in Orders |->
                       IF p \in sweep[s].closing THEN "closed" ELSE view[p]]
        /\ missed' = missed \ sweep[s].closing
        /\ broker' = broker /\ line' = line /\ late' = late
        /\ request' = request
    BY <1>15 DEF Commit
  <2>3. /\ \A p \in Orders : view'[p] = "none" <=> view[p] = "none"
        /\ \A p \in missed' : view'[p] \in {"sent", "accepted"}
    BY <2>1, <2>2 DEF Spoken, TypeOK
  <2> QED BY <2>2, <2>3 DEF Spoken
<1> QED
  BY <1>1, <1>2, <1>3, <1>4, <1>5, <1>6, <1>7, <1>8, <1>9, <1>10, <1>11, <1>12,
     <1>13, <1>14, <1>15, <1>19, StepCases

-----------------------------------------------------------------------------
(* The line                                                                *)

\* What was on the line before stays where it was; the new message is last.
LEMMA LineAppend ==
    ASSUME TypeOK, NEW m \in Messages, line' = Append(line, m)
    PROVE  /\ Len(line) \in Nat
           /\ Len(line') = Len(line) + 1
           /\ \A k \in 1..Len(line) : k \in 1..Len(line') /\ line'[k] = line[k]
           /\ line'[Len(line) + 1] = m
           /\ \A k \in 1..Len(line') :
                 (k \in 1..Len(line) /\ line'[k] = line[k])
                   \/ (k = Len(line) + 1 /\ line'[k] = m)
           /\ \A o \in Orders : \A k \in Nat :
                 OpenBefore(o, k) => OpenBefore(o, k)'
           /\ \A o \in Orders :
                 OpenBefore(o, Len(line) + 1) \/ m = <<"open", o>> =>
                    OpenBefore(o, Len(line) + 1)'
<1>1. /\ Len(line) \in Nat
      /\ Len(line') = Len(line) + 1
      /\ \A k \in 1..Len(line) : k \in 1..Len(line') /\ line'[k] = line[k]
      /\ line'[Len(line) + 1] = m
      /\ \A k \in 1..Len(line') :
            (k \in 1..Len(line) /\ line'[k] = line[k])
              \/ (k = Len(line) + 1 /\ line'[k] = m)
  BY Grown DEF TypeOK
<1>2. ASSUME NEW o \in Orders, NEW k \in Nat, OpenBefore(o, k)
      PROVE  OpenBefore(o, k)'
  BY <1>1, <1>2 DEF OpenBefore
<1>3. ASSUME NEW o \in Orders,
             OpenBefore(o, Len(line) + 1) \/ m = <<"open", o>>
      PROVE  OpenBefore(o, Len(line) + 1)'
  BY <1>1, <1>3 DEF OpenBefore
<1> QED BY <1>1, <1>2, <1>3

\* Reading the head moves every message one place up.
LEMMA LineTail ==
    ASSUME TypeOK, line # <<>>, line' = Tail(line)
    PROVE  /\ Len(line) \in Nat \ {0}
           /\ Head(line) = line[1]
           /\ Len(line') = Len(line) - 1
           /\ \A k \in 1..Len(line') :
                 k + 1 \in 1..Len(line) /\ line'[k] = line[k + 1]
           /\ \A o \in Orders : \A k \in Nat :
                 OpenBefore(o, k + 1) /\ line[1] # <<"open", o>> =>
                    OpenBefore(o, k)'
<1>1. /\ Len(line) \in Nat \ {0}
      /\ Head(line) = line[1]
      /\ Len(line') = Len(line) - 1
      /\ \A k \in 1..Len(line') :
            k + 1 \in 1..Len(line) /\ line'[k] = line[k + 1]
  BY DEF TypeOK
<1>2. ASSUME NEW o \in Orders, NEW k \in Nat, OpenBefore(o, k + 1),
             line[1] # <<"open", o>>
      PROVE  OpenBefore(o, k)'
  <2>1. PICK i \in 1..Len(line) : i < k + 1 /\ line[i] = <<"open", o>>
    BY <1>2 DEF OpenBefore
  <2>2. i # 1
    BY <1>2, <2>1
  <2>3. i - 1 \in 1..Len(line') /\ i - 1 < k /\ line'[i - 1] = <<"open", o>>
    <3>1. i - 1 \in 1..Len(line') /\ i - 1 < k
      BY <1>1, <2>1, <2>2
    <3>2. line'[i - 1] = line[(i - 1) + 1]
      BY <1>1, <3>1
    <3> QED BY <2>1, <3>1, <3>2
  <2> QED BY <2>3, Zenon DEF OpenBefore
<1> QED BY <1>1, <1>2

-----------------------------------------------------------------------------
(* One request at a time                                                   *)

\* Every step keeps the end on the line that of the open flight.
LEMMA OneRequestStep ==
    ASSUME TypeOK, OneRequest, [Next]_vars
    PROVE  OneRequest'
<1>1. CASE Still
  BY <1>1 DEF Still, OneRequest, NoEnd
<1>2. ASSUME NEW m \in Messages, m # <<"end">>, line' = Append(line, m),
             request'.state = request.state, flight' = flight,
             poisoned' = poisoned
      PROVE  OneRequest'
  <2>1. NoEnd => NoEnd'
    BY <1>2, LineAppend, Zenon DEF NoEnd
  <2>2. \A k \in 1..Len(line') : line'[k] = <<"end">> =>
            k \in 1..Len(line) /\ line[k] = <<"end">>
    BY <1>2, LineAppend, Zenon
  <2> QED BY <1>2, <2>1, <2>2 DEF OneRequest
<1>3. ASSUME NEW o \in Orders, Place(o)
      PROVE  OneRequest'
  <2>1. <<"open", o>> \in Messages /\ <<"open", o>> # <<"end">>
    BY Distinct, Zenon
  <2> QED BY <1>2, <1>3, <2>1 DEF Place
<1>4. ASSUME NEW o \in Orders, Ends(o)
      PROVE  OneRequest'
  <2>1. <<"ended", o>> \in Messages /\ <<"ended", o>> # <<"end">>
    BY Distinct, Zenon
  <2>2. request'.state = request.state
    BY <1>4 DEF Ends, TypeOK, Requests
  <2> QED BY <1>2, <1>4, <2>1, <2>2 DEF Ends
<1>5. ASSUME NEW o \in Orders, AnswerOrder(o)
      PROVE  OneRequest'
  <2>1. <<"open", o>> \in Messages /\ <<"open", o>> # <<"end">>
    BY Distinct, Zenon
  <2>2. request'.state = request.state
    BY <1>5 DEF AnswerOrder, TypeOK, Requests
  <2> QED BY <1>2, <1>5, <2>1, <2>2 DEF AnswerOrder
<1>6. ASSUME flight'.state = flight.state, line' = line, request' = request,
             poisoned' = poisoned
      PROVE  OneRequest'
  BY <1>6 DEF OneRequest, NoEnd
<1>7. ASSUME NEW o \in Orders, SendReturnUnwritten(o)
      PROVE  OneRequest'
  BY <1>6, <1>7, FlightFields DEF SendReturnUnwritten, TypeOK
<1>8. CASE LateCallback
  BY <1>6, <1>8, FlightFields, Zenon DEF LateCallback, TypeOK
<1>9. CASE ReadRequest
  BY <1>9 DEF ReadRequest, OneRequest, NoEnd
<1>10. CASE AnswerEnd
  <2>1. flight.state = "open" => NoEnd
    BY <1>10 DEF AnswerEnd, OneRequest
  <2>2. <<"end">> \in Messages /\ line' = Append(line, <<"end">>)
    BY <1>10, Distinct DEF AnswerEnd
  <2>3. NoEnd => \A k \in 1..Len(line') :
                    line'[k] = <<"end">> => k = Len(line) + 1
    BY <2>2, LineAppend DEF NoEnd
  <2>4. ~poisoned => flight.state = "open"
    BY <1>10 DEF AnswerEnd, OneRequest
  <2>5. request'.state = "none" /\ flight' = flight /\ poisoned' = poisoned
    BY <1>10 DEF AnswerEnd, NoRequest
  <2> QED BY <2>1, <2>3, <2>4, <2>5, Zenon DEF OneRequest
<1>11. ASSUME line # <<>>, line' = Tail(line), request' = request,
              poisoned' = poisoned,
              flight'.state = flight.state
       PROVE  OneRequest'
  <2>1. NoEnd => NoEnd'
    BY <1>11, LineTail DEF NoEnd
  <2>2. ASSUME flight.state = "open", NEW j \in 1..Len(line'),
               NEW k \in 1..Len(line'), line'[j] = <<"end">>,
               line'[k] = <<"end">>
        PROVE  j = k
    <3>1. j + 1 \in 1..Len(line) /\ k + 1 \in 1..Len(line)
          /\ line[j + 1] = <<"end">> /\ line[k + 1] = <<"end">>
      BY <1>11, <2>2, LineTail
    <3>2. j + 1 = k + 1
      BY <2>2, <3>1 DEF OneRequest
    <3> QED BY <3>2
  <2> QED BY <1>11, <2>1, <2>2 DEF OneRequest
<1>12. CASE Callback \/ CallbackUnwritten
  <2>1. flight'.state = flight.state
    BY <1>12, HeadFlight
  <2> QED BY <1>11, <1>12, <2>1 DEF Callback, CallbackUnwritten, Dispatched
<1>13. CASE SnapshotEnd
  <2>1. line # <<>> /\ line' = Tail(line) /\ line[1] = <<"end">>
        /\ request' = request /\ poisoned' = poisoned
    <3>1. line # <<>> /\ line' = Tail(line) /\ Head(line) = <<"end">>
          /\ request' = request /\ poisoned' = poisoned
      BY <1>13 DEF SnapshotEnd
    <3> QED BY <3>1, LineTail
  <2>2. CASE flight.state = "open"
    <3>1. \A k \in 1..Len(line) : line[k] = <<"end">> => k = 1
      <4>1. 1 \in 1..Len(line)
        BY <2>1, LineTail
      <4> QED BY <2>1, <2>2, <4>1 DEF OneRequest
    <3>2. NoEnd'
      BY <2>1, <3>1, LineTail DEF NoEnd
    <3>3. request.state = "none"
      <4>1. ~NoEnd
        BY <2>1, LineTail DEF NoEnd
      <4> QED BY <2>2, <4>1 DEF OneRequest
    <3>4. flight'.state = "ended" /\ ~poisoned
      BY <1>13, <2>2 DEF SnapshotEnd, OneRequest, TypeOK, Flights
    <3> QED BY <2>1, <3>2, <3>3, <3>4 DEF OneRequest
  <2>3. CASE flight.state # "open"
    BY <1>11, <1>13, <2>1, <2>3 DEF SnapshotEnd
  <2> QED BY <2>2, <2>3
<1>14. CASE FlightDone
  <2>1. /\ flight'.state = "none" /\ line' = line /\ request' = request
        /\ poisoned' = poisoned /\ flight.state = "ended"
    BY <1>14, Zenon DEF FlightDone, NoFlight, world
  <2> QED BY <2>1 DEF OneRequest, NoEnd
<1>15. CASE FlightPoisons
  <2>1. flight'.state = "none" /\ poisoned'
    BY <1>15 DEF FlightPoisons, NoFlight
  <2> QED BY <2>1 DEF OneRequest
<1>19. CASE FlightFails
  <2>1. /\ flight'.state = "none" /\ line' = line /\ poisoned' = poisoned
        /\ flight.state # "none"
    BY <1>19 DEF FlightFails, NoFlight
  <2>2. request'.state = "none" /\ NoEnd
    BY <1>19, <2>1 DEF FlightFails, NoRequest, OneRequest
  <2> QED BY <2>1, <2>2 DEF OneRequest, NoEnd
<1>16. CASE Started
  <2>1. /\ flight'.state = "open" /\ request'.state = "asked"
        /\ line' = line /\ poisoned' = poisoned /\ ~poisoned
    BY <1>16 DEF Started, StartFlight, NoFlight, NoRequest
  <2>2. NoEnd
    BY <1>16 DEF Started, OneRequest
  <2> QED BY <2>1, <2>2 DEF OneRequest, NoEnd
<1>17. CASE Replace
  <2>1. flight'.state = "none" /\ request'.state = "none" /\ Len(line') = 0
    BY <1>17 DEF Replace, NoFlight, NoRequest
  <2> QED BY <2>1 DEF OneRequest, NoEnd
<1>18. ASSUME NEW s \in Sweeps, Commit(s)
       PROVE  OneRequest'
  BY <1>6, <1>18 DEF Commit
<1> QED
  BY <1>1, <1>3, <1>4, <1>5, <1>7, <1>8, <1>9, <1>10, <1>12, <1>13, <1>14,
     <1>15, <1>16, <1>17, <1>18, <1>19, StepCases, Zenon

-----------------------------------------------------------------------------
(* The answer on its way                                                   *)

\* Every step keeps the working orders on their way into the flight.
LEMMA AnsweredStep ==
    ASSUME TypeOK, OneRequest, Answered, [Next]_vars
    PROVE  Answered'
<1>0. Len(line) \in Nat
  BY DEF TypeOK
<1>1. CASE Still
  BY <1>1, Zenon DEF Still, Answered, OpenBefore
<1>2. ASSUME NEW m \in Messages, m # <<"end">>, line' = Append(line, m),
             request'.state = request.state, flight' = flight,
             \A p \in Orders : broker'[p] = "working" =>
                \/ broker[p] = "working" /\ view'[p] = view[p]
                \/ m = <<"open", p>> /\ view'[p] # "accepted",
             \A p \in Orders : broker'[p] = "working" /\ p \in request.left =>
                p \in request'.left \/ m = <<"open", p>>
      PROVE  Answered'
  <2>1. ASSUME flight.state = "open", request.state = "answering",
               NEW p \in Orders, broker'[p] = "working"
        PROVE  p \in request'.left \/ p \in flight.orders
                 \/ OpenBefore(p, Len(line) + 1)'
    <3>1. CASE m = <<"open", p>>
      BY <1>2, <3>1, LineAppend
    <3>2. CASE m # <<"open", p>>
      <4>1. p \in request.left \/ p \in flight.orders
              \/ OpenBefore(p, Len(line) + 1)
        BY <1>2, <2>1, <3>2 DEF Answered
      <4> QED BY <1>2, <2>1, <3>2, <4>1, LineAppend
    <3> QED BY <3>1, <3>2
  <2>2. ASSUME flight.state = "open", NEW k \in 1..Len(line'),
               line'[k] = <<"end">>, NEW p \in Orders, broker'[p] = "working"
        PROVE  p \in flight.orders \/ OpenBefore(p, k)' \/ view'[p] # "accepted"
    <3>1. k \in 1..Len(line) /\ line[k] = <<"end">> /\ k \in Nat
      <4>1. \/ k \in 1..Len(line) /\ line'[k] = line[k]
            \/ k = Len(line) + 1 /\ line'[k] = m
        BY <1>2, <2>2, LineAppend, Zenon
      <4> QED BY <1>2, <2>2, <4>1
    <3>2. CASE broker[p] = "working" /\ view'[p] = view[p]
      <4>1. p \in flight.orders \/ OpenBefore(p, k) \/ view[p] # "accepted"
        BY <2>2, <3>1, <3>2 DEF Answered
      <4> QED BY <1>2, <3>1, <3>2, <4>1, LineAppend
    <3> QED BY <1>2, <2>2, <3>2
  <2> QED BY <1>2, <2>1, <2>2 DEF Answered
<1>3. ASSUME NEW o \in Orders, Place(o)
      PROVE  Answered'
  <2>1. <<"open", o>> \in Messages /\ <<"open", o>> # <<"end">>
    BY Distinct, Zenon
  <2>2. \A p \in Orders : broker'[p] = "working" =>
           \/ broker[p] = "working" /\ view'[p] = view[p]
           \/ p = o /\ view'[p] # "accepted"
    BY <1>3 DEF Place, TypeOK
  <2> QED BY <1>2, <1>3, <2>1, <2>2 DEF Place
<1>4. ASSUME NEW o \in Orders, Ends(o)
      PROVE  Answered'
  <2>1. <<"ended", o>> \in Messages /\ <<"ended", o>> # <<"end">>
    BY Distinct, Zenon
  <2>2. /\ request'.state = request.state
        /\ \A p \in Orders : broker'[p] = "working" =>
              /\ broker[p] = "working" /\ view'[p] = view[p]
              /\ p \in request.left => p \in request'.left
    BY <1>4 DEF Ends, TypeOK, Requests
  <2> QED BY <1>2, <1>4, <2>1, <2>2 DEF Ends
<1>5. ASSUME NEW o \in Orders, AnswerOrder(o)
      PROVE  Answered'
  <2>1. <<"open", o>> \in Messages /\ <<"open", o>> # <<"end">>
    BY Distinct, Zenon
  <2>2. /\ request'.state = request.state
        /\ \A p \in Orders : p \in request.left => p \in request'.left \/ p = o
    BY <1>5 DEF AnswerOrder, TypeOK, Requests
  <2> QED BY <1>2, <1>5, <2>1, <2>2 DEF AnswerOrder
<1>6. ASSUME flight'.state = flight.state, flight'.orders = flight.orders,
             line' = line, request' = request, broker' = broker,
             \A o \in Orders : view'[o] = "accepted" => view[o] = "accepted"
      PROVE  Answered'
  BY <1>6, Zenon DEF Answered, OpenBefore
<1>7. ASSUME NEW o \in Orders, SendReturnUnwritten(o)
      PROVE  Answered'
  BY <1>6, <1>7, FlightFields, Zenon DEF SendReturnUnwritten, TypeOK
<1>8. CASE LateCallback
  BY <1>6, <1>8, FlightFields DEF LateCallback, TypeOK
<1>9. CASE ReadRequest
  BY <1>9, Zenon DEF ReadRequest, Answered, OpenBefore
<1>10. CASE AnswerEnd
  <2>1. <<"end">> \in Messages /\ line' = Append(line, <<"end">>)
    BY <1>10, Distinct DEF AnswerEnd
  <2>2. /\ request'.state = "none" /\ flight' = flight /\ broker' = broker
        /\ view' = view /\ request.state = "answering" /\ request.left = {}
    BY <1>10 DEF AnswerEnd, NoRequest
  <2>3. ASSUME flight.state = "open", NEW k \in 1..Len(line'),
               line'[k] = <<"end">>, NEW p \in Orders, broker[p] = "working"
        PROVE  p \in flight.orders \/ OpenBefore(p, k)' \/ view[p] # "accepted"
    <3>1. k \in Nat
      OBVIOUS
    <3>2. p \in flight.orders \/ OpenBefore(p, k) \/ view[p] # "accepted"
      <4>1. CASE k \in 1..Len(line) /\ line[k] = <<"end">>
        BY <2>3, <4>1 DEF Answered
      <4>2. CASE k = Len(line) + 1
        BY <2>2, <2>3, <4>2 DEF Answered
      <4> QED BY <2>1, <2>3, <4>1, <4>2, LineAppend
    <3> QED BY <2>1, <3>1, <3>2, LineAppend
  <2> QED BY <2>2, <2>3, Zenon DEF Answered
<1>11. CASE Callback \/ CallbackUnwritten
  <2>1. line # <<>> /\ line' = Tail(line) /\ request' = request
        /\ broker' = broker
    BY <1>11 DEF Callback, CallbackUnwritten, Dispatched
  <2>2. /\ Head(line)[1] \in {"open", "ended"} /\ Head(line)[2] \in Orders
        /\ line[1] = <<Head(line)[1], Head(line)[2]>>
    BY <1>11, HeadCallback, Zenon DEF Callback, CallbackUnwritten
  <2>3. /\ flight'.state = flight.state
        /\ flight.state = "open" =>
              /\ flight.orders \subseteq flight'.orders
              /\ Head(line)[1] = "open" => Head(line)[2] \in flight'.orders
    BY <1>11, HeadFlight
  <2>4. ASSUME flight.state = "open", NEW p \in Orders, line[1] = <<"open", p>>
        PROVE  p \in flight'.orders
    BY <2>2, <2>3, <2>4
  <2>5. ASSUME flight.state = "open", NEW p \in Orders, p \notin flight'.orders,
               view[p] # "accepted"
        PROVE  view'[p] # "accepted"
    <3>1. CASE CallbackUnwritten
      BY <2>5, <3>1, Zenon DEF CallbackUnwritten
    <3>2. CASE Callback
      <4>1. view' = [view EXCEPT ![Head(line)[2]] =
                        RowAfter(Head(line)[1], view[Head(line)[2]])]
        BY <3>2, Zenon DEF Callback
      <4>2. Head(line)[2] = p => Head(line)[1] = "ended"
        BY <2>2, <2>3, <2>5
      <4> QED BY <2>2, <2>5, <4>1, <4>2 DEF RowAfter, TypeOK
    <3> QED BY <1>11, <3>1, <3>2, Zenon
  <2>6. ASSUME flight.state = "open", request.state = "answering",
               NEW p \in Orders, broker[p] = "working"
        PROVE  p \in request.left \/ p \in flight'.orders
                 \/ OpenBefore(p, Len(line) + 1)'
    <3>1. p \in request.left \/ p \in flight.orders
            \/ OpenBefore(p, Len(line) + 1)
      BY <2>6 DEF Answered
    <3>2. CASE OpenBefore(p, Len(line) + 1) /\ line[1] # <<"open", p>>
      <4>1. Len(line) \in Nat /\ Len(line') + 1 = Len(line)
        BY <2>1, LineTail
      <4>2. ASSUME NEW k \in Nat, k = Len(line)
            PROVE  OpenBefore(p, k)'
        BY <2>1, <3>2, <4>2, LineTail
      <4> QED BY <4>1, <4>2, Zenon DEF OpenBefore
    <3> QED BY <2>3, <2>4, <2>6, <3>1, <3>2
  <2>7. ASSUME flight.state = "open", NEW k \in 1..Len(line'),
               line'[k] = <<"end">>, NEW p \in Orders, broker[p] = "working"
        PROVE  p \in flight'.orders \/ OpenBefore(p, k)' \/ view'[p] # "accepted"
    <3>1. k \in Nat /\ k + 1 \in 1..Len(line) /\ line[k + 1] = <<"end">>
      BY <2>1, <2>7, LineTail
    <3>2. p \in flight.orders \/ OpenBefore(p, k + 1) \/ view[p] # "accepted"
      BY <2>7, <3>1 DEF Answered
    <3>3. CASE OpenBefore(p, k + 1) /\ line[1] # <<"open", p>>
      BY <2>1, <3>1, <3>3, LineTail
    <3> QED BY <2>3, <2>4, <2>5, <2>7, <3>2, <3>3
  <2> QED BY <2>1, <2>3, <2>6, <2>7, ZenonT(30) DEF Answered
<1>12. CASE SnapshotEnd
  <2>1. flight'.state # "open"
    BY <1>12 DEF SnapshotEnd, TypeOK, Flights
  <2> QED BY <2>1 DEF Answered
<1>13. CASE FlightDone \/ FlightPoisons \/ FlightFails \/ Replace
  <2>1. flight' = NoFlight
    BY <1>13, Zenon DEF FlightDone, FlightPoisons, FlightFails, Replace
  <2>2. flight'.state # "open"
    BY <2>1 DEF NoFlight
  <2> QED BY <2>2 DEF Answered
<1>14. CASE Started
  <2>1. request'.state = "asked" /\ line' = line
    BY <1>14 DEF Started, StartFlight, NoRequest
  <2>2. NoEnd
    BY <1>14 DEF Started, OneRequest
  <2> QED BY <2>1, <2>2 DEF Answered, NoEnd
<1>15. ASSUME NEW s \in Sweeps, Commit(s)
       PROVE  Answered'
  BY <1>6, <1>15 DEF Commit
<1> QED
  BY <1>1, <1>3, <1>4, <1>5, <1>7, <1>8, <1>9, <1>10, <1>11, <1>12, <1>13,
     <1>14, <1>15, StepCases

-----------------------------------------------------------------------------
(* What a step does to a sweep                                             *)

\* The call goes on where it was; counters it has read may have moved.
Keeps(v, w) ==
    /\ w.pc = v.pc /\ w.uncertain = v.uncertain
    /\ w.snap = v.snap /\ w.closing = v.closing
    /\ v.failed => w.failed
    /\ v.drifted => w.drifted
    /\ v.appended => w.appended
    /\ v.replaced => w.replaced

\* Each counter that moves is seen by the sweeps that compare it.
LEMMA FlagsKeep ==
    ASSUME NEW ss \in [Sweeps -> SweepCalls], NEW s \in Sweeps
    PROVE  /\ Keeps(ss[s], Failed(ss)[s])
           /\ ss[s].pc \in Sampled /\ ss[s].uncertain => Failed(ss)[s].failed
           /\ Keeps(ss[s], Drifted(ss)[s])
           /\ ss[s].pc \in {"got", "read"} =>
                 Drifted(ss)[s].replaced \/ Drifted(ss)[s].drifted
           /\ Keeps(ss[s], Appended(ss)[s])
           /\ ss[s].pc = "read" => Appended(ss)[s].appended
           /\ Keeps(ss[s], Replaced(ss)[s])
           /\ ss[s].pc \in Sampled => Replaced(ss)[s].replaced
<1> DEFINE w == ss[s]
<1>1. w \in SweepCalls
  OBVIOUS
<1> HIDE DEF w
<1>2. /\ Keeps(w, w)
      /\ Keeps(w, [w EXCEPT !.failed = TRUE])
      /\ [w EXCEPT !.failed = TRUE].failed
      /\ Keeps(w, [w EXCEPT !.drifted = TRUE])
      /\ [w EXCEPT !.drifted = TRUE].drifted
      /\ Keeps(w, [w EXCEPT !.appended = TRUE])
      /\ [w EXCEPT !.appended = TRUE].appended
      /\ Keeps(w, [w EXCEPT !.replaced = TRUE])
      /\ [w EXCEPT !.replaced = TRUE].replaced
  BY <1>1 DEF Keeps, SweepCalls
<1>3. /\ Failed(ss)[s] = IF w.pc \in Sampled /\ w.uncertain
                           THEN [w EXCEPT !.failed = TRUE] ELSE w
      /\ Drifted(ss)[s] = IF w.pc \in {"got", "read"} /\ ~w.replaced
                            THEN [w EXCEPT !.drifted = TRUE] ELSE w
      /\ Appended(ss)[s] = IF w.pc = "read"
                             THEN [w EXCEPT !.appended = TRUE] ELSE w
      /\ Replaced(ss)[s] = IF w.pc \in Sampled
                             THEN [w EXCEPT !.replaced = TRUE] ELSE w
  BY DEF w, Failed, Drifted, Appended, Replaced
<1> QED BY <1>2, <1>3 DEF w

\* A sweep that goes on through two counters' moves goes on.
LEMMA KeepsOn ==
    ASSUME NEW u, NEW v, NEW w, Keeps(u, v), Keeps(v, w)
    PROVE  Keeps(u, w)
BY DEF Keeps

\* What a commit leaves of the sweep that made it.
LEMMA CommitSweep ==
    ASSUME TypeOK, NEW s \in Sweeps, Commit(s)
    PROVE  /\ sweep'[s].pc \in {"clear", "idle"}
           /\ sweep'[s].pc = "clear" => /\ sweep[s].uncertain /\ ~sweep[s].failed
                                        /\ sweep'[s].uncertain
<1> DEFINE others == IF sweep[s].closing = {} THEN sweep ELSE Appended(sweep)
           w == sweep[s]
<1>1. others \in [Sweeps -> SweepCalls] /\ w \in SweepCalls
  BY FlagTypes DEF TypeOK
<1>2. sweep' = [others EXCEPT ![s] =
         IF w.uncertain /\ ~w.failed
           THEN [w EXCEPT !.pc = "clear", !.closing = {}] ELSE IdleSweep]
  BY DEF Commit
<1>3. sweep'[s] = IF w.uncertain /\ ~w.failed
                    THEN [w EXCEPT !.pc = "clear", !.closing = {}] ELSE IdleSweep
  BY <1>1, <1>2
<1> HIDE DEF w
<1>4. /\ [w EXCEPT !.pc = "clear", !.closing = {}].pc = "clear"
      /\ [w EXCEPT !.pc = "clear", !.closing = {}].uncertain = w.uncertain
      /\ IdleSweep.pc = "idle"
  BY <1>1 DEF SweepCalls, IdleSweep
<1> QED BY <1>3, <1>4 DEF w

\* What a reload leaves of the sweep.
LEMMA ReloadSweep ==
    ASSUME sweep \in [Sweeps -> SweepCalls], NEW s \in Sweeps, Reload(s)
    PROVE  /\ sweep[s].pc = "got"
           /\ sweep'[s].pc = "read"
           /\ sweep'[s].closing = {o \in Orders \ sweep[s].snap :
                                      Closable(o, sweep[s].uncertain)}
           /\ sweep'[s].uncertain = sweep[s].uncertain
           /\ sweep'[s].failed = sweep[s].failed
           /\ sweep'[s].drifted = sweep[s].drifted
           /\ sweep'[s].replaced = sweep[s].replaced
<1> DEFINE os == {o \in Orders \ sweep[s].snap : Closable(o, sweep[s].uncertain)}
<1>1. sweep[s].pc = "got"
      /\ sweep'[s] = [sweep[s] EXCEPT !.pc = "read", !.snap = {}, !.closing = os]
  BY DEF Reload
<1>2. sweep[s] \in SweepCalls
  OBVIOUS
<1> HIDE DEF os
<1>3. ASSUME NEW w \in SweepCalls
      PROVE  /\ [w EXCEPT !.pc = "read", !.snap = {}, !.closing = os].pc = "read"
             /\ [w EXCEPT !.pc = "read", !.snap = {}, !.closing = os].closing = os
             /\ [w EXCEPT !.pc = "read", !.snap = {}, !.closing = os].uncertain
                   = w.uncertain
             /\ [w EXCEPT !.pc = "read", !.snap = {}, !.closing = os].failed
                   = w.failed
             /\ [w EXCEPT !.pc = "read", !.snap = {}, !.closing = os].drifted
                   = w.drifted
             /\ [w EXCEPT !.pc = "read", !.snap = {}, !.closing = os].replaced
                   = w.replaced
  BY Zenon DEF SweepCalls
<1> QED BY <1>1, <1>2, <1>3 DEF os

\* What any step does to one sweep.
LEMMA SweepCases ==
    ASSUME TypeOK, [Next]_vars, NEW s \in Sweeps
    PROVE  \/ Keeps(sweep[s], sweep'[s])
           \/ sweep'[s] = IdleSweep
           \/ sweep'[s].pc \in {"begun", "sampled"}
           \/ Join(s) \/ Reload(s) \/ ClearLatch(s)
           \/ Commit(s)
           \/ FlightDone /\ s \in Waiters
<1>0. sweep \in [Sweeps -> SweepCalls] /\ Keeps(sweep[s], sweep[s])
  BY DEF TypeOK, Keeps
<1>1. CASE sweep' = sweep
  BY <1>0, <1>1, Zenon
<1>2. CASE sweep' = Failed(sweep) \/ sweep' = Appended(sweep)
              \/ sweep' = Replaced(sweep)
  BY <1>0, <1>2, FlagsKeep, Zenon
<1>3. CASE sweep' = Failed(Drifted(sweep)) \/ sweep' = Appended(Drifted(sweep))
  <2>1. Drifted(sweep) \in [Sweeps -> SweepCalls]
        /\ Keeps(sweep[s], Drifted(sweep)[s])
    BY <1>0, FlagTypes, FlagsKeep
  <2>2. Keeps(Drifted(sweep)[s], sweep'[s])
    BY <1>3, <2>1, FlagsKeep, Zenon
  <2> QED BY <2>1, <2>2, KeepsOn
<1>4. CASE FlightDone \/ FlightPoisons \/ FlightFails
  <2>1. CASE FlightDone
    BY <1>0, <2>1, Zenon DEF FlightDone
  <2>2. CASE FlightPoisons
    BY <1>0, <2>2 DEF FlightPoisons
  <2>3. CASE FlightFails
    BY <1>0, <2>3, SMTT(30) DEF FlightFails
  <2> QED BY <1>4, <2>1, <2>2, <2>3
<1>5. ASSUME NEW t \in Sweeps, SweepStep(t), ~Commit(t)
      PROVE  \/ Keeps(sweep[s], sweep'[s])
             \/ sweep'[s] = IdleSweep
             \/ sweep'[s].pc \in {"begun", "sampled"}
             \/ Join(s) \/ Reload(s) \/ ClearLatch(s)
  <2>1. CASE t # s
    <3>1. sweep'[s] = sweep[s]
      BY <1>0, <1>5, <2>1, ZenonT(30)
         DEF SweepStep, Begin, Sample, Join, Unavailable, GiveUp, Reload, Drift,
             Refuse, ClearLatch, Recheck
    <3> QED BY <1>0, <3>1
  <2>2. CASE t = s
    <3>1. CASE Begin(s) \/ Sample(s)
      BY <1>0, <3>1, ZenonT(30) DEF Begin, Sample, SweepCalls
    <3>2. CASE Unavailable(s) \/ GiveUp(s) \/ Drift(s) \/ Recheck(s)
      BY <1>0, <3>2 DEF Unavailable, GiveUp, Drift, Refuse, Recheck
    <3> QED BY <1>5, <2>2, <3>1, <3>2 DEF SweepStep
  <2> QED BY <2>1, <2>2
<1>6. ASSUME NEW t \in Sweeps, Commit(t)
      PROVE  Keeps(sweep[s], sweep'[s]) \/ Commit(s)
  <2>1. CASE t # s
    <3>1. sweep'[s] = sweep[s] \/ sweep'[s] = Appended(sweep)[s]
      <4> DEFINE others == IF sweep[t].closing = {} THEN sweep ELSE Appended(sweep)
      <4>1. others \in [Sweeps -> SweepCalls]
        BY <1>0, FlagTypes
      <4>2. sweep' = [others EXCEPT ![t] =
               IF sweep[t].uncertain /\ ~sweep[t].failed
                 THEN [sweep[t] EXCEPT !.pc = "clear", !.closing = {}]
                 ELSE IdleSweep]
        BY <1>6 DEF Commit
      <4>3. sweep'[s] = others[s]
        BY <2>1, <4>1, <4>2, Zenon
      <4> QED BY <4>3
    <3> QED BY <1>0, <3>1, FlagsKeep, Zenon
  <2> QED BY <1>6, <2>1
<1>7. CASE UNCHANGED vars
  BY <1>1, <1>7 DEF vars
<1>8. CASE OrderStep
  BY <1>1, <1>2, <1>8 DEF OrderStep, Place, SendReturned, SendReturnUnwritten,
                          Ends, Age, AnswerOrder
<1>9. CASE LineStep
  BY <1>1, <1>2, <1>3, <1>9, Zenon
     DEF LineStep, ReadRequest, AnswerEnd, Callback, CallbackUnwritten,
         LateCallback, StoreLatch
<1>10. CASE FlightStep
  BY <1>1, <1>2, <1>4, <1>10, Zenon
     DEF FlightStep, SnapshotEnd, OtherRead, Lose, Redial, Replace
<1> QED BY <1>5, <1>6, <1>7, <1>8, <1>9, <1>10, Zenon DEF Next

\* An order that is over stays over; only a callback makes a row accepted.
LEMMA Monotone ==
    ASSUME TypeOK, Spoken, [Next]_vars
    PROVE  /\ \A o \in Orders : broker[o] = "ended" => broker'[o] = "ended"
           /\ ~Callback =>
                 \A o \in Orders : view'[o] = "accepted" => view[o] = "accepted"
<1>1. CASE broker' = broker /\ view' = view
  BY <1>1
<1>2. ASSUME NEW o \in Orders, Place(o)
      PROVE  /\ \A p \in Orders : broker[p] = "ended" => broker'[p] = "ended"
             /\ \A p \in Orders : view'[p] = "accepted" => view[p] = "accepted"
  <2>1. broker' = [broker EXCEPT ![o] = "working"]
        /\ view' = [view EXCEPT ![o] = "sent"] /\ view[o] = "none"
    BY <1>2 DEF Place
  <2>2. broker[o] = "unsent"
    BY <2>1 DEF Spoken
  <2> QED BY <2>1, <2>2 DEF TypeOK
<1>3. ASSUME NEW o \in Orders, Ends(o)
      PROVE  /\ \A p \in Orders : broker[p] = "ended" => broker'[p] = "ended"
             /\ view' = view
  BY <1>3 DEF Ends, TypeOK
<1>4. CASE Callback
  BY <1>4 DEF Callback
<1>5. ASSUME NEW s \in Sweeps, Commit(s)
      PROVE  /\ broker' = broker
             /\ \A p \in Orders : view'[p] = "accepted" => view[p] = "accepted"
  BY <1>5 DEF Commit
<1>6. CASE Still \/ Started \/ Replace \/ FlightDone \/ FlightPoisons
             \/ FlightFails
  BY <1>1, <1>6, Zenon DEF Still, Started, Replace, FlightDone, FlightPoisons,
                    FlightFails, world
<1>7. CASE ReadRequest \/ AnswerEnd \/ CallbackUnwritten \/ LateCallback
             \/ SnapshotEnd
  BY <1>1, <1>7 DEF ReadRequest, AnswerEnd, CallbackUnwritten, LateCallback,
                    SnapshotEnd
<1>8. ASSUME NEW o \in Orders, SendReturnUnwritten(o) \/ AnswerOrder(o)
      PROVE  broker' = broker /\ view' = view
  BY <1>8, Zenon DEF SendReturnUnwritten, AnswerOrder
<1> QED BY <1>1, <1>2, <1>3, <1>4, <1>5, <1>6, <1>7, <1>8, StepCases

-----------------------------------------------------------------------------
(* A complete list is complete                                             *)

\* A callback, written or not, drifts every sweep that holds a list.
LEMMA CallbackDrifts ==
    ASSUME TypeOK, Callback \/ CallbackUnwritten, NEW s \in Sweeps,
           sweep'[s].pc \in {"got", "read"}
    PROVE  sweep'[s].replaced \/ sweep'[s].drifted
<1>1. sweep \in [Sweeps -> SweepCalls]
      /\ Drifted(sweep) \in [Sweeps -> SweepCalls]
  BY FlagTypes DEF TypeOK
<1>2. Keeps(sweep[s], Drifted(sweep)[s]) /\ Keeps(Drifted(sweep)[s], sweep'[s])
  BY <1>1, FlagsKeep, Zenon DEF Callback, CallbackUnwritten
<1>3. sweep[s].pc \in {"got", "read"}
  BY <1>2, Zenon DEF Keeps
<1>4. Drifted(sweep)[s].replaced \/ Drifted(sweep)[s].drifted
  BY <1>1, <1>3, FlagsKeep
<1> QED BY <1>2, <1>4 DEF Keeps

\* Every step keeps what the flight and the sweeps leave out over.
LEMMA CompleteStep ==
    ASSUME TypeOK, Spoken, OneRequest, Answered, Complete, [Next]_vars
    PROVE  Complete'
<1>0. sweep \in [Sweeps -> SweepCalls]
  BY Zenon DEF TypeOK
<1>1. CASE Callback \/ CallbackUnwritten
  <2>1. flight'.state = "ended" => flight'.moved
    BY <1>1, HeadFlight
  <2> QED BY <1>1, <2>1, CallbackDrifts, Zenon DEF Complete, Stable
<1>2. CASE ~Callback /\ ~CallbackUnwritten
  <2>1. /\ \A o \in Orders : broker[o] = "ended" => broker'[o] = "ended"
        /\ \A o \in Orders : view'[o] = "accepted" => view[o] = "accepted"
    BY <1>2, Monotone
  <2>2. ASSUME flight'.state = "ended", ~flight'.moved,
               NEW o \in Orders \ flight'.orders, view'[o] = "accepted"
        PROVE  broker'[o] = "ended"
    <3>1. CASE /\ flight.state = "ended" /\ ~flight.moved
               /\ flight.orders = flight'.orders
      BY <2>1, <2>2, <3>1 DEF Complete
    <3>2. CASE SnapshotEnd /\ flight.state = "open"
      <4>1. line # <<>> /\ Head(line) = <<"end">> /\ broker' = broker
            /\ view' = view /\ line' = Tail(line)
        BY <3>2 DEF SnapshotEnd
      <4>2. 1 \in 1..Len(line) /\ line[1] = <<"end">>
        BY <4>1, LineTail
      <4>3. flight'.orders = flight.orders
        BY <3>2 DEF SnapshotEnd, TypeOK, Flights
      <4>4. ~OpenBefore(o, 1)
        BY DEF OpenBefore
      <4>5. broker[o] # "working"
        BY <2>2, <3>2, <4>1, <4>2, <4>3, <4>4 DEF Answered
      <4>6. broker[o] # "unsent"
        BY <2>2, <4>1 DEF Spoken
      <4> QED BY <4>1, <4>5, <4>6 DEF TypeOK
    <3>3. CASE flight' = flight \/ (SnapshotEnd /\ flight.state # "open")
      <4>1. flight' = flight
        BY <3>3, Zenon DEF SnapshotEnd
      <4> QED BY <2>2, <3>1, <4>1
    <3>4. CASE flight' = FlightFailed(flight)
      BY <2>2, <3>1, <3>4, FlightFields, Zenon DEF TypeOK
    <3>5. CASE flight' = NoFlight
      BY <2>2, <3>5 DEF NoFlight
    <3>6. CASE Started
      BY <2>2, <3>6 DEF Started, StartFlight, NoFlight
    <3>7. CASE Still \/ ReadRequest \/ AnswerEnd \/ LateCallback \/ FlightDone
                 \/ FlightPoisons \/ FlightFails \/ Replace
      BY <3>3, <3>4, <3>5, <3>7, Zenon
         DEF Still, ReadRequest, AnswerEnd, LateCallback, FlightDone,
             FlightPoisons, FlightFails, Replace
    <3>8. ASSUME NEW p \in Orders,
                 Place(p) \/ SendReturnUnwritten(p) \/ Ends(p) \/ AnswerOrder(p)
          PROVE  flight' = flight \/ flight' = FlightFailed(flight)
      BY <3>8 DEF Place, SendReturnUnwritten, Ends, AnswerOrder
    <3>9. ASSUME NEW s \in Sweeps, Commit(s)
          PROVE  flight' = flight
      BY <3>9 DEF Commit
    <3> QED BY <1>2, <3>2, <3>3, <3>4, <3>6, <3>7, <3>8, <3>9, StepCases
  <2>3. ASSUME NEW s \in Sweeps, sweep'[s].pc = "got", ~sweep'[s].replaced,
               ~sweep'[s].drifted, NEW o \in Orders \ sweep'[s].snap,
               view'[o] = "accepted"
        PROVE  broker'[o] = "ended"
    <3>1. CASE Keeps(sweep[s], sweep'[s])
      BY <2>1, <2>3, <3>1 DEF Keeps, Complete
    <3>2. CASE FlightDone /\ s \in Waiters
      <4>1. sweep'[s] = [sweep[s] EXCEPT !.pc = "got", !.snap = flight.orders,
                                         !.drifted = flight.moved]
        BY <3>2, Zenon DEF FlightDone
      <4>2. sweep'[s].snap = flight.orders /\ sweep'[s].drifted = flight.moved
        BY <1>0, <4>1 DEF SweepCalls
      <4>3. flight.state = "ended"
        BY <3>2, Zenon DEF FlightDone
      <4> QED BY <2>1, <2>3, <4>2, <4>3 DEF Complete
    <3>3. CASE sweep'[s] = IdleSweep
      BY <2>3, <3>3 DEF IdleSweep
    <3>4. CASE Join(s) \/ Reload(s) \/ ClearLatch(s)
      <4>1. sweep'[s].pc \in {"waiting", "read", "recheck"}
        BY <1>0, <3>4 DEF Join, Reload, ClearLatch, SweepCalls
      <4> QED BY <2>3, <4>1
    <3>5. CASE Commit(s)
      <4>1. sweep'[s].pc \in {"clear", "idle"}
        BY <3>5, CommitSweep, Zenon
      <4> QED BY <2>3, <4>1
    <3> QED BY <2>3, <3>1, <3>2, <3>3, <3>4, <3>5, SweepCases, Zenon
  <2>4. ASSUME NEW s \in Sweeps, sweep'[s].pc = "read", Stable(sweep'[s]),
               NEW o \in sweep'[s].closing, sweep' \in [Sweeps -> SweepCalls]
        PROVE  broker'[o] = "ended"
    <3>0. o \in Orders
      BY <2>4 DEF SweepCalls
    <3>1. CASE Keeps(sweep[s], sweep'[s])
      BY <2>1, <2>4, <3>0, <3>1, Zenon DEF Keeps, Complete, Stable
    <3>2. CASE Reload(s)
      <4>1. /\ sweep'[s].closing = {p \in Orders \ sweep[s].snap :
                                       Closable(p, sweep[s].uncertain)}
            /\ sweep'[s].replaced = sweep[s].replaced
            /\ sweep'[s].drifted = sweep[s].drifted
            /\ sweep[s].pc = "got"
        BY <1>0, <3>2, ReloadSweep
      <4>2. view[o] = "accepted" /\ o \notin sweep[s].snap
        BY <2>4, <4>1 DEF Closable
      <4> QED BY <2>1, <2>4, <3>0, <4>1, <4>2, Zenon DEF Complete, Stable
    <3>3. CASE sweep'[s] = IdleSweep
      BY <2>4, <3>3 DEF IdleSweep
    <3>4. CASE Join(s) \/ ClearLatch(s) \/ (FlightDone /\ s \in Waiters)
      <4>1. sweep'[s].pc \in {"waiting", "recheck", "got"}
        BY <1>0, <3>4, Zenon DEF Join, FlightDone, ClearLatch, SweepCalls
      <4> QED BY <2>4, <4>1
    <3>5. CASE Commit(s)
      <4>1. sweep'[s].pc \in {"clear", "idle"}
        BY <3>5, CommitSweep
      <4> QED BY <2>4, <4>1
    <3> QED BY <2>4, <3>1, <3>2, <3>3, <3>4, <3>5, SweepCases, Zenon
  <2>5. sweep' \in [Sweeps -> SweepCalls]
    <3>1. TypeOK'
      BY TypeStep
    <3> QED BY <3>1 DEF TypeOK
  <2> QED BY <2>2, <2>3, <2>4, <2>5 DEF Complete
<1> QED BY <1>1, <1>2

\* A step closes a row only of an order that is over.
LEMMA AbsentStep ==
    ASSUME TypeOK, Spoken, Complete, AbsentIsGone, [Next]_vars
    PROVE  AbsentIsGone'
<1> SUFFICES ASSUME NEW o \in Orders, view'[o] = "closed"
             PROVE  broker'[o] = "ended"
  BY DEF AbsentIsGone
<1>1. broker[o] = "ended" => broker'[o] = "ended"
  BY Monotone
<1>2. CASE view[o] = "closed"
  BY <1>1, <1>2 DEF AbsentIsGone
<1>3. CASE Callback /\ view[o] # "closed"
  <2>1. /\ Head(line)[2] \in Orders /\ Len(line) > 0
        /\ line[1] = <<Head(line)[1], Head(line)[2]>>
    BY <1>3, HeadCallback, SMTT(30) DEF Callback
  <2>2. view' = [view EXCEPT ![Head(line)[2]] =
                    RowAfter(Head(line)[1], view[Head(line)[2]])]
    BY <1>3, ZenonT(30) DEF Callback
  <2>3. Head(line)[2] = o /\ Head(line)[1] = "ended"
    <3>1. view'[o] = "closed" /\ DOMAIN view = Orders
      BY Zenon DEF TypeOK
    <3>2. Head(line)[2] = o
      BY <1>3, <2>1, <2>2, <3>1, Zenon
    <3>3. RowAfter(Head(line)[1], view[o]) = "closed"
      BY <2>2, <3>1, <3>2, Zenon
    <3> QED BY <1>3, <3>2, <3>3 DEF RowAfter
  <2>4. 1 \in 1..Len(line) /\ line[1] = <<"ended", o>>
    BY <2>1, <2>3, SMTT(30) DEF TypeOK
  <2> QED BY <1>1, <2>4, Zenon DEF Spoken
<1>4. ASSUME NEW s \in Sweeps, Commit(s), view[o] # "closed"
      PROVE  broker'[o] = "ended"
  <2>1. o \in sweep[s].closing /\ sweep[s].pc = "read" /\ Stable(sweep[s])
    BY <1>4 DEF Commit
  <2> QED BY <1>1, <2>1 DEF Complete
<1>5. ASSUME NEW p \in Orders,
             Place(p) \/ SendReturnUnwritten(p) \/ Ends(p) \/ AnswerOrder(p)
      PROVE  view[o] = "closed"
  BY <1>5 DEF Place, SendReturnUnwritten, Ends, AnswerOrder, TypeOK
<1>6. CASE Still \/ Started \/ Replace \/ FlightDone \/ FlightPoisons
             \/ FlightFails
  <2>1. view' = view
    BY <1>6, Zenon DEF Still, Started, Replace, FlightDone, FlightPoisons,
                    FlightFails, world
  <2> QED BY <1>2, <2>1
<1>7. CASE ReadRequest \/ AnswerEnd \/ CallbackUnwritten \/ LateCallback
             \/ SnapshotEnd
  <2>1. view' = view
    BY <1>7 DEF ReadRequest, AnswerEnd, CallbackUnwritten, LateCallback,
                SnapshotEnd
  <2> QED BY <1>2, <2>1
<1> QED BY <1>2, <1>3, <1>4, <1>5, <1>6, <1>7, StepCases

\* The inductive invariant behind AbsentIsGone.
ListInv ==
    /\ TypeOK /\ Spoken /\ OneRequest /\ Answered /\ Complete /\ AbsentIsGone

\* It holds when the daemon starts.
LEMMA ListInit == Init => ListInv
<1> SUFFICES ASSUME Init PROVE ListInv
  OBVIOUS
<1>1. TypeOK
  <2>1. line \in Seq(Messages) /\ faults \in 0..MaxFaults
    BY ReconcileAssumption DEF Init, ReconcileAssumption
  <2>2. /\ broker \in [Orders -> {"unsent", "working", "ended"}]
        /\ view \in [Orders -> {"none", "sent", "accepted", "closed"}]
        /\ sweep \in [Sweeps -> SweepCalls]
    BY IdleTypes DEF Init
  <2>3. request \in Requests /\ flight \in Flights
        /\ poisoned \in BOOLEAN /\ latch \in BOOLEAN
    BY IdleTypes, Zenon DEF Init
  <2>4. /\ aged \subseteq {o \in Orders : view[o] = "accepted"}
        /\ sending \subseteq Orders /\ late \subseteq Callbacks
        /\ marking \subseteq Markers /\ missed \subseteq Orders
    BY DEF Init
  <2> QED BY <2>1, <2>2, <2>3, <2>4 DEF TypeOK
<1>2. Len(line) = 0
  BY DEF Init
<1>3. flight.state = "none" /\ request.state = "none" /\ request.left = {}
  BY DEF Init, NoFlight, NoRequest
<1>4. \A s \in Sweeps : sweep[s].pc = "idle"
  BY Zenon DEF Init, IdleSweep
<1>5. Spoken
  BY <1>2, <1>3 DEF Init, Spoken
<1>6. OneRequest /\ Answered
  BY <1>2, <1>3 DEF OneRequest, NoEnd, Answered
<1>7. Complete
  BY <1>3, <1>4 DEF Complete
<1>8. AbsentIsGone
  BY DEF Init, AbsentIsGone
<1> QED BY <1>1, <1>5, <1>6, <1>7, <1>8 DEF ListInv

\* Every step keeps it.
LEMMA ListStep == ListInv /\ [Next]_vars => ListInv'
<1> SUFFICES ASSUME ListInv, [Next]_vars PROVE ListInv'
  OBVIOUS
<1> USE DEF ListInv
<1>1. TypeOK' /\ OneRequest' /\ Answered'
  BY TypeStep, OneRequestStep, AnsweredStep
<1>2. Spoken' /\ Complete' /\ AbsentIsGone'
  BY SpokenStep, CompleteStep, AbsentStep
<1> QED BY <1>1, <1>2

\* For any orders and sweeps, with connections lost and replaced, requests
\* timed out and appends failed, a row is closed only when its order is over at
\* the broker.
THEOREM RowsCloseOnlyWhenOver == Spec => []AbsentIsGone
<1>1. ListInv => AbsentIsGone
  BY DEF ListInv
<1> QED BY <1>1, ListInit, ListStep, PTL DEF Spec

\* The flight, the sweeps and the messages on the line keep their types through
\* every callback, failure and restart (reconcileOrderJournalWithBroker;
\* runOpenOrderSnapshotFlight).
THEOREM ReconcileTypes == Spec => []TypeOK
<1>1. ListInv => TypeOK
  BY DEF ListInv
<1> QED BY <1>1, ListInit, ListStep, PTL DEF Spec

-----------------------------------------------------------------------------
(* What was missed is told again                                           *)

\* Every step keeps an unfailed flight's answer telling what was missed.
LEMMA RetoldStep ==
    ASSUME TypeOK, Spoken, OneRequest, Retold, [Next]_vars
    PROVE  Retold'
<1>0. Len(line) \in Nat /\ flight \in Flights
  BY DEF TypeOK
<1>1. CASE Still
  BY <1>1, Zenon DEF Still, Retold, OpenBefore
<1>2. ASSUME NEW m \in Messages, m # <<"end">>, line' = Append(line, m),
             request'.state = request.state, flight' = flight,
             missed' = missed,
             \A p \in missed : broker'[p] = "working" => broker[p] = "working",
             \A p \in missed : broker[p] = "ended" => broker'[p] = "ended",
             \A p \in missed : broker'[p] = "working" /\ p \in request.left =>
                p \in request'.left \/ m = <<"open", p>>
      PROVE  Retold'
  <2>1. ASSUME ~flight.failed, flight.state = "open",
               request.state = "answering", NEW p \in missed,
               broker'[p] = "working"
        PROVE  p \in request'.left \/ OpenBefore(p, Len(line) + 1)'
    <3>1. p \in request.left \/ OpenBefore(p, Len(line) + 1)
      BY <1>2, <2>1 DEF Retold
    <3>2. p \in Orders
      BY Zenon DEF TypeOK
    <3> QED BY <1>2, <2>1, <3>1, <3>2, LineAppend
  <2>2. ASSUME ~flight.failed, flight.state = "open", NEW k \in 1..Len(line'),
               line'[k] = <<"end">>, NEW p \in missed, broker'[p] = "working"
        PROVE  OpenBefore(p, k)'
    <3>1. \/ k \in 1..Len(line) /\ line'[k] = line[k]
          \/ k = Len(line) + 1 /\ line'[k] = m
      BY <1>2, LineAppend
    <3>2. k \in 1..Len(line) /\ line[k] = <<"end">> /\ k \in Nat
      BY <1>2, <2>2, <3>1
    <3>3. OpenBefore(p, k)
      BY <1>2, <2>2, <3>2 DEF Retold
    <3>4. p \in Orders
      BY Zenon DEF TypeOK
    <3> QED BY <1>2, <3>2, <3>3, <3>4, LineAppend
  <2> QED BY <1>2, <2>1, <2>2, Zenon DEF Retold
<1>3. ASSUME NEW o \in Orders, Place(o)
      PROVE  Retold'
  <2>1. <<"open", o>> \in Messages /\ <<"open", o>> # <<"end">>
    BY Distinct, Zenon
  <2>2. o \notin missed
    BY <1>3, Zenon DEF Place, Spoken
  <2>3. \A p \in missed : broker'[p] = broker[p]
    BY <1>3, <2>2 DEF Place, TypeOK
  <2> QED BY <1>2, <1>3, <2>1, <2>3 DEF Place
<1>4. ASSUME NEW o \in Orders, Ends(o)
      PROVE  Retold'
  <2>1. <<"ended", o>> \in Messages /\ <<"ended", o>> # <<"end">>
    BY Distinct, Zenon
  <2>2. /\ request'.state = request.state
        /\ \A p \in missed : broker'[p] = "working" =>
              /\ broker[p] = "working"
              /\ p \in request.left => p \in request'.left
        /\ \A p \in missed : broker[p] = "ended" => broker'[p] = "ended"
    BY <1>4 DEF Ends, TypeOK, Requests
  <2> QED BY <1>2, <1>4, <2>1, <2>2 DEF Ends
<1>5. ASSUME NEW o \in Orders, AnswerOrder(o)
      PROVE  Retold'
  <2>1. <<"open", o>> \in Messages /\ <<"open", o>> # <<"end">>
    BY Distinct, Zenon
  <2>2. /\ request'.state = request.state
        /\ \A p \in request.left : p \in request'.left \/ p = o
    BY <1>5 DEF AnswerOrder, TypeOK, Requests
  <2> QED BY <1>2, <1>5, <2>1, <2>2 DEF AnswerOrder
<1>6. ASSUME ~flight'.failed => flight'.state = "none"
      PROVE  Retold'
  BY <1>6 DEF Retold
<1>7. CASE LateCallback \/ \E o \in Orders : SendReturnUnwritten(o)
  <2>1. flight' = FlightFailed(flight)
    BY <1>7, Zenon DEF LateCallback, SendReturnUnwritten
  <2>2. flight'.state = flight.state /\ (flight'.failed <=> flight.state # "none")
    BY <1>0, <2>1, FlightFields, Zenon
  <2> QED BY <1>6, <2>2
<1>8. CASE CallbackUnwritten
  BY <1>6, <1>8, HeadFlight
<1>9. CASE ReadRequest
  <2>1. /\ request'.left = {o \in Orders : broker[o] = "working"}
        /\ broker' = broker /\ line' = line /\ flight' = flight
        /\ missed' = missed
    BY <1>9 DEF ReadRequest
  <2>2. missed \subseteq Orders
    BY DEF TypeOK
  <2> QED BY <2>1, <2>2, Zenon DEF Retold, OpenBefore
<1>10. CASE AnswerEnd
  <2>1. <<"end">> \in Messages /\ line' = Append(line, <<"end">>)
    BY <1>10, Distinct DEF AnswerEnd
  <2>2. /\ request'.state = "none" /\ flight' = flight /\ broker' = broker
        /\ missed' = missed /\ request.state = "answering"
        /\ request.left = {}
    BY <1>10 DEF AnswerEnd, NoRequest
  <2>3. ASSUME ~flight.failed, flight.state = "open", NEW k \in 1..Len(line'),
               line'[k] = <<"end">>, NEW p \in missed, broker[p] = "working"
        PROVE  OpenBefore(p, k)'
    <3>1. k \in Nat /\ p \in Orders
      BY DEF TypeOK
    <3>2. OpenBefore(p, k)
      <4>1. CASE k \in 1..Len(line) /\ line[k] = <<"end">>
        BY <2>3, <4>1 DEF Retold
      <4>2. CASE k = Len(line) + 1
        BY <2>2, <2>3, <4>2, Zenon DEF Retold
      <4> QED BY <2>1, <2>3, <4>1, <4>2, LineAppend, Zenon
    <3> QED BY <2>1, <3>1, <3>2, LineAppend
  <2> QED BY <2>2, <2>3 DEF Retold
<1>11. CASE Callback
  <2>1. line # <<>> /\ line' = Tail(line) /\ request' = request
        /\ broker' = broker /\ missed' = missed \ {Head(line)[2]}
    BY <1>11, Zenon DEF Callback, Dispatched
  <2>2. Head(line)[2] \in Orders /\ line[1] = <<Head(line)[1], Head(line)[2]>>
    BY <1>11, HeadCallback DEF Callback
  <2>3. /\ flight'.state = flight.state /\ flight'.failed = flight.failed
        /\ flight'.orders \subseteq flight.orders \cup {Head(line)[2]}
        /\ flight'.moved <=> flight.state = "ended"
    BY <1>11, HeadFlight
  <2>4. \A p \in missed' : p \in missed /\ p \in Orders /\ line[1] # <<"open", p>>
    BY <2>1, <2>2 DEF TypeOK
  <2>5. ASSUME ~flight.failed, flight.state = "open",
               request.state = "answering", NEW p \in missed',
               broker[p] = "working"
        PROVE  p \in request.left \/ OpenBefore(p, Len(line) + 1)'
    <3>1. p \in request.left \/ OpenBefore(p, Len(line) + 1)
      BY <2>4, <2>5 DEF Retold
    <3>2. CASE OpenBefore(p, Len(line) + 1)
      <4>1. Len(line) \in Nat /\ Len(line') + 1 = Len(line)
        BY <2>1, LineTail
      <4>2. ASSUME NEW k \in Nat, k = Len(line)
            PROVE  OpenBefore(p, k)'
        BY <2>1, <2>4, <3>2, <4>2, LineTail
      <4> QED BY <4>1, <4>2, Zenon DEF OpenBefore
    <3> QED BY <3>1, <3>2, Zenon
  <2>6. ASSUME ~flight.failed, flight.state = "open", NEW k \in 1..Len(line'),
               line'[k] = <<"end">>, NEW p \in missed', broker[p] = "working"
        PROVE  OpenBefore(p, k)'
    <3>1. k \in Nat /\ k + 1 \in 1..Len(line) /\ line[k + 1] = <<"end">>
      BY <2>1, <2>6, LineTail
    <3>2. OpenBefore(p, k + 1)
      BY <2>4, <2>6, <3>1, Zenon DEF Retold
    <3> QED BY <2>1, <2>4, <3>1, <3>2, LineTail, Zenon
  <2>7. ~flight.failed /\ flight.state # "none" =>
           missed' \cap flight'.orders = {}
    BY <2>1, <2>3 DEF Retold
  <2> QED BY <2>1, <2>3, <2>5, <2>6, <2>7, Zenon DEF Retold
<1>12. CASE SnapshotEnd
  <2>1. line # <<>> /\ Head(line) = <<"end">> /\ line' = Tail(line)
        /\ broker' = broker /\ missed' = missed /\ request' = request
    BY <1>12 DEF SnapshotEnd
  <2>2. 1 \in 1..Len(line) /\ line[1] = <<"end">>
    BY <2>1, LineTail
  <2>3. CASE flight.state = "open"
    <3>1. /\ flight'.state = "ended" /\ flight'.failed = flight.failed
          /\ flight'.orders = flight.orders
      BY <1>0, <1>12, <2>3 DEF SnapshotEnd, Flights
    <3>2. ASSUME ~flight.failed, NEW p \in missed
          PROVE  broker[p] = "ended"
      <4>1. ~OpenBefore(p, 1)
        BY SMTT(30) DEF OpenBefore
      <4>2. broker[p] # "working"
        BY <2>2, <2>3, <3>2, <4>1 DEF Retold
      <4>3. p \in Orders /\ view[p] # "none"
        BY Zenon DEF Spoken, TypeOK
      <4> QED BY <4>2, <4>3 DEF Spoken, TypeOK
    <3> QED BY <2>1, <2>3, <3>1, <3>2 DEF Retold
  <2>4. CASE flight.state # "open"
    <3>1. flight' = flight
      BY <1>12, <2>4 DEF SnapshotEnd
    <3> QED BY <2>1, <2>4, <3>1, Zenon DEF Retold
  <2> QED BY <2>3, <2>4
<1>13. CASE FlightDone \/ FlightPoisons \/ FlightFails \/ Replace
  <2>1. flight' = NoFlight
    BY <1>13, Zenon DEF FlightDone, FlightPoisons, FlightFails, Replace
  <2> QED BY <1>6, <2>1 DEF NoFlight
<1>14. CASE Started
  <2>1. /\ request'.state = "asked" /\ line' = line
        /\ flight'.state = "open" /\ flight'.orders = {}
    BY <1>14 DEF Started, StartFlight, NoRequest, NoFlight
  <2>2. NoEnd
    BY <1>14 DEF Started, OneRequest
  <2> QED BY <2>1, <2>2, Zenon DEF Retold, NoEnd
<1>15. ASSUME NEW s \in Sweeps, Commit(s)
       PROVE  Retold'
  <2>1. /\ missed' \subseteq missed /\ broker' = broker /\ line' = line
        /\ flight' = flight /\ request' = request
    BY <1>15 DEF Commit
  <2> QED BY <2>1, Zenon DEF Retold, OpenBefore
<1> QED
  BY <1>1, <1>3, <1>4, <1>5, <1>7, <1>8, <1>9, <1>10, <1>11, <1>12, <1>13,
     <1>14, <1>15, StepCases

-----------------------------------------------------------------------------
(* The latch                                                               *)

\* A fact the daemon is told and does not journal.
Lost ==
    \/ CallbackUnwritten
    \/ LateCallback
    \/ \E o \in Orders : SendReturnUnwritten(o)

\* Only a lost fact adds to what the journal misses.
LEMMA LossOnly ==
    ASSUME TypeOK, Spoken, [Next]_vars, ~Lost
    PROVE  missed' \subseteq missed /\ Unsaid' \subseteq Unsaid
<1>1. ASSUME missed' \subseteq missed,
             \A o \in missed' : view'[o] = view[o],
             \A o \in missed' : broker[o] = "ended" => broker'[o] = "ended"
      PROVE  missed' \subseteq missed /\ Unsaid' \subseteq Unsaid
  BY <1>1 DEF Unsaid
<1>2. \A o \in missed : o \in Orders /\ (broker[o] = "ended" => broker'[o] = "ended")
  BY Monotone DEF TypeOK
<1>3. CASE missed' = missed /\ view' = view
  BY <1>1, <1>2, <1>3, Zenon
<1>4. ASSUME NEW o \in Orders, Place(o)
      PROVE  missed' = missed /\ \A p \in missed : view'[p] = view[p]
  BY <1>4 DEF Place, Spoken, TypeOK
<1>5. CASE Callback
  <2>1. missed' = missed \ {Head(line)[2]}
        /\ view' = [view EXCEPT ![Head(line)[2]] =
                        RowAfter(Head(line)[1], view[Head(line)[2]])]
    BY <1>5, Zenon DEF Callback
  <2>2. \A p \in missed' : view'[p] = view[p]
    BY <1>2, <2>1, Zenon DEF TypeOK
  <2> QED BY <1>1, <1>2, <2>1, <2>2, Zenon
<1>6. ASSUME NEW s \in Sweeps, Commit(s)
      PROVE  missed' \subseteq missed /\ \A p \in missed' : view'[p] = view[p]
  BY <1>2, <1>6 DEF Commit, TypeOK
<1>7. CASE Still \/ Started \/ Replace \/ FlightDone \/ FlightPoisons
             \/ FlightFails
  BY <1>3, <1>7, Zenon DEF Still, Started, Replace, FlightDone, FlightPoisons,
                    FlightFails, world
<1>8. CASE ReadRequest \/ AnswerEnd \/ SnapshotEnd
  BY <1>3, <1>8 DEF ReadRequest, AnswerEnd, SnapshotEnd
<1>9. ASSUME NEW o \in Orders, Ends(o) \/ AnswerOrder(o)
      PROVE  missed' = missed /\ view' = view
  BY <1>9, Zenon DEF Ends, AnswerOrder
<1> QED BY <1>1, <1>2, <1>3, <1>4, <1>5, <1>6, <1>7, <1>8, <1>9, StepCases, Zenon DEF Lost

\* A lost fact moves the failure counter under every sweep that compares it,
\* and the flight, and leaves a mark under way.
LEMMA LossFails ==
    ASSUME TypeOK, Lost, NEW s \in Sweeps
    PROVE  /\ Keeps(sweep[s], sweep'[s])
           /\ sweep[s].pc \in Sampled /\ sweep[s].uncertain => sweep'[s].failed
           /\ marking' # {}
<1>1. sweep \in [Sweeps -> SweepCalls]
      /\ Drifted(sweep) \in [Sweeps -> SweepCalls]
  BY FlagTypes DEF TypeOK
<1>2. CASE CallbackUnwritten
  <2>1. sweep' = Failed(Drifted(sweep)) /\ marking' # {}
    BY <1>2, Zenon DEF CallbackUnwritten
  <2>2. Keeps(sweep[s], Drifted(sweep)[s]) /\ Keeps(Drifted(sweep)[s], sweep'[s])
    BY <1>1, <2>1, FlagsKeep, Zenon
  <2>3. sweep[s].pc \in Sampled /\ sweep[s].uncertain =>
           Drifted(sweep)[s].pc \in Sampled /\ Drifted(sweep)[s].uncertain
    BY <2>2, Zenon DEF Keeps
  <2> QED BY <1>1, <2>1, <2>2, <2>3, KeepsOn, FlagsKeep, Zenon
<1>3. CASE LateCallback \/ \E o \in Orders : SendReturnUnwritten(o)
  <2>1. sweep' = Failed(sweep) /\ marking' # {}
    BY <1>3 DEF LateCallback, SendReturnUnwritten
  <2> QED BY <1>1, <2>1, FlagsKeep, Zenon
<1> QED BY <1>2, <1>3, Zenon DEF Lost

\* A callback leaves every sweep where it was.
LEMMA CallbackKeeps ==
    ASSUME TypeOK, Callback, NEW s \in Sweeps
    PROVE  Keeps(sweep[s], sweep'[s])
<1>1. sweep \in [Sweeps -> SweepCalls]
      /\ Drifted(sweep) \in [Sweeps -> SweepCalls]
  BY FlagTypes, Zenon DEF TypeOK
<1>2. sweep' = Appended(Drifted(sweep))
  BY Zenon DEF Callback
<1>3. Keeps(sweep[s], Drifted(sweep)[s]) /\ Keeps(Drifted(sweep)[s], sweep'[s])
  BY <1>1, <1>2, FlagsKeep, Zenon
<1> QED BY <1>3, KeepsOn, Zenon

\* Every step keeps what the unfailed sweeps know.
LEMMA CoveredStep ==
    ASSUME ~MayJoinLate, TypeOK, Spoken, Retold, Covered, [Next]_vars
    PROVE  Covered'
<1>0. sweep \in [Sweeps -> SweepCalls] /\ flight \in Flights
  BY DEF TypeOK
<1>1. CASE Lost
  <2>1. ASSUME NEW s \in Sweeps, sweep'[s].pc \in Sampled, sweep'[s].uncertain
        PROVE  sweep'[s].failed
    <3>1. sweep[s].pc \in Sampled /\ sweep[s].uncertain
      BY <1>1, <2>1, LossFails DEF Keeps
    <3> QED BY <1>1, <3>1, LossFails, Zenon
  <2>2. ASSUME NEW s \in Sweeps, sweep'[s].pc \in {"clear", "recheck"}
        PROVE  sweep'[s].uncertain
    BY <1>1, <2>2, LossFails, Zenon DEF Keeps, Covered
  <2>3. {"waiting", "got", "read", "clear", "recheck"} \subseteq Sampled
    BY DEF Sampled
  <2> QED BY <2>1, <2>2, <2>3, Zenon DEF Covered, Unfailed
<1>2. CASE Callback
  <2>1. ~Committing
    BY <1>2 DEF Callback, Dispatched
  <2>2. \A s \in Sweeps : sweep'[s].pc \notin {"clear", "recheck"}
    BY <1>2, <2>1, CallbackKeeps, SMTT(30) DEF Committing, Live, Keeps
  <2>3. \A s \in Sweeps : sweep'[s].pc \in {"got", "read"} =>
           sweep'[s].replaced \/ sweep'[s].drifted
    BY <1>2, CallbackDrifts
  <2>4. flight'.state = flight.state /\ flight'.failed = flight.failed
    BY <1>2, HeadFlight, Zenon
  <2>5. ASSUME NEW s \in Sweeps, sweep'[s].pc = "waiting", Unfailed(sweep'[s])
        PROVE  flight'.state # "none" /\ ~flight'.failed
    BY <1>2, <2>4, <2>5, CallbackKeeps, Zenon DEF Keeps, Unfailed, Covered
  <2> QED BY <2>2, <2>3, <2>5, Zenon DEF Covered, Unfailed, Stable
<1>3. CASE Replace
  <2>1. sweep' = Replaced(sweep) /\ ~Committing
    BY <1>3 DEF Replace
  <2>2. \A s \in Sweeps : /\ Keeps(sweep[s], sweep'[s])
                          /\ sweep'[s].pc \in Sampled => sweep'[s].replaced
    BY <1>0, <2>1, FlagsKeep, ZenonT(30) DEF Keeps
  <2>3. \A s \in Sweeps : sweep'[s].pc \notin {"clear", "recheck"}
    BY <2>1, <2>2, Zenon DEF Committing, Live, Keeps
  <2>4. {"waiting", "got", "read"} \subseteq Sampled
    BY DEF Sampled
  <2> QED BY <2>2, <2>3, <2>4, Zenon DEF Covered, Unfailed
<1>4. CASE ~Lost /\ ~Callback /\ ~Replace
  <2>1. /\ missed' \subseteq missed /\ Unsaid' \subseteq Unsaid
        /\ \A o \in missed : /\ o \in Orders
                             /\ broker[o] = "ended" => broker'[o] = "ended"
                             /\ view'[o] = "accepted" => view[o] = "accepted"
    BY <1>4, LossOnly, Monotone, Zenon DEF TypeOK
  <2>2. ASSUME NEW s \in Sweeps, sweep'[s].pc = "waiting", Unfailed(sweep'[s])
        PROVE  flight'.state # "none" /\ ~flight'.failed
    <3>1. CASE Keeps(sweep[s], sweep'[s])
      <4>1. /\ sweep[s].pc = "waiting" /\ ~sweep[s].replaced
            /\ flight.state # "none" /\ ~flight.failed
        BY <2>2, <3>1 DEF Keeps, Unfailed, Covered
      <4>2. s \in Waiters
        BY <4>1 DEF Waiters, Live
      <4>3. CASE FlightDone \/ FlightPoisons \/ FlightFails
        <5>1. sweep'[s] = IdleSweep
              \/ sweep'[s] = [sweep[s] EXCEPT !.pc = "got", !.snap = flight.orders,
                                               !.drifted = flight.moved]
          BY <4>2, <4>3, Zenon DEF FlightDone, FlightPoisons, FlightFails
        <5>2. sweep[s] \in SweepCalls
          BY <1>0
        <5>3. [sweep[s] EXCEPT !.pc = "got", !.snap = flight.orders,
                               !.drifted = flight.moved].pc = "got"
              /\ IdleSweep.pc = "idle"
          BY <5>2 DEF IdleSweep, SweepCalls
        <5>4. sweep'[s].pc \in {"got", "idle"}
          BY <5>1, <5>3, Zenon
        <5> QED BY <2>2, <5>4
      <4>4. CASE flight' = flight
        BY <4>1, <4>4
      <4>5. CASE SnapshotEnd
        BY <1>0, <4>1, <4>5 DEF SnapshotEnd, Flights
      <4>6. CASE Started
        BY <4>1, <4>6 DEF Started
      <4>7. CASE Still \/ ReadRequest \/ AnswerEnd
                   \/ \E t \in Sweeps : Commit(t)
        BY <4>4, <4>7, Zenon DEF Still, ReadRequest, AnswerEnd, Commit
      <4>8. CASE \E o \in Orders : Place(o) \/ Ends(o) \/ AnswerOrder(o)
        BY <4>4, <4>8 DEF Place, Ends, AnswerOrder
      <4> QED BY <1>4, <4>3, <4>5, <4>6, <4>7, <4>8, StepCases, Zenon DEF Lost
    <3>2. CASE Join(s)
      BY <3>2, Zenon DEF Join, StartFlight, NoFlight
    <3>3. CASE sweep'[s] = IdleSweep
      BY <2>2, <3>3 DEF IdleSweep
    <3>4. CASE Reload(s) \/ ClearLatch(s) \/ (FlightDone /\ s \in Waiters)
      <4>1. sweep'[s].pc \in {"read", "recheck", "got"}
        BY <1>0, <3>4, ZenonT(30) DEF Reload, FlightDone, ClearLatch, SweepCalls
      <4> QED BY <2>2, <4>1
    <3>5. CASE Commit(s)
      <4>1. sweep'[s].pc \in {"clear", "idle"}
        BY <3>5, CommitSweep
      <4> QED BY <2>2, <4>1
    <3> QED BY <2>2, <3>1, <3>2, <3>3, <3>4, <3>5, SweepCases, Zenon
  <2>3. ASSUME NEW s \in Sweeps, sweep'[s].pc = "got", Unfailed(sweep'[s]),
               ~sweep'[s].drifted, NEW o \in missed'
        PROVE  broker'[o] = "ended" /\ o \notin sweep'[s].snap
    <3>1. CASE Keeps(sweep[s], sweep'[s])
      BY <2>1, <2>3, <3>1, Zenon DEF Keeps, Unfailed, Covered
    <3>2. CASE FlightDone /\ s \in Waiters
      <4>1. sweep'[s] = [sweep[s] EXCEPT !.pc = "got", !.snap = flight.orders,
                                         !.drifted = flight.moved]
        BY <3>2, Zenon DEF FlightDone
      <4>2. /\ sweep'[s].snap = flight.orders
            /\ sweep'[s].drifted = flight.moved
            /\ Unfailed(sweep[s]) /\ sweep[s].pc = "waiting"
        BY <1>0, <2>3, <3>2, <4>1 DEF SweepCalls, Unfailed, Waiters, Live
      <4>3. flight.state = "ended" /\ ~flight.failed
        BY <3>2, <4>2, Zenon DEF FlightDone, Covered
      <4> QED BY <2>1, <2>3, <4>2, <4>3, Zenon DEF Retold
    <3>3. CASE sweep'[s] = IdleSweep
      BY <2>3, <3>3 DEF IdleSweep
    <3>4. CASE Join(s) \/ Reload(s) \/ ClearLatch(s)
      <4>1. sweep'[s].pc \in {"waiting", "read", "recheck"}
        BY <1>0, <3>4 DEF Join, Reload, ClearLatch, SweepCalls
      <4> QED BY <2>3, <4>1
    <3>5. CASE Commit(s)
      <4>1. sweep'[s].pc \in {"clear", "idle"}
        BY <3>5, CommitSweep
      <4> QED BY <2>3, <4>1
    <3> QED BY <2>3, <3>1, <3>2, <3>3, <3>4, <3>5, SweepCases, Zenon
  <2>4. ASSUME NEW s \in Sweeps, sweep'[s].pc = "read", Unfailed(sweep'[s]),
               Stable(sweep'[s]), NEW o \in missed'
        PROVE  /\ broker'[o] = "ended"
               /\ view'[o] = "accepted" => o \in sweep'[s].closing
    <3>1. CASE Keeps(sweep[s], sweep'[s])
      BY <2>1, <2>4, <3>1 DEF Keeps, Unfailed, Stable, Covered
    <3>2. CASE Reload(s)
      <4>1. /\ sweep'[s].closing = {p \in Orders \ sweep[s].snap :
                                       Closable(p, sweep[s].uncertain)}
            /\ Unfailed(sweep[s]) /\ ~sweep[s].drifted
            /\ sweep[s].pc = "got"
        BY <1>0, <2>4, <3>2, ReloadSweep, Zenon DEF Unfailed, Stable
      <4>2. broker[o] = "ended" /\ o \notin sweep[s].snap
        BY <2>1, <2>4, <4>1, Zenon DEF Covered
      <4> QED BY <2>1, <2>4, <4>1, <4>2, Zenon DEF Closable, Unfailed
    <3>3. CASE sweep'[s] = IdleSweep
      BY <2>4, <3>3 DEF IdleSweep
    <3>4. CASE Join(s) \/ ClearLatch(s) \/ (FlightDone /\ s \in Waiters)
      <4>1. sweep'[s].pc \in {"waiting", "recheck", "got"}
        BY <1>0, <3>4, Zenon DEF Join, FlightDone, ClearLatch, SweepCalls
      <4> QED BY <2>4, <4>1
    <3>5. CASE Commit(s)
      <4>1. sweep'[s].pc \in {"clear", "idle"}
        BY <3>5, CommitSweep
      <4> QED BY <2>4, <4>1
    <3> QED BY <2>4, <3>1, <3>2, <3>3, <3>4, <3>5, SweepCases, ZenonT(30)
  <2>5. ASSUME NEW s \in Sweeps, sweep'[s].pc \in {"clear", "recheck"}
        PROVE  sweep'[s].uncertain /\ (~sweep'[s].failed => Unsaid' = {})
    <3>1. CASE Keeps(sweep[s], sweep'[s])
      BY <2>1, <2>5, <3>1, Zenon DEF Keeps, Covered
    <3>2. CASE ClearLatch(s)
      <4>1. /\ sweep[s].pc = "clear"
            /\ sweep'[s].uncertain = sweep[s].uncertain
            /\ sweep'[s].failed = sweep[s].failed
        BY <1>0, <3>2 DEF ClearLatch, SweepCalls
      <4> QED BY <2>1, <4>1, Zenon DEF Covered
    <3>3. CASE Commit(s)
      <4>1. sweep'[s].uncertain /\ sweep[s].uncertain /\ ~sweep[s].failed
        BY <2>5, <3>3, CommitSweep
      <4>2. /\ sweep[s].pc = "read" /\ Stable(sweep[s])
            /\ missed' = missed \ sweep[s].closing /\ broker' = broker
            /\ view' = [o \in Orders |->
                          IF o \in sweep[s].closing THEN "closed" ELSE view[o]]
        BY <3>3, Zenon DEF Commit
      <4>3. ASSUME NEW o \in missed'
            PROVE  view'[o] = "sent" /\ broker'[o] = "ended"
        <5>1. /\ broker[o] = "ended"
              /\ view[o] = "accepted" => o \in sweep[s].closing
          BY <4>1, <4>2, Zenon DEF Covered, Unfailed, Stable
        <5>2. o \notin sweep[s].closing /\ o \in missed /\ o \in Orders
          BY <2>1, <4>2
        <5>3. view[o] = "sent"
          BY <5>1, <5>2, Zenon DEF Spoken
        <5> QED BY <4>2, <5>1, <5>2, <5>3, Zenon
      <4>4. Unsaid' = {}
        BY <4>3, Zenon DEF Unsaid
      <4> QED BY <4>1, <4>4
    <3>4. CASE sweep'[s] = IdleSweep
      BY <2>5, <3>4 DEF IdleSweep
    <3>5. CASE Join(s) \/ Reload(s) \/ (FlightDone /\ s \in Waiters)
      <4>1. Join(s) => sweep'[s].pc = "waiting"
        BY <1>0, Zenon DEF Join, SweepCalls
      <4>2. Reload(s) => sweep'[s].pc = "read"
        BY <1>0, ReloadSweep
      <4>3. ASSUME FlightDone, s \in Waiters
            PROVE  sweep'[s].pc = "got"
        <5>1. sweep'[s] = [sweep[s] EXCEPT !.pc = "got", !.snap = flight.orders,
                                           !.drifted = flight.moved]
          BY <4>3, Zenon DEF FlightDone
        <5> QED BY <1>0, <5>1 DEF SweepCalls
      <4> QED BY <2>5, <3>5, <4>1, <4>2, <4>3
    <3> QED BY <2>5, <3>1, <3>2, <3>3, <3>4, <3>5, SweepCases, Zenon
  <2> QED BY <2>2, <2>3, <2>4, <2>5, Zenon DEF Covered
<1> QED BY <1>1, <1>2, <1>3, <1>4

\* Which steps reach the latch and the marks.
LEMMA LatchCases ==
    ASSUME [Next]_vars, ~Lost
    PROVE  \/ latch' = latch /\ marking' = marking
           \/ \E m \in Markers : StoreLatch(m)
           \/ \E s \in Sweeps : ClearLatch(s)
           \/ \E s \in Sweeps : Recheck(s)
<1>1. CASE UNCHANGED vars
  BY <1>1 DEF vars
<1>2. CASE OrderStep
  BY <1>2, Zenon DEF OrderStep, Lost, Place, SendReturned, Ends, Age, AnswerOrder
<1>3. CASE LineStep
  BY <1>3 DEF LineStep, Lost, ReadRequest, AnswerEnd, Callback
<1>4. CASE FlightStep
  BY <1>4, Zenon DEF FlightStep, SnapshotEnd, FlightDone, FlightPoisons, FlightFails,
              OtherRead, Lose, Redial, Replace
<1>5. ASSUME NEW s \in Sweeps, SweepStep(s), ~ClearLatch(s), ~Recheck(s)
      PROVE  latch' = latch /\ marking' = marking
  BY <1>5, Zenon DEF SweepStep, Begin, Sample, Join, Unavailable, GiveUp, Reload,
              Drift, Refuse, Commit
<1> QED BY <1>1, <1>2, <1>3, <1>4, <1>5 DEF Next

\* A sweep about to re-check does nothing else.
LEMMA RecheckKeeps ==
    ASSUME TypeOK, [Next]_vars, NEW s \in Sweeps, sweep[s].pc = "recheck",
           ~Recheck(s)
    PROVE  Keeps(sweep[s], sweep'[s])
<1>0. sweep \in [Sweeps -> SweepCalls] /\ Keeps(sweep[s], sweep[s])
  BY DEF TypeOK, Keeps
<1>1. ~Join(s) /\ ~Reload(s) /\ ~ClearLatch(s) /\ ~Commit(s) /\ s \notin Waiters
  BY DEF Join, Reload, ClearLatch, Commit, Waiters, Live
<1>2. CASE sweep'[s] = IdleSweep \/ sweep'[s].pc \in {"begun", "sampled"}
  <2>1. sweep'[s].pc \in {"idle", "begun", "sampled"}
    BY <1>2 DEF IdleSweep
  <2>2. ~Keeps(sweep[s], sweep'[s])
    BY <2>1, Zenon DEF Keeps
  <2>3. CASE sweep'[s] = sweep[s]
    BY <1>0, <2>2, <2>3
  <2>4. CASE FlightDone \/ FlightPoisons \/ FlightFails
    BY <1>0, <1>1, <2>2, <2>4, Zenon DEF FlightDone, FlightPoisons, FlightFails
  <2>5. CASE Callback
    BY <2>2, <2>5, CallbackKeeps, Zenon
  <2>6. CASE Lost
    BY <2>2, <2>6, LossFails, Zenon
  <2>7. CASE sweep' = Appended(sweep) \/ sweep' = Replaced(sweep)
    BY <1>0, <2>2, <2>7, FlagsKeep, Zenon
  <2>8. ASSUME NEW t \in Sweeps, SweepStep(t)
        PROVE  FALSE
    <3>1. CASE t # s /\ ~Commit(t)
      <4>1. sweep'[s] = sweep[s]
        BY <1>0, <2>8, <3>1, Zenon
           DEF SweepStep, Begin, Sample, Join, Unavailable, GiveUp, Reload,
               Drift, Refuse, ClearLatch, Recheck
      <4> QED BY <1>0, <2>2, <4>1
    <3>2. CASE t = s
      BY <1>1, <2>8, <3>2, Zenon DEF SweepStep, Begin, Sample, Unavailable, GiveUp, Drift
    <3>3. CASE Commit(t)
      BY <3>3 DEF Commit, Committing, Live
    <3> QED BY <3>1, <3>2, <3>3
  <2>9. CASE OrderStep
    BY <2>3, <2>6, <2>7, <2>9, Zenon
       DEF OrderStep, Lost, Place, SendReturned, Ends, Age, AnswerOrder
  <2>10. CASE LineStep
    BY <2>3, <2>5, <2>6, <2>10, Zenon
       DEF LineStep, Lost, ReadRequest, AnswerEnd, StoreLatch
  <2>11. CASE FlightStep
    BY <2>3, <2>4, <2>7, <2>11
       DEF FlightStep, SnapshotEnd, OtherRead, Lose, Redial, Replace
  <2> QED BY <2>3, <2>8, <2>9, <2>10, <2>11, Zenon DEF Next, vars
<1> QED BY <1>1, <1>2, SweepCases, Zenon

\* Every step keeps a missing fact behind the latch, a mark or a re-check.
LEMMA LatchedStep ==
    ASSUME TypeOK, Spoken, Covered, Latched, [Next]_vars
    PROVE  Latched'
<1>0. sweep \in [Sweeps -> SweepCalls]
  BY DEF TypeOK
<1>1. CASE Lost
  <2>1. marking' # {}
    BY <1>1, Zenon DEF Lost, CallbackUnwritten, LateCallback, SendReturnUnwritten
  <2> QED BY <2>1 DEF Latched
<1>2. CASE ~Lost
  <2> SUFFICES ASSUME Unsaid' # {}
               PROVE  \/ latch'
                      \/ marking' # {}
                      \/ \E s \in Sweeps : /\ sweep'[s].pc = "recheck"
                                           /\ sweep'[s].failed
    BY DEF Latched
  <2>1. Unsaid # {}
    BY <1>2, LossOnly
  <2>2. ASSUME NEW m \in Markers, StoreLatch(m)
        PROVE  latch'
    BY <2>2 DEF StoreLatch
  <2>3. ASSUME NEW s \in Sweeps, ClearLatch(s)
        PROVE  sweep'[s].pc = "recheck" /\ sweep'[s].failed
    <3>1. /\ sweep[s].pc = "clear"
          /\ sweep'[s].pc = "recheck" /\ sweep'[s].failed = sweep[s].failed
      BY <1>0, <2>3 DEF ClearLatch, SweepCalls
    <3> QED BY <2>1, <3>1, Zenon DEF Covered
  <2>4. ASSUME NEW s \in Sweeps, sweep[s].pc = "recheck", sweep[s].failed,
               ~Recheck(s)
        PROVE  sweep'[s].pc = "recheck" /\ sweep'[s].failed
    <3>1. CASE Keeps(sweep[s], sweep'[s])
      BY <2>4, <3>1, Zenon DEF Keeps
    <3>2. CASE ~Keeps(sweep[s], sweep'[s])
      BY <2>4, <3>2, RecheckKeeps
    <3> QED BY <3>1, <3>2, Zenon
  <2>5. ASSUME NEW s \in Sweeps, Recheck(s), sweep[s].failed
        PROVE  latch'
    BY <2>5, Zenon DEF Recheck, TypeOK
  <2>6. (latch' = latch /\ marking' = marking)
          \/ (\E m \in Markers : StoreLatch(m))
          \/ (\E s \in Sweeps : ClearLatch(s))
          \/ (\E s \in Sweeps : Recheck(s))
    BY <1>2, LatchCases
  <2>7. ASSUME NEW s \in Sweeps, Recheck(s)
        PROVE  marking' = marking /\ (latch => latch')
    BY <2>7 DEF Recheck, world, TypeOK
  <2> QED BY <2>1, <2>2, <2>3, <2>4, <2>5, <2>6, <2>7, Zenon DEF Latched
<1> QED BY <1>1, <1>2

\* The inductive invariant behind LatchCoversLoss.
LatchInv == ListInv /\ Retold /\ Covered /\ Latched

\* As long as no sweep joins a request under which a callback already failed,
\* the clear never outruns a failure: whatever the journal misses is behind the
\* latch, for any orders and any number of concurrent sweeps.
THEOREM LossIsLatched == ~MayJoinLate /\ Spec => []LatchCoversLoss
<1>1. Init => LatchInv
  <2> SUFFICES ASSUME Init PROVE LatchInv
    OBVIOUS
  <2>1. flight.state = "none" /\ missed = {} /\ \A s \in Sweeps : sweep[s].pc = "idle"
    BY DEF Init, NoFlight, IdleSweep
  <2>2. Retold /\ Covered /\ Latched
    BY <2>1, Zenon DEF Retold, Covered, Latched, Unsaid
  <2> QED BY <2>2, ListInit, Zenon DEF LatchInv
<1>2. ~MayJoinLate /\ LatchInv /\ [Next]_vars => LatchInv'
  <2> SUFFICES ASSUME ~MayJoinLate, LatchInv, [Next]_vars PROVE LatchInv'
    OBVIOUS
  <2>1. ListInv'
    BY ListStep DEF LatchInv
  <2>2. Retold' /\ Covered' /\ Latched'
    BY RetoldStep, CoveredStep, LatchedStep DEF LatchInv, ListInv
  <2> QED BY <2>1, <2>2 DEF LatchInv
<1>3. LatchInv => LatchCoversLoss
  BY DEF LatchInv, Latched, LatchCoversLoss, Live
<1>4. CASE ~MayJoinLate
  <2>1. LatchInv /\ [Next]_vars => LatchInv'
    BY <1>2, <1>4
  <2> QED BY <1>1, <1>3, <2>1, PTL DEF Spec
<1>5. CASE MayJoinLate
  BY <1>5, PTL
<1> QED BY <1>4, <1>5

=============================================================================
