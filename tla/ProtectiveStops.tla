--------------------------- MODULE ProtectiveStops ---------------------------
(***************************************************************************)
(* Canary's own resting sell stops on one contract, the sale admitted      *)
(* beside them, and the guard that keeps the stops within the position:    *)
(*                                                                         *)
(*   protective_oca.go, protective_oca_trading.go    the sale's admission  *)
(*   protective_stop_guard.go, ..._trading.go        the guard             *)
(*   order_place_trading.go                          the writes they make  *)
(*                                                                         *)
(* One sale is admitted in several steps under brokerWriteMu: the          *)
(* position is bound, the stops are read and the sale is planned, each     *)
(* stop that cannot be joined is cut and the broker's answer awaited, and  *)
(* only then is the sale sent.  The guard plans a correction on one pass,  *)
(* acts on a later pass that plans the same one, and plans it once more    *)
(* under the lock.  Between any two steps the owner may trade by hand, the *)
(* broker may fill an order, and callbacks arrive or are late.             *)
(*                                                                         *)
(* Orders are numbered in the order of their references.  Prices and trail *)
(* terms are left out: only quantities decide here.  Attached entry stops  *)
(* (EntryLink) and stops the owner placed by hand are left out.            *)
(***************************************************************************)
EXTENDS Integers, Sequences, FiniteSets, FiniteSetsExt

CONSTANTS
    Stops,       \* the stops Canary placed earlier, still working at the start
    Sales,       \* the orders the owner may still place
    Grouped,     \* the stops born in their own one-cancels-all group
    Mandated,    \* the stops that follow the full position
    Sizes,       \* quantities of the initial stops and of the sales
    Start,       \* the position at the start
    HandTrades,  \* what the owner may trade by hand: -1 sells a share, 1 buys one
    MayCross,    \* may a sale be planned while a change Canary sent to a stop
                 \* is still unanswered
    MayPair,     \* may a stop be placed beside a mandated one
    MaxHand,     \* bound on the owner's trades by hand
    MaxFills,    \* bound on the broker's fills
    MaxFaults    \* bound on refusals, unreadable inventories and restarts

Orders == Stops \cup Sales
NoGroup == 0
Top == Start + MaxHand

ASSUME StopsAssumption ==
    /\ Orders \subseteq Nat \ {0} /\ Stops \cap Sales = {} /\ IsFiniteSet(Orders)
    /\ Grouped \subseteq Stops /\ Mandated \subseteq Stops
    /\ Sizes \subseteq Nat \ {0} /\ Start \in Nat \ {0}
    /\ HandTrades \subseteq (-1)..1 /\ MayCross \in BOOLEAN /\ MayPair \in BOOLEAN
    /\ MaxHand \in Nat /\ MaxFills \in Nat /\ MaxFaults \in Nat

VARIABLES
    held,      \* the position at the broker
    pos,       \* the position in the daemon's portfolio projection
    ord,       \* the orders at the broker
    view,      \* the orders as the journal folds them
    inv,       \* the cached open-order inventory
    wire,      \* requests sent and not yet processed by the broker
    news,      \* orders with a callback on its way
    adm,       \* the sale being admitted (it holds brokerWriteMu), or idle
    seen,      \* steps planned by the guard's last pass
    aged,      \* those of them first planned at least the settle time ago
    due,       \* settled steps the current pass has still to apply
    grant,     \* the guard's step in its preview (it holds brokerWriteMu)
    frozen,    \* trading.freeze
    hand,      \* trades by hand so far
    bought,    \* shares ever held: the start and what was bought since
    fills,     \* shares Canary's orders sold
    faults

vars == <<held, pos, ord, view, inv, wire, news, adm, seen, aged, due, grant,
          frozen, hand, bought, fills, faults>>

broker == <<held, ord, news, hand, bought, fills>>
guard == <<seen, aged, due, grant>>

Nothing == [kind |-> "none", o |-> 0, target |-> 0, filled |-> 0]
Idle == [pc |-> "idle", o |-> 0, kind |-> "sale", qty |-> 0, at |-> 0, moved |-> FALSE,
         grp |-> NoGroup, todo |-> {}]

-----------------------------------------------------------------------------
(* Broker truth *)

\* What an order may still sell.
Rem(o) == IF ord[o].st = "working" THEN ord[o].total - ord[o].filled ELSE 0

GroupOf(o) == ord[o].grp
Members(g) == {o \in Orders : GroupOf(o) = g /\ ord[o].st = "working"}

\* The working orders in the same group as o.
Linked(o) == IF GroupOf(o) = NoGroup THEN {} ELSE Members(GroupOf(o)) \ {o}

\* What Canary's orders can still sell between them: a group sells as much as
\* its largest member, since a fill of one reduces the others.
Exposure ==
    MapThenSumSet(Rem, Members(NoGroup))
  + MapThenSumSet(LAMBDA g : Max({Rem(o) : o \in Members(g)} \cup {0}), Orders)

\* The journal row an up-to-date callback leaves.
Truth(o) ==
    [st |-> CASE ord[o].st = "working" -> "open"
              [] ord[o].st = "wire" -> "open"
              [] OTHER -> ord[o].st,
     rem |-> Rem(o), filled |-> ord[o].filled, ack |-> TRUE]

Step(k, o, t) == [kind |-> k, o |-> o, target |-> t]
Send(op, o, qty) == wire' = Append(wire, [op |-> op, o |-> o, qty |-> qty])
LockFree == adm.pc = "idle" /\ grant = Nothing

\* Requests for an order of the group of o, sent and not yet processed.
Unanswered(o) == \E i \in 1..Len(wire) :
    wire[i].o = o \/ (GroupOf(o) # NoGroup /\ GroupOf(wire[i].o) = GroupOf(o))

\* Callbacks have caught up with the broker.  A sale and a guard's modify are
\* sent in such a moment: that a fill has reached the order rows and not yet the
\* portfolio, or neither, when their quantity is fixed is left out.
CaughtUp == pos = held /\ news = {}

\* Every write has been processed and acknowledged.
Answered == wire = <<>> /\ CaughtUp /\ \A o \in Orders : view[o].st = "open" => view[o].ack

-----------------------------------------------------------------------------
(* The open-order inventory *)

\* The working orders the broker reports; 0 for one it does not show.
Rows == [o \in Orders |-> Rem(o)]

\* brokerOpenOrderInventory answers from the cache while no order callback has
\* arrived since it was filled, and from the broker otherwise.
brokerOpenOrderInventory == IF inv.ok THEN inv.rows ELSE Rows
ReadInventory == inv' = [ok |-> TRUE, rows |-> brokerOpenOrderInventory]

\* An order sent inside the cache window that the inventory does not show.
Unseen(rows, o) == rows[o] = 0 /\ view[o].st = "open" /\ ~view[o].ack

\* What the inventory, or for an unseen order the journal, says is left.
Left(rows, o) == IF view[o].st # "open" THEN 0
                 ELSE IF Unseen(rows, o) THEN view[o].rem ELSE rows[o]

-----------------------------------------------------------------------------
(* Planning a sale *)

IsStop(o) == ord[o].kind = "stop"

\* canaryWorkingSellStops: the journal's open stops, each with the quantity the
\* inventory shows; one it no longer shows is gone unless it is unseen.
canaryWorkingSellStops(rows) == {o \in Orders : IsStop(o) /\ Left(rows, o) > 0}

\* Without an inventory the journal rows stand alone.
journalSellStops == {o \in Orders : IsStop(o) /\ view[o].st = "open" /\ view[o].rem > 0}

\* planProtectiveOCA: the group the sale is sent with and the cuts made first.
\* left is what each stop may still sell; echoed says whether the broker's
\* report names the stop's group.
planProtectiveOCA(o, kind, qty, at, stops, left, echoed) ==
    LET total == MapThenSumSet(LAMBDA s : left[s], stops)
        excess == total + qty - at
        before(s) == MapThenSumSet(LAMBDA r : left[r], {r \in stops : r < s})
        cut(s) == Min({left[s], excess - before(s)})
        own == IF kind = "stop" THEN o ELSE NoGroup
        joined == IF Cardinality(stops) = 1 THEN GroupOf(CHOOSE s \in stops : TRUE) ELSE NoGroup
    IN  IF stops = {} \/ excess <= 0 THEN [grp |-> own, todo |-> {}]
        ELSE IF joined # NoGroup /\ stops \subseteq echoed THEN [grp |-> joined, todo |-> {}]
        ELSE [grp |-> own,
              todo |-> {IF cut(s) = left[s] THEN Step("cancel", s, 0)
                                            ELSE Step("shrink", s, left[s] - cut(s)) :
                          s \in {r \in stops : before(r) < excess}}]

-----------------------------------------------------------------------------
(* Planning the guard's corrections *)

\* protectiveStopGuardCommitted: what Canary's own sales beside the stop, not in
\* its group, may still sell.
protectiveStopGuardCommitted(rows, s) ==
    MapThenSumSet(LAMBDA o : Left(rows, o),
        {o \in Orders : ~IsStop(o) /\ (GroupOf(o) = NoGroup \/ GroupOf(o) # GroupOf(s))})

\* planProtectiveStopGuard: cancel a stop with no headroom, let a mandated one
\* follow the position, shrink any other that is too large.
planProtectiveStopGuard(rows) ==
    LET committed(s) == protectiveStopGuardCommitted(rows, s)
        headroom(s) == pos - committed(s)
        wrong(s) == \/ headroom(s) < rows[s]
                    \/ s \in Mandated /\ headroom(s) # rows[s]
        follows(s) == s \in Mandated /\ (committed(s) = 0 \/ pos < rows[s])
    IN  {IF headroom(s) < 1 THEN Step("cancel", s, 0)
         ELSE IF follows(s) THEN Step("resize", s, pos)
         ELSE Step("shrink", s, headroom(s)) :
            s \in {o \in Orders : IsStop(o) /\ rows[o] > 0 /\ view[o].st = "open" /\ wrong(o)}}

-----------------------------------------------------------------------------
(* Writes *)

\* Mutant: the quantity of a stop larger than the position must lie below it.
MutCoverBelow(step, filled) ==
    LET v == view[step.o] IN
    /\ ~frozen /\ v.st = "open" /\ v.ack
    /\ IF step.kind = "resize"
       THEN filled = v.filled /\ step.target = pos
       ELSE step.target < v.rem /\ (v.rem <= pos \/ step.target < pos)

\* modifyOrder's conditions: the row is acknowledged, the guard's grant covers
\* the change, and validateProtectiveModifyQuantity accepts it: a resize equals
\* the position, a shrink of a stop larger than the position must equal it too.
modifyAllowed(step, filled) ==
    LET v == view[step.o] IN
    /\ ~frozen /\ v.st = "open" /\ v.ack
    /\ IF step.kind = "resize"
       THEN filled = v.filled /\ step.target = pos
       ELSE step.target < v.rem /\ (v.rem <= pos \/ step.target = pos)

\* Mutant: the broker is sent the change and not the quantity.
MutSendDifference(step) ==
    /\ Send("modify", step.o, step.target - view[step.o].rem)
    /\ view' = [view EXCEPT ![step.o].ack = FALSE]

\* The broker is sent the cumulative quantity: what is to remain and the fills.
modifyOrder(step) ==
    /\ Send("modify", step.o, step.target + view[step.o].filled)
    /\ view' = [view EXCEPT ![step.o].ack = FALSE]

cancelOrderForAction(o) == Send("cancel", o, 0) /\ UNCHANGED view

-----------------------------------------------------------------------------
(* The sale *)

\* The admission ends and brokerWriteMu is released.
Unlock == adm' = Idle

\* placeOrder binds the confirmed position: at most what is held is sold.
AdmitSale(o, kind, qty) ==
    /\ LockFree /\ ~frozen
    /\ ord[o].st = "none" /\ qty <= pos
    /\ kind = "stop" => MayPair \/ \A s \in Mandated : view[s].st # "open"
    /\ adm' = [Idle EXCEPT !.pc = "plan", !.o = o, !.kind = kind, !.qty = qty, !.at = pos]
    /\ UNCHANGED <<broker, pos, view, inv, wire, guard, frozen, faults>>

AfterSteps(todo) == IF todo = {} THEN "send" ELSE "step"

Fault == faults < MaxFaults /\ faults' = faults + 1

Planned(plan) == adm' = [adm EXCEPT !.pc = AfterSteps(plan.todo), !.grp = plan.grp, !.todo = plan.todo]

\* protectiveOCABeforePlace reads the stops and plans.  An inventory that cannot
\* be read leaves the journal's rows, whose groups are not echoed.
PlanSale ==
    /\ adm.pc = "plan"
    /\ MayCross \/ Answered
    /\ LET rows == brokerOpenOrderInventory
           plan(stops, left, echoed) ==
               planProtectiveOCA(adm.o, adm.kind, adm.qty, adm.at, stops, left, echoed)
       IN  \/ /\ Planned(plan(canaryWorkingSellStops(rows), [o \in Orders |-> Left(rows, o)],
                              {o \in Orders : rows[o] > 0}))
              /\ ReadInventory
              /\ UNCHANGED faults
           \/ /\ Planned(plan(journalSellStops, [o \in Orders |-> view[o].rem], {}))
              /\ Fault
              /\ UNCHANGED inv
    /\ UNCHANGED <<broker, pos, view, wire, guard, frozen>>

\* The stop cut first: the one with the smallest reference.
NextStep == CHOOSE t \in adm.todo : \A u \in adm.todo : t.o <= u.o

\* protectiveOCAStep sends the cut, or refuses the sale when the stop cannot be
\* changed.
StepSale ==
    /\ adm.pc = "step"
    /\ LET t == NextStep
           can == IF t.kind = "cancel" THEN view[t.o].st = "open" ELSE modifyAllowed(t, 0)
       IN  IF can
           THEN /\ IF t.kind = "cancel" THEN cancelOrderForAction(t.o) ELSE modifyOrder(t)
                /\ adm' = [adm EXCEPT !.pc = "await"]
           ELSE Unlock /\ UNCHANGED <<view, wire>>
    /\ UNCHANGED <<broker, pos, inv, guard, frozen, faults>>

\* A send whose outcome is unknown refuses the sale, written or not.
UncertainStep ==
    /\ adm.pc = "step" /\ Fault
    /\ LET t == NextStep IN
       /\ t.kind = "shrink" /\ modifyAllowed(t, 0)
       /\ modifyOrder(t) \/ (view' = [view EXCEPT ![t.o].ack = FALSE] /\ UNCHANGED wire)
    /\ Unlock
    /\ UNCHANGED <<broker, pos, inv, guard, frozen>>

\* Mutant: a cut is taken as confirmed as soon as the row is acknowledged.
MutAnyAcknowledgement(t) ==
    \/ view[t.o].st = "cancelled"
    \/ view[t.o].st = "open" /\ view[t.o].ack

\* awaitProtectiveOCAStep polls the journal for the broker's answer.
ConfirmedStep(t) ==
    \/ view[t.o].st = "cancelled"
    \/ t.kind = "shrink" /\ view[t.o].st = "open" /\ view[t.o].ack /\ view[t.o].rem <= t.target

AwaitSale ==
    /\ adm.pc = "await" /\ ConfirmedStep(NextStep)
    /\ LET todo == adm.todo \ {NextStep}
       IN  adm' = [adm EXCEPT !.pc = AfterSteps(todo), !.todo = todo]
    /\ UNCHANGED <<broker, pos, view, inv, wire, guard, frozen, faults>>

\* The stop filled meanwhile, or the wait or the request ended.
GiveUpSale ==
    /\ adm.pc = "await" /\ ~ConfirmedStep(NextStep)
    /\ Unlock
    /\ UNCHANGED <<broker, pos, view, inv, wire, guard, frozen, faults>>

\* The first-byte guard compares the position's generation with the one bound at
\* admission and reads the freeze; then the sale is on the wire.
SendSale ==
    /\ adm.pc = "send" /\ CaughtUp
    /\ IF adm.moved \/ frozen
       THEN UNCHANGED <<ord, view, wire>>
       ELSE /\ ord' = [ord EXCEPT ![adm.o] = [st |-> "wire", kind |-> adm.kind, total |-> adm.qty,
                                             filled |-> 0, grp |-> adm.grp]]
            /\ view' = [view EXCEPT ![adm.o] = [st |-> "open", rem |-> adm.qty, filled |-> 0,
                                               ack |-> FALSE]]
            /\ Send("place", adm.o, adm.qty)
    /\ Unlock
    /\ UNCHANGED <<held, news, hand, bought, fills, pos, inv, guard, frozen, faults>>

-----------------------------------------------------------------------------
(* The guard *)

\* runProtectiveStopGuard: a step planned before and settled is due; a step not
\* planned any more is forgotten.
GuardPass ==
    /\ due = {} /\ grant = Nothing
    /\ LET steps == planProtectiveStopGuard(brokerOpenOrderInventory)
       IN  seen' = steps /\ due' = steps \cap aged /\ aged' = steps \cap aged
    /\ ReadInventory
    /\ UNCHANGED <<broker, pos, view, wire, adm, grant, frozen, faults>>

\* Without evidence the settle clock starts again.
GuardPaused ==
    /\ due = {} /\ grant = Nothing /\ Fault
    /\ seen' = {} /\ aged' = {}
    /\ UNCHANGED <<broker, pos, view, inv, wire, adm, due, grant, frozen>>

\* protectiveStopGuardSettle passes: twenty seconds, in which the broker answers
\* what was sent and its callbacks arrive.
GuardSettle ==
    /\ aged # seen /\ CaughtUp /\ wire = <<>>
    /\ aged' = seen
    /\ UNCHANGED <<broker, pos, view, inv, wire, adm, seen, due, grant, frozen, faults>>

\* applyProtectiveStopGuardStep: the freeze holds back all but a cancel.
GuardBlocked(step) ==
    /\ step \in due /\ grant = Nothing
    /\ step.kind # "cancel" /\ frozen
    /\ due' = due \ {step}
    /\ UNCHANGED <<broker, pos, view, inv, wire, adm, seen, aged, grant, frozen, faults>>

\* protectiveStopGuardWrite plans again under brokerWriteMu; a cancel is sent, a
\* modify goes to its preview.
GuardWrite(step) ==
    /\ step \in due /\ LockFree
    /\ step.kind = "cancel" \/ ~frozen
    /\ ReadInventory
    /\ IF step \in planProtectiveStopGuard(brokerOpenOrderInventory)
       THEN IF step.kind = "cancel"
            THEN /\ cancelOrderForAction(step.o)
                 /\ seen' = seen \ {step} /\ aged' = aged \ {step} /\ due' = due \ {step}
                 /\ UNCHANGED grant
            ELSE /\ grant' = [kind |-> step.kind, o |-> step.o, target |-> step.target,
                              filled |-> view[step.o].filled]
                 /\ UNCHANGED <<view, wire, seen, aged, due>>
       ELSE due' = due \ {step} /\ UNCHANGED <<view, wire, seen, aged, grant>>
    /\ UNCHANGED <<broker, pos, adm, frozen, faults>>

\* The previewed modify is sent if modifyOrder still accepts it.
GuardModify ==
    /\ grant # Nothing /\ CaughtUp
    /\ LET step == Step(grant.kind, grant.o, grant.target)
       IN  /\ IF modifyAllowed(step, grant.filled)
              THEN modifyOrder(step) /\ seen' = seen \ {step} /\ aged' = aged \ {step}
              ELSE UNCHANGED <<view, wire, seen, aged>>
           /\ due' = due \ {step}
    /\ grant' = Nothing
    /\ UNCHANGED <<broker, pos, inv, adm, frozen, faults>>

\* The evidence cannot be read under the lock, or nothing is sent: the step is
\* left to a later pass with its settle clock.
GuardFails(step) ==
    /\ step \in due /\ LockFree /\ Fault
    /\ due' = due \ {step}
    /\ UNCHANGED <<broker, pos, view, inv, wire, adm, seen, aged, grant, frozen>>

\* A modify whose outcome is unknown, written or not, is a failed step too.
GuardUncertain ==
    /\ grant # Nothing /\ CaughtUp /\ Fault
    /\ LET step == Step(grant.kind, grant.o, grant.target)
       IN  /\ modifyAllowed(step, grant.filled)
           /\ modifyOrder(step) \/ (view' = [view EXCEPT ![step.o].ack = FALSE] /\ UNCHANGED wire)
           /\ due' = due \ {step}
    /\ grant' = Nothing
    /\ UNCHANGED <<broker, pos, inv, adm, seen, aged, frozen>>

-----------------------------------------------------------------------------
(* The broker, the owner and the callbacks *)

\* The broker processes the oldest request.  A modify names the cumulative
\* quantity; one for no more than was filled ends the order.
Process ==
    /\ wire # <<>>
    /\ wire' = Tail(wire)
    /\ LET r == Head(wire)
           o == ord[r.o]
       IN  ord' = [ord EXCEPT ![r.o] =
               CASE r.op = "place" -> [o EXCEPT !.st = "working"]
                 [] r.op = "cancel" /\ o.st = "working" -> [o EXCEPT !.st = "cancelled"]
                 [] r.op = "modify" /\ o.st = "working" ->
                      IF r.qty > o.filled THEN [o EXCEPT !.total = r.qty]
                      ELSE [o EXCEPT !.total = o.filled, !.st = "filled"]
                 [] OTHER -> o]
    /\ news' = news \cup {Head(wire).o}
    /\ UNCHANGED <<held, hand, bought, fills, pos, view, inv, adm, guard, frozen, faults>>

\* The broker refuses a modify.
RefuseModify ==
    /\ wire # <<>> /\ Head(wire).op = "modify" /\ Fault
    /\ wire' = Tail(wire)
    /\ news' = news \cup {Head(wire).o}
    /\ UNCHANGED <<held, ord, hand, bought, fills, pos, view, inv, adm, guard, frozen>>

\* A share is sold.  The other members of the group lose it from their total.
\* No fill crosses a request to its own group on the way to the broker.
Fill(o) ==
    /\ fills < MaxFills /\ Rem(o) > 0
    /\ GroupOf(o) # NoGroup => ~Unanswered(o)
    /\ held' = held - 1 /\ fills' = fills + 1
    /\ news' = news \cup {o} \cup Linked(o)
    /\ ord' = [p \in Orders |->
          LET q == ord[p] IN
          IF p = o
          THEN [q EXCEPT !.filled = @ + 1, !.st = IF q.filled + 1 = q.total THEN "filled" ELSE @]
          ELSE IF p \in Linked(o)
          THEN [q EXCEPT !.total = @ - 1, !.st = IF q.filled = q.total - 1 THEN "cancelled" ELSE @]
          ELSE q]
    /\ UNCHANGED <<hand, bought, pos, view, inv, wire, adm, guard, frozen, faults>>

\* The owner trades the line in TWS.
ByHand(q) ==
    /\ hand < MaxHand /\ hand' = hand + 1
    /\ held + q >= 0
    /\ held' = held + q /\ bought' = bought + Max({q, 0})
    /\ UNCHANGED <<ord, news, fills, pos, view, inv, wire, adm, guard, frozen, faults>>

\* The owner cancels one of Canary's orders through Canary.
OwnerCancel(o) ==
    /\ hand < MaxHand /\ hand' = hand + 1
    /\ LockFree /\ view[o].st = "open"
    /\ cancelOrderForAction(o)
    /\ UNCHANGED <<held, ord, news, bought, fills, pos, inv, adm, guard, frozen, faults>>

\* The freeze is set and lifted.
Freeze ==
    /\ frozen' = ~frozen
    /\ UNCHANGED <<broker, pos, view, inv, wire, adm, guard, faults>>

\* A portfolio callback: the projection's generation moves.
DeliverPosition ==
    /\ pos # held /\ pos' = held
    /\ adm' = IF adm.pc = "idle" THEN adm ELSE [adm EXCEPT !.moved = TRUE]
    /\ UNCHANGED <<broker, view, inv, wire, guard, frozen, faults>>

\* An order callback: the journal row follows the broker and the cached
\* inventory no longer answers.  A callback that owes nothing to the change just
\* sent (a trail's new stop price) acknowledges the row too.
DeliverOrder(o) ==
    /\ o \in news \/ (ord[o].st = "working" /\ ~view[o].ack)
    /\ view' = [view EXCEPT ![o] = Truth(o)]
    /\ news' = news \ {o}
    /\ inv' = [ok |-> FALSE, rows |-> [p \in Orders |-> 0]]
    /\ UNCHANGED <<held, ord, hand, bought, fills, pos, wire, adm, guard, frozen, faults>>

\* The daemon restarts: the journal stays, the admission, the guard's memory and
\* the cache are gone.
Restart ==
    /\ Fault
    /\ adm' = Idle /\ seen' = {} /\ aged' = {} /\ due' = {} /\ grant' = Nothing
    /\ inv' = [ok |-> FALSE, rows |-> [p \in Orders |-> 0]]
    /\ UNCHANGED <<broker, pos, view, wire, frozen>>

-----------------------------------------------------------------------------
\* The stops that work at the start are acknowledged and within the position; a
\* mandated one covers it.
NoOrder == [st |-> "none", kind |-> "sale", total |-> 0, filled |-> 0, grp |-> NoGroup]
Resting(o, q) == [st |-> "working", kind |-> "stop", total |-> q, filled |-> 0,
                  grp |-> IF o \in Grouped THEN o ELSE NoGroup]

Init ==
    /\ held = Start /\ pos = Start /\ bought = Start
    /\ \E size \in [Stops -> Sizes \cup {0}] :
          /\ \A o \in Mandated : size[o] \in {0, Start}
          /\ ord = [o \in Orders |-> IF o \in Stops /\ size[o] > 0 THEN Resting(o, size[o]) ELSE NoOrder]
    /\ Exposure <= Start
    /\ view = [o \in Orders |-> Truth(o)]
    /\ inv = [ok |-> FALSE, rows |-> [o \in Orders |-> 0]]
    /\ wire = <<>> /\ news = {} /\ adm = Idle /\ grant = Nothing
    /\ seen = {} /\ aged = {} /\ due = {}
    /\ frozen = FALSE /\ hand = 0 /\ fills = 0 /\ faults = 0

SaleStep == PlanSale \/ StepSale \/ AwaitSale \/ GiveUpSale \/ SendSale

GuardStep == GuardModify \/ \E step \in due : GuardBlocked(step) \/ GuardWrite(step)

Deliver == DeliverPosition \/ \E o \in Orders : DeliverOrder(o)

Next ==
    \/ \E o \in Sales, kind \in {"sale", "stop"}, q \in Sizes : AdmitSale(o, kind, q)
    \/ SaleStep \/ UncertainStep
    \/ GuardPass \/ GuardPaused \/ GuardSettle \/ GuardStep
    \/ GuardUncertain \/ \E step \in due : GuardFails(step)
    \/ Process \/ RefuseModify
    \/ \E o \in Orders : Fill(o) \/ OwnerCancel(o)
    \/ \E q \in HandTrades : ByHand(q)
    \/ Freeze \/ Deliver \/ Restart

Spec == Init /\ [][Next]_vars

\* The admission, the guard's cadence and the connection keep running; the
\* owner, the market and the faults owe nothing.
FairSpec ==
    /\ Spec
    /\ WF_vars(SaleStep) /\ WF_vars(GuardPass) /\ WF_vars(GuardSettle) /\ WF_vars(GuardStep)
    /\ WF_vars(Process) /\ WF_vars(Deliver)

-----------------------------------------------------------------------------
(* Properties *)

Quantities == 0..Top
Corrections == [kind : {"none", "cancel", "shrink", "resize"}, o : Orders \cup {0}, target : Quantities]

\* Types of the state.  Every quantity on the wire, in the journal and in a plan
\* is one that was held at some time.
TypeOK ==
    /\ held \in -Top..Top /\ pos \in -Top..Top
    /\ ord \in [Orders -> [st : {"none", "wire", "working", "filled", "cancelled"},
                           kind : {"stop", "sale"}, total : Quantities, filled : Quantities,
                           grp : Orders \cup {NoGroup}]]
    /\ view \in [Orders -> [st : {"none", "open", "filled", "cancelled"}, rem : Quantities,
                            filled : Quantities, ack : BOOLEAN]]
    /\ inv \in [ok : BOOLEAN, rows : [Orders -> Quantities]]
    /\ \A i \in 1..Len(wire) : wire[i] \in [op : {"place", "modify", "cancel"}, o : Orders, qty : Quantities]
    /\ news \subseteq Orders
    /\ adm.pc \in {"idle", "plan", "step", "await", "send"}
    /\ adm.todo \cup seen \cup aged \cup due \subseteq Corrections
    /\ frozen \in BOOLEAN /\ hand \in 0..MaxHand /\ fills \in 0..MaxFills /\ faults \in 0..MaxFaults

\* Two orders Canary placed never sell the same shares twice: what Canary's
\* orders have sold and what they can still sell never exceeds what was ever
\* held, whatever the owner does by hand beside them (planProtectiveOCA and its
\* steps, protective_oca_trading.go).
NoDoubleSell == fills + Exposure <= bought

\* A stop that would sell more than is held.
TooLarge(o) == IsStop(o) /\ Rem(o) > 0 /\ Rem(o) > held

\* A Canary sale working beside the stop and not linked to it.
SaleBeside(o) == \E p \in Orders : /\ ~IsStop(p) /\ ord[p].st \in {"working", "wire"}
                                   /\ GroupOf(p) = NoGroup \/ GroupOf(p) # GroupOf(o)

\* The guard does not leave a stop larger than the position while it may write
\* and no unlinked sale works beside the stop (runProtectiveStopGuard).
GuardKeepsUp == \A o \in Orders : []<>(frozen \/ SaleBeside(o) \/ ~TooLarge(o))

=============================================================================
