--------------------------- MODULE LineReduction ---------------------------
(***************************************************************************)
(* One held line and the sales Canary sends for it: percent reductions     *)
(* (proposals reduce, and order place with a reduction token) and netted   *)
(* proposal rows (trims, budget and theta rows).  Every write runs under   *)
(* brokerWriteMu, so there is one writer; it is interleaved with the       *)
(* broker, the order callbacks, the portfolio stream, which may trail the  *)
(* fills, previews, which take no lock, reconnects and crashes.            *)
(* Quantities are whole units of a long line; a fill is of one unit.  Hand *)
(* orders in TWS and Canary's own stops are outside this module, as they   *)
(* are outside reduceCommittedSales.                                       *)
(***************************************************************************)
EXTENDS Naturals, Sequences, FiniteSets

CONSTANTS
    Held,       \* whole units held at the start
    MaxOrders,  \* bound on the orders previews mint
    Percents,   \* the percentages asked for
    MaxRows,    \* bound on the netted proposal rows among them
    Faults,     \* the faults that may happen, of the ones below
    MaxFaults   \* bound on the number of faults

ASSUME LineAssumption ==
    /\ Held \in Nat /\ MaxOrders \in Nat /\ MaxFaults \in Nat /\ MaxRows \in Nat
    /\ Percents \subseteq 1..100
    /\ Faults \subseteq {"crash", "reconnect", "unclear", "notJournalled"}

Orders == 1..MaxOrders
NoCallback == [order |-> 0, filled |-> 0, over |-> FALSE]
Unknown == Held + 1

VARIABLES
    held,       \* the position at the broker
    broker,     \* order -> its state and filled units at the broker
    news,       \* order callbacks on the socket, oldest first
    publishing, \* the callback that advanced the frontier, not yet journalled
    pos,        \* the portfolio stream's quantity, Unknown before its download
    token,      \* order -> the signed preview: size, position read, still bound
    journal,    \* order -> the order view rebuilt from Canary's journal
    writer,     \* the holder of brokerWriteMu
    faults      \* faults so far

vars == <<held, broker, news, publishing, pos, token, journal, writer, faults>>

Callbacks == [order: Orders, filled: 0..Held, over: BOOLEAN]
BrokerRows == [state: {"none", "flight", "working", "over"}, filled: 0..Held]
JournalRows == [state: {"none", "attempted", "uncertain", "acked", "closed"}, filled: 0..Held]
Tokens == [kind: {"none", "reduce", "row"}, qty: 0..Held, before: 0..Held, bound: BOOLEAN]
Writers == [pc: {"idle", "place", "netting", "unacked", "bound", "receipt", "fits", "stage", "wire"},
            order: 0..MaxOrders, moved: BOOLEAN, shifted: BOOLEAN]

\* Quantities stay within what was held at the start, in the broker's record,
\* the journal, the stream and the signed previews.
TypeOK ==
    /\ held \in 0..Held
    /\ broker \in [Orders -> BrokerRows]
    /\ news \in Seq(Callbacks)
    /\ publishing \in Callbacks \cup {NoCallback}
    /\ pos \in 0..Unknown
    /\ token \in [Orders -> Tokens]
    /\ journal \in [Orders -> JournalRows]
    /\ writer \in Writers
    /\ faults \in 0..MaxFaults

Idle == [pc |-> "idle", order |-> 0, moved |-> FALSE, shifted |-> FALSE]

Init ==
    /\ held = Held /\ pos = Held
    /\ broker = [o \in Orders |-> [state |-> "none", filled |-> 0]]
    /\ news = <<>> /\ publishing = NoCallback
    /\ token = [o \in Orders |-> [kind |-> "none", qty |-> 0, before |-> 0, bound |-> FALSE]]
    /\ journal = [o \in Orders |-> [state |-> "none", filled |-> 0]]
    /\ writer = Idle /\ faults = 0

Fault(f) == f \in Faults /\ faults < MaxFaults /\ faults' = faults + 1

-----------------------------------------------------------------------------
(* What the journal says. *)

Open(o) == journal[o].state \in {"attempted", "uncertain", "acked"}

Unacknowledged(o) == journal[o].state \in {"attempted", "uncertain"}

\* The units of its quantity an order is not known to have filled.  (For a row
\* that is open and filled in full the code answers the whole quantity; there
\* is none, the last fill's callback closes it.)
orderViewRemainingQuantity(o) == (journal[o].filled + 1)..token[o].qty

\* The units Canary's own open orders still sell of the line.
Committed == {u \in Orders \X (1..Held) : Open(u[1]) /\ u[2] \in orderViewRemainingQuantity(u[1])}

reduceCommittedSales == Cardinality(Committed)

\* What they leave unsold, zero when nothing is left.
reduceFreeQuantity(before) ==
    IF reduceCommittedSales < before THEN before - reduceCommittedSales ELSE 0

\* percent of the free quantity, floored; 100 closes exactly.
reduceQuantityForPercent(quantity, percent) == (percent * quantity) \div 100

\* Some order of the line has filled: the stream's quantity needs a receipt.
FillKnown == \E o \in Orders : journal[o].filled # 0

\* reducePositions: the journal is read with no callback half published, and
\* after a known fill the broker's own positions must agree with the stream.
reducePositions ==
    /\ pos # Unknown
    /\ publishing = NoCallback
    /\ FillKnown => held = pos

-----------------------------------------------------------------------------
(* Previews take no lock; each of their reads is made again by the place. *)

Mint(o, kind, qty) ==
    /\ token[o].kind = "none" /\ \A p \in Orders : p < o => token[p].kind # "none"
    /\ qty \in 1..pos
    /\ token' = [token EXCEPT ![o] = [kind |-> kind, qty |-> qty, before |-> pos, bound |-> TRUE]]

prepareReduce(o) ==
    /\ reducePositions
    /\ \E percent \in Percents :
          Mint(o, "reduce", reduceQuantityForPercent(reduceFreeQuantity(pos), percent))

tradeProposalReducePreview(o) ==
    /\ prepareReduce(o)
    /\ UNCHANGED <<held, broker, news, publishing, pos, journal, writer, faults>>

-----------------------------------------------------------------------------
(* The writer: the submit handlers, then placeOrder. *)

Turn(pc) == writer' = [writer EXCEPT !.pc = pc]

\* Every refusal before StagePreTransmit: nothing is journalled or sent.
Refuse ==
    /\ writer.pc \in {"place", "netting", "unacked", "bound", "receipt", "fits", "stage"}
    /\ writer' = Idle
    /\ UNCHANGED <<held, broker, news, publishing, pos, token, journal, faults>>

Take(o, pc) == writer.pc = "idle" /\ writer' = [Idle EXCEPT !.pc = pc, !.order = o]

\* A reviewed token, through proposals reduce or straight through order place.
reduceTokenLeg(o) ==
    /\ token[o].kind = "reduce" /\ journal[o].state = "none"
    /\ reducePositions
    /\ token[o].qty <= pos
    /\ token[o].qty <= reduceFreeQuantity(pos)
    /\ Take(o, "place")
    /\ UNCHANGED <<held, broker, news, publishing, pos, token, journal, faults>>

handleOrderPlace(o) ==
    /\ token[o].kind = "reduce" /\ journal[o].state = "none"
    /\ Take(o, "place")
    /\ UNCHANGED <<held, broker, news, publishing, pos, token, journal, faults>>

\* A submission without a token previews and places in one call.
tradeProposalReduceSubmit(o) ==
    /\ prepareReduce(o)
    /\ Take(o, "place")
    /\ UNCHANGED <<held, broker, news, publishing, pos, journal, faults>>

\* A netted row is sized from the stream's quantity and previewed.
submitRow(o) ==
    /\ pos # Unknown
    /\ Cardinality({p \in Orders : token[p].kind = "row"}) < MaxRows
    /\ \E qty \in 1..pos : Mint(o, "row", qty)
    /\ Take(o, "netting")
    /\ UNCHANGED <<held, broker, news, publishing, pos, journal, faults>>

\* reductionOrderBlockers, first half: the broker's fresh open-order list
\* shows no sale of the line.
reductionOrderBlockers ==
    /\ writer.pc = "netting"
    /\ \A o \in Orders : broker[o].state # "working"
    /\ Turn("unacked")
    /\ UNCHANGED <<held, broker, news, publishing, pos, token, journal, faults>>

\* Second half: the journal holds no sale the broker has not confirmed.
sameContractUnacknowledgedOrder ==
    /\ writer.pc = "unacked"
    /\ \A o \in Orders : ~Unacknowledged(o)
    /\ Turn("place")
    /\ UNCHANGED <<held, broker, news, publishing, pos, token, journal, faults>>

\* The signed position and generation are still the stream's.
bindPreviewOrderRiskAuthority ==
    LET t == token[writer.order] IN
    /\ writer.pc = "place"
    /\ t.bound /\ t.before = pos
    /\ writer' = [writer EXCEPT !.pc = IF t.kind = "reduce" THEN "bound" ELSE "stage", !.shifted = FALSE]
    /\ UNCHANGED <<held, broker, news, publishing, pos, token, journal, faults>>

\* The frontier is captured and the journal read behind the evidence barrier.
ensureReduceFillCoherence ==
    /\ writer.pc = "bound"
    /\ publishing = NoCallback
    /\ writer' = [writer EXCEPT !.pc = IF FillKnown THEN "receipt" ELSE "fits", !.moved = FALSE]
    /\ UNCHANGED <<held, broker, news, publishing, pos, token, journal, faults>>

\* The completed positions receipt equals the bound quantity, and no callback
\* came meanwhile.
orderFillPositionsReceipt ==
    /\ writer.pc = "receipt"
    /\ ~writer.moved
    /\ held = token[writer.order].before
    /\ Turn("fits")
    /\ UNCHANGED <<held, broker, news, publishing, pos, token, journal, faults>>

validateReduceTokenForPlace ==
    LET t == token[writer.order] IN
    /\ writer.pc = "fits"
    /\ t.qty <= reduceFreeQuantity(t.before)
    /\ Turn("stage")
    /\ UNCHANGED <<held, broker, news, publishing, pos, token, journal, faults>>

\* The attempt is journalled and the token consumed before anything is sent.
StagePreTransmit ==
    /\ writer.pc = "stage"
    /\ journal[writer.order].state = "none"
    /\ journal' = [journal EXCEPT ![writer.order].state = "attempted"]
    /\ Turn("wire")
    /\ UNCHANGED <<held, broker, news, publishing, pos, token, faults>>

\* Mutant: only the portfolio binding is read again, not the fill frontier.
MutWireGuardSkipsFrontier ==
    /\ publishing = NoCallback
    /\ ~writer.shifted

\* The wire guard's own reads, made with every callback excluded.
brokerWireGuard ==
    /\ publishing = NoCallback
    /\ token[writer.order].kind = "reduce" => ~writer.moved
    /\ ~writer.shifted

\* The frame is written, or the transport fails when it may have been.
submitBoundConfiguredOrder ==
    LET o == writer.order IN
    /\ writer.pc = "wire"
    /\ brokerWireGuard
    /\ writer' = Idle
    /\ \/ /\ broker' = [broker EXCEPT ![o].state = "flight"]
          /\ UNCHANGED <<journal, faults>>
       \/ /\ Fault("unclear")
          /\ broker' \in {broker, [broker EXCEPT ![o].state = "flight"]}
          /\ journal' = [journal EXCEPT ![o].state = "uncertain"]
    /\ UNCHANGED <<held, news, publishing, pos, token>>

\* The guard refused, or a control changed: definitely unsent.  When that
\* outcome cannot be journalled the attempt stays open.
wireRefused ==
    /\ writer.pc = "wire"
    /\ writer' = Idle
    /\ \/ journal' = [journal EXCEPT ![writer.order].state = "closed"] /\ UNCHANGED faults
       \/ Fault("notJournalled") /\ UNCHANGED journal
    /\ UNCHANGED <<held, broker, news, publishing, pos, token>>

-----------------------------------------------------------------------------
(* The broker (external), and the two streams it feeds. *)

Tell(o, filled, over) == news' = Append(news, [order |-> o, filled |-> filled, over |-> over])

Accept(o) ==
    /\ broker[o].state = "flight"
    /\ broker' = [broker EXCEPT ![o].state = "working"]
    /\ Tell(o, 0, FALSE)
    /\ UNCHANGED <<held, publishing, pos, token, journal, writer, faults>>

Fill(o) ==
    LET filled == broker[o].filled + 1
        over == filled = token[o].qty
    IN
    /\ broker[o].state = "working" /\ held > 0
    /\ held' = held - 1
    /\ broker' = [broker EXCEPT ![o] = [state |-> IF over THEN "over" ELSE "working", filled |-> filled]]
    /\ Tell(o, filled, over)
    /\ UNCHANGED <<publishing, pos, token, journal, writer, faults>>

\* Cancelled, expired or rejected.
End(o) ==
    /\ broker[o].state \in {"flight", "working"}
    /\ broker' = [broker EXCEPT ![o].state = "over"]
    /\ Tell(o, broker[o].filled, TRUE)
    /\ UNCHANGED <<held, publishing, pos, token, journal, writer, faults>>

\* A callback advances the lifecycle generation before it journals.
dispatchOrderLifecycle ==
    /\ news # <<>> /\ publishing = NoCallback
    /\ publishing' = Head(news) /\ news' = Tail(news)
    /\ writer' = [writer EXCEPT !.moved = writer.pc # "idle"]
    /\ UNCHANGED <<held, broker, pos, token, journal, faults>>

\* Mutant: the callback's cumulative fill is added to the stored one.
MutCallbackAddsFills ==
    /\ publishing # NoCallback
    /\ journal' = [journal EXCEPT ![publishing.order] =
                      [state |-> IF publishing.over THEN "closed" ELSE "acked",
                       filled |-> @.filled + publishing.filled]]
    /\ publishing' = NoCallback
    /\ UNCHANGED <<held, broker, news, pos, token, writer, faults>>

journalCallback ==
    /\ publishing # NoCallback
    /\ journal' = [journal EXCEPT ![publishing.order] =
                      [state |-> IF publishing.over THEN "closed" ELSE "acked", filled |-> publishing.filled]]
    /\ publishing' = NoCallback
    /\ UNCHANGED <<held, broker, news, pos, token, writer, faults>>

\* Tokens and the writer were bound to an older generation of the stream.
Unbind == token' = [o \in Orders |-> [token[o] EXCEPT !.bound = FALSE]]

\* The stream reports a quantity the line had since its last report.
updatePortfolio ==
    /\ pos # Unknown
    /\ \E q \in held..Held : q < pos /\ pos' = q
    /\ Unbind
    /\ writer' = [writer EXCEPT !.shifted = writer.pc # "idle"]
    /\ UNCHANGED <<held, broker, news, publishing, journal, faults>>

\* A lost session drops the callbacks on the socket; the stream starts over.
Reconnect ==
    /\ Fault("reconnect")
    /\ publishing = NoCallback
    /\ news' = <<>> /\ pos' = Unknown
    /\ Unbind
    /\ writer' = IF writer.pc = "wire" THEN [writer EXCEPT !.shifted = TRUE] ELSE Idle
    /\ UNCHANGED <<held, broker, publishing, journal>>

Crash ==
    /\ Fault("crash")
    /\ news' = <<>> /\ publishing' = NoCallback /\ pos' = Unknown
    /\ Unbind
    /\ writer' = Idle
    /\ UNCHANGED <<held, broker, journal>>

\* The account download after a reconnect or a restart.
portfolioDownload ==
    /\ pos = Unknown
    /\ pos' = held
    /\ UNCHANGED <<held, broker, news, publishing, token, journal, writer, faults>>

\* A complete order list tells again what callbacks lost with a connection
\* had said of a working order.
SnapshotOpenOrders(o) ==
    /\ broker[o].state = "working"
    /\ journal[o] # [state |-> "acked", filled |-> broker[o].filled]
    /\ publishing = NoCallback /\ \A i \in DOMAIN news : news[i].order # o
    /\ Tell(o, broker[o].filled, FALSE)
    /\ UNCHANGED <<held, broker, publishing, pos, token, journal, writer, faults>>

\* Mutant: a row that has filled in part is left open.
MutSweepKeepsPartial(o) ==
    /\ journal[o] = [state |-> "acked", filled |-> 0]
    /\ broker[o].state = "over"
    /\ publishing = NoCallback /\ \A i \in DOMAIN news : news[i].order # o
    /\ journal' = [journal EXCEPT ![o].state = "closed"]
    /\ UNCHANGED <<held, broker, news, publishing, pos, token, writer, faults>>

\* The complete order list no longer shows an order the broker once confirmed
\* (its row has a PermID), and no callback about it is on the way (see
\* OrderReconcile).  What it had filled stays unknown to the journal.
sweepCloses(o) ==
    /\ journal[o].state = "acked"
    /\ broker[o].state = "over"
    /\ publishing = NoCallback /\ \A i \in DOMAIN news : news[i].order # o
    /\ journal' = [journal EXCEPT ![o].state = "closed"]
    /\ UNCHANGED <<held, broker, news, publishing, pos, token, writer, faults>>

placeOrder ==
    \/ bindPreviewOrderRiskAuthority
    \/ ensureReduceFillCoherence
    \/ orderFillPositionsReceipt
    \/ validateReduceTokenForPlace
    \/ StagePreTransmit
    \/ submitBoundConfiguredOrder
    \/ wireRefused
    \/ Refuse

Next ==
    \/ \E o \in Orders :
          \/ tradeProposalReducePreview(o) \/ reduceTokenLeg(o) \/ handleOrderPlace(o)
          \/ tradeProposalReduceSubmit(o) \/ submitRow(o)
          \/ Accept(o) \/ Fill(o) \/ End(o) \/ SnapshotOpenOrders(o) \/ sweepCloses(o)
    \/ reductionOrderBlockers \/ sameContractUnacknowledgedOrder
    \/ placeOrder
    \/ dispatchOrderLifecycle \/ journalCallback
    \/ updatePortfolio \/ Reconnect \/ Crash \/ portfolioDownload

Spec == Init /\ [][Next]_vars

\* The reader delivers callbacks and the stream, the sweep runs on its timer,
\* and the holder of the lock finishes.
Fairness ==
    /\ WF_vars(dispatchOrderLifecycle) /\ WF_vars(journalCallback)
    /\ WF_vars(updatePortfolio) /\ WF_vars(portfolioDownload)
    /\ WF_vars(placeOrder)
    /\ \A o \in Orders : WF_vars(sweepCloses(o))

FairSpec == Spec /\ Fairness

-----------------------------------------------------------------------------
\* The units Canary's orders can still sell at the broker.
Live == {u \in Orders \X (1..Held) : /\ broker[u[1]].state \in {"flight", "working"}
                                    /\ u[2] \in (broker[u[1]].filled + 1)..token[u[1]].qty}

Working == Cardinality(Live)

Sends(o) == broker[o].state = "none" /\ broker'[o].state = "flight"

\* When a reduction is sent, everything Canary's orders can still sell of the
\* line, this order included, is held at that moment: two reductions, or a
\* reduction and a row, never sell the same unit, however late the fills
\* reach the journal and the portfolio stream (validateReduceTokenForPlace,
\* ensureReduceFillCoherence and the wire guard's frontier together).
ReduceFits ==
    [][\A o \in Orders : Sends(o) /\ token[o].kind = "reduce" => (Working <= held)']_vars

\* A netted row sent after an earlier sale filled asks for no more than the
\* position that sale left (reductionOrderBlockers: "recomputes from the new
\* position").
RowRecomputes ==
    [][\A o \in Orders : Sends(o) /\ token[o].kind = "row" => (token[o].qty <= held)']_vars

\* Once nothing of Canary's works at the broker, the stream reaches the
\* position and every sale the broker ever confirmed stops reserving units,
\* unless another order is sent first: a terminal callback lost with its
\* connection may delay this, not prevent it.  A send the broker never
\* confirmed keeps its units, the sweep being limited to rows with a PermID,
\* but that takes a fault: without one nothing stays reserved.
CapacityReturns ==
    Working = 0 ~> \/ Working # 0
                   \/ /\ pos = held
                      /\ \A o \in Orders : Open(o) => Unacknowledged(o)
                      /\ faults = 0 => reduceCommittedSales = 0
============================================================================
