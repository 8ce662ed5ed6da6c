------------------------ MODULE LineReductionProofs ------------------------
(***************************************************************************)
(* A reduction that is sent fits what is held (ReduceFits).                *)
(*                                                                         *)
(* The two streams a place is judged by may both trail the broker.  What   *)
(* makes up for it is that a fill the portfolio stream does not show yet   *)
(* is of an order the journal still counts in full, because its callback   *)
(* is still on the way; the invariant states this as an inequality for     *)
(* each step of the place path, and the units of the orders are sets, so   *)
(* that the sums are cardinalities.                                        *)
(***************************************************************************)
EXTENDS LineReduction, FiniteSetTheorems, TLAPS

Units == Orders \X (1..Held)

\* What the journal, the broker's record and the token of an order say agrees
\* with what happened to it.
OrderOK(o) ==
    /\ token[o].kind = "none" => journal[o].state = "none"
    /\ token[o].kind # "none" => token[o].qty >= 1
    /\ journal[o].state = "none" => broker[o].state = "none"
    /\ broker[o].state \in {"none", "flight"} => broker[o].filled = 0
    /\ broker[o].state = "working" => broker[o].filled < token[o].qty
    /\ broker[o].filled <= token[o].qty
    /\ broker[o].state \in {"flight", "working"} => Open(o)
    /\ journal[o].filled <= broker[o].filled

\* A callback says what was true of its order, nothing the journal knows
\* better, and its last word when the order is over.
Says(e, b, j) ==
    /\ b.state \in {"working", "over"}
    /\ j.filled <= e.filled /\ e.filled <= b.filled
    /\ e.over => b.state = "over" /\ e.filled = b.filled
    /\ e.filled > 0 /\ j.filled = 0 => j.state \in {"attempted", "uncertain", "acked"}

\* Callbacks arrive in the order of the fills they report.
CallbacksOK ==
    /\ publishing # NoCallback => Says(publishing, broker[publishing.order], journal[publishing.order])
    /\ \A i \in DOMAIN news :
          /\ Says(news[i], broker[news[i].order], journal[news[i].order])
          /\ publishing.order = news[i].order => publishing.filled <= news[i].filled
          /\ \A j \in DOMAIN news :
                i < j /\ news[i].order = news[j].order => news[i].filled <= news[j].filled

\* The units filled by orders some callback of which still carries a fill.
Pending(o) ==
    \/ publishing.order = o /\ publishing.filled > 0
    \/ \E i \in DOMAIN news : news[i].order = o /\ news[i].filled > 0

Untold == {u \in Orders \X (1..Held) : Pending(u[1]) /\ u[2] <= broker[u[1]].filled}

\* While no fill is known, the stream trails the broker by such units at most.
StreamOK == ~FillKnown /\ pos # Unknown => pos <= held + Cardinality(Untold)

WriterOK ==
    LET w == writer IN
    /\ w.pc # "idle" => w.order \in Orders /\ token[w.order].kind # "none"
    /\ w.pc \in {"place", "netting", "unacked", "bound", "receipt", "fits", "stage"} =>
          journal[w.order].state = "none"
    /\ w.pc \in {"bound", "receipt", "fits"} => token[w.order].kind = "reduce"
    /\ w.pc \in {"bound", "receipt", "fits", "stage", "wire"} /\ ~w.shifted => pos = token[w.order].before
    /\ w.pc \in {"receipt", "fits"} /\ ~w.moved => publishing = NoCallback
    /\ w.pc = "wire" => broker[w.order].state = "none" /\ journal[w.order].state = "attempted"

\* The units the journal counts and the broker has sold or let go, of orders a
\* callback about which is on the way.
Slack == {u \in Committed \ Live : \E i \in DOMAIN news : news[i].order = u[1]}

\* Past the receipt, the bound position trails by such units at most.
FitOK ==
    writer.pc = "fits" /\ ~writer.moved /\ ~writer.shifted =>
        token[writer.order].before <= held + Cardinality(Slack)

\* Past the last reading of the journal, the order fits beside the others.
SendOK ==
    writer.pc \in {"stage", "wire"} /\ token[writer.order].kind = "reduce"
            /\ ~writer.moved /\ ~writer.shifted =>
        Working + token[writer.order].qty <= held

IInv ==
    /\ TypeOK
    /\ \A o \in Orders : OrderOK(o)
    /\ CallbacksOK /\ StreamOK /\ WriterOK /\ FitOK /\ SendOK

-----------------------------------------------------------------------------
(* Counting units. *)

\* A set of units is finite, and a part of it is no larger.
LEMMA UnitsCount ==
    ASSUME NEW S \in SUBSET Units
    PROVE  /\ IsFiniteSet(S) /\ Cardinality(S) \in Nat
           /\ \A T \in SUBSET S : Cardinality(T) \in Nat /\ Cardinality(T) <= Cardinality(S)
<1>1. IsFiniteSet(Orders) /\ IsFiniteSet(1..Held)
  BY FS_Interval, LineAssumption DEF Orders, LineAssumption
<1>2. IsFiniteSet(Units)
  BY <1>1, FS_Product, Zenon DEF Units
<1>3. IsFiniteSet(S)
  BY <1>2, FS_Subset
<1> QED BY <1>3, FS_Subset, FS_CardinalityType

\* Two sets without a common unit count together what they count alone.
LEMMA UnitsApart ==
    ASSUME NEW S \in SUBSET Units, NEW T \in SUBSET Units, S \cap T = {}
    PROVE  Cardinality(S \cup T) = Cardinality(S) + Cardinality(T)
<1>1. Cardinality(S \cup T) = Cardinality(S) + Cardinality(T) - Cardinality({})
  BY UnitsCount, FS_Union
<1> QED BY <1>1, UnitsCount, FS_EmptySet

\* One unit more counts one more.
LEMMA UnitsOneMore ==
    ASSUME NEW S \in SUBSET Units, NEW x \in Units, x \notin S
    PROVE  Cardinality(S \cup {x}) = Cardinality(S) + 1
  BY UnitsCount, FS_AddElement

\* A larger set that has one unit more counts at least one more.
LEMMA UnitsGrow ==
    ASSUME NEW T \in SUBSET Units, NEW S \in SUBSET T, NEW x \in T \ S
    PROVE  Cardinality(S) + 1 <= Cardinality(T) /\ Cardinality(S) \in Nat /\ Cardinality(T) \in Nat
<1>1. Cardinality(S \cup {x}) = Cardinality(S) + 1
  BY UnitsOneMore
<1>2. S \cup {x} \in SUBSET T
  OBVIOUS
<1> QED BY <1>1, <1>2, UnitsCount

\* An order of n units has n units.
LEMMA UnitsOfOne ==
    ASSUME NEW o \in Orders, NEW n \in 0..Held
    PROVE  {o} \X (1..n) \in SUBSET Units /\ Cardinality({o} \X (1..n)) = n
<1>1. n \in Nat /\ {o} \X (1..n) \in SUBSET Units
  BY LineAssumption DEF LineAssumption, Units
<1>2. IsFiniteSet(1..n) /\ Cardinality(1..n) = n
  BY <1>1, FS_Interval
<1>3. IsFiniteSet({o}) /\ Cardinality({o}) = 1
  BY FS_Singleton, Zenon
<1>4. Cardinality({o} \X (1..n)) = 1 * n
  <2>1. Cardinality({o} \X (1..n)) = Cardinality({o}) * Cardinality(1..n)
    BY <1>2, <1>3, FS_Product, ZenonT(30)
  <2> QED BY <1>2, <1>3, <2>1, Zenon
<1> QED BY <1>1, <1>4

-----------------------------------------------------------------------------
(* Types. *)

\* A step keeps every quantity within what was held at the start.
LEMMA TypeStep == ASSUME IInv, Next PROVE TypeOK'
<1> USE LineAssumption DEF LineAssumption
<1>0. TypeOK /\ WriterOK /\ \A o \in Orders : OrderOK(o)
  BY DEF IInv
<1>1. Idle \in Writers /\ \A o \in Orders, c \in {"place", "netting"} : [Idle EXCEPT !.pc = c, !.order = o] \in Writers
  <2>1. 0 \in 0..MaxOrders /\ FALSE \in BOOLEAN /\ \A o \in Orders : o \in 0..MaxOrders
    BY DEF Orders
  <2> QED BY <2>1, Zenon DEF Idle, Writers
<1>2. ASSUME NEW c \in {"place", "unacked", "stage", "fits", "wire"} PROVE [writer EXCEPT !.pc = c] \in Writers
  BY <1>0 DEF TypeOK, Writers
<1>3. ASSUME NEW o \in Orders, NEW k \in {"reduce", "row"}, NEW q \in Nat, Mint(o, k, q), pos # Unknown
      PROVE  token' \in [Orders -> Tokens]
  BY <1>0, <1>3 DEF Mint, TypeOK, Tokens, Unknown
<1>4. \A o \in Orders, n \in 0..Held, v \in BOOLEAN : Tell(o, n, v) => news' \in Seq(Callbacks)
  BY <1>0 DEF Tell, TypeOK, Callbacks
<1>5. Unbind => token' \in [Orders -> Tokens]
  <2>1. \A x \in Tokens : [x EXCEPT !.bound = FALSE] \in Tokens
    BY Zenon DEF Tokens
  <2> QED BY <1>0, <2>1, Zenon DEF Unbind, TypeOK
<1>6. \A f : Fault(f) => faults' \in 0..MaxFaults
  BY <1>0 DEF Fault, TypeOK
<1>7. ASSUME NEW o \in Orders,
             reduceTokenLeg(o) \/ handleOrderPlace(o)
      PROVE  TypeOK'
  BY <1>0, <1>1, <1>7, Zenon DEF reduceTokenLeg, handleOrderPlace, Take, TypeOK
<1>8. CASE Refuse \/ reductionOrderBlockers \/ sameContractUnacknowledgedOrder
           \/ orderFillPositionsReceipt \/ validateReduceTokenForPlace
  BY <1>0, <1>1, <1>2, <1>8, Zenon DEF Refuse, reductionOrderBlockers, sameContractUnacknowledgedOrder,
     orderFillPositionsReceipt, validateReduceTokenForPlace, Turn, TypeOK
<1>9. CASE bindPreviewOrderRiskAuthority \/ ensureReduceFillCoherence
  <2>1. writer' \in Writers
    BY <1>0, <1>9, Zenon DEF bindPreviewOrderRiskAuthority, ensureReduceFillCoherence, TypeOK, Writers
  <2> QED BY <1>0, <1>9, <2>1, Zenon DEF bindPreviewOrderRiskAuthority, ensureReduceFillCoherence, TypeOK
<1>10. ASSUME NEW o \in Orders, prepareReduce(o) PROVE token' \in [Orders -> Tokens]
  <2>1. PICK percent \in Percents : Mint(o, "reduce", reduceQuantityForPercent(reduceFreeQuantity(pos), percent))
    BY <1>10 DEF prepareReduce
  <2>2. reduceQuantityForPercent(reduceFreeQuantity(pos), percent) \in Nat /\ pos # Unknown
    BY <1>0, <1>10, <2>1 DEF Mint, prepareReduce, reducePositions, TypeOK, Unknown
  <2> QED BY <1>3, <2>1, <2>2
<1>11. ASSUME NEW o \in Orders, tradeProposalReducePreview(o) \/ tradeProposalReduceSubmit(o) \/ submitRow(o)
       PROVE  TypeOK'
  <2>1. token' \in [Orders -> Tokens]
    <3>1. CASE submitRow(o)
      <4>1. PICK q \in 1..pos : Mint(o, "row", q)
        BY <3>1 DEF submitRow
      <4>2. q \in Nat /\ pos # Unknown
        BY <1>0, <3>1 DEF submitRow, TypeOK, Unknown
      <4> QED BY <1>3, <4>1, <4>2
    <3> QED BY <1>10, <1>11, <3>1, Zenon DEF tradeProposalReducePreview, tradeProposalReduceSubmit
  <2> QED BY <1>0, <1>1, <1>11, <2>1, Zenon DEF tradeProposalReducePreview, tradeProposalReduceSubmit, submitRow,
          Take, TypeOK
<1>12. CASE StagePreTransmit
  <2>1. journal' \in [Orders -> JournalRows]
    BY <1>0, <1>12, ZenonT(30) DEF StagePreTransmit, TypeOK, JournalRows
  <2> QED BY <1>0, <1>2, <1>12, <2>1, Zenon DEF StagePreTransmit, Turn, TypeOK
<1>13. CASE submitBoundConfiguredOrder \/ wireRefused
  <2>0. writer.order \in Orders
    BY <1>0, <1>13 DEF submitBoundConfiguredOrder, wireRefused, WriterOK
  <2>1. journal' \in [Orders -> JournalRows]
    <3>1. \A o \in Orders, st \in {"uncertain", "closed"} : [journal EXCEPT ![o].state = st] \in [Orders -> JournalRows]
      BY <1>0 DEF TypeOK, JournalRows
    <3> QED BY <1>0, <1>13, <2>0, <3>1 DEF submitBoundConfiguredOrder, wireRefused, TypeOK
  <2>2. broker' \in [Orders -> BrokerRows]
    <3>1. \A o \in Orders : [broker EXCEPT ![o].state = "flight"] \in [Orders -> BrokerRows]
      BY <1>0, Zenon DEF TypeOK, BrokerRows
    <3> QED BY <1>0, <1>13, <2>0, <3>1, Zenon DEF submitBoundConfiguredOrder, wireRefused, TypeOK
  <2> QED BY <1>0, <1>1, <1>6, <1>13, <2>1, <2>2, Zenon DEF submitBoundConfiguredOrder, wireRefused, TypeOK
<1>14. ASSUME NEW o \in Orders, Accept(o) \/ End(o) \/ SnapshotOpenOrders(o)
       PROVE  TypeOK'
  <2>1. broker' \in [Orders -> BrokerRows] /\ broker[o].filled \in 0..Held
    <3>1. \A st \in {"working", "over"} : [broker EXCEPT ![o].state = st] \in [Orders -> BrokerRows]
      BY <1>0, Zenon DEF TypeOK, BrokerRows
    <3> QED BY <1>0, <1>14, <3>1, Zenon DEF Accept, End, SnapshotOpenOrders, TypeOK, BrokerRows
  <2>2. 0 \in 0..Held
    OBVIOUS
  <2> QED BY <1>0, <1>4, <1>14, <2>1, <2>2, Zenon DEF Accept, End, SnapshotOpenOrders, TypeOK
<1>15. ASSUME NEW o \in Orders, Fill(o) PROVE TypeOK'
  <2>1. broker[o].filled + 1 \in 0..Held
    BY <1>0, <1>15 DEF Fill, TypeOK, BrokerRows, Tokens, OrderOK
  <2>2. broker' \in [Orders -> BrokerRows]
    BY <1>0, <1>15, <2>1 DEF Fill, TypeOK, BrokerRows
  <2>3. news' \in Seq(Callbacks)
    <3>1. (broker[o].filled + 1 = token[o].qty) \in BOOLEAN
      OBVIOUS
    <3> QED BY <1>4, <1>15, <2>1, <3>1, Zenon DEF Fill
  <2>4. held' \in 0..Held
    BY <1>0, <1>15 DEF Fill, TypeOK
  <2> QED BY <1>0, <1>15, <2>2, <2>3, <2>4, Zenon DEF Fill, TypeOK
<1>16. ASSUME NEW o \in Orders, sweepCloses(o) PROVE TypeOK'
  <2>1. journal' \in [Orders -> JournalRows]
    BY <1>0, <1>16, Zenon DEF sweepCloses, TypeOK, JournalRows
  <2> QED BY <1>0, <1>16, <2>1, Zenon DEF sweepCloses, TypeOK
<1>17. CASE dispatchOrderLifecycle
  <2>1. Head(news) \in Callbacks /\ Tail(news) \in Seq(Callbacks)
    BY <1>0, <1>17 DEF dispatchOrderLifecycle, TypeOK
  <2>2. writer' \in Writers
    BY <1>0, <1>17, Zenon DEF dispatchOrderLifecycle, TypeOK, Writers
  <2> QED BY <1>0, <1>17, <2>1, <2>2, Zenon DEF dispatchOrderLifecycle, TypeOK
<1>18. CASE journalCallback
  <2>1. publishing \in Callbacks
    BY <1>0, <1>18 DEF journalCallback, TypeOK
  <2>2. journal' \in [Orders -> JournalRows]
    BY <1>0, <1>18, <2>1 DEF journalCallback, TypeOK, JournalRows, Callbacks
  <2> QED BY <1>0, <1>18, <2>2, Zenon DEF journalCallback, TypeOK
<1>19. CASE updatePortfolio
  <2>1. pos' \in 0..Unknown
    BY <1>0, <1>19 DEF updatePortfolio, TypeOK, Unknown
  <2>2. writer' \in Writers
    BY <1>0, <1>19, Zenon DEF updatePortfolio, TypeOK, Writers
  <2> QED BY <1>0, <1>5, <1>19, <2>1, <2>2, Zenon DEF updatePortfolio, TypeOK
<1>20. CASE Reconnect \/ Crash
  <2>1. Unknown \in 0..Unknown /\ <<>> \in Seq(Callbacks)
    BY DEF Unknown
  <2>2. writer' \in Writers
    <3>1. [writer EXCEPT !.shifted = TRUE] \in Writers
      BY <1>0, Zenon DEF TypeOK, Writers
    <3> QED BY <1>1, <1>20, <3>1, Zenon DEF Reconnect, Crash
  <2> QED BY <1>0, <1>5, <1>6, <1>20, <2>1, <2>2, Zenon DEF Reconnect, Crash, TypeOK
<1>21. CASE portfolioDownload
  <2>1. held \in 0..Unknown
    BY <1>0 DEF TypeOK, Unknown
  <2> QED BY <1>0, <1>21, <2>1, Zenon DEF portfolioDownload, TypeOK
<1> QED BY <1>7, <1>8, <1>9, <1>11, <1>12, <1>13, <1>14, <1>15, <1>16, <1>17, <1>18, <1>19, <1>20, <1>21
        DEF Next, placeOrder
-----------------------------------------------------------------------------
(* What a step leaves alone. *)

\* The steps that move the writer only.
Moves ==
    \/ \E o \in Orders : reduceTokenLeg(o) \/ handleOrderPlace(o)
    \/ reductionOrderBlockers \/ sameContractUnacknowledgedOrder
    \/ bindPreviewOrderRiskAuthority \/ ensureReduceFillCoherence \/ orderFillPositionsReceipt
    \/ validateReduceTokenForPlace \/ Refuse

\* The steps that move the writer leave everything else.
LEMMA MovesFrame == Moves => UNCHANGED <<held, broker, news, publishing, pos, token, journal, faults>>
  BY Zenon DEF Moves, reduceTokenLeg, handleOrderPlace, reductionOrderBlockers, sameContractUnacknowledgedOrder,
     bindPreviewOrderRiskAuthority, ensureReduceFillCoherence, orderFillPositionsReceipt, validateReduceTokenForPlace, Refuse

\* The steps that mint a token, for a quantity within the position they read.
Mints(o) == tradeProposalReducePreview(o) \/ tradeProposalReduceSubmit(o) \/ submitRow(o)

\* A preview mints one token that was not, and leaves the books.
LEMMA MintsFrame ==
    ASSUME TypeOK, NEW o \in Orders, Mints(o)
    PROVE  /\ UNCHANGED <<held, broker, news, publishing, pos, journal, faults>>
           /\ token[o].kind = "none" /\ token'[o].kind # "none" /\ token'[o].qty >= 1
           /\ \A p \in Orders \ {o} : token'[p] = token[p]
<1>1. UNCHANGED <<held, broker, news, publishing, pos, journal, faults>> /\ \E k \in {"reduce", "row"} : \E q : Mint(o, k, q)
  BY Zenon DEF Mints, tradeProposalReducePreview, tradeProposalReduceSubmit, submitRow, prepareReduce
<1>2. PICK k \in {"reduce", "row"} : \E q : Mint(o, k, q)
  BY <1>1
<1>3. PICK q : Mint(o, k, q)
  BY <1>2
<1>4. q \in 1..pos /\ pos \in Nat /\ token[o].kind = "none"
      /\ token' = [token EXCEPT ![o] = [kind |-> k, qty |-> q, before |-> pos, bound |-> TRUE]]
  BY <1>3 DEF Mint, TypeOK
<1>5. token'[o] = [kind |-> k, qty |-> q, before |-> pos, bound |-> TRUE] /\ \A p \in Orders \ {o} : token'[p] = token[p]
  BY <1>4 DEF TypeOK
<1>6. token'[o].kind = k /\ token'[o].qty = q
  BY <1>5
<1> QED BY <1>1, <1>4, <1>5, <1>6

\* A generation of the stream that ends leaves what its tokens say.
LEMMA UnbindFrame ==
    ASSUME TypeOK, Unbind, NEW o \in Orders
    PROVE  token'[o].kind = token[o].kind /\ token'[o].qty = token[o].qty /\ token'[o].before = token[o].before
  BY DEF Unbind, TypeOK, Tokens

\* A change of an order's state, and no other.
Restated(f, g) == f = g \/ \E x, s : g = [f EXCEPT ![x].state = s]

\* A change of state leaves the fills as they are.
LEMMA FillsKept ==
    ASSUME TypeOK, NEW o \in Orders
    PROVE  /\ Restated(broker, broker') => broker'[o].filled = broker[o].filled
           /\ Restated(journal, journal') => journal'[o].filled = journal[o].filled
<1>1. broker[o] \in BrokerRows /\ journal[o] \in JournalRows /\ DOMAIN broker = Orders /\ DOMAIN journal = Orders
  BY DEF TypeOK
<1> QED BY <1>1 DEF BrokerRows, JournalRows, Restated

\* Next, by what its steps do.
LEMMA Cases ==
    ASSUME Next
    PROVE  \/ Moves
           \/ \E o \in Orders : \/ Mints(o) \/ Accept(o) \/ Fill(o) \/ End(o)
                                \/ SnapshotOpenOrders(o) \/ sweepCloses(o)
           \/ StagePreTransmit \/ submitBoundConfiguredOrder \/ wireRefused
           \/ dispatchOrderLifecycle \/ journalCallback
           \/ updatePortfolio \/ Reconnect \/ Crash \/ portfolioDownload
  BY Zenon DEF Next, placeOrder, Moves, Mints

-----------------------------------------------------------------------------
(* The rows of an order. *)

\* The token, the journal's row and the broker's of one order stay in step.
LEMMA OrdersStep == ASSUME IInv, Next, NEW o \in Orders PROVE OrderOK(o)'
<1>0. TypeOK /\ WriterOK /\ CallbacksOK /\ OrderOK(o)
  BY DEF IInv
<1>1. broker[o] \in BrokerRows /\ journal[o] \in JournalRows /\ token[o] \in Tokens
  BY <1>0 DEF TypeOK
<1>2. CASE UNCHANGED <<token, journal, broker>>
  BY <1>0, <1>2, Zenon DEF OrderOK, Open
<1>3. ASSUME NEW p \in Orders, Mints(p) PROVE OrderOK(o)'
  <2>1. UNCHANGED <<broker, journal>> /\ (o # p => token'[o] = token[o])
    BY <1>0, <1>3, MintsFrame
  <2>2. CASE o # p
    BY <1>0, <2>1, <2>2 DEF OrderOK, Open
  <2>3. CASE o = p
    <3>1. token[o].kind = "none" /\ token'[o].kind # "none" /\ token'[o].qty >= 1
      BY <1>0, <1>3, <2>3, MintsFrame
    <3>2. broker'[o].state = "none" /\ broker'[o].filled = 0 /\ token'[o].qty \in Int
      BY <1>0, <2>1, <3>1, TypeStep, SMTT(30) DEF OrderOK, TypeOK, Tokens
    <3> QED BY <1>0, <1>1, <2>1, <3>1, <3>2 DEF OrderOK, Open
  <2> QED BY <2>2, <2>3
<1>4. CASE UNCHANGED <<journal, broker>> /\ Unbind
  BY <1>0, <1>4, UnbindFrame DEF OrderOK, Open
<1>5. CASE StagePreTransmit
  BY <1>0, <1>1, <1>5 DEF StagePreTransmit, OrderOK, Open, WriterOK, TypeOK
<1>6. CASE submitBoundConfiguredOrder
  <2>1. writer.order \in Orders /\ UNCHANGED token /\ broker[writer.order].state = "none"
        /\ journal[writer.order].state = "attempted"
    BY <1>0, <1>6 DEF submitBoundConfiguredOrder, WriterOK
  <2>2. /\ broker'[o].filled = broker[o].filled /\ journal'[o].filled = journal[o].filled
        /\ o # writer.order => broker'[o].state = broker[o].state /\ journal'[o].state = journal[o].state
        /\ o = writer.order => broker'[o].state \in {"none", "flight"} /\ journal'[o].state \in {"attempted", "uncertain"}
    <3>1. \/ broker' = broker \/ broker' = [broker EXCEPT ![writer.order].state = "flight"]
      BY <1>6 DEF submitBoundConfiguredOrder
    <3>2. \/ journal' = journal \/ journal' = [journal EXCEPT ![writer.order].state = "uncertain"]
      BY <1>6 DEF submitBoundConfiguredOrder
    <3>3. /\ broker'[o].filled = broker[o].filled /\ (o # writer.order => broker'[o].state = broker[o].state)
          /\ o = writer.order => broker'[o].state \in {"none", "flight"}
      BY <1>0, <1>1, <2>1, <3>1 DEF TypeOK, BrokerRows
    <3>4. /\ journal'[o].filled = journal[o].filled /\ (o # writer.order => journal'[o].state = journal[o].state)
          /\ o = writer.order => journal'[o].state \in {"attempted", "uncertain"}
      BY <1>0, <1>1, <2>1, <3>2 DEF TypeOK, JournalRows
    <3> QED BY <3>3, <3>4
  <2> QED BY <1>0, <2>1, <2>2 DEF OrderOK, Open
<1>7. CASE wireRefused
  <2>1. writer.order \in Orders /\ UNCHANGED <<token, broker>> /\ broker[writer.order].state = "none"
        /\ journal[writer.order].state = "attempted"
    BY <1>0, <1>7 DEF wireRefused, WriterOK
  <2>2. /\ journal'[o].filled = journal[o].filled
        /\ o # writer.order => journal'[o].state = journal[o].state
        /\ o = writer.order => journal'[o].state \in {"attempted", "closed"}
    BY <1>0, <1>1, <1>7, <2>1, SMTT(30) DEF wireRefused, TypeOK, JournalRows
  <2> QED BY <1>0, <2>1, <2>2 DEF OrderOK, Open
<1>8. ASSUME NEW p \in Orders, Accept(p) \/ Fill(p) \/ End(p) PROVE OrderOK(o)'
  <2>1. UNCHANGED <<token, journal>> /\ (o # p => broker'[o] = broker[o])
    BY <1>0, <1>8, Zenon DEF Accept, Fill, End, TypeOK
  <2>2. CASE o # p
    BY <1>0, <2>1, <2>2 DEF OrderOK, Open
  <2>3. CASE o = p /\ (Accept(p) \/ End(p))
    <3>1. /\ broker'[o].filled = broker[o].filled /\ broker[o].state \in {"flight", "working"}
          /\ broker'[o].state = "over" \/ (broker[o].state = "flight" /\ broker'[o].state = "working")
      <4>1. CASE Accept(p)
        BY <1>0, <1>1, <2>3, <4>1 DEF Accept, TypeOK, BrokerRows
      <4>2. CASE End(p)
        BY <1>0, <1>1, <2>3, <4>2 DEF End, TypeOK, BrokerRows
      <4> QED BY <2>3, <4>1, <4>2
    <3>2. broker[o].filled \in Int /\ token[o].qty \in Int /\ (token[o].kind # "none" => token[o].qty >= 1)
          /\ token[o].kind # "none"
      BY <1>0, <1>1, <3>1 DEF OrderOK, BrokerRows, Tokens
    <3> QED BY <1>0, <2>1, <3>1, <3>2 DEF OrderOK, Open
  <2>4. CASE o = p /\ Fill(p)
    <3>1. /\ broker'[o].filled = broker[o].filled + 1 /\ broker[o].state = "working"
          /\ broker'[o].state = IF broker[o].filled + 1 = token[o].qty THEN "over" ELSE "working"
      BY <1>0, <1>1, <2>4 DEF Fill, TypeOK, BrokerRows
    <3>2. broker[o].filled \in Int /\ token[o].qty \in Int /\ journal[o].filled \in Int
      BY <1>1 DEF BrokerRows, Tokens, JournalRows
    <3> QED BY <1>0, <2>1, <3>1, <3>2 DEF OrderOK, Open
  <2> QED BY <1>8, <2>2, <2>3, <2>4
<1>9. ASSUME NEW p \in Orders, sweepCloses(p) PROVE OrderOK(o)'
  BY <1>0, <1>1, <1>9, SMTT(30) DEF sweepCloses, OrderOK, Open, TypeOK
<1>10. CASE journalCallback
  BY <1>0, <1>1, <1>10 DEF journalCallback, CallbacksOK, Says, OrderOK, Open, TypeOK, JournalRows,
     BrokerRows, Callbacks, NoCallback
<1> QED
  <2>1. \/ UNCHANGED <<token, journal, broker>> \/ (UNCHANGED <<journal, broker>> /\ Unbind)
        \/ \E p \in Orders : Mints(p) \/ Accept(p) \/ Fill(p) \/ End(p) \/ sweepCloses(p)
        \/ StagePreTransmit \/ submitBoundConfiguredOrder \/ wireRefused \/ journalCallback
    BY Cases, MovesFrame, Zenon DEF SnapshotOpenOrders, dispatchOrderLifecycle, updatePortfolio, Reconnect,
       Crash, portfolioDownload
  <2> QED BY <1>2, <1>3, <1>4, <1>5, <1>6, <1>7, <1>8, <1>9, <1>10, <2>1, Zenon
-----------------------------------------------------------------------------
(* The callbacks on the way. *)

\* A callback is of an order, and what is said in it are numbers.
LEMMA NewsTypes ==
    ASSUME TypeOK, NEW i \in DOMAIN news
    PROVE  news[i] \in Callbacks /\ news[i].order \in Orders /\ news[i].filled \in Nat
<1>1. news[i] \in Callbacks
  BY DEF TypeOK
<1> QED BY <1>1 DEF Callbacks

\* The same of the callback being published.
LEMMA PublishingTypes ==
    ASSUME TypeOK
    PROVE  /\ publishing.filled \in Nat
           /\ publishing # NoCallback => publishing \in Callbacks /\ publishing.order \in Orders
           /\ publishing = NoCallback => publishing.order \notin Orders
<1>1. CASE publishing = NoCallback
  BY <1>1 DEF NoCallback, Orders
<1>2. CASE publishing # NoCallback
  BY <1>2 DEF TypeOK, Callbacks
<1> QED BY <1>1, <1>2

\* The broker, or the list it answers with, tells one more.
LEMMA TellStep ==
    ASSUME TypeOK, TypeOK', CallbacksOK, NEW o \in Orders, OrderOK(o), NEW n, NEW v, Tell(o, n, v),
           UNCHANGED <<publishing, journal>>, \A p \in Orders \ {o} : broker'[p] = broker[p],
           broker[o].state \in {"flight", "working"}, broker'[o].state \in {"working", "over"},
           n = broker'[o].filled, broker[o].filled <= n, v => broker'[o].state = "over"
    PROVE  CallbacksOK'
<1> DEFINE c == [order |-> o, filled |-> n, over |-> v]
<1>1. /\ news' = Append(news, c) /\ DOMAIN news' = 1..(Len(news) + 1) /\ Len(news) \in Nat
      /\ DOMAIN news = 1..Len(news)
      /\ \A i \in DOMAIN news : news'[i] = news[i]
      /\ news'[Len(news) + 1] = c
  BY DEF Tell, TypeOK
<1>2. c.order = o /\ c.filled = n /\ c.over = v
  OBVIOUS
<1> HIDE DEF c
<1>3. broker[o].filled \in Nat /\ n \in Nat /\ journal[o].filled \in Nat
  BY DEF TypeOK, BrokerRows, JournalRows
<1>4. ASSUME NEW e, e.filled \in Nat, NEW p \in Orders, Says(e, broker[p], journal[p])
      PROVE  Says(e, broker'[p], journal'[p]) /\ (p = o => e.filled <= n)
  <2>1. CASE p # o
    BY <1>4, <2>1
  <2>2. CASE p = o
    BY <1>3, <1>4, <2>2 DEF Says
  <2> QED BY <2>1, <2>2
<1>5. Says(c, broker'[o], journal'[o])
  BY <1>2, <1>3 DEF Says, OrderOK, Open
<1>6. publishing # NoCallback => Says(publishing, broker'[publishing.order], journal'[publishing.order])
  BY <1>4, PublishingTypes DEF CallbacksOK
<1>7. ASSUME NEW i \in DOMAIN news
      PROVE  /\ Says(news[i], broker'[news[i].order], journal'[news[i].order])
             /\ news[i].order = o => news[i].filled <= n
             /\ publishing.order = news[i].order => publishing.filled <= news[i].filled
  BY <1>4, NewsTypes DEF CallbacksOK
<1>8. publishing.order = o => publishing.filled <= n
  BY <1>4, PublishingTypes DEF CallbacksOK
<1>9. \A i \in DOMAIN news' : i \in DOMAIN news \/ news'[i] = c
  BY <1>1
<1>10. ASSUME NEW i \in DOMAIN news'
       PROVE  /\ Says(news'[i], broker'[news'[i].order], journal'[news'[i].order])
              /\ publishing'.order = news'[i].order => publishing'.filled <= news'[i].filled
  BY <1>1, <1>2, <1>5, <1>7, <1>8, <1>9
<1>11. ASSUME NEW i \in DOMAIN news', NEW j \in DOMAIN news', i < j, news'[i].order = news'[j].order
       PROVE  news'[i].filled <= news'[j].filled
  <2>1. i \in DOMAIN news
    BY <1>1, <1>11
  <2>2. CASE j \in DOMAIN news
    BY <1>1, <1>11, <2>1, <2>2 DEF CallbacksOK
  <2>3. CASE j \notin DOMAIN news
    BY <1>1, <1>2, <1>7, <1>9, <1>11, <2>1, <2>3, Zenon
  <2> QED BY <2>2, <2>3
<1> QED BY <1>6, <1>10, <1>11 DEF CallbacksOK
\* A step that says nothing and changes the rows of an order nothing is said of.
LEMMA QuietStep ==
    ASSUME TypeOK, CallbacksOK, UNCHANGED <<news, publishing>>, NEW o \in Orders,
           \A p \in Orders \ {o} : broker'[p] = broker[p] /\ journal'[p] = journal[p],
           publishing.order # o, \A i \in DOMAIN news : news[i].order # o
    PROVE  CallbacksOK'
  BY NewsTypes, PublishingTypes DEF CallbacksOK

\* Nothing is said of an order that never reached the broker.
LEMMA UnsentUnsaid ==
    ASSUME TypeOK, CallbacksOK, NEW o \in Orders, broker[o].state = "none"
    PROVE  publishing.order # o /\ \A i \in DOMAIN news : news[i].order # o
  BY PublishingTypes, NewsTypes DEF CallbacksOK, Says

\* A callback is taken off the socket.
LEMMA DispatchStep == ASSUME TypeOK, CallbacksOK, dispatchOrderLifecycle PROVE CallbacksOK'
<1>1. /\ news # <<>> /\ publishing' = news[1] /\ 1 \in DOMAIN news
      /\ \A i \in DOMAIN news' : i \in Nat /\ i + 1 \in DOMAIN news /\ news'[i] = news[i + 1] /\ 1 < i + 1
      /\ UNCHANGED <<broker, journal>>
  BY DEF dispatchOrderLifecycle, TypeOK
<1>2. Says(publishing', broker'[publishing'.order], journal'[publishing'.order])
  BY <1>1 DEF CallbacksOK
<1>3. ASSUME NEW i \in DOMAIN news'
      PROVE  /\ Says(news'[i], broker'[news'[i].order], journal'[news'[i].order])
             /\ publishing'.order = news'[i].order => publishing'.filled <= news'[i].filled
  BY <1>1 DEF CallbacksOK
<1>4. ASSUME NEW i \in DOMAIN news', NEW j \in DOMAIN news', i < j, news'[i].order = news'[j].order
      PROVE  news'[i].filled <= news'[j].filled
  <2>1. i + 1 < j + 1 /\ i + 1 \in DOMAIN news /\ j + 1 \in DOMAIN news
    BY <1>1, <1>4
  <2> QED BY <1>1, <1>4, <2>1 DEF CallbacksOK
<1> QED BY <1>2, <1>3, <1>4 DEF CallbacksOK

\* A callback is journalled: the row says what it said.
LEMMA JournalStep == ASSUME TypeOK, CallbacksOK, journalCallback PROVE CallbacksOK'
<1>1. /\ publishing \in Callbacks /\ publishing.order \in Orders /\ publishing.filled \in Nat
      /\ publishing' = NoCallback /\ UNCHANGED <<news, broker>>
  BY PublishingTypes DEF journalCallback
<1>2. /\ journal'[publishing.order].filled = publishing.filled
      /\ journal'[publishing.order].state = IF publishing.over THEN "closed" ELSE "acked"
      /\ \A p \in Orders \ {publishing.order} : journal'[p] = journal[p]
  BY <1>1 DEF journalCallback, TypeOK
<1>3. Says(publishing, broker[publishing.order], journal[publishing.order])
  BY DEF CallbacksOK, journalCallback
<1>4. broker[publishing.order].filled \in Nat
  BY <1>1 DEF TypeOK, BrokerRows
<1>5. ASSUME NEW i \in DOMAIN news PROVE Says(news[i], broker[news[i].order], journal'[news[i].order])
  <2>1. Says(news[i], broker[news[i].order], journal[news[i].order]) /\ news[i].filled \in Nat /\ news[i].order \in Orders
        /\ (publishing.order = news[i].order => publishing.filled <= news[i].filled)
    BY NewsTypes DEF CallbacksOK
  <2>2. CASE news[i].order # publishing.order
    BY <1>2, <2>1, <2>2, Zenon
  <2>3. CASE news[i].order = publishing.order
    BY <1>1, <1>2, <1>3, <1>4, <2>1, <2>3 DEF Says
  <2> QED BY <2>2, <2>3
<1>6. \A i \in DOMAIN news : NoCallback.order # news[i].order
  BY NewsTypes DEF NoCallback, Orders
<1> QED BY <1>1, <1>5, <1>6 DEF CallbacksOK

\* What the callbacks say stays so.
LEMMA CallbacksStep == ASSUME IInv, TypeOK', Next PROVE CallbacksOK'
<1>0. TypeOK /\ CallbacksOK /\ WriterOK /\ \A o \in Orders : OrderOK(o)
  BY DEF IInv
<1>1. CASE UNCHANGED <<news, publishing, broker, journal>>
  BY <1>0, <1>1, Zenon DEF CallbacksOK
<1>2. CASE StagePreTransmit \/ submitBoundConfiguredOrder \/ wireRefused
  <2>1. writer.order \in Orders /\ broker[writer.order].state = "none" /\ UNCHANGED <<news, publishing>>
    BY <1>0, <1>2 DEF StagePreTransmit, submitBoundConfiguredOrder, wireRefused, WriterOK, OrderOK
  <2>2. \A p \in Orders \ {writer.order} : broker'[p] = broker[p]
    BY <1>0, <1>2, <2>1 DEF StagePreTransmit, submitBoundConfiguredOrder, wireRefused, TypeOK
  <2>3. \A p \in Orders \ {writer.order} : journal'[p] = journal[p]
    BY <1>0, <1>2, <2>1 DEF StagePreTransmit, submitBoundConfiguredOrder, wireRefused, TypeOK
  <2> QED BY <1>0, <2>1, <2>2, <2>3, UnsentUnsaid, QuietStep, Zenon
<1>3. ASSUME NEW o \in Orders, sweepCloses(o) PROVE CallbacksOK'
  <2>1. publishing.order # o /\ UNCHANGED <<news, publishing>> /\ \A i \in DOMAIN news : news[i].order # o
    BY <1>0, <1>3, PublishingTypes DEF sweepCloses
  <2>2. \A p \in Orders \ {o} : broker'[p] = broker[p] /\ journal'[p] = journal[p]
    BY <1>0, <1>3 DEF sweepCloses, TypeOK
  <2> QED BY <1>0, <2>1, <2>2, QuietStep
<1>4. ASSUME NEW o \in Orders, Accept(o) PROVE CallbacksOK'
  <2>1. broker'[o].state = "working" /\ broker'[o].filled = 0 /\ broker[o].filled = 0 /\ broker[o].state = "flight"
        /\ UNCHANGED <<publishing, journal>> /\ \A p \in Orders \ {o} : broker'[p] = broker[p]
    BY <1>0, <1>4 DEF Accept, OrderOK, TypeOK, BrokerRows
  <2>2. PICK v \in BOOLEAN : Tell(o, 0, v) /\ (v => broker'[o].state = "over")
    BY <1>4, Zenon DEF Accept
  <2>3. broker[o].filled <= 0
    BY <2>1
  <2> QED BY <1>0, <2>1, <2>2, <2>3, TellStep
<1>5. ASSUME NEW o \in Orders, Fill(o) PROVE CallbacksOK'
  <2>1. broker'[o].state = (IF broker[o].filled + 1 = token[o].qty THEN "over" ELSE "working")
        /\ broker'[o].filled = broker[o].filled + 1 /\ broker[o].state = "working"
        /\ UNCHANGED <<publishing, journal>> /\ \A p \in Orders \ {o} : broker'[p] = broker[p]
    BY <1>0, <1>5 DEF Fill, TypeOK, BrokerRows
  <2>2. broker[o].filled <= broker[o].filled + 1
    BY <1>0 DEF TypeOK, BrokerRows
  <2> QED BY <1>0, <1>5, <2>1, <2>2, TellStep, ZenonT(30) DEF Fill
<1>6. ASSUME NEW o \in Orders, End(o) \/ SnapshotOpenOrders(o) PROVE CallbacksOK'
  <2>1. broker'[o].filled = broker[o].filled /\ broker[o].state \in {"flight", "working"}
        /\ UNCHANGED <<publishing, journal>> /\ \A p \in Orders \ {o} : broker'[p] = broker[p]
    BY <1>0, <1>6, Zenon DEF End, SnapshotOpenOrders, TypeOK, BrokerRows
  <2>2. PICK v \in BOOLEAN : Tell(o, broker[o].filled, v) /\ (v => broker'[o].state = "over")
                             /\ broker'[o].state \in {"working", "over"}
    BY <1>0, <1>6, ZenonT(30) DEF End, SnapshotOpenOrders, TypeOK, BrokerRows
  <2>3. broker[o].filled <= broker[o].filled
    BY <1>0 DEF TypeOK, BrokerRows
  <2> QED BY <1>0, <2>1, <2>2, <2>3, TellStep
<1>7. CASE Reconnect \/ Crash
  BY <1>7 DEF Reconnect, Crash, CallbacksOK
<1> QED
  <2>1. \/ UNCHANGED <<news, publishing, broker, journal>>
        \/ \E o \in Orders : Accept(o) \/ Fill(o) \/ End(o) \/ SnapshotOpenOrders(o) \/ sweepCloses(o)
        \/ StagePreTransmit \/ submitBoundConfiguredOrder \/ wireRefused
        \/ dispatchOrderLifecycle \/ journalCallback \/ Reconnect \/ Crash
    BY <1>0, Cases, MovesFrame, MintsFrame DEF updatePortfolio, portfolioDownload
  <2> QED BY <1>0, <1>1, <1>2, <1>3, <1>4, <1>5, <1>6, <1>7, <2>1, DispatchStep, JournalStep, Zenon
-----------------------------------------------------------------------------
(* How far the portfolio stream trails. *)

\* The units still to be told are units.
LEMMA UntoldUnits == Untold \in SUBSET Units /\ Untold' \in SUBSET Units
  BY DEF Untold, Units

\* More is still to be told, and the rest is as it was.
LEMMA StreamGrows ==
    ASSUME StreamOK, TypeOK, UNCHANGED <<held, pos>>, FillKnown => FillKnown', Untold \subseteq Untold'
    PROVE  StreamOK'
<1>1. Cardinality(Untold) \in Nat /\ Cardinality(Untold)' \in Nat /\ Cardinality(Untold) <= Cardinality(Untold)'
  BY UntoldUnits, UnitsCount
<1> QED BY <1>1 DEF StreamOK, TypeOK, Unknown

\* The same rows, and no callback gone.
LEMMA StreamSame ==
    ASSUME StreamOK, TypeOK, UNCHANGED <<held, pos>>,
           \A o \in Orders : broker'[o].filled = broker[o].filled /\ journal'[o].filled = journal[o].filled,
           \A o \in Orders : Pending(o) => Pending(o)'
    PROVE  StreamOK'
<1>1. Untold \subseteq Untold' /\ (FillKnown => FillKnown')
  BY DEF Untold, FillKnown
<1> QED BY <1>1, StreamGrows

\* One more callback leaves the others where they are.
LEMMA TellPending ==
    ASSUME TypeOK, NEW p, NEW n, NEW v, Tell(p, n, v), UNCHANGED publishing, NEW o
    PROVE  (Pending(o) => Pending(o)') /\ (o = p /\ n > 0 => Pending(o)')
<1> DEFINE c == [order |-> p, filled |-> n, over |-> v]
<1>1. /\ Len(news) + 1 \in DOMAIN news' /\ news'[Len(news) + 1] = c
      /\ \A i \in DOMAIN news : i \in DOMAIN news' /\ news'[i] = news[i]
  BY DEF Tell, TypeOK
<1>2. c.order = p /\ c.filled = n
  OBVIOUS
<1> HIDE DEF c
<1> QED BY <1>1, <1>2 DEF Pending

\* The stream trails by units whose callbacks are still to be journalled.
LEMMA StreamStep == ASSUME IInv, TypeOK', Next PROVE StreamOK'
<1>0. TypeOK /\ CallbacksOK /\ WriterOK /\ StreamOK
  BY DEF IInv
<1>1. CASE UNCHANGED <<held, pos, news, publishing>>
           /\ \A o \in Orders : broker'[o].filled = broker[o].filled /\ journal'[o].filled = journal[o].filled
  BY <1>0, <1>1, StreamSame DEF Pending
<1>2. CASE StagePreTransmit \/ submitBoundConfiguredOrder \/ wireRefused
  <2>1. \A o \in Orders : broker'[o].filled = broker[o].filled
    <3>1. Restated(broker, broker')
      BY <1>2, Zenon DEF StagePreTransmit, submitBoundConfiguredOrder, wireRefused, Restated
    <3> QED BY <1>0, <3>1, FillsKept, Zenon
  <2>2. \A o \in Orders : journal'[o].filled = journal[o].filled
    <3>1. Restated(journal, journal')
      BY <1>2, Zenon DEF StagePreTransmit, submitBoundConfiguredOrder, wireRefused, Restated
    <3> QED BY <1>0, <3>1, FillsKept, Zenon
  <2> QED BY <1>1, <1>2, <2>1, <2>2 DEF StagePreTransmit, submitBoundConfiguredOrder, wireRefused
<1>3. ASSUME NEW p \in Orders, sweepCloses(p) PROVE StreamOK'
  <2>1. \A o \in Orders : journal'[o].filled = journal[o].filled
    BY <1>0, <1>3 DEF sweepCloses, TypeOK, JournalRows
  <2> QED BY <1>1, <1>3, <2>1 DEF sweepCloses
<1>4. ASSUME NEW p \in Orders, Accept(p) \/ End(p) \/ SnapshotOpenOrders(p) PROVE StreamOK'
  <2>1. UNCHANGED <<held, pos, journal, publishing>> /\ \E n, v : Tell(p, n, v)
    BY <1>4, Zenon DEF Accept, End, SnapshotOpenOrders
  <2>2. \A o \in Orders : broker'[o].filled = broker[o].filled
    <3>1. Restated(broker, broker')
      BY <1>4, Zenon DEF Accept, End, SnapshotOpenOrders, Restated
    <3> QED BY <1>0, <3>1, FillsKept, Zenon
  <2> QED BY <1>0, <2>1, <2>2, TellPending, StreamSame
<1>5. ASSUME NEW p \in Orders, Fill(p) PROVE StreamOK'
  <2>1. broker'[p].filled = broker[p].filled + 1 /\ broker[p].filled \in Nat /\ broker[p].filled + 1 \in 1..Held
        /\ \A o \in Orders \ {p} : broker'[o] = broker[o]
    BY <1>0, <1>5 DEF Fill, TypeOK, BrokerRows
  <2>2. UNCHANGED <<pos, journal, publishing>> /\ held' = held - 1
        /\ Tell(p, broker[p].filled + 1, (broker[p].filled + 1 = token[p].qty))
    BY <1>5 DEF Fill
  <2>3. Pending(p)' /\ \A o \in Orders : Pending(o) => Pending(o)'
    BY <1>0, <2>1, <2>2, TellPending
  <2>4. Untold \subseteq Untold'
    BY <2>1, <2>3 DEF Untold
  <2>5. <<p, broker[p].filled + 1>> \in Untold' /\ <<p, broker[p].filled + 1>> \notin Untold
    BY <2>1, <2>3 DEF Untold
  <2>6. Cardinality(Untold) + 1 <= Cardinality(Untold)' /\ Cardinality(Untold) \in Nat /\ Cardinality(Untold)' \in Nat
    BY <2>4, <2>5, UntoldUnits, UnitsGrow
  <2>7. FillKnown' <=> FillKnown
    BY <2>2 DEF FillKnown
  <2> QED BY <1>0, <2>2, <2>6, <2>7 DEF StreamOK, TypeOK, Unknown
<1>6. CASE dispatchOrderLifecycle
  <2>1. /\ UNCHANGED <<held, pos, broker, journal>> /\ publishing = NoCallback
        /\ publishing' = news[1] /\ 1 \in DOMAIN news
        /\ \A i \in DOMAIN news : i # 1 => i - 1 \in DOMAIN news' /\ news'[i - 1] = news[i]
    BY <1>0, <1>6 DEF dispatchOrderLifecycle, TypeOK
  <2>2. \A o \in Orders : Pending(o) => Pending(o)'
    BY <1>0, <2>1, PublishingTypes DEF Pending
  <2> QED BY <1>0, <2>1, <2>2, StreamSame
<1>7. CASE journalCallback
  <2>1. CASE FillKnown'
    BY <2>1 DEF StreamOK
  <2>2. CASE ~FillKnown'
    <3>1. publishing.order \in Orders /\ publishing.filled \in Nat /\ publishing # NoCallback
          /\ UNCHANGED <<held, pos, news, broker>> /\ publishing' = NoCallback
      BY <1>0, <1>7, PublishingTypes DEF journalCallback
    <3>2. journal'[publishing.order].filled = publishing.filled
          /\ \A p \in Orders \ {publishing.order} : journal'[p] = journal[p]
      BY <1>0, <1>7, <3>1 DEF journalCallback, TypeOK
    <3>3. publishing.filled = 0 /\ journal[publishing.order].filled \in Nat
      BY <1>0, <2>2, <3>1, <3>2 DEF FillKnown, TypeOK, JournalRows
    <3>4. journal[publishing.order].filled = 0
      BY <1>0, <3>1, <3>3 DEF CallbacksOK, Says
    <3>5. \A o \in Orders : Pending(o) => Pending(o)'
      BY <3>1, <3>3 DEF Pending
    <3> QED BY <1>0, <3>1, <3>2, <3>3, <3>4, <3>5, StreamSame, Zenon
  <2> QED BY <2>1, <2>2
<1>8. CASE updatePortfolio
  <2>1. UNCHANGED <<held, news, publishing, broker, journal>> /\ pos' \in Int /\ pos' < pos /\ pos # Unknown
    BY <1>0, <1>8 DEF updatePortfolio, TypeOK
  <2>2. Untold' = Untold /\ (FillKnown' <=> FillKnown)
    BY <2>1 DEF Untold, Pending, FillKnown
  <2>3. Cardinality(Untold) \in Nat
    BY UntoldUnits, UnitsCount
  <2> QED BY <1>0, <2>1, <2>2, <2>3 DEF StreamOK, TypeOK, Unknown
<1>9. CASE portfolioDownload
  <2>1. Cardinality(Untold)' \in Nat
    BY UntoldUnits, UnitsCount
  <2> QED BY <1>0, <1>9, <2>1 DEF portfolioDownload, StreamOK, TypeOK
<1>10. CASE Reconnect \/ Crash
  BY <1>10, Zenon DEF Reconnect, Crash, StreamOK
<1> QED
  <2>1. \/ UNCHANGED <<held, pos, news, publishing, broker, journal>>
        \/ \E o \in Orders : Accept(o) \/ Fill(o) \/ End(o) \/ SnapshotOpenOrders(o) \/ sweepCloses(o)
        \/ StagePreTransmit \/ submitBoundConfiguredOrder \/ wireRefused
        \/ dispatchOrderLifecycle \/ journalCallback \/ updatePortfolio \/ Reconnect \/ Crash \/ portfolioDownload
    BY <1>0, Cases, MovesFrame, MintsFrame
  <2> QED BY <1>1, <1>2, <1>3, <1>4, <1>5, <1>6, <1>7, <1>8, <1>9, <1>10, <2>1, Zenon
-----------------------------------------------------------------------------
(* The writer. *)

\* A step of others that leaves the writer where it is.
LEMMA WriterStays ==
    ASSUME TypeOK, WriterOK, writer'.pc = writer.pc, writer'.order = writer.order,
           writer'.shifted = writer.shifted, writer'.moved = writer.moved,
           UNCHANGED <<pos, publishing>>,
           \A o \in Orders : \/ broker'[o].state = broker[o].state \/ broker[o].state # "none",
           \A o \in Orders : \/ journal'[o].state = journal[o].state \/ journal[o].state \notin {"none", "attempted"},
           \A o \in Orders : token[o].kind # "none" =>
              token'[o].kind = token[o].kind /\ token'[o].before = token[o].before
    PROVE  WriterOK'
  BY DEF WriterOK

\* Where the holder of brokerWriteMu is says what its order's rows are.
LEMMA WriterStep == ASSUME IInv, TypeOK', Next PROVE WriterOK'
<1>0. TypeOK /\ WriterOK /\ CallbacksOK /\ \A o \in Orders : OrderOK(o)
  BY Zenon DEF IInv
<1>1. ASSUME NEW o \in Orders, reduceTokenLeg(o) \/ handleOrderPlace(o) PROVE WriterOK'
  <2>1. writer'.pc = "place" /\ writer'.order = o
    BY <1>1, Zenon DEF reduceTokenLeg, handleOrderPlace, Take, Idle
  <2>2. token'[o].kind = "reduce" /\ journal'[o].state = "none"
    BY <1>1 DEF reduceTokenLeg, handleOrderPlace
  <2> QED BY <2>1, <2>2 DEF WriterOK
<1>2. ASSUME NEW o \in Orders, Mints(o) PROVE WriterOK'
  <2>1. /\ UNCHANGED <<broker, journal, pos, publishing>> /\ token[o].kind = "none" /\ token'[o].kind # "none"
        /\ \A p \in Orders \ {o} : token'[p] = token[p]
    BY <1>0, <1>2, MintsFrame
  <2>2. journal[o].state = "none"
    BY <1>0, <2>1 DEF OrderOK
  <2>3. CASE UNCHANGED writer
    BY <1>0, <2>1, <2>3, WriterStays, Zenon
  <2>4. CASE tradeProposalReduceSubmit(o) \/ submitRow(o)
    <3>1. writer'.pc \in {"place", "netting"} /\ writer'.order = o
      BY <2>4, Zenon DEF tradeProposalReduceSubmit, submitRow, Take, Idle
    <3> QED BY <2>1, <2>2, <3>1 DEF WriterOK
  <2> QED BY <1>2, <2>3, <2>4 DEF Mints, tradeProposalReducePreview
<1>3. CASE Refuse \/ Crash \/ submitBoundConfiguredOrder \/ wireRefused
  BY <1>3 DEF Refuse, Crash, submitBoundConfiguredOrder, wireRefused, Idle, WriterOK
<1>4. CASE reductionOrderBlockers \/ sameContractUnacknowledgedOrder
  BY <1>0, <1>4 DEF reductionOrderBlockers, sameContractUnacknowledgedOrder, Turn, WriterOK, TypeOK, Writers
<1>5. CASE bindPreviewOrderRiskAuthority
  BY <1>0, <1>5 DEF bindPreviewOrderRiskAuthority, WriterOK, TypeOK, Writers
<1>6. CASE ensureReduceFillCoherence
  BY <1>0, <1>6 DEF ensureReduceFillCoherence, WriterOK, TypeOK, Writers
<1>7. CASE orderFillPositionsReceipt \/ validateReduceTokenForPlace
  BY <1>0, <1>7 DEF orderFillPositionsReceipt, validateReduceTokenForPlace, Turn, WriterOK, TypeOK, Writers
<1>8. CASE StagePreTransmit
  <2>1. writer.order \in Orders /\ journal[writer.order].state = "none" /\ broker[writer.order].state = "none"
    BY <1>0, <1>8 DEF StagePreTransmit, WriterOK, OrderOK
  <2>2. journal'[writer.order].state = "attempted"
    BY <1>0, <1>8, <2>1, Zenon DEF StagePreTransmit, TypeOK, JournalRows
  <2>3. writer'.pc = "wire" /\ writer'.order = writer.order /\ writer'.shifted = writer.shifted
    BY <1>0, <1>8 DEF StagePreTransmit, Turn, TypeOK, Writers
  <2> QED BY <1>0, <1>8, <2>1, <2>2, <2>3 DEF StagePreTransmit, WriterOK
<1>9. ASSUME NEW o \in Orders, Accept(o) \/ Fill(o) \/ End(o) \/ SnapshotOpenOrders(o) PROVE WriterOK'
  <2>1. UNCHANGED <<writer, pos, publishing, journal, token>>
        /\ \A p \in Orders : broker'[p].state = broker[p].state \/ broker[p].state # "none"
    BY <1>0, <1>9, Zenon DEF Accept, Fill, End, SnapshotOpenOrders, TypeOK
  <2> QED BY <1>0, <2>1, WriterStays
<1>10. ASSUME NEW o \in Orders, sweepCloses(o) PROVE WriterOK'
  <2>1. UNCHANGED <<writer, pos, publishing, broker, token>>
        /\ \A p \in Orders : journal'[p].state = journal[p].state \/ journal[p].state \notin {"none", "attempted"}
    BY <1>0, <1>10 DEF sweepCloses, TypeOK
  <2> QED BY <1>0, <2>1, WriterStays
<1>11. CASE dispatchOrderLifecycle
  <2>1. writer'.pc = writer.pc /\ writer'.order = writer.order /\ writer'.shifted = writer.shifted
        /\ (writer.pc # "idle" => writer'.moved)
    BY <1>0, <1>11, Zenon DEF dispatchOrderLifecycle, TypeOK, Writers
  <2> QED BY <1>0, <1>11, <2>1 DEF dispatchOrderLifecycle, WriterOK
<1>12. CASE journalCallback
  <2>1. UNCHANGED <<writer, pos, token, broker>> /\ publishing' = NoCallback /\ publishing # NoCallback
        /\ publishing.order \in Orders
    BY <1>0, <1>12, PublishingTypes DEF journalCallback
  <2>2. broker[publishing.order].state # "none"
    BY <1>0, <2>1, UnsentUnsaid, Zenon
  <2>3. journal[publishing.order].state # "none"
    BY <1>0, <2>1, <2>2, Zenon DEF OrderOK
  <2>4. \A p \in Orders \ {publishing.order} : journal'[p] = journal[p]
    BY <1>0, <1>12 DEF journalCallback, TypeOK
  <2> QED BY <1>0, <2>1, <2>2, <2>3, <2>4, Zenon DEF WriterOK
<1>13. CASE updatePortfolio
  <2>1. writer'.pc = writer.pc /\ writer'.order = writer.order /\ writer'.moved = writer.moved
        /\ (writer.pc # "idle" => writer'.shifted)
    BY <1>0, <1>13 DEF updatePortfolio, TypeOK, Writers
  <2>2. \A o \in Orders : token'[o].kind = token[o].kind
    BY <1>0, <1>13, UnbindFrame DEF updatePortfolio
  <2> QED BY <1>0, <1>13, <2>1, <2>2 DEF updatePortfolio, WriterOK
<1>14. CASE Reconnect
  <2>1. CASE writer.pc = "wire"
    <3>1. writer'.pc = "wire" /\ writer'.order = writer.order /\ writer'.shifted
      BY <1>0, <1>14, <2>1 DEF Reconnect, TypeOK, Writers
    <3>2. \A o \in Orders : token'[o].kind = token[o].kind
      BY <1>0, <1>14, UnbindFrame DEF Reconnect
    <3> QED BY <1>0, <1>14, <2>1, <3>1, <3>2 DEF Reconnect, WriterOK
  <2>2. CASE writer.pc # "wire"
    BY <1>14, <2>2, Zenon DEF Reconnect, Idle, WriterOK
  <2> QED BY <2>1, <2>2
<1>15. CASE portfolioDownload
  <2>1. pos = Unknown /\ UNCHANGED <<broker, publishing, token, journal, writer>>
    BY <1>15 DEF portfolioDownload
  <2>2. \A o \in Orders : token[o].before # Unknown
    BY <1>0, LineAssumption DEF TypeOK, Tokens, Unknown, LineAssumption
  <2> QED BY <1>0, <2>1, <2>2 DEF WriterOK
<1> QED BY <1>1, <1>2, <1>3, <1>4, <1>5, <1>6, <1>7, <1>8, <1>9, <1>10, <1>11, <1>12, <1>13, <1>14, <1>15,
           Cases, Zenon DEF Moves

-----------------------------------------------------------------------------
(* The units of the open orders. *)

\* The sets that are counted are sets of units, before a step and after it.
LEMMA SetsOfUnits ==
    /\ Committed \in SUBSET Units /\ Live \in SUBSET Units /\ Slack \in SUBSET Units
    /\ Committed' \in SUBSET Units /\ Live' \in SUBSET Units /\ Slack' \in SUBSET Units
  BY Zenon DEF Committed, Live, Slack, Units

\* What is live at the broker, the journal counts: an order that works is open
\* in it, and a fill it knows is a fill.
LEMMA LiveIsCommitted == ASSUME TypeOK, \A o \in Orders : OrderOK(o) PROVE Live \subseteq Committed
<1> SUFFICES ASSUME NEW u \in Live PROVE u \in Committed
  OBVIOUS
<1>1. u[1] \in Orders /\ u[2] \in 1..Held /\ u \in Orders \X (1..Held)
  BY DEF Live
<1>2. /\ broker[u[1]].filled \in Nat /\ journal[u[1]].filled \in Nat /\ token[u[1]].qty \in Nat
  BY <1>1, SMTT(30) DEF TypeOK, BrokerRows, JournalRows, Tokens
<1>3. Open(u[1]) /\ u[2] \in orderViewRemainingQuantity(u[1])
  BY <1>1, <1>2, LineAssumption, SMTT(30) DEF Live, OrderOK, orderViewRemainingQuantity, LineAssumption
<1> QED BY <1>1, <1>3 DEF Committed

\* A step that leaves the broker's rows, and the sizes of the orders it has,
\* leaves what is live.
LEMMA LiveSame ==
    ASSUME UNCHANGED broker,
           \A o \in Orders : broker[o].state \in {"flight", "working"} => token'[o].qty = token[o].qty
    PROVE  Live' = Live
<1>1. ASSUME NEW u \in Orders \X (1..Held) PROVE (u \in Live') <=> (u \in Live)
  <2>1. u[1] \in Orders
    OBVIOUS
  <2> QED BY <2>1 DEF Live
<1> QED BY <1>1 DEF Live

\* The same of what the journal counts.
LEMMA CommittedSame ==
    ASSUME UNCHANGED journal, \A o \in Orders : Open(o) => token'[o].qty = token[o].qty
    PROVE  Committed' = Committed
<1>1. ASSUME NEW u \in Orders \X (1..Held) PROVE (u \in Committed') <=> (u \in Committed)
  <2>1. u[1] \in Orders
    OBVIOUS
  <2> QED BY <2>1 DEF Committed, Open, orderViewRemainingQuantity
<1> QED BY <1>1 DEF Committed

\* A preview leaves both: the order it mints is in no book yet.
LEMMA MintsCount ==
    ASSUME TypeOK, \A o \in Orders : OrderOK(o), NEW o \in Orders, Mints(o)
    PROVE  Live' = Live /\ Committed' = Committed /\ Slack' = Slack
<1>1. /\ UNCHANGED <<broker, news, journal>> /\ token[o].kind = "none"
      /\ \A p \in Orders \ {o} : token'[p] = token[p]
  BY MintsFrame
<1>2. journal[o].state = "none" /\ broker[o].state = "none"
  BY <1>1 DEF OrderOK
<1>3. Live' = Live
  BY <1>1, <1>2, LiveSame
<1>4. Committed' = Committed
  BY <1>1, <1>2, CommittedSame, Zenon DEF Open
<1> QED BY <1>1, <1>3, <1>4, Zenon DEF Slack

\* An order the broker accepts, or ends, sells no unit it did not sell before.
LEMMA RestatedLive ==
    ASSUME TypeOK, NEW o \in Orders, Accept(o) \/ End(o)
    PROVE  Live' \subseteq Live
<1>1. /\ \A p \in Orders \ {o} : broker'[p] = broker[p]
      /\ broker[o].state \in {"flight", "working"} /\ broker'[o].filled = broker[o].filled
      /\ UNCHANGED token
  BY Zenon DEF Accept, End, TypeOK, BrokerRows
<1> SUFFICES ASSUME NEW u \in Live' PROVE u \in Live
  OBVIOUS
<1>2. u \in Orders \X (1..Held) /\ u[1] \in Orders
  BY DEF Live
<1> QED BY <1>1, <1>2 DEF Live

\* A fill takes a unit that was live out of it.
LEMMA FillLive ==
    ASSUME TypeOK, NEW o \in Orders, OrderOK(o), Fill(o)
    PROVE  LET x == <<o, broker[o].filled + 1>> IN x \in Live /\ x \notin Live' /\ Live' \subseteq Live
<1> DEFINE x == <<o, broker[o].filled + 1>>
<1>1. /\ \A p \in Orders \ {o} : broker'[p] = broker[p]
      /\ broker[o].state = "working" /\ broker'[o].filled = broker[o].filled + 1
      /\ UNCHANGED token
  BY DEF Fill, TypeOK, BrokerRows
<1>2. broker[o].filled \in Nat /\ token[o].qty \in 0..Held /\ broker[o].filled < token[o].qty
  BY <1>1 DEF OrderOK, TypeOK, BrokerRows, Tokens
<1>3. x \in Live
  <2>1. x \in Orders \X (1..Held) /\ x[1] = o /\ x[2] = broker[o].filled + 1
    BY <1>2, LineAssumption DEF LineAssumption
  <2>2. x[2] \in (broker[o].filled + 1)..token[o].qty
    BY <1>2, <2>1
  <2> QED BY <1>1, <2>1, <2>2, Zenon DEF Live
<1>4. x \notin Live'
  <2>1. x[1] = o /\ x[2] = broker[o].filled + 1
    BY Zenon
  <2>2. x[2] \notin (broker'[o].filled + 1)..token'[o].qty
    BY <1>1, <1>2, <2>1
  <2> QED BY <2>1, <2>2 DEF Live
<1>5. ASSUME NEW u \in Live' PROVE u \in Live
  <2>1. u \in Orders \X (1..Held) /\ u[1] \in Orders /\ u[2] \in Nat
    BY DEF Live
  <2>2. CASE u[1] = o
    BY <1>1, <1>2, <2>1, <2>2 DEF Live
  <2>3. CASE u[1] # o
    BY <1>1, <2>1, <2>3 DEF Live
  <2> QED BY <2>2, <2>3
<1> QED BY <1>3, <1>4, <1>5

-----------------------------------------------------------------------------
(* The bound position. *)

\* A step of others after the receipt: no unit of the slack goes, and the
\* position stays.
LEMMA FitStays ==
    ASSUME TypeOK, WriterOK, FitOK, UNCHANGED <<held, writer>>, Slack \subseteq Slack',
           writer.pc = "fits" => token'[writer.order].before = token[writer.order].before
    PROVE  FitOK'
<1>1. CASE writer.pc = "fits" /\ ~writer.moved /\ ~writer.shifted
  <2>1. token[writer.order].before <= held + Cardinality(Slack) /\ held \in Nat
    BY <1>1 DEF FitOK, TypeOK
  <2>2. Cardinality(Slack) \in Nat /\ Cardinality(Slack') \in Nat /\ Cardinality(Slack) <= Cardinality(Slack')
    BY SetsOfUnits, UnitsCount, Zenon
  <2>3. token[writer.order].before \in Nat
    BY <1>1 DEF WriterOK, TypeOK, Tokens
  <2> QED BY <1>1, <2>1, <2>2, <2>3 DEF FitOK
<1>2. CASE ~(writer.pc = "fits" /\ ~writer.moved /\ ~writer.shifted)
  BY <1>2 DEF FitOK
<1> QED BY <1>1, <1>2, Zenon

\* One more callback: the orders on the socket are those that were, and its own.
LEMMA TellSlack ==
    ASSUME TypeOK, NEW o, NEW n, NEW v, Tell(o, n, v)
    PROVE  /\ \E i \in DOMAIN news' : news'[i].order = o
           /\ \A p : (\E i \in DOMAIN news : news[i].order = p) => \E i \in DOMAIN news' : news'[i].order = p
<1> DEFINE c == [order |-> o, filled |-> n, over |-> v]
<1>1. /\ Len(news) + 1 \in DOMAIN news' /\ news'[Len(news) + 1] = c
      /\ \A i \in DOMAIN news : i \in DOMAIN news' /\ news'[i] = news[i]
  BY DEF Tell, TypeOK
<1>2. c.order = o
  OBVIOUS
<1> HIDE DEF c
<1> QED BY <1>1, <1>2, Zenon

\* With no fill known, the units the callbacks still carry are units the
\* journal counts and the broker has sold.
LEMMA UntoldIsSlack ==
    ASSUME TypeOK, \A o \in Orders : OrderOK(o), CallbacksOK, publishing = NoCallback, ~FillKnown
    PROVE  Untold \subseteq Slack
<1> SUFFICES ASSUME NEW u \in Untold PROVE u \in Slack
  OBVIOUS
<1>1. /\ u \in Orders \X (1..Held) /\ u[1] \in Orders /\ u[2] \in Nat /\ u[2] >= 1
      /\ Pending(u[1]) /\ u[2] <= broker[u[1]].filled
  BY LineAssumption DEF Untold, LineAssumption
<1>2. PICK i \in DOMAIN news : news[i].order = u[1] /\ news[i].filled > 0
  BY <1>1, PublishingTypes DEF Pending
<1>3. journal[u[1]].filled = 0
  BY <1>1, Zenon DEF FillKnown
<1>4. Open(u[1])
  BY <1>2, <1>3, Zenon DEF CallbacksOK, Says, Open
<1>5. broker[u[1]].filled \in Nat /\ token[u[1]].qty \in Nat /\ broker[u[1]].filled <= token[u[1]].qty
  BY <1>1 DEF TypeOK, BrokerRows, Tokens, OrderOK
<1>6. u \in Committed
  BY <1>1, <1>3, <1>4, <1>5 DEF Committed, orderViewRemainingQuantity
<1>7. u \notin Live
  BY <1>1, <1>5 DEF Live
<1> QED BY <1>2, <1>6, <1>7 DEF Slack

\* The bound position trails by the slack at most: with no fill known because
\* the stream does, after a receipt because the broker confirmed it.
LEMMA FitStep == ASSUME IInv, TypeOK', Next PROVE FitOK'
<1>0. /\ TypeOK /\ CallbacksOK /\ StreamOK /\ WriterOK /\ FitOK
      /\ \A o \in Orders : OrderOK(o)
  BY DEF IInv
<1>1. CASE writer'.pc # "fits"
  BY <1>1 DEF FitOK
<1>2. CASE ensureReduceFillCoherence
  <2> SUFFICES ASSUME (writer.pc = "bound" /\ ~writer.shifted /\ ~FillKnown)
               PROVE  token[writer.order].before <= held + Cardinality(Slack)
    <3>1. writer'.order = writer.order /\ writer'.shifted = writer.shifted /\ (writer'.pc = "fits" => ~FillKnown)
      BY <1>0, <1>2 DEF ensureReduceFillCoherence, TypeOK, Writers
    <3>2. UNCHANGED <<held, token, broker, journal, news>> /\ writer.pc = "bound"
      BY <1>2, Zenon DEF ensureReduceFillCoherence
    <3>3. Slack' = Slack
      BY <3>2, Zenon DEF Slack, Committed, Live, Open, orderViewRemainingQuantity
    <3> QED BY <3>1, <3>2, <3>3 DEF FitOK
  <2>1. pos = token[writer.order].before /\ writer.order \in Orders
    BY <1>0 DEF WriterOK
  <2>2. pos # Unknown
    BY <1>0, <2>1, LineAssumption DEF TypeOK, Tokens, Unknown, LineAssumption
  <2>3. pos <= held + Cardinality(Untold)
    BY <1>0, <2>2 DEF StreamOK
  <2>4. Untold \in SUBSET Slack
    BY <1>0, <1>2, UntoldIsSlack DEF ensureReduceFillCoherence
  <2>5. Cardinality(Untold) \in Nat /\ Cardinality(Slack) \in Nat /\ Cardinality(Untold) <= Cardinality(Slack)
    BY <2>4, SetsOfUnits, UnitsCount, Zenon
  <2> QED BY <1>0, <2>1, <2>3, <2>5 DEF TypeOK
<1>3. CASE orderFillPositionsReceipt
  <2>1. writer'.order = writer.order /\ UNCHANGED <<token, held>>
    BY <1>0, <1>3, Zenon DEF orderFillPositionsReceipt, Turn, TypeOK, Writers
  <2>2. held = token[writer.order].before /\ held \in Nat
    BY <1>0, <1>3 DEF orderFillPositionsReceipt, TypeOK
  <2>3. Cardinality(Slack') \in Nat
    BY SetsOfUnits, UnitsCount
  <2> QED BY <2>1, <2>2, <2>3 DEF FitOK
<1>4. CASE Moves /\ ~ensureReduceFillCoherence /\ ~orderFillPositionsReceipt
  <2>1. ASSUME NEW o \in Orders, reduceTokenLeg(o) \/ handleOrderPlace(o) PROVE writer'.pc # "fits"
    BY <2>1, Zenon DEF reduceTokenLeg, handleOrderPlace, Take, Idle
  <2>2. CASE reductionOrderBlockers \/ sameContractUnacknowledgedOrder \/ validateReduceTokenForPlace
    BY <1>0, <1>1, <2>2 DEF reductionOrderBlockers, sameContractUnacknowledgedOrder, validateReduceTokenForPlace,
       Turn, TypeOK, Writers
  <2>3. CASE bindPreviewOrderRiskAuthority
    BY <1>0, <1>1, <2>3 DEF bindPreviewOrderRiskAuthority, TypeOK, Writers
  <2>4. CASE Refuse
    BY <1>1, <2>4 DEF Refuse, Idle
  <2> QED BY <1>1, <1>4, <2>1, <2>2, <2>3, <2>4, Zenon DEF Moves
<1>5. ASSUME NEW o \in Orders, Mints(o) PROVE FitOK'
  <2>1. CASE UNCHANGED writer
    <3>1. UNCHANGED held /\ token[o].kind = "none" /\ \A p \in Orders \ {o} : token'[p] = token[p]
      BY <1>0, <1>5, MintsFrame
    <3>2. Slack' = Slack
      BY <1>0, <1>5, MintsCount
    <3> QED BY <1>0, <2>1, <3>1, <3>2, FitStays, Zenon DEF WriterOK
  <2>2. CASE tradeProposalReduceSubmit(o) \/ submitRow(o)
    BY <1>1, <2>2, Zenon DEF tradeProposalReduceSubmit, submitRow, Take, Idle
  <2> QED BY <1>5, <2>1, <2>2 DEF Mints, tradeProposalReducePreview
<1>6. ASSUME NEW o \in Orders, Accept(o) \/ End(o) \/ SnapshotOpenOrders(o) PROVE FitOK'
  <2>1. UNCHANGED <<held, writer, token, journal>> /\ \E n, v : Tell(o, n, v)
    BY <1>6, Zenon DEF Accept, End, SnapshotOpenOrders
  <2>2. Live' \subseteq Live
    BY <1>0, <1>6, RestatedLive, LiveSame, Zenon DEF SnapshotOpenOrders
  <2>3. Committed' = Committed
    BY <2>1, CommittedSame
  <2>4. Slack \subseteq Slack'
    BY <1>0, <2>1, <2>2, <2>3, TellSlack DEF Slack
  <2> QED BY <1>0, <2>1, <2>4, FitStays
<1>7. ASSUME NEW o \in Orders, Fill(o) PROVE FitOK'
  <2> DEFINE x == <<o, broker[o].filled + 1>>
  <2>1. UNCHANGED <<writer, token, journal>> /\ held' = held - 1 /\ held \in Nat /\ held > 0 /\ \E n, v : Tell(o, n, v)
    BY <1>0, <1>7 DEF Fill, TypeOK
  <2>2. x \in Live /\ x \notin Live' /\ Live' \subseteq Live
    BY <1>0, <1>7, FillLive
  <2>3. Committed' = Committed /\ Live \subseteq Committed
    BY <1>0, <2>1, CommittedSame, LiveIsCommitted, Zenon
  <2>4. Slack \subseteq Slack'
    BY <1>0, <2>1, <2>2, <2>3, TellSlack, Zenon DEF Slack
  <2>5. x \in Slack' /\ x \notin Slack
    <3>1. x[1] = o
      OBVIOUS
    <3> QED BY <1>0, <2>1, <2>2, <2>3, <3>1, TellSlack, Zenon DEF Slack
  <2>6. Cardinality(Slack) + 1 <= Cardinality(Slack') /\ Cardinality(Slack) \in Nat /\ Cardinality(Slack') \in Nat
    BY <2>4, <2>5, SetsOfUnits, UnitsGrow, Zenon
  <2>7. CASE writer.pc = "fits" /\ ~writer.moved /\ ~writer.shifted
    <3>1. writer.order \in Orders /\ token[writer.order].before \in Nat
      BY <1>0, <2>7, SMTT(30) DEF WriterOK, TypeOK, Tokens
    <3>2. token[writer.order].before <= held + Cardinality(Slack)
      BY <1>0, <2>7, Zenon DEF FitOK
    <3> QED BY <2>1, <2>6, <3>1, <3>2 DEF FitOK
  <2> QED BY <2>1, <2>7, Zenon DEF FitOK
<1>8. ASSUME NEW o \in Orders, sweepCloses(o) PROVE FitOK'
  <2>1. /\ UNCHANGED <<held, writer, token, broker, news>> /\ \A p \in Orders \ {o} : journal'[p] = journal[p]
        /\ \A i \in DOMAIN news : news[i].order # o
    BY <1>0, <1>8 DEF sweepCloses, TypeOK
  <2>2. Live' = Live
    BY <2>1, LiveSame
  <2>3. ASSUME NEW u \in Slack PROVE u \in Slack'
    <3>1. u \in Orders \X (1..Held) /\ u[1] \in Orders /\ u[1] # o /\ u \in Committed /\ u \notin Live
      BY <2>1, Zenon DEF Slack, Committed
    <3>2. u \in Committed'
      BY <2>1, <3>1 DEF Committed, Open, orderViewRemainingQuantity
    <3> QED BY <2>1, <2>2, <3>1, <3>2, Zenon DEF Slack
  <2> QED BY <1>0, <2>1, <2>3, FitStays
<1>9. CASE StagePreTransmit \/ submitBoundConfiguredOrder \/ wireRefused \/ Reconnect \/ Crash
  <2>1. writer'.pc # "fits"
    BY <1>0, <1>9 DEF StagePreTransmit, submitBoundConfiguredOrder, wireRefused, Reconnect, Crash,
       Turn, Idle, TypeOK, Writers
  <2> QED BY <1>1, <2>1
<1>10. CASE dispatchOrderLifecycle \/ updatePortfolio
  <2>1. writer'.pc = "fits" => writer'.moved \/ writer'.shifted
    BY <1>0, <1>10, Zenon DEF dispatchOrderLifecycle, updatePortfolio, TypeOK, Writers
  <2> QED BY <2>1 DEF FitOK
<1>11. CASE journalCallback
  <2>1. publishing # NoCallback /\ UNCHANGED writer
    BY <1>11 DEF journalCallback
  <2> QED BY <1>0, <2>1 DEF WriterOK, FitOK
<1>12. CASE portfolioDownload
  BY <1>0, <1>12 DEF portfolioDownload, FitOK, Slack, Committed, Live, Open, orderViewRemainingQuantity
<1> QED BY <1>2, <1>3, <1>4, <1>5, <1>6, <1>7, <1>8, <1>9, <1>10, <1>11, <1>12, Cases, Zenon

-----------------------------------------------------------------------------
(* The order that is sent. *)

\* A step of others after the last reading of the journal.
LEMMA SendStays ==
    ASSUME TypeOK, SendOK, UNCHANGED <<held, writer>>, Live' \subseteq Live, writer.pc = "idle" \/ writer.order \in Orders,
           writer.pc # "idle" => token'[writer.order].kind = token[writer.order].kind
                                 /\ token'[writer.order].qty = token[writer.order].qty
    PROVE  SendOK'
<1>1. CASE writer.pc \in {"stage", "wire"} /\ token[writer.order].kind = "reduce" /\ ~writer.moved /\ ~writer.shifted
  <2>1. Working + token[writer.order].qty <= held
    BY <1>1, Zenon DEF SendOK
  <2>2. Cardinality(Live) \in Nat /\ Cardinality(Live') \in Nat /\ Cardinality(Live') <= Cardinality(Live)
    BY SetsOfUnits, UnitsCount, Zenon
  <2>3. token[writer.order].qty \in Nat /\ held \in Nat
    BY <1>1 DEF TypeOK, Tokens
  <2>4. token'[writer.order].qty = token[writer.order].qty
    BY <1>1
  <2> QED BY <2>1, <2>2, <2>3, <2>4 DEF SendOK, Working
<1>2. CASE ~(writer.pc \in {"stage", "wire"} /\ token[writer.order].kind = "reduce" /\ ~writer.moved /\ ~writer.shifted)
  BY <1>2 DEF SendOK
<1> QED BY <1>1, <1>2, Zenon

\* What the last reading of the journal shows: the journal counts what is
\* live, and the slack besides.
LEMMA FitsBeside ==
    ASSUME IInv, validateReduceTokenForPlace, ~writer.moved, ~writer.shifted
    PROVE  Working + token[writer.order].qty <= held
<1>0. TypeOK /\ FitOK /\ WriterOK /\ \A o \in Orders : OrderOK(o)
  BY Zenon DEF IInv
<1>1. /\ writer.pc = "fits" /\ writer.order \in Orders
      /\ token[writer.order].qty <= reduceFreeQuantity(token[writer.order].before)
      /\ token[writer.order].kind # "none"
  BY <1>0, Zenon DEF validateReduceTokenForPlace, WriterOK
<1>2. token[writer.order].qty \in Nat /\ token[writer.order].qty >= 1 /\ token[writer.order].before \in Nat /\ held \in Nat
  BY <1>0, <1>1 DEF TypeOK, Tokens, OrderOK
<1>3. token[writer.order].before <= held + Cardinality(Slack)
  BY <1>0, <1>1, Zenon DEF FitOK
<1>4. Cardinality(Slack \cup Live) = Cardinality(Slack) + Cardinality(Live)
  BY SetsOfUnits, UnitsApart DEF Slack
<1>5. Slack \cup Live \in SUBSET Committed
  BY <1>0, LiveIsCommitted DEF Slack
<1>6. Cardinality(Slack \cup Live) <= Cardinality(Committed)
  BY <1>5, SetsOfUnits, UnitsCount
<1>7. Cardinality(Slack) \in Nat /\ Cardinality(Live) \in Nat /\ Cardinality(Committed) \in Nat
  BY SetsOfUnits, UnitsCount, Zenon
<1>8. token[writer.order].qty + Cardinality(Committed) <= token[writer.order].before
  BY <1>1, <1>2, <1>7 DEF reduceFreeQuantity, reduceCommittedSales
<1> QED BY <1>2, <1>3, <1>4, <1>6, <1>7, <1>8 DEF Working

\* From there to the wire nothing the guard does not see makes the order too
\* large: a fill takes a unit from both sides.
LEMMA SendStep == ASSUME IInv, TypeOK', Next PROVE SendOK'
<1>0. TypeOK /\ WriterOK /\ SendOK /\ \A o \in Orders : OrderOK(o)
  BY DEF IInv
<1>1. CASE writer'.pc \notin {"stage", "wire"}
  BY <1>1 DEF SendOK
<1>2. CASE validateReduceTokenForPlace
  <2>1. writer'.order = writer.order /\ writer'.moved = writer.moved /\ writer'.shifted = writer.shifted
    BY <1>0, <1>2 DEF validateReduceTokenForPlace, Turn, TypeOK, Writers
  <2>2. UNCHANGED <<held, token, broker>>
    BY <1>2 DEF validateReduceTokenForPlace
  <2>3. Live' = Live
    BY <2>2, LiveSame
  <2> QED BY <1>2, <2>1, <2>2, <2>3, FitsBeside DEF SendOK, Working
<1>3. CASE bindPreviewOrderRiskAuthority
  <2>1. writer'.pc \in {"stage", "wire"} => token'[writer'.order].kind # "reduce"
    BY <1>0, <1>3 DEF bindPreviewOrderRiskAuthority, TypeOK, Writers
  <2> QED BY <2>1 DEF SendOK
<1>4. CASE Moves /\ ~validateReduceTokenForPlace /\ ~bindPreviewOrderRiskAuthority
  <2>1. ASSUME NEW o \in Orders, reduceTokenLeg(o) \/ handleOrderPlace(o) PROVE writer'.pc \notin {"stage", "wire"}
    BY <2>1, Zenon DEF reduceTokenLeg, handleOrderPlace, Take, Idle
  <2>2. CASE reductionOrderBlockers \/ sameContractUnacknowledgedOrder \/ orderFillPositionsReceipt
    BY <1>0, <1>1, <2>2 DEF reductionOrderBlockers, sameContractUnacknowledgedOrder, orderFillPositionsReceipt,
       Turn, TypeOK, Writers
  <2>3. CASE ensureReduceFillCoherence
    <3>1. writer'.pc \in {"receipt", "fits"}
      BY <1>0, <2>3 DEF ensureReduceFillCoherence, TypeOK, Writers
    <3> QED BY <1>1, <3>1
  <2>4. CASE Refuse
    BY <1>1, <2>4, Zenon DEF Refuse, Idle
  <2> QED BY <1>1, <1>4, <2>1, <2>2, <2>3, <2>4 DEF Moves
<1>5. ASSUME NEW o \in Orders, Mints(o) PROVE SendOK'
  <2>1. CASE UNCHANGED writer
    <3>1. UNCHANGED held /\ token[o].kind = "none" /\ \A p \in Orders \ {o} : token'[p] = token[p]
      BY <1>0, <1>5, MintsFrame
    <3>2. Live' = Live
      BY <1>0, <1>5, MintsCount, Zenon
    <3>3. writer.pc = "idle" \/ (writer.order \in Orders /\ writer.order # o)
      BY <1>0, <3>1 DEF WriterOK
    <3> QED BY <1>0, <2>1, <3>1, <3>2, <3>3, SendStays, Zenon
  <2>2. CASE tradeProposalReduceSubmit(o) \/ submitRow(o)
    BY <1>1, <2>2, Zenon DEF tradeProposalReduceSubmit, submitRow, Take, Idle
  <2> QED BY <1>5, <2>1, <2>2 DEF Mints, tradeProposalReducePreview
<1>6. ASSUME NEW o \in Orders, Accept(o) \/ End(o) \/ SnapshotOpenOrders(o) \/ sweepCloses(o) PROVE SendOK'
  <2>1. UNCHANGED <<held, writer, token>>
    BY <1>6, Zenon DEF Accept, End, SnapshotOpenOrders, sweepCloses
  <2>2. Live' \subseteq Live
    BY <1>0, <1>6, RestatedLive, LiveSame, Zenon DEF SnapshotOpenOrders, sweepCloses
  <2> QED BY <1>0, <2>1, <2>2, SendStays DEF WriterOK
<1>7. ASSUME NEW o \in Orders, Fill(o) PROVE SendOK'
  <2>1. UNCHANGED <<writer, token>> /\ held' = held - 1 /\ held \in Nat /\ held > 0
    BY <1>0, <1>7 DEF Fill, TypeOK
  <2>2. Cardinality(Live') + 1 <= Cardinality(Live) /\ Cardinality(Live) \in Nat /\ Cardinality(Live') \in Nat
    <3> DEFINE x == <<o, broker[o].filled + 1>>
    <3>1. x \in Live \ Live' /\ Live' \in SUBSET Live
      BY <1>0, <1>7, FillLive, Zenon
    <3> HIDE DEF x
    <3> QED BY <3>1, SetsOfUnits, UnitsGrow, Zenon
  <2>3. CASE writer.pc \in {"stage", "wire"} /\ token[writer.order].kind = "reduce" /\ ~writer.moved /\ ~writer.shifted
    <3>1. token[writer.order].qty \in Nat
      BY <1>0, <2>3 DEF WriterOK, TypeOK, Tokens
    <3>2. Working + token[writer.order].qty <= held
      BY <1>0, <2>3, Zenon DEF SendOK
    <3> QED BY <2>1, <2>2, <3>1, <3>2 DEF SendOK, Working
  <2> QED BY <2>1, <2>3 DEF SendOK
<1>8. CASE StagePreTransmit
  <2>1. /\ writer'.order = writer.order /\ writer'.moved = writer.moved
        /\ writer'.shifted = writer.shifted /\ writer.pc = "stage"
    BY <1>0, <1>8 DEF StagePreTransmit, Turn, TypeOK, Writers
  <2>2. UNCHANGED <<held, token, broker>>
    BY <1>8 DEF StagePreTransmit
  <2>3. Live' = Live
    BY <2>2, LiveSame
  <2> QED BY <1>0, <2>1, <2>2, <2>3 DEF SendOK, Working
<1>9. CASE submitBoundConfiguredOrder \/ wireRefused \/ Crash
  BY <1>1, <1>9 DEF submitBoundConfiguredOrder, wireRefused, Crash, Idle
<1>10. CASE dispatchOrderLifecycle \/ updatePortfolio \/ Reconnect
  <2>1. writer'.pc \in {"stage", "wire"} => writer'.moved \/ writer'.shifted
    BY <1>0, <1>10 DEF dispatchOrderLifecycle, updatePortfolio, Reconnect, Idle, TypeOK, Writers
  <2> QED BY <2>1 DEF SendOK
<1>11. CASE journalCallback \/ portfolioDownload
  <2>1. UNCHANGED <<held, writer, token, broker>>
    BY <1>11, Zenon DEF journalCallback, portfolioDownload
  <2>2. Live' = Live
    BY <2>1, LiveSame
  <2> QED BY <1>0, <2>1, <2>2, SendStays DEF WriterOK
<1> QED BY <1>2, <1>3, <1>4, <1>5, <1>6, <1>7, <1>8, <1>9, <1>10, <1>11, Cases, Zenon

-----------------------------------------------------------------------------
(* The theorems. *)

\* The program starts with nothing minted, sent or told, and the stream right.
LEMMA InitInvariant == Init => IInv
<1> SUFFICES ASSUME Init PROVE IInv
  BY Zenon
<1> USE LineAssumption DEF LineAssumption
<1>1. broker \in [Orders -> BrokerRows] /\ journal \in [Orders -> JournalRows]
  BY DEF Init, BrokerRows, JournalRows
<1>2. token \in [Orders -> Tokens]
  <2>1. 0 \in 0..Held /\ FALSE \in BOOLEAN
    OBVIOUS
  <2>2. [kind |-> "none", qty |-> 0, before |-> 0, bound |-> FALSE] \in Tokens
    BY <2>1, Zenon DEF Tokens
  <2> QED BY <2>2, Zenon DEF Init
<1>3. writer \in Writers /\ writer.pc = "idle"
  <2>1. 0 \in 0..MaxOrders /\ FALSE \in BOOLEAN
    OBVIOUS
  <2>2. Idle \in Writers
    BY <2>1, Zenon DEF Idle, Writers
  <2> QED BY <2>2 DEF Init, Idle
<1>4. TypeOK
  <2>1. held \in 0..Held /\ pos \in 0..Unknown /\ faults \in 0..MaxFaults /\ news \in Seq(Callbacks)
    <3>1. held = Held /\ pos = Held /\ faults = 0 /\ news = <<>>
      BY Zenon DEF Init
    <3> QED BY <3>1 DEF Unknown
  <2> QED BY <1>1, <1>2, <1>3, <2>1, Zenon DEF Init, TypeOK
<1>5. \A o \in Orders : OrderOK(o)
  <2>1. ASSUME NEW o \in Orders
        PROVE  /\ token[o].kind = "none" /\ token[o].qty = 0 /\ broker[o].state = "none" /\ broker[o].filled = 0
               /\ journal[o].state = "none" /\ journal[o].filled = 0
    BY Zenon DEF Init
  <2> QED BY <2>1 DEF OrderOK
<1>6. CallbacksOK
  <2>1. news = <<>> /\ publishing = NoCallback
    BY Zenon DEF Init
  <2>2. DOMAIN news = {}
    BY <2>1
  <2> QED BY <2>1, <2>2, Zenon DEF CallbacksOK
<1>7. StreamOK
  <2>1. Cardinality(Untold) \in Nat
    BY UntoldUnits, UnitsCount, Zenon
  <2>2. pos = Held /\ held = Held
    BY Zenon DEF Init
  <2> QED BY <2>1, <2>2 DEF StreamOK
<1>8. WriterOK /\ FitOK /\ SendOK
  BY <1>3 DEF WriterOK, FitOK, SendOK
<1> QED BY <1>4, <1>5, <1>6, <1>7, <1>8 DEF IInv

\* A step that changes nothing keeps it.
LEMMA StutterInvariant == IInv /\ UNCHANGED vars => IInv'
<1> SUFFICES ASSUME IInv, UNCHANGED vars PROVE IInv'
  OBVIOUS
<1>0. /\ TypeOK /\ CallbacksOK /\ StreamOK /\ WriterOK /\ FitOK /\ SendOK
      /\ \A o \in Orders : OrderOK(o)
  BY DEF IInv
<1>1. UNCHANGED <<held, broker, news, publishing, pos, token, journal, writer, faults>>
  BY DEF vars
<1>2. TypeOK' /\ CallbacksOK' /\ WriterOK' /\ \A o \in Orders : OrderOK(o)'
  BY <1>0, <1>1, ZenonT(30) DEF TypeOK, CallbacksOK, WriterOK, OrderOK, Open
<1>3. Live' = Live /\ Committed' = Committed
  BY <1>1, LiveSame, CommittedSame
<1>4. StreamOK'
  BY <1>0, <1>1, StreamSame DEF Pending
<1>5. FitOK'
  BY <1>0, <1>1, <1>3, Zenon DEF FitOK, Slack
<1>6. SendOK'
  BY <1>0, <1>1, <1>3, Zenon DEF SendOK, Working
<1> QED BY <1>2, <1>4, <1>5, <1>6 DEF IInv

\* The invariant is inductive.
LEMMA Invariant == Spec => []IInv
<1>1. IInv /\ Next => IInv'
  <2> SUFFICES ASSUME IInv, Next PROVE IInv'
    OBVIOUS
  <2>1. TypeOK'
    BY TypeStep
  <2>2. \A o \in Orders : OrderOK(o)'
    BY OrdersStep
  <2> QED BY <2>1, <2>2, CallbacksStep, StreamStep, WriterStep, FitStep, SendStep, Zenon DEF IInv
<1> QED BY <1>1, InitInvariant, StutterInvariant, PTL DEF Spec

\* In the broker's record, the journal, the stream and the signed previews,
\* quantities stay within what was held at the start: no order fills past its
\* size, and no preview is minted from a position that is not one.
THEOREM QuantitiesInBounds == Spec => []TypeOK
<1>1. IInv => TypeOK
  BY DEF IInv
<1> QED BY <1>1, Invariant, PTL

\* Only the wire write makes an order of Canary's one the broker has.
LEMMA OnlyTheWireSends ==
    ASSUME IInv, Next, NEW o \in Orders, Sends(o)
    PROVE  submitBoundConfiguredOrder /\ o = writer.order
<1>0. TypeOK /\ WriterOK
  BY DEF IInv
<1>1. broker' # broker /\ broker[o].state = "none" /\ broker'[o].state = "flight"
  BY DEF Sends
<1>2. ASSUME NEW p \in Orders, Accept(p) \/ Fill(p) \/ End(p) PROVE FALSE
  <2>1. broker[p].state # "none" /\ \A q \in Orders \ {p} : broker'[q] = broker[q]
    BY <1>0, <1>2, Zenon DEF Accept, Fill, End, TypeOK
  <2> QED BY <1>1, <2>1
<1>3. ~Moves /\ \A p \in Orders : ~Mints(p)
  BY <1>0, <1>1, MovesFrame, MintsFrame
<1>4. submitBoundConfiguredOrder
  BY <1>1, <1>2, <1>3, Cases, Zenon DEF SnapshotOpenOrders, sweepCloses, StagePreTransmit, wireRefused,
     dispatchOrderLifecycle, journalCallback, updatePortfolio, Reconnect, Crash, portfolioDownload
<1>5. writer.order \in Orders /\ \A q \in Orders \ {writer.order} : broker'[q] = broker[q]
  BY <1>0, <1>4, Zenon DEF submitBoundConfiguredOrder, WriterOK, TypeOK
<1> QED BY <1>1, <1>4, <1>5

\* The order that is sent, with all that was live, is within what is held.
LEMMA SentFits ==
    ASSUME IInv, Next, NEW o \in Orders, Sends(o), token[o].kind = "reduce"
    PROVE  Working' <= held'
<1>0. TypeOK /\ SendOK
  BY DEF IInv
<1>1. submitBoundConfiguredOrder /\ o = writer.order /\ broker[o].state = "none"
  BY OnlyTheWireSends DEF Sends
<1>2. /\ Working + token[o].qty <= held /\ UNCHANGED <<held, token>>
  BY <1>0, <1>1, Zenon DEF submitBoundConfiguredOrder, brokerWireGuard, SendOK
<1>3. token[o].qty \in 0..Held /\ broker'[o].filled = broker[o].filled /\ broker[o].filled \in Nat
  <2>1. Restated(broker, broker')
    BY <1>1, Zenon DEF submitBoundConfiguredOrder, Restated
  <2> QED BY <1>0, <2>1, FillsKept DEF TypeOK, Tokens, BrokerRows
<1>4. \A p \in Orders \ {o} : broker'[p] = broker[p]
  BY <1>0, <1>1 DEF submitBoundConfiguredOrder, TypeOK
<1> DEFINE X == {o} \X (1..token[o].qty)
<1>5. X \in SUBSET Units /\ Cardinality(X) = token[o].qty
  BY <1>3, UnitsOfOne, Zenon
<1>6. ASSUME NEW u \in Live' PROVE u \in Live \cup X
  <2>1. u \in Orders \X (1..Held) /\ u[1] \in Orders /\ u[2] \in Nat /\ u = <<u[1], u[2]>>
    BY DEF Live
  <2>2. CASE u[1] = o
    <3>1. u[2] \in (broker[o].filled + 1)..token[o].qty
      BY <1>2, <1>3, <2>1, <2>2, Zenon DEF Live
    <3>2. u[2] \in 1..token[o].qty
      BY <1>3, <3>1
    <3> QED BY <2>1, <2>2, <3>2
  <2>3. CASE u[1] # o
    BY <1>2, <1>4, <2>1, <2>3, Zenon DEF Live
  <2> QED BY <2>2, <2>3
<1>7. Live \cap X = {}
  <2>1. \A u \in Live : u[1] # o
    BY <1>1 DEF Live
  <2>2. \A u \in X : u[1] = o
    OBVIOUS
  <2> QED BY <2>1, <2>2
<1> HIDE DEF X
<1>8. Cardinality(Live \cup X) = Cardinality(Live) + Cardinality(X)
  BY <1>5, <1>7, SetsOfUnits, UnitsApart, Zenon
<1>9. Live' \in SUBSET (Live \cup X) /\ Live \cup X \in SUBSET Units
  BY <1>5, <1>6, SetsOfUnits, Zenon
<1>10. Cardinality(Live') <= Cardinality(Live \cup X) /\ Cardinality(Live') \in Nat /\ Cardinality(Live) \in Nat
  BY <1>9, SetsOfUnits, UnitsCount, Zenon
<1>11. held \in Nat /\ token[o].qty \in Nat
  BY <1>0, <1>3 DEF TypeOK
<1> QED BY <1>2, <1>5, <1>8, <1>10, <1>11 DEF Working

\* When a reduction is sent, everything Canary's orders can still sell of the
\* line, this order included, is held at that moment, however late the fills
\* reach the journal and the portfolio stream, and through reconnects, crashes
\* and sends of unclear outcome.
THEOREM ReductionsFit == Spec => ReduceFits
<1>1. ASSUME IInv, [Next]_vars
      PROVE  [\A o \in Orders : Sends(o) /\ token[o].kind = "reduce" => (Working <= held)']_vars
  <2>1. CASE Next
    <3>1. \A o \in Orders : Sends(o) /\ token[o].kind = "reduce" => Working' <= held'
      BY <1>1, <2>1, SentFits
    <3> QED BY <3>1
  <2>2. CASE UNCHANGED vars
    BY <2>2
  <2> QED BY <1>1, <2>1, <2>2, Zenon
<1> QED BY <1>1, Invariant, PTL DEF Spec, ReduceFits
============================================================================
