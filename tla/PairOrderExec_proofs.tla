------------------------ MODULE PairOrderExec_proofs ------------------------
(* Proofs about PairOrderExec, for all values of its constants.               *)
(*                                                                            *)
(* Part 1, IInv: the types of the books, and that a fill is never hedged      *)
(* twice (HedgeBounded).  HedgeBounded is not inductive: a report lowers it   *)
(* only if the volume it carries is not less than what the pair already       *)
(* counts, and a report of the end only if the order was not overfilled.  So  *)
(* IInv adds that a pair counts on its active leg exactly what its active     *)
(* order reported, and that the strategy and the exchange agree on the volume *)
(* of an order.                                                               *)
(*                                                                            *)
(* Part 2, JInv: the ledger.  The frozen volumes of a pair are what its       *)
(* tracked orders have left, its totals are the known fills of all its        *)
(* orders, position and pairs together are the known fills of all orders, an  *)
(* open order is tracked, a finished pair is flat.  None of these is          *)
(* inductive alone: that a pair with nothing frozen tracks no order, so that  *)
(* it may be finished, needs the matching; that its gap is what it seems      *)
(* needs the totals; that a fill at the exchange leaves finished pairs flat   *)
(* needs the tracking.  The sums of the properties run over sets that change; *)
(* the proofs use sums over the fixed set of ids, with 0 for what is not      *)
(* there, so that a step changes the terms of one order or of one pair.       *)
(*                                                                            *)
(* Part 3, Sides: the position manager's frozen volumes are those of the      *)
(* active orders, and so the volume new orders are sized from is the holding  *)
(* they lead to.                                                              *)
(*                                                                            *)
(* Part 4: PairOrderExec implements AlgoOrder.                                *)
EXTENDS PairOrderRefinement, FiniteSums, TLAPS

PairsTyped(ps, n) == DOMAIN ps \subseteq 1..(n - 1) /\ ps \in [DOMAIN ps -> Pair]

ExchTyped(ex) ==
  /\ DOMAIN ex \subseteq OrderId /\ ex \in [DOMAIN ex -> ExchOrder]
  /\ \A o \in DOMAIN ex : ex[o].filled <= ex[o].volume

OrdersKnown(os, ex) ==
  /\ DOMAIN os \subseteq DOMAIN ex /\ os \in [DOMAIN os -> Order]
  /\ \A o \in DOMAIN os : os[o].volume = ex[o].volume

ActiveCounted(ps, os) ==
  \A o \in DOMAIN os :
    IsActiveOrder(o) /\ PairOf(o) \in DOMAIN ps => ps[PairOf(o)].actTotal = os[o].total

NotOverhedged(ps) ==
  \A p \in DOMAIN ps : 2 * (ps[p].pasTotal + ps[p].pasFrozen - ps[p].actTotal) <= PasLot

Books(ps, os, ex, n) ==
  /\ PairsTyped(ps, n) /\ ExchTyped(ex) /\ OrdersKnown(os, ex)
  /\ ActiveCounted(ps, os) /\ NotOverhedged(ps)

ScalarsTyped ==
  /\ algoStatus \in AlgoStatus
  /\ mayOpen \in BOOLEAN /\ mayClose \in BOOLEAN /\ fundVerifyFailed \in BOOLEAN
  /\ position \in Int /\ frozenLong \in Int /\ frozenShort \in Int
  /\ nextPair \in 1..(PairBound + 1)

\* The inductive invariant.
IInv == ScalarsTyped /\ Books(pairs, orders, exch, nextPair)

\* The inductive invariant contains the type invariant and HedgeBounded.
LEMMA IInvImplies == IInv => TypeOK /\ HedgeBounded
  BY DEF IInv, ScalarsTyped, Books, PairsTyped, ExchTyped, OrdersKnown, NotOverhedged,
         TypeOK, HedgeBounded

-----------------------------------------------------------------------------
(* Operators *)

\* The fields of a pair order have their types.
LEMMA PairFields ==
  ASSUME NEW pr \in Pair
  PROVE  /\ pr.dir \in {1, -1} /\ pr.actTotal \in Nat /\ pr.actFrozen \in Int
         /\ pr.pasTotal \in Nat /\ pr.pasFrozen \in Int /\ pr.hedges \in 0..HedgeBound
  BY DEF Pair

\* A passive order in a pair with room for one: the pair keeps its type.
LEMMA PairHedged ==
  ASSUME NEW pr \in Pair, pr.hedges < HedgeBound, NEW v \in Nat
  PROVE  /\ [pr EXCEPT !.pasFrozen = @ + v, !.hedges = @ + 1] \in Pair
         /\ pr.hedges + 1 \in 1..HedgeBound
<1>1. HedgeBound \in Nat
  BY LimitAssumption
<1>2. /\ pr.hedges + 1 \in 1..HedgeBound /\ pr.hedges + 1 \in 0..HedgeBound
      /\ pr.pasFrozen + v \in Int
  BY <1>1, PairFields
<1>3. [pr EXCEPT !.pasFrozen = @ + v, !.hedges = @ + 1] \in Pair
  BY <1>2, Zenon DEF Pair
<1> QED BY <1>2, <1>3

\* Rounding to lots (ModifyVolumeByLotSize) errs by at most half a lot upwards.
LEMMA RoundLotBound ==
  ASSUME NEW v \in Nat, NEW lot \in Nat \ {0}
  PROVE  RoundLot(v, lot) \in Nat /\ 2 * RoundLot(v, lot) <= 2 * v + lot
<1> DEFINE q == (2 * v + lot) \div (2 * lot)
<1>1. q \in Nat /\ (2 * lot) * q <= 2 * v + lot
  BY SMT
<1> HIDE DEF q
<1>2. 2 * (q * lot) = (2 * lot) * q /\ q * lot \in Nat
  BY <1>1, SMT
<1>3. RoundLot(v, lot) = q * lot
  BY DEF RoundLot, q
<1> QED BY <1>1, <1>2, <1>3

\* Rounding to lots gives an integer.
LEMMA RoundLotInt ==
  ASSUME NEW v \in Int, NEW lot \in Nat \ {0}
  PROVE  RoundLot(v, lot) \in Int
<1>1. (2 * v + lot) \div (2 * lot) \in Int
  BY SMT
<1> QED BY <1>1, SMT DEF RoundLot

\* A hedge closes the gap of its pair to within half a lot.
LEMMA HedgeVolumeBound ==
  ASSUME NEW pr \in Pair
  PROVE  /\ HedgeVolume(pr) \in Nat
         /\ HedgeVolume(pr) > 0 =>
              2 * (pr.pasTotal + pr.pasFrozen + HedgeVolume(pr) - pr.actTotal) <= PasLot
<1> DEFINE gap == pr.actTotal - pr.pasTotal - pr.pasFrozen
<1>1. gap \in Int /\ PasLot \in Nat \ {0}
  BY VolumeAssumption DEF Pair
<1>2. CASE gap > 0
  <2>1. gap \in Nat
    BY <1>1, <1>2
  <2>2. RoundLot(gap, PasLot) \in Nat /\ 2 * RoundLot(gap, PasLot) <= 2 * gap + PasLot
    BY <1>1, <2>1, RoundLotBound
  <2>3. HedgeVolume(pr) = RoundLot(gap, PasLot)
    BY <1>2 DEF HedgeVolume
  <2> QED BY <1>1, <2>2, <2>3 DEF Pair
<1>3. CASE ~(gap > 0)
  BY <1>3 DEF HedgeVolume
<1> QED BY <1>2, <1>3

\* Pair orders are finitely many, and the signed fills of a set of them an integer.
LEMMA PairSumInt ==
  ASSUME NEW ps, NEW n \in Int, PairsTyped(ps, n), NEW S \in SUBSET DOMAIN ps
  PROVE  SumFunction([p \in S |-> ps[p].dir * ps[p].actTotal]) \in Int
<1> DEFINE f == [p \in S |-> ps[p].dir * ps[p].actTotal]
<1>1. IsFiniteSet(S)
  <2>1. IsFiniteSet(1..(n - 1))
    BY FS_Interval
  <2> QED BY <2>1, FS_Subset DEF PairsTyped
<1>2. \A p \in S : f[p] \in Int
  BY DEF PairsTyped, Pair
<1>3. SumFunctionOnSet(f, S) \in Int
  <2> HIDE DEF f
  <2> QED BY <1>1, <1>2, SumInt
<1> QED BY <1>3 DEF SumFunction

-----------------------------------------------------------------------------
(* The parts of a step *)

\* A step that changes no volume, and no fill the strategy knows, keeps the books.
LEMMA SameVolumesKeepBooks ==
  ASSUME NEW ps, NEW n, NEW os, NEW ex, Books(ps, os, ex, n),
         NEW os2 \in [DOMAIN os -> Order], NEW ex2 \in [DOMAIN ex -> ExchOrder],
         \A o \in DOMAIN os : os2[o].volume = os[o].volume /\ os2[o].total = os[o].total,
         \A o \in DOMAIN ex : ex2[o].volume = ex[o].volume /\ ex2[o].filled <= ex2[o].volume
  PROVE  Books(ps, os2, ex2, n)
<1>1. DOMAIN os2 = DOMAIN os /\ DOMAIN ex2 = DOMAIN ex
  OBVIOUS
<1>2. ExchTyped(ex2)
  BY <1>1 DEF Books, ExchTyped
<1>3. OrdersKnown(os2, ex2)
  BY <1>1 DEF Books, OrdersKnown
<1>4. ActiveCounted(ps, os2)
  BY <1>1 DEF Books, ActiveCounted
<1> QED BY <1>2, <1>3, <1>4 DEF Books

\* Asking the exchange to cancel orders changes no volume and no fill.
LEMMA CancelKeepsBooks ==
  ASSUME NEW os, NEW ex, NEW C, NEW ps, NEW n, Books(ps, os, ex, n)
  PROVE  Books(ps, CancelOrders(os, C), RequestCancels(ex, C), n)
<1>1. /\ CancelOrders(os, C) \in [DOMAIN os -> Order]
      /\ RequestCancels(ex, C) \in [DOMAIN ex -> ExchOrder]
  BY DEF Books, ExchTyped, OrdersKnown, CancelOrders, RequestCancels, Order, ExchOrder, LiveStatus
<1>2. \A o \in DOMAIN os : /\ CancelOrders(os, C)[o].volume = os[o].volume
                           /\ CancelOrders(os, C)[o].total = os[o].total
  BY DEF Books, OrdersKnown, CancelOrders, Order
<1>3. \A o \in DOMAIN ex : /\ RequestCancels(ex, C)[o].volume = ex[o].volume
                           /\ RequestCancels(ex, C)[o].filled = ex[o].filled
  BY DEF Books, ExchTyped, RequestCancels, ExchOrder
<1>4. \A o \in DOMAIN ex : ex[o].filled <= ex[o].volume
  BY DEF Books, ExchTyped
<1> QED BY <1>1, <1>2, <1>3, <1>4, SameVolumesKeepBooks

\* PairOrderTrade keeps the books: a hedge is bounded by the gap it closes, and
\* its order is not the active order of its pair.
LEMMA TradeKeepsBooks ==
  ASSUME NEW ps, NEW os, NEW P \in SUBSET DOMAIN ps, NEW C,
         Books(ps, os, exch, nextPair), nextPair \in 1..(PairBound + 1), position \in Int,
         PairOrderTrade(ps, os, P, C)
  PROVE  Books(pairs', orders', exch', nextPair) /\ position' \in Int
<1> DEFINE hedged   == Hedged(ps, P)
           finished == Finished(ps, P)
           placed   == {NextHedge(ps, p) : p \in hedged}
           vol(o)   == HedgeVolume(ps[PairOf(o)])
           dir(o)   == -ps[PairOf(o)].dir
           cs       == CancelOrders(os, C)
           ex       == RequestCancels(exch, C)
<1>1. /\ \A p \in hedged : ps[p].hedges < HedgeBound
      /\ pairs' = [p \in DOMAIN ps \ finished |->
                     IF p \in hedged
                     THEN [ps[p] EXCEPT !.pasFrozen = @ + HedgeVolume(ps[p]), !.hedges = @ + 1]
                     ELSE ps[p]]
      /\ orders' = [o \in DOMAIN cs \union placed |->
                      IF o \in placed THEN NewOrder(dir(o), vol(o)) ELSE cs[o]]
      /\ exch' = [o \in DOMAIN ex \union placed |->
                    IF o \in placed THEN Placed(dir(o), vol(o)) ELSE ex[o]]
      /\ position' = PositionAfter(ps, finished)
  BY DEF PairOrderTrade
<1>2. hedged \subseteq DOMAIN ps /\ finished \subseteq DOMAIN ps
  BY DEF Hedged, Finished
<1>3. Books(ps, cs, ex, nextPair)
  BY CancelKeepsBooks
<1>4. \A p \in hedged :
        /\ ps[p] \in Pair /\ p \in PairId
        /\ HedgeVolume(ps[p]) \in Nat
        /\ 2 * (ps[p].pasTotal + ps[p].pasFrozen + HedgeVolume(ps[p]) - ps[p].actTotal) <= PasLot
  <2> SUFFICES ASSUME NEW p \in hedged
               PROVE  /\ ps[p] \in Pair /\ p \in PairId /\ HedgeVolume(ps[p]) \in Nat
                      /\ 2 * (ps[p].pasTotal + ps[p].pasFrozen + HedgeVolume(ps[p])
                              - ps[p].actTotal) <= PasLot
    OBVIOUS
  <2>1. ps[p] \in Pair /\ p \in 1..(nextPair - 1)
    BY <1>2 DEF Books, PairsTyped
  <2>2. HedgeVolume(ps[p]) > 0
    <3>1. HedgeVolume(ps[p]) \in Nat
      BY <2>1, HedgeVolumeBound
    <3> QED BY <3>1, VolumeAssumption DEF Hedged
  <2>3. p \in PairId
    BY <2>1, LimitAssumption DEF PairId
  <2> QED BY <2>1, <2>2, <2>3, HedgeVolumeBound
<1> HIDE DEF hedged, finished, cs, ex
<1>5. \A o \in placed :
        /\ o \in OrderId /\ ~IsActiveOrder(o) /\ PairOf(o) \in hedged
        /\ vol(o) \in Nat /\ dir(o) \in {1, -1}
  <2> SUFFICES ASSUME NEW o \in placed
               PROVE  /\ o \in OrderId /\ ~IsActiveOrder(o) /\ PairOf(o) \in hedged
                      /\ vol(o) \in Nat /\ dir(o) \in {1, -1}
    OBVIOUS
  <2>1. PICK p \in hedged : o = <<p, ps[p].hedges + 1>>
    BY DEF NextHedge
  <2>2. PairOf(o) = p /\ ps[p].hedges + 1 \in 1..HedgeBound
    BY <1>1, <1>4, <2>1, PairHedged DEF PairOf
  <2>3. ps[p].dir \in {1, -1}
    BY <1>4 DEF Pair
  <2> QED BY <1>4, <2>1, <2>2, <2>3 DEF OrderId, IsActiveOrder
<1> HIDE DEF placed, vol, dir
<1>6. PairsTyped(pairs', nextPair) /\ NotOverhedged(pairs')
  <2>1. \A p \in hedged :
          /\ [ps[p] EXCEPT !.pasFrozen = @ + HedgeVolume(ps[p]), !.hedges = @ + 1] \in Pair
          /\ 2 * (ps[p].pasTotal + (ps[p].pasFrozen + HedgeVolume(ps[p])) - ps[p].actTotal)
               <= PasLot
    <3> SUFFICES ASSUME NEW p \in hedged
                 PROVE  /\ [ps[p] EXCEPT !.pasFrozen = @ + HedgeVolume(ps[p]),
                                         !.hedges = @ + 1] \in Pair
                        /\ 2 * (ps[p].pasTotal + (ps[p].pasFrozen + HedgeVolume(ps[p]))
                                - ps[p].actTotal) <= PasLot
      OBVIOUS
    <3> DEFINE pr == ps[p]
               h  == HedgeVolume(ps[p])
    <3>1. pr \in Pair /\ h \in Nat /\ pr.hedges < HedgeBound
      BY <1>1, <1>4
    <3>2. 2 * (pr.pasTotal + pr.pasFrozen + h - pr.actTotal) <= PasLot
      BY <1>4
    <3> HIDE DEF pr, h
    <3>3. [pr EXCEPT !.pasFrozen = @ + h, !.hedges = @ + 1] \in Pair
      BY <3>1, PairHedged
    <3>4. 2 * (pr.pasTotal + (pr.pasFrozen + h) - pr.actTotal) <= PasLot
      BY <3>1, <3>2, PairFields
    <3> QED BY <3>3, <3>4 DEF pr, h
  <2>2. \A p \in hedged :
          LET q == [ps[p] EXCEPT !.pasFrozen = @ + HedgeVolume(ps[p]), !.hedges = @ + 1]
          IN  /\ q.pasTotal = ps[p].pasTotal /\ q.actTotal = ps[p].actTotal
              /\ q.pasFrozen = ps[p].pasFrozen + HedgeVolume(ps[p])
    BY <1>4 DEF Pair
  <2>3. PairsTyped(pairs', nextPair)
    BY <1>1, <1>2, <2>1 DEF Books, PairsTyped
  <2>4. NotOverhedged(pairs')
    BY <1>1, <1>2, <2>1, <2>2 DEF Books, NotOverhedged
  <2> QED BY <2>3, <2>4
<1>7. ExchTyped(exch')
  <2>1. \A o \in placed : /\ Placed(dir(o), vol(o)) \in ExchOrder
                          /\ Placed(dir(o), vol(o)).filled <= Placed(dir(o), vol(o)).volume
    BY <1>5 DEF Placed, ExchOrder
  <2> QED BY <1>1, <1>3, <1>5, <2>1 DEF Books, ExchTyped
<1>8. OrdersKnown(orders', exch')
  <2>1. \A o \in placed : /\ NewOrder(dir(o), vol(o)) \in Order
                          /\ NewOrder(dir(o), vol(o)).volume = Placed(dir(o), vol(o)).volume
    BY <1>5, LimitAssumption DEF Placed, NewOrder, Order, LiveStatus
  <2> QED BY <1>1, <1>3, <2>1 DEF Books, OrdersKnown
<1>9. ActiveCounted(pairs', orders')
  <2> SUFFICES ASSUME NEW o \in DOMAIN orders', IsActiveOrder(o), PairOf(o) \in DOMAIN pairs'
               PROVE  pairs'[PairOf(o)].actTotal = orders'[o].total
    BY DEF ActiveCounted
  <2>1. o \in DOMAIN cs /\ orders'[o] = cs[o]
    BY <1>1, <1>5
  <2>2. PairOf(o) \in DOMAIN ps /\ pairs'[PairOf(o)].actTotal = ps[PairOf(o)].actTotal
    BY <1>1, <1>4 DEF Pair
  <2> QED BY <1>3, <2>1, <2>2 DEF Books, ActiveCounted
<1>10. position' \in Int
  <2>1. SumFunction([p \in finished |-> ps[p].dir * ps[p].actTotal]) \in Int
    <3>1. PairsTyped(ps, nextPair) /\ nextPair \in Int /\ finished \in SUBSET DOMAIN ps
      BY <1>2 DEF Books
    <3> QED BY <3>1, PairSumInt
  <2>2. position' = PositionAfter(ps, finished)
    BY <1>1
  <2> DEFINE sum == SumFunction([p \in finished |-> ps[p].dir * ps[p].actTotal])
  <2>3. position' = position + sum
    BY <2>2 DEF PositionAfter
  <2> HIDE DEF sum
  <2>4. sum \in Int
    BY <2>1 DEF sum
  <2> QED BY <2>3, <2>4
<1> QED BY <1>6, <1>7, <1>8, <1>9, <1>10 DEF Books

\* The volume a report carries is at least what is known and at most the volume
\* of the order, so the pair keeps its type and its hedge no less bounded.
LEMMA ReportedPair ==
  ASSUME IInv, NEW o \in DOMAIN orders, PairOf(o) \in DOMAIN pairs,
         NEW k \in 0..exch[o].volume, orders[o].total <= k, NEW done \in BOOLEAN
  PROVE  LET p == pairs[PairOf(o)]
             q == UpdatePair(p, o, k, done)
         IN  /\ q \in Pair
             /\ IsActiveOrder(o) => q.actTotal = k
             /\ ~IsActiveOrder(o) => q.actTotal = p.actTotal
             /\ q.pasTotal + q.pasFrozen - q.actTotal <= p.pasTotal + p.pasFrozen - p.actTotal
<1> DEFINE p == pairs[PairOf(o)]
           fill == k - orders[o].total
           left == IF done THEN orders[o].volume - k ELSE 0
           q == UpdatePair(p, o, k, done)
<1>1. p \in Pair
  BY DEF IInv, Books, PairsTyped
<1>2. /\ orders[o].total \in Nat /\ orders[o].volume = exch[o].volume /\ exch[o].volume \in Nat
      /\ IsActiveOrder(o) => p.actTotal = orders[o].total
  BY DEF IInv, Books, ExchTyped, OrdersKnown, ActiveCounted, Order, ExchOrder
<1>3. fill \in Nat /\ left \in Nat /\ k \in Nat /\ k >= orders[o].total
  BY <1>2
<1> HIDE DEF p, fill, left
<1>4. CASE IsActiveOrder(o)
  <2>1. q = [p EXCEPT !.actTotal = k, !.actFrozen = @ - fill - left]
    BY <1>4 DEF UpdatePair, fill, left
  <2>2. p.actFrozen - fill - left \in Int
    BY <1>1, <1>3, PairFields
  <2> HIDE DEF q
  <2>3. q \in Pair /\ q.actTotal = k /\ q.pasTotal = p.pasTotal /\ q.pasFrozen = p.pasFrozen
    BY <1>1, <1>3, <2>1, <2>2, Zenon DEF Pair
  <2>4. q.pasTotal + q.pasFrozen - q.actTotal <= p.pasTotal + p.pasFrozen - p.actTotal
    BY <1>1, <1>2, <1>3, <1>4, <2>3, PairFields
  <2> QED BY <1>4, <2>3, <2>4 DEF q, p
<1>5. CASE ~IsActiveOrder(o)
  <2>1. q = [p EXCEPT !.pasTotal = @ + fill, !.pasFrozen = @ - fill - left]
    BY <1>5 DEF UpdatePair, fill, left
  <2>2. p.pasFrozen - fill - left \in Int /\ p.pasTotal + fill \in Nat
    BY <1>1, <1>3, PairFields
  <2> HIDE DEF q
  <2>3. /\ q \in Pair /\ q.actTotal = p.actTotal
        /\ q.pasTotal = p.pasTotal + fill /\ q.pasFrozen = p.pasFrozen - fill - left
    BY <1>1, <2>1, <2>2, Zenon DEF Pair
  <2>4. q.pasTotal + q.pasFrozen - q.actTotal <= p.pasTotal + p.pasFrozen - p.actTotal
    BY <1>1, <1>3, <2>3, PairFields
  <2> QED BY <1>5, <2>3, <2>4 DEF q, p
<1> QED BY <1>4, <1>5

\* A report that is not the end keeps the order's type and volume.
LEMMA ReportedOrder ==
  ASSUME NEW ord \in Order, NEW st \in LiveStatus, NEW k \in Nat, NEW isQuery \in BOOLEAN
  PROVE  /\ UpdateOrder(ord, st, k, isQuery) \in Order
         /\ UpdateOrder(ord, st, k, isQuery).total = k
         /\ UpdateOrder(ord, st, k, isQuery).volume = ord.volume
<1> DEFINE n == IF isQuery THEN Least(ord.queries + 1, MaxQueries + 1) ELSE 0
           q == UpdateOrder(ord, st, k, isQuery)
<1>1. n \in 0..(MaxQueries + 1)
  BY LimitAssumption DEF Order, Least
<1>2. q = [ord EXCEPT !.status = st, !.total = k, !.old = FALSE, !.queries = n]
  BY DEF UpdateOrder
<1> HIDE DEF n, q
<1>3. q \in Order /\ q.total = k /\ q.volume = ord.volume
  BY <1>1, <1>2, Zenon DEF Order
<1> QED BY <1>3 DEF q

\* The pairs and the child orders once a report is taken, before pairs are traded.
PairsReported(o, k, done) == [pairs EXCEPT ![PairOf(o)] = UpdatePair(@, o, k, done)]
OrdersReported(o, st, k, isQuery) ==
  IF st = "DONE" THEN Without(orders, {o})
                 ELSE [orders EXCEPT ![o] = UpdateOrder(@, st, k, isQuery)]

\* Taking a report keeps the books.
LEMMA ReportKeepsBooks ==
  ASSUME IInv, NEW o \in DOMAIN orders, PairOf(o) \in DOMAIN pairs,
         NEW st \in LiveStatus \union {"DONE"}, NEW k \in 0..exch[o].volume,
         NEW isQuery \in BOOLEAN, ~OutOfOrder(o, k)
  PROVE  Books(PairsReported(o, k, st = "DONE"), OrdersReported(o, st, k, isQuery), exch, nextPair)
<1> DEFINE done == st = "DONE"
           ps   == PairsReported(o, k, done)
           os   == OrdersReported(o, st, k, isQuery)
           old  == pairs[PairOf(o)]
           new  == UpdatePair(old, o, k, done)
<1>1. /\ PairOf(o) \in DOMAIN pairs /\ ~OutOfOrder(o, k)
      /\ ps = [pairs EXCEPT ![PairOf(o)] = UpdatePair(@, o, k, done)]
      /\ os = IF done THEN Without(orders, {o})
              ELSE [orders EXCEPT ![o] = UpdateOrder(@, st, k, isQuery)]
  BY DEF PairsReported, OrdersReported
<1>2. /\ orders[o] \in Order /\ k \in Nat /\ orders[o].total \in Nat /\ orders[o].total <= k
      /\ orders[o].volume \in Nat
  <2>1. orders[o] \in Order /\ exch[o] \in ExchOrder
    BY DEF IInv, Books, ExchTyped, OrdersKnown
  <2>2. exch[o].volume \in Nat /\ orders[o].total \in Nat /\ orders[o].volume \in Nat
    BY <2>1 DEF Order, ExchOrder
  <2> QED BY <1>1, <2>1, <2>2 DEF OutOfOrder
<1>3. /\ new \in Pair
      /\ IsActiveOrder(o) => new.actTotal = k
      /\ ~IsActiveOrder(o) => new.actTotal = old.actTotal
      /\ new.pasTotal + new.pasFrozen - new.actTotal <= old.pasTotal + old.pasFrozen - old.actTotal
  BY <1>1, <1>2, ReportedPair
<1>4. DOMAIN ps = DOMAIN pairs
      /\ \A p \in DOMAIN ps : ps[p] = IF p = PairOf(o) THEN new ELSE pairs[p]
  BY <1>1
<1> HIDE DEF ps, new
<1>5. PairsTyped(ps, nextPair)
  <2>1. ps = [p \in DOMAIN ps |-> ps[p]]
    BY DEF ps, PairsReported
  <2> QED BY <1>3, <1>4, <2>1 DEF IInv, Books, PairsTyped
<1>6. NotOverhedged(ps)
  <2> SUFFICES ASSUME NEW p \in DOMAIN ps
               PROVE  2 * (ps[p].pasTotal + ps[p].pasFrozen - ps[p].actTotal) <= PasLot
    BY DEF NotOverhedged
  <2>1. 2 * (pairs[p].pasTotal + pairs[p].pasFrozen - pairs[p].actTotal) <= PasLot
    BY <1>4 DEF IInv, Books, NotOverhedged
  <2>2. CASE p = PairOf(o)
    <3>1. old \in Pair /\ PasLot \in Nat
      BY <1>1, VolumeAssumption DEF IInv, Books, PairsTyped
    <3>2. 2 * (old.pasTotal + old.pasFrozen - old.actTotal) <= PasLot
      BY <2>1, <2>2
    <3> HIDE DEF old
    <3>3. 2 * (new.pasTotal + new.pasFrozen - new.actTotal) <= PasLot
      BY <1>3, <3>1, <3>2, PairFields
    <3> QED BY <1>4, <2>2, <3>3
  <2>3. CASE p # PairOf(o)
    BY <1>4, <2>1, <2>3
  <2> QED BY <2>2, <2>3
<1>7. OrdersKnown(os, exch) /\ ActiveCounted(ps, os)
  <2>1. CASE done
    <3>1. DOMAIN os = DOMAIN orders \ {o} /\ \A x \in DOMAIN os : os[x] = orders[x]
      BY <2>1 DEF Without, OrdersReported
    <3>2. os \in [DOMAIN os -> Order]
      BY <2>1, <3>1 DEF Without, OrdersReported, IInv, Books, OrdersKnown
    <3>3. OrdersKnown(os, exch)
      BY <3>1, <3>2 DEF IInv, Books, OrdersKnown
    <3>4. ActiveCounted(ps, os)
      <4> SUFFICES ASSUME NEW x \in DOMAIN os, IsActiveOrder(x), PairOf(x) \in DOMAIN ps
                   PROVE  ps[PairOf(x)].actTotal = os[x].total
        BY DEF ActiveCounted
      <4>1. x # o /\ x \in DOMAIN orders /\ os[x] = orders[x]
        BY <3>1
      <4>2. pairs[PairOf(x)].actTotal = orders[x].total
        BY <1>4, <4>1 DEF IInv, Books, ActiveCounted
      <4>3. CASE PairOf(x) # PairOf(o)
        BY <1>4, <4>1, <4>2, <4>3
      <4>4. CASE PairOf(x) = PairOf(o)
        <5>1. x \in OrderId /\ o \in OrderId
          BY <4>1 DEF IInv, Books, ExchTyped, OrdersKnown
        <5>2. ~IsActiveOrder(o)
          BY <4>1, <4>4, <5>1 DEF OrderId, PairOf, IsActiveOrder
        <5> QED BY <1>3, <1>4, <4>1, <4>2, <4>4, <5>2
      <4> QED BY <4>3, <4>4
    <3> QED BY <3>3, <3>4
  <2>2. CASE ~done
    <3> DEFINE u == UpdateOrder(orders[o], st, k, isQuery)
    <3>1. u \in Order /\ u.total = k /\ u.volume = orders[o].volume
      BY <1>2, <2>2, ReportedOrder
    <3> HIDE DEF u
    <3>2. os = [orders EXCEPT ![o] = u]
      BY <2>2 DEF u, OrdersReported
    <3>3. OrdersKnown(os, exch)
      BY <3>1, <3>2 DEF IInv, Books, OrdersKnown
    <3>4. ActiveCounted(ps, os)
      <4> SUFFICES ASSUME NEW x \in DOMAIN os, IsActiveOrder(x), PairOf(x) \in DOMAIN ps
                   PROVE  ps[PairOf(x)].actTotal = os[x].total
        BY DEF ActiveCounted
      <4>1. x \in DOMAIN orders /\ os[x] = IF x = o THEN u ELSE orders[x]
        BY <3>2
      <4>2. pairs[PairOf(x)].actTotal = orders[x].total
        BY <1>4, <4>1 DEF IInv, Books, ActiveCounted
      <4>3. CASE PairOf(x) # PairOf(o)
        BY <1>4, <4>1, <4>2, <4>3
      <4>4. CASE x = o
        BY <1>3, <1>4, <3>1, <4>1, <4>4
      <4>5. CASE PairOf(x) = PairOf(o) /\ x # o
        <5>1. x \in OrderId /\ o \in OrderId
          BY <4>1 DEF IInv, Books, ExchTyped, OrdersKnown
        <5>2. ~IsActiveOrder(o)
          BY <4>5, <5>1 DEF OrderId, PairOf, IsActiveOrder
        <5> QED BY <1>3, <1>4, <4>1, <4>2, <4>5, <5>2
      <4> QED BY <4>3, <4>4, <4>5
    <3> QED BY <3>3, <3>4
  <2> QED BY <2>1, <2>2
<1>8. Books(ps, os, exch, nextPair)
  BY <1>5, <1>6, <1>7 DEF IInv, Books
<1> QED BY <1>8 DEF ps

\* Handling a report keeps the books and the types.
LEMMA OnOrderKeepsIInv ==
  ASSUME IInv, NEW o \in DOMAIN orders, NEW st \in LiveStatus \union {"DONE"},
         NEW k \in 0..exch[o].volume, NEW isQuery \in BOOLEAN, NEW pass \in BOOLEAN, NEW C,
         OnOrder(o, st, k, isQuery, pass, C)
  PROVE  IInv'
<1> DEFINE done == st = "DONE"
           ps   == PairsReported(o, k, done)
           os   == OrdersReported(o, st, k, isQuery)
           P    == IF (done \/ (IsActiveOrder(o) /\ k > orders[o].total)) /\ pass
                   THEN {PairOf(o)} ELSE {}
<1>1. /\ PairOf(o) \in DOMAIN pairs /\ ~OutOfOrder(o, k)
      /\ PairOrderTrade(ps, os, P, C)
      /\ frozenLong' = ReleaseLong(o, k, done) /\ frozenShort' = ReleaseShort(o, k, done)
      /\ UNCHANGED <<algoVars, nextPair>>
  BY DEF OnOrder, PairsReported, OrdersReported
<1>2. /\ k \in Nat /\ orders[o].total \in Nat /\ orders[o].volume \in Nat
  <2>1. orders[o] \in Order /\ exch[o] \in ExchOrder
    BY DEF IInv, Books, ExchTyped, OrdersKnown
  <2> QED BY <2>1 DEF Order, ExchOrder
<1>3. Books(ps, os, exch, nextPair)
  BY <1>1, ReportKeepsBooks
<1>9. Books(pairs', orders', exch', nextPair) /\ position' \in Int
  <2> HIDE DEF ps, os, P
  <2>1. P \in SUBSET DOMAIN ps
    BY <1>1 DEF P, ps, PairsReported
  <2>2. nextPair \in 1..(PairBound + 1) /\ position \in Int
    BY DEF IInv, ScalarsTyped
  <2> QED BY <1>1, <1>3, <2>1, <2>2, TradeKeepsBooks
<1>10. frozenLong' \in Int /\ frozenShort' \in Int
  BY <1>1, <1>2 DEF IInv, ScalarsTyped, ReleaseLong, ReleaseShort
<1> QED BY <1>1, <1>9, <1>10 DEF IInv, ScalarsTyped, algoVars

\* The target volume of a tick is an integer, whatever the spread ladder yields.
LEMMA TargetVolumeInt ==
  ASSUME IInv, NEW t \in 0..MaxTarget
  PROVE  OpenVolume(t) \in Int /\ CloseVolume(t) \in Int
<1> DEFINE e == GetExpectActiveVolume
<1>1. e \in Int
  <2> DEFINE sum == SumFunction([p \in DOMAIN pairs |-> pairs[p].dir * pairs[p].actTotal])
  <2>1. sum \in Int
    <3>1. PairsTyped(pairs, nextPair) /\ nextPair \in Int /\ DOMAIN pairs \in SUBSET DOMAIN pairs
      BY DEF IInv, Books, ScalarsTyped
    <3> QED BY <3>1, PairSumInt
  <2>2. e = position + sum + frozenLong - frozenShort
    BY DEF GetExpectActiveVolume
  <2> HIDE DEF sum, e
  <2> QED BY <2>1, <2>2 DEF IInv, ScalarsTyped
<1> HIDE DEF e
<1>2. Least(t - e, ClipVolume) \in Int /\ Least(e - t, ClipVolume) \in Int
  BY <1>1, VolumeAssumption DEF Least
<1>3. /\ RoundLot(Least(t - e, ClipVolume), ActLot) \in Int
      /\ RoundLot(Least(e - t, ClipVolume), ActLot) \in Int
  BY <1>2, RoundLotInt, VolumeAssumption
<1> QED BY <1>3 DEF OpenVolume, CloseVolume, e

\* Creating a pair order, with or without its active order, keeps the books.
LEMMA CreateKeepsIInv ==
  ASSUME IInv, NEW dir \in {1, -1}, NEW v \in Int, NEW funded \in BOOLEAN,
         NEW C, CreatePairOrder(dir, v, funded, C)
  PROVE  IInv'
<1> DEFINE os   == CancelOrders(orders, C)
           ex   == RequestCancels(exch, C)
           sent == v >= ActMin /\ funded
           o    == <<nextPair, 0>>
           new  == IF sent THEN {o} ELSE {}
           pr   == [dir |-> dir, actTotal |-> 0, actFrozen |-> IF sent THEN v ELSE 0,
                    pasTotal |-> 0, pasFrozen |-> 0, hedges |-> 0]
<1>1. /\ v > 0 /\ nextPair <= PairBound /\ nextPair' = nextPair + 1
      /\ pairs' = [p \in DOMAIN pairs \union {nextPair} |-> IF p = nextPair THEN pr ELSE pairs[p]]
      /\ orders' = [x \in DOMAIN os \union new |-> IF x = o THEN NewOrder(dir, v) ELSE os[x]]
      /\ exch' = [x \in DOMAIN ex \union new |-> IF x = o THEN Placed(dir, v) ELSE ex[x]]
      /\ frozenLong'  = Freeze(frozenLong, 1, dir, IF sent THEN v ELSE 0)
      /\ frozenShort' = Freeze(frozenShort, -1, dir, IF sent THEN v ELSE 0)
      /\ fundVerifyFailed' = (fundVerifyFailed \/ (v >= ActMin /\ ~funded))
      /\ UNCHANGED <<algoStatus, mayOpen, mayClose, position>>
  BY DEF CreatePairOrder
<1>2. /\ nextPair \in 1..PairBound /\ HedgeBound \in Nat /\ PairBound \in Nat /\ MaxQueries \in Nat
      /\ PasLot \in Nat
  BY <1>1, LimitAssumption, VolumeAssumption DEF IInv, ScalarsTyped
<1>3. Books(pairs, os, ex, nextPair)
  BY CancelKeepsBooks DEF IInv
<1>4. pr \in Pair
  BY <1>2 DEF Pair
<1> HIDE DEF os, ex
<1>5. PairsTyped(pairs', nextPair + 1)
  <2>1. DOMAIN pairs' \subseteq 1..((nextPair + 1) - 1)
    BY <1>1, <1>2, <1>3 DEF Books, PairsTyped
  <2>2. pairs' \in [DOMAIN pairs' -> Pair]
    <3> HIDE DEF pr
    <3> QED BY <1>1, <1>3, <1>4 DEF Books, PairsTyped
  <2> QED BY <2>1, <2>2 DEF PairsTyped
<1>6. ExchTyped(exch')
  <2>1. o \in OrderId
    BY <1>2 DEF OrderId, PairId
  <2>2. Placed(dir, v) \in ExchOrder /\ Placed(dir, v).filled <= Placed(dir, v).volume
    BY <1>1 DEF Placed, ExchOrder
  <2> HIDE DEF o
  <2> QED BY <1>1, <1>3, <2>1, <2>2 DEF Books, ExchTyped
<1>7. /\ NewOrder(dir, v) \in Order /\ NewOrder(dir, v).volume = Placed(dir, v).volume
      /\ NewOrder(dir, v).total = 0
  BY <1>1, <1>2 DEF NewOrder, Placed, Order, LiveStatus
<1>8. OrdersKnown(orders', exch')
  <2> HIDE DEF o
  <2> QED BY <1>1, <1>3, <1>7 DEF Books, OrdersKnown
<1>9. ActiveCounted(pairs', orders')
  <2> SUFFICES ASSUME NEW x \in DOMAIN orders', IsActiveOrder(x), PairOf(x) \in DOMAIN pairs'
               PROVE  pairs'[PairOf(x)].actTotal = orders'[x].total
    BY DEF ActiveCounted
  <2>1. CASE x = o
    <3>1. PairOf(x) = nextPair
      BY <2>1 DEF PairOf
    <3>2. pairs'[PairOf(x)].actTotal = 0
      BY <1>1, <3>1
    <3> QED BY <1>1, <1>7, <2>1, <3>2
  <2>2. CASE x # o
    <3>1. x \in DOMAIN os /\ orders'[x] = os[x]
      BY <1>1, <2>2
    <3>2. x \in OrderId
      BY <1>3, <3>1 DEF Books, ExchTyped, OrdersKnown
    <3>3. PairOf(x) # nextPair
      BY <2>2, <3>2 DEF OrderId, PairOf, IsActiveOrder
    <3>4. PairOf(x) \in DOMAIN pairs /\ pairs'[PairOf(x)] = pairs[PairOf(x)]
      BY <1>1, <3>3
    <3> QED BY <1>3, <3>1, <3>4 DEF Books, ActiveCounted
  <2> QED BY <2>1, <2>2
<1>10. NotOverhedged(pairs')
  <2>1. 2 * (pr.pasTotal + pr.pasFrozen - pr.actTotal) <= PasLot
    BY <1>2
  <2> HIDE DEF pr
  <2> QED BY <1>1, <1>3, <2>1 DEF Books, NotOverhedged
<1>11. Books(pairs', orders', exch', nextPair')
  BY <1>1, <1>5, <1>6, <1>8, <1>9, <1>10 DEF Books
<1>12. ScalarsTyped'
  <2>1. frozenLong' \in Int /\ frozenShort' \in Int
    BY <1>1 DEF IInv, ScalarsTyped, Freeze
  <2>2. nextPair' \in 1..(PairBound + 1)
    BY <1>1, <1>2
  <2>3. fundVerifyFailed' \in BOOLEAN /\ algoStatus' \in AlgoStatus /\ mayOpen' \in BOOLEAN
        /\ mayClose' \in BOOLEAN /\ position' \in Int
    BY <1>1 DEF IInv, ScalarsTyped
  <2> QED BY <2>1, <2>2, <2>3 DEF ScalarsTyped
<1> QED BY <1>11, <1>12 DEF IInv

\* The timer queries stuck orders, trades pairs and may end the algo order.
LEMMA TimerKeepsIInv ==
  ASSUME IInv, NEW P \in SUBSET DOMAIN pairs, NEW Q, OnTimer(P, Q)
  PROVE  IInv'
<1> DEFINE queried == [o \in DOMAIN orders |->
                         IF o \in Q THEN [orders[o] EXCEPT !.old = FALSE,
                                          !.queries = Least(@ + 1, MaxQueries + 1)]
                         ELSE orders[o]]
<1>1. /\ PairOrderTrade(pairs, queried, P, {})
      /\ UNCHANGED <<mayOpen, mayClose, frozenLong, frozenShort, nextPair>>
      /\ fundVerifyFailed' = FALSE \/ fundVerifyFailed' = fundVerifyFailed
  BY DEF OnTimer
<1>2. algoStatus' \in AlgoStatus
  <2>1. algoStatus' \in {"FILLED", "ERRORCANCELED", "CANCELED", algoStatus}
    BY DEF OnTimer
  <2> QED BY <2>1 DEF IInv, ScalarsTyped, AlgoStatus, TerminalStatus
<1>3. Books(pairs, queried, exch, nextPair)
  <2>1. ASSUME NEW o \in DOMAIN orders
        PROVE  /\ queried[o] \in Order
               /\ queried[o].volume = orders[o].volume /\ queried[o].total = orders[o].total
    <3>1. orders[o] \in Order
      BY DEF IInv, Books, OrdersKnown
    <3>2. Least(orders[o].queries + 1, MaxQueries + 1) \in 0..(MaxQueries + 1)
      BY <3>1, LimitAssumption DEF Order, Least
    <3> QED BY <3>1, <3>2, Zenon DEF Order
  <2>2. \A o \in DOMAIN exch : exch[o].filled <= exch[o].volume
    BY DEF IInv, Books, ExchTyped
  <2>3. queried \in [DOMAIN orders -> Order] /\ exch \in [DOMAIN exch -> ExchOrder]
    <3>1. \A o \in DOMAIN orders : queried[o] \in Order
      BY <2>1
    <3> QED BY <3>1, Zenon DEF IInv, Books, ExchTyped
  <2> HIDE DEF queried
  <2> QED BY <2>1, <2>2, <2>3, SameVolumesKeepBooks DEF IInv
<1>4. Books(pairs', orders', exch', nextPair) /\ position' \in Int
  <2> HIDE DEF queried
  <2> QED BY <1>1, <1>3, TradeKeepsBooks DEF IInv, ScalarsTyped
<1> QED BY <1>1, <1>2, <1>4 DEF IInv, ScalarsTyped

\* What the exchange does to an order never fills more than its volume.
LEMMA ExchangeKeepsIInv ==
  ASSUME IInv, NEW o \in DOMAIN exch, ExchFill(o) \/ ExchClose(o)
  PROVE  IInv'
<1>1. UNCHANGED <<algoVars, bookVars>>
  BY DEF ExchFill, ExchClose
<1>2. exch[o] \in ExchOrder /\ exch[o].filled \in Nat /\ exch[o].volume \in Nat
  BY DEF IInv, Books, ExchTyped, ExchOrder
<1>3. /\ exch' \in [DOMAIN exch -> ExchOrder]
      /\ \A x \in DOMAIN exch : exch'[x].volume = exch[x].volume /\ exch'[x].filled <= exch'[x].volume
  <2>0. \A x \in DOMAIN exch : exch[x].filled <= exch[x].volume
    BY DEF IInv, Books, ExchTyped
  <2>1. CASE ExchFill(o)
    <3> DEFINE n == exch[o].filled + 1
               b == exch[o].filled + 1 < exch[o].volume
    <3>1. exch' = [exch EXCEPT ![o].filled = n, ![o].open = b]
      BY <2>1 DEF ExchFill
    <3>2. n \in Nat /\ n <= exch[o].volume /\ b \in BOOLEAN
      BY <1>2, <2>1 DEF ExchFill
    <3> HIDE DEF n, b
    <3>3. exch' \in [DOMAIN exch -> ExchOrder]
      BY <3>1, <3>2, Zenon DEF IInv, Books, ExchTyped, ExchOrder
    <3>4. exch'[o].filled = n /\ \A x \in DOMAIN exch : exch'[x].volume = exch[x].volume
      BY <3>1, Zenon DEF IInv, Books, ExchTyped, ExchOrder
    <3>5. \A x \in DOMAIN exch : x # o => exch'[x] = exch[x]
      BY <3>1, Zenon DEF IInv, Books, ExchTyped
    <3> QED BY <2>0, <3>2, <3>3, <3>4, <3>5
  <2>2. CASE ExchClose(o)
    <3>1. exch' = [exch EXCEPT ![o].open = FALSE]
      BY <2>2 DEF ExchClose
    <3>2. exch' \in [DOMAIN exch -> ExchOrder]
      BY <3>1, Zenon DEF IInv, Books, ExchTyped, ExchOrder
    <3>3. \A x \in DOMAIN exch : exch'[x].volume = exch[x].volume /\ exch'[x].filled = exch[x].filled
      BY <3>1, Zenon DEF IInv, Books, ExchTyped, ExchOrder
    <3> QED BY <2>0, <3>2, <3>3
  <2> QED BY <2>1, <2>2
<1>4. orders \in [DOMAIN orders -> Order] /\ Books(pairs, orders, exch, nextPair)
  BY DEF IInv, Books, OrdersKnown
<1>5. Books(pairs, orders, exch', nextPair)
  BY <1>3, <1>4, SameVolumesKeepBooks
<1> QED BY <1>1, <1>5 DEF IInv, ScalarsTyped, algoVars, bookVars

-----------------------------------------------------------------------------
(* The theorems of part 1 *)

\* The initial states satisfy the inductive invariant.
LEMMA InitIInv == Init => IInv
<1> SUFFICES ASSUME Init PROVE IInv
  OBVIOUS
<1>1. DOMAIN EmptyMap = {}
  BY DEF EmptyMap
<1>2. EmptyMap \in [{} -> Pair] /\ EmptyMap \in [{} -> Order] /\ EmptyMap \in [{} -> ExchOrder]
  BY DEF EmptyMap
<1>3. Books(pairs, orders, exch, nextPair)
  BY <1>1, <1>2 DEF Init, Books, PairsTyped, ExchTyped, OrdersKnown, ActiveCounted, NotOverhedged
<1>4. ScalarsTyped
  <2>1. mayOpen \in BOOLEAN /\ mayClose \in BOOLEAN
    BY LimitAssumption DEF Init
  <2>2. StartVolume \in Int /\ 1 \in 1..(PairBound + 1)
    BY LimitAssumption, VolumeAssumption
  <2>3. /\ algoStatus = "NEW" /\ fundVerifyFailed = FALSE /\ position = StartVolume
        /\ frozenLong = 0 /\ frozenShort = 0 /\ nextPair = 1
    BY DEF Init
  <2>4. algoStatus \in AlgoStatus /\ fundVerifyFailed \in BOOLEAN
    BY <2>3 DEF AlgoStatus
  <2> QED BY <2>1, <2>2, <2>3, <2>4 DEF ScalarsTyped
<1> QED BY <1>3, <1>4 DEF IInv

\* Every step keeps the inductive invariant: one case per action.
LEMMA NextIInv == IInv /\ [Next]_vars => IInv'
<1> SUFFICES ASSUME IInv, [Next]_vars PROVE IInv'
  OBVIOUS
<1>1. CASE CancelOrderOnSpread
  <2>1. PICK C : orders' = CancelOrders(orders, C) /\ exch' = RequestCancels(exch, C)
    BY <1>1 DEF CancelOrderOnSpread
  <2>2. Books(pairs, orders', exch', nextPair)
    BY <2>1, CancelKeepsBooks DEF IInv
  <2> QED BY <1>1, <2>2 DEF CancelOrderOnSpread, IInv, ScalarsTyped, algoVars
<1>2. CASE OpenOnSpread
  <2>1. PICK C \in SUBSET Cancellable(orders), t \in 0..MaxTarget, funded \in BOOLEAN :
         CreatePairOrder(1, OpenVolume(t), funded, C)
    BY <1>2 DEF OpenOnSpread
  <2> QED BY <2>1, TargetVolumeInt, CreateKeepsIInv
<1>3. CASE CloseOnSpread
  <2>1. PICK C \in SUBSET Cancellable(orders), t \in 0..MaxTarget, funded \in BOOLEAN :
         CreatePairOrder(-1, CloseVolume(t), funded, C)
    BY <1>3 DEF CloseOnSpread
  <2> QED BY <2>1, TargetVolumeInt, CreateKeepsIInv
<1>4. CASE Deliver
  <2>1. PICK o \in DOMAIN orders, st \in LiveStatus \union {"DONE"} :
          \E k \in 0..exch[o].volume :
            \E isQuery, pass \in BOOLEAN, C \in SUBSET (Cancellable(orders) \union {o}) :
              OnOrder(o, st, k, isQuery, pass, C)
    BY <1>4 DEF Deliver
  <2> QED BY <2>1, OnOrderKeepsIInv
<1>5. CASE Timer
  BY <1>5, TimerKeepsIInv DEF Timer
<1>6. CASE DeleteAlgoOrder
  <2>1. /\ pairs' = Without(pairs, DOMAIN pairs) /\ orders' = Without(orders, DOMAIN orders)
        /\ frozenLong' = 0 /\ frozenShort' = 0 /\ algoStatus' = "DELETED"
        /\ UNCHANGED <<mayOpen, mayClose, fundVerifyFailed, position, nextPair, exch>>
    BY <1>6 DEF DeleteAlgoOrder
  <2>2. DOMAIN pairs' = {} /\ DOMAIN orders' = {}
    BY <2>1 DEF Without
  <2>3. pairs' \in [DOMAIN pairs' -> Pair] /\ orders' \in [DOMAIN orders' -> Order]
    BY <2>1, <2>2 DEF Without
  <2>4. Books(pairs', orders', exch', nextPair')
    BY <2>1, <2>2, <2>3
       DEF IInv, Books, PairsTyped, ExchTyped, OrdersKnown, ActiveCounted, NotOverhedged
  <2> QED BY <2>1, <2>4 DEF IInv, ScalarsTyped, AlgoStatus
<1>7. CASE SubmitCancel
  BY <1>7 DEF SubmitCancel, IInv, ScalarsTyped, AlgoStatus, bookVars
<1>8. CASE Modify
  <2>1. mayOpen' \in BOOLEAN /\ mayClose' \in BOOLEAN
    BY <1>8, LimitAssumption DEF Modify
  <2> QED BY <1>8, <2>1 DEF Modify, IInv, ScalarsTyped, bookVars
<1>9. CASE \E o \in DOMAIN exch : ExchFill(o) \/ ExchClose(o)
  BY <1>9, ExchangeKeepsIInv
<1>10. CASE \E o \in DOMAIN orders : Age(o)
  <2>1. PICK o \in DOMAIN orders : Age(o)
    BY <1>10
  <2>2. orders' = [orders EXCEPT ![o].old = TRUE]
        /\ UNCHANGED <<algoVars, position, pairs, frozenLong, frozenShort, nextPair, exch>>
    BY <2>1 DEF Age
  <2>3. orders' \in [DOMAIN orders -> Order]
    BY <2>2, Zenon DEF IInv, Books, OrdersKnown, Order
  <2>4. \A x \in DOMAIN orders : orders'[x].volume = orders[x].volume /\ orders'[x].total = orders[x].total
    BY <2>2, Zenon DEF IInv, Books, OrdersKnown, Order
  <2>5. exch \in [DOMAIN exch -> ExchOrder] /\ \A x \in DOMAIN exch : exch[x].filled <= exch[x].volume
    BY DEF IInv, Books, ExchTyped
  <2>6. Books(pairs, orders', exch, nextPair)
    BY <2>3, <2>4, <2>5, SameVolumesKeepBooks DEF IInv
  <2> QED BY <2>2, <2>6 DEF IInv, ScalarsTyped, algoVars
<1>11. CASE UNCHANGED vars
  BY <1>11 DEF vars, algoVars, bookVars, IInv, ScalarsTyped
<1> QED BY <1>1, <1>2, <1>3, <1>4, <1>5, <1>6, <1>7, <1>8, <1>9, <1>10, <1>11 DEF Next

\* The variables keep their types, whatever the volumes, lots and bounds: the
\* fill and the frozen volume of a pair stay numbers, its ids stay in range and
\* every order the strategy tracks is one the exchange knows.
THEOREM TypeCorrect == Spec => []TypeOK
<1>1. IInv => TypeOK
  BY IInvImplies
<1> QED BY <1>1, InitIInv, NextIInv, PTL DEF Spec

\* HedgeBounded holds for every lot size and every number of pair orders: what is
\* filled and on its way on the passive leg never exceeds the active fill by more
\* than half a passive lot, so PairOrderTrade never hedges a fill twice.
THEOREM NeverHedgedTwice == Spec => []HedgeBounded
<1>1. IInv => HedgeBounded
  BY IInvImplies
<1> QED BY <1>1, InitIInv, NextIInv, PTL DEF Spec

-----------------------------------------------------------------------------
(* NoNewExposureAfterCancel *)

OnlyHedges(ps) ==
  \A o \in DOMAIN exch' \ DOMAIN exch :
    ~IsActiveOrder(o) /\ exch'[o].dir = -ps[PairOf(o)].dir

\* What PairOrderTrade sends are passive orders against the direction of their pair.
LEMMA TradeOnlyHedges ==
  ASSUME NEW ps, NEW os, NEW P \in SUBSET DOMAIN ps, NEW C,
         \A p \in DOMAIN ps : ps[p].hedges \in Nat, PairOrderTrade(ps, os, P, C)
  PROVE  OnlyHedges(ps)
<1> DEFINE placed == {NextHedge(ps, p) : p \in Hedged(ps, P)}
<1>1. /\ DOMAIN exch' = DOMAIN RequestCancels(exch, C) \union placed
      /\ \A o \in placed : exch'[o] = Placed(-ps[PairOf(o)].dir, HedgeVolume(ps[PairOf(o)]))
  BY DEF PairOrderTrade
<1>2. DOMAIN RequestCancels(exch, C) = DOMAIN exch
  BY DEF RequestCancels
<1>3. ASSUME NEW o \in placed PROVE ~IsActiveOrder(o)
  <2>1. PICK p \in Hedged(ps, P) : o = <<p, ps[p].hedges + 1>>
    BY DEF NextHedge
  <2>2. ps[p].hedges \in Nat
    BY DEF Hedged
  <2> QED BY <2>1, <2>2 DEF IsActiveOrder
<1>4. ASSUME NEW o \in placed PROVE exch'[o].dir = -ps[PairOf(o)].dir
  <2>1. \A d, v : Placed(d, v).dir = d
    BY Zenon DEF Placed
  <2> QED BY <1>1, <2>1, Zenon
<1> HIDE DEF placed
<1> QED BY <1>1, <1>2, <1>3, <1>4 DEF OnlyHedges

\* A report leaves every pair its direction, and a number of hedges.
LEMMA ReportKeepsDirection ==
  ASSUME IInv, NEW o \in DOMAIN orders, PairOf(o) \in DOMAIN pairs, NEW k, NEW done
  PROVE  \A p \in DOMAIN pairs :
           LET q == [pairs EXCEPT ![PairOf(o)] = UpdatePair(@, o, k, done)][p]
           IN  q.dir = pairs[p].dir /\ q.hedges \in Nat
<1>1. \A p \in DOMAIN pairs : pairs[p] \in Pair
  BY DEF IInv, Books, PairsTyped
<1>2. \A p \in DOMAIN pairs : pairs[p].hedges \in Nat
  BY <1>1, PairFields
<1>3. ASSUME NEW pr \in Pair
      PROVE  UpdatePair(pr, o, k, done).dir = pr.dir /\ UpdatePair(pr, o, k, done).hedges = pr.hedges
  <2> DEFINE fill == k - orders[o].total
             left == IF done THEN orders[o].volume - k ELSE 0
  <2>1. UpdatePair(pr, o, k, done) =
          IF IsActiveOrder(o) THEN [pr EXCEPT !.actTotal = k, !.actFrozen = @ - fill - left]
          ELSE [pr EXCEPT !.pasTotal = @ + fill, !.pasFrozen = @ - fill - left]
    BY DEF UpdatePair
  <2> HIDE DEF fill, left
  <2> QED BY <2>1, Zenon DEF Pair
<1> QED BY <1>1, <1>2, <1>3

\* No step but the creation of a pair order sends an active order.
LEMMA OthersSendOnlyHedges ==
  ASSUME IInv, Next, ~OpenOnSpread, ~CloseOnSpread
  PROVE  OnlyHedges(pairs)
<1>1. \A p \in DOMAIN pairs : pairs[p].hedges \in Nat
  BY PairFields DEF IInv, Books, PairsTyped
<1>2. CASE Deliver
  <2>1. PICK o \in DOMAIN orders, st \in LiveStatus \union {"DONE"} :
          \E k \in 0..exch[o].volume :
            \E isQuery, pass \in BOOLEAN, C \in SUBSET (Cancellable(orders) \union {o}) :
              OnOrder(o, st, k, isQuery, pass, C)
    BY <1>2 DEF Deliver
  <2>2. PICK k, isQuery, pass, C : OnOrder(o, st, k, isQuery, pass, C)
    BY <2>1
  <2> DEFINE done == st = "DONE"
             ps   == [pairs EXCEPT ![PairOf(o)] = UpdatePair(@, o, k, done)]
             P    == IF (done \/ (IsActiveOrder(o) /\ k > orders[o].total)) /\ pass
                     THEN {PairOf(o)} ELSE {}
             os   == IF done THEN Without(orders, {o})
                     ELSE [orders EXCEPT ![o] = UpdateOrder(@, st, k, isQuery)]
  <2>3. PairOf(o) \in DOMAIN pairs /\ PairOrderTrade(ps, os, P, C)
    BY <2>2 DEF OnOrder
  <2>4. \A p \in DOMAIN pairs : ps[p].dir = pairs[p].dir /\ ps[p].hedges \in Nat
    BY <2>3, ReportKeepsDirection
  <2>5. DOMAIN ps = DOMAIN pairs /\ P \in SUBSET DOMAIN ps
    BY <2>3
  <2> HIDE DEF ps, os, P
  <2>6. OnlyHedges(ps)
    BY <2>3, <2>4, <2>5, TradeOnlyHedges
  <2>7. \A o2 \in DOMAIN exch' \ DOMAIN exch : PairOf(o2) \in DOMAIN pairs
    <3>1. \A p \in Hedged(ps, P) : p \in DOMAIN pairs
      BY <2>5 DEF Hedged
    <3>2. DOMAIN exch' = DOMAIN exch \union {NextHedge(ps, p) : p \in Hedged(ps, P)}
      BY <2>3 DEF PairOrderTrade, RequestCancels
    <3> QED BY <3>1, <3>2 DEF NextHedge, PairOf
  <2> QED BY <2>4, <2>6, <2>7 DEF OnlyHedges
<1>3. CASE Timer
  <2>1. PICK P \in SUBSET DOMAIN pairs : \E os : PairOrderTrade(pairs, os, P, {})
    BY <1>3 DEF Timer, OnTimer
  <2>2. PICK os : PairOrderTrade(pairs, os, P, {})
    BY <2>1
  <2> QED BY <1>1, <2>2, TradeOnlyHedges
<1>4. CASE CancelOrderOnSpread
  BY <1>4 DEF CancelOrderOnSpread, RequestCancels, OnlyHedges
<1>5. CASE DeleteAlgoOrder \/ SubmitCancel \/ Modify \/ \E o \in DOMAIN orders : Age(o)
  BY <1>5 DEF DeleteAlgoOrder, SubmitCancel, Modify, Age, OnlyHedges
<1>6. CASE \E o \in DOMAIN exch : ExchFill(o) \/ ExchClose(o)
  BY <1>6 DEF ExchFill, ExchClose, OnlyHedges
<1> QED BY <1>2, <1>3, <1>4, <1>5, <1>6 DEF Next

\* So none does once the algo order is no longer NEW.
LEMMA StepSendsOnlyHedges ==
  ASSUME IInv, Next, algoStatus # "NEW"
  PROVE  OnlyHedges(pairs)
  BY OthersSendOnlyHedges DEF OpenOnSpread, CloseOnSpread

\* NoNewExposureAfterCancel holds for every ladder, lot size and number of pair
\* orders: after SubmitCancel, or the end of the algo order, only hedges are sent.
THEOREM CancelStopsTrading == Spec => NoNewExposureAfterCancel
<1>1. IInv /\ [Next]_vars =>
        [algoStatus # "NEW" =>
           \A o \in DOMAIN exch' \ DOMAIN exch :
             /\ ~IsActiveOrder(o)
             /\ exch'[o].dir = -pairs[PairOf(o)].dir]_vars
  BY StepSendsOnlyHedges DEF OnlyHedges
<1> QED BY <1>1, InitIInv, NextIInv, PTL DEF Spec, NoNewExposureAfterCancel

-----------------------------------------------------------------------------
(* Part 2: the ledger *)

OrderSum(w) == SumFunctionOnSet(w, OrderId)
PairSum(w)  == SumFunctionOnSet(w, PairId)

\* What order o of os has left, and what the strategy knows of the fill of order
\* o of ex: the last report while it is tracked, the final fill afterwards.
Left(os, o)      == os[o].volume - os[o].total
Known(os, ex, o) == IF o \in DOMAIN os THEN os[o].total ELSE ex[o].filled

PassiveOf(p, o) == PairOf(o) = p /\ ~IsActiveOrder(o)

\* The sums of the properties, over the fixed set of all order (or pair) ids.
ActLeft(os, p) == IF <<p, 0>> \in DOMAIN os THEN Left(os, <<p, 0>>) ELSE 0
PasLeft(os, p) ==
  [o \in OrderId |-> IF o \in DOMAIN os /\ PassiveOf(p, o) THEN Left(os, o) ELSE 0]
SideLeft(os, d) ==
  [o \in OrderId |-> IF o \in DOMAIN os /\ IsActiveOrder(o) /\ os[o].dir = d
                     THEN Left(os, o) ELSE 0]
ActKnown(os, ex, p) == IF <<p, 0>> \in DOMAIN ex THEN Known(os, ex, <<p, 0>>) ELSE 0
PasKnown(os, ex, p) ==
  [o \in OrderId |-> IF o \in DOMAIN ex /\ PassiveOf(p, o) THEN Known(os, ex, o) ELSE 0]
ActFilled(ex, p) == IF <<p, 0>> \in DOMAIN ex THEN ex[<<p, 0>>].filled ELSE 0
PasFilled(ex, p) ==
  [o \in OrderId |-> IF o \in DOMAIN ex /\ PassiveOf(p, o) THEN ex[o].filled ELSE 0]
SignedKnown(os, ex) ==
  [o \in OrderId |-> IF o \in DOMAIN ex /\ IsActiveOrder(o)
                     THEN ex[o].dir * Known(os, ex, o) ELSE 0]
PairFill(ps) ==
  [p \in PairId |-> IF p \in DOMAIN ps THEN ps[p].dir * ps[p].actTotal ELSE 0]
Gap(ex, p) == ActFilled(ex, p) - OrderSum(PasFilled(ex, p))

\* A tracked order has something left, and its report lags behind the exchange.
Traced(os, ex) ==
  \A o \in DOMAIN os : /\ os[o].dir = ex[o].dir
                       /\ os[o].total <= ex[o].filled /\ os[o].total < os[o].volume

\* Ids are given out in order, and an active order has the direction of its pair.
Numbered(ps, ex, n) ==
  \A o \in DOMAIN ex :
    /\ PairOf(o) < n
    /\ PairOf(o) \in DOMAIN ps => /\ o[2] <= ps[PairOf(o)].hedges
                                  /\ IsActiveOrder(o) => ex[o].dir = ps[PairOf(o)].dir

Paired(ps, os) == \A o \in DOMAIN os : PairOf(o) \in DOMAIN ps

\* The frozen volumes of a pair are what its tracked orders have left.
Matched(ps, os) ==
  \A p \in DOMAIN ps : /\ ps[p].actFrozen = ActLeft(os, p)
                       /\ ps[p].pasFrozen = OrderSum(PasLeft(os, p))

\* The totals of a pair are the known fills of all the orders it ever had.
Counted(ps, os, ex) ==
  \A p \in DOMAIN ps : /\ ps[p].actTotal = ActKnown(os, ex, p)
                       /\ ps[p].pasTotal = OrderSum(PasKnown(os, ex, p))

Ledger(ps, os, ex, n) ==
  /\ Traced(os, ex) /\ Numbered(ps, ex, n) /\ Paired(ps, os)
  /\ Matched(ps, os) /\ Counted(ps, os, ex)

\* The parts that end with the deletion of the algo order.
OpenTracked(os, ex) == \A o \in DOMAIN ex : ex[o].open => o \in DOMAIN os
Accounted(pos, ps, os, ex) ==
  pos + PairSum(PairFill(ps)) = StartVolume + OrderSum(SignedKnown(os, ex))
Flat(ex, p) == /\ -PasLot <= 2 * Gap(ex, p)
               /\ Gap(ex, p) > 0 => RoundLot(Gap(ex, p), PasLot) < PasMin
FlatPairs(ps, ex, n) == \A p \in 1..(n - 1) : p \notin DOMAIN ps => Flat(ex, p)

Whole(pos, ps, os, ex, n) ==
  OpenTracked(os, ex) /\ Accounted(pos, ps, os, ex) /\ FlatPairs(ps, ex, n)

-----------------------------------------------------------------------------
(* Facts about the sums *)

\* The fields of a child order have their types.
LEMMA OrderFields ==
  ASSUME NEW ord \in Order
  PROVE  ord.dir \in {1, -1} /\ ord.volume \in Nat /\ ord.total \in Nat
  BY DEF Order

\* The same of an order as the exchange holds it.
LEMMA ExchFields ==
  ASSUME NEW ord \in ExchOrder
  PROVE  /\ ord.dir \in {1, -1} /\ ord.volume \in Nat /\ ord.filled \in Nat
         /\ ord.open \in BOOLEAN
  BY DEF ExchOrder

\* There are finitely many ids.
LEMMA FiniteIds == IsFiniteSet(OrderId) /\ IsFiniteSet(PairId)
<1>1. IsFiniteSet(1..PairBound) /\ IsFiniteSet(0..HedgeBound)
  BY LimitAssumption, FS_Interval
<1>2. IsFiniteSet((1..PairBound) \X (0..HedgeBound))
  BY <1>1, FS_Product
<1> QED BY <1>1, <1>2 DEF OrderId, PairId

\* An order id is the pair of its parts.
LEMMA OrderIds ==
  ASSUME NEW o \in OrderId
  PROVE  /\ PairOf(o) \in PairId /\ o[2] \in 0..HedgeBound /\ o = <<PairOf(o), o[2]>>
         /\ IsActiveOrder(o) <=> o = <<PairOf(o), 0>>
  BY DEF OrderId, PairOf, IsActiveOrder

\* The flat facts about the orders of typed books.
LEMMA BookFields ==
  ASSUME NEW os, NEW ex, ExchTyped(ex), OrdersKnown(os, ex), Traced(os, ex)
  PROVE  /\ \A o \in DOMAIN ex : /\ o \in OrderId /\ ex[o].dir \in {1, -1}
                                 /\ ex[o].filled \in Nat /\ ex[o].volume \in Nat
                                 /\ ex[o].filled <= ex[o].volume
         /\ \A o \in DOMAIN os : /\ o \in DOMAIN ex /\ o \in OrderId
                                 /\ os[o].dir = ex[o].dir /\ os[o].volume = ex[o].volume
                                 /\ os[o].total \in Nat /\ os[o].total <= ex[o].filled
                                 /\ os[o].total < os[o].volume
<1>1. \A o \in DOMAIN ex : ex[o] \in ExchOrder
  BY DEF ExchTyped
<1>2. \A o \in DOMAIN os : os[o] \in Order
  BY DEF OrdersKnown
<1>3. \A o \in DOMAIN ex : ex[o].dir \in {1, -1} /\ ex[o].filled \in Nat /\ ex[o].volume \in Nat
  BY <1>1, ExchFields
<1>4. \A o \in DOMAIN os : os[o].total \in Nat
  BY <1>2, OrderFields
<1> QED BY <1>3, <1>4 DEF ExchTyped, OrdersKnown, Traced

\* The terms of the sums are numbers.
LEMMA Terms ==
  ASSUME NEW os, NEW ex, ExchTyped(ex), OrdersKnown(os, ex), Traced(os, ex)
  PROVE  /\ \A o \in DOMAIN os : Left(os, o) \in Nat /\ Left(os, o) >= 1
         /\ \A o \in DOMAIN ex : Known(os, ex, o) \in Nat
         /\ \A p, d : \A o \in OrderId :
              /\ PasLeft(os, p)[o] \in Nat /\ SideLeft(os, d)[o] \in Nat
              /\ PasKnown(os, ex, p)[o] \in Nat /\ PasFilled(ex, p)[o] \in Nat
              /\ SignedKnown(os, ex)[o] \in Int
<1>1. /\ \A o \in DOMAIN ex : ex[o].dir \in {1, -1} /\ ex[o].filled \in Nat
      /\ \A o \in DOMAIN os : /\ os[o].volume \in Nat /\ os[o].total \in Nat
                              /\ os[o].total < os[o].volume /\ o \in DOMAIN ex
  BY BookFields
<1>2. \A o \in DOMAIN os : Left(os, o) \in Nat /\ Left(os, o) >= 1
  BY <1>1 DEF Left
<1>3. \A o \in DOMAIN ex : Known(os, ex, o) \in Nat
  BY <1>1 DEF Known
<1>4. \A o \in DOMAIN ex : ex[o].dir * Known(os, ex, o) \in Int
  <2> SUFFICES ASSUME NEW o \in DOMAIN ex PROVE ex[o].dir * Known(os, ex, o) \in Int
    OBVIOUS
  <2> DEFINE a == ex[o].dir
             b == Known(os, ex, o)
  <2>1. a \in {1, -1} /\ b \in Nat
    BY <1>1, <1>3
  <2> HIDE DEF a, b
  <2>2. a * b \in Int
    BY <2>1
  <2> QED BY <2>2 DEF a, b
<1>5. ASSUME NEW p, NEW d, NEW o \in OrderId
      PROVE  /\ PasLeft(os, p)[o] \in Nat /\ SideLeft(os, d)[o] \in Nat
             /\ PasKnown(os, ex, p)[o] \in Nat /\ PasFilled(ex, p)[o] \in Nat
             /\ SignedKnown(os, ex)[o] \in Int
  <2>1. PasLeft(os, p)[o] \in Nat
    BY <1>2 DEF PasLeft
  <2>2. SideLeft(os, d)[o] \in Nat
    BY <1>2 DEF SideLeft
  <2>3. PasKnown(os, ex, p)[o] \in Nat
    BY <1>3 DEF PasKnown
  <2>4. PasFilled(ex, p)[o] \in Nat
    BY <1>1 DEF PasFilled
  <2>5. SignedKnown(os, ex)[o] \in Int
    BY <1>4 DEF SignedKnown
  <2> QED BY <2>1, <2>2, <2>3, <2>4, <2>5
<1> QED BY <1>2, <1>3, <1>5

\* So are the sums.
LEMMA Sums ==
  ASSUME NEW os, NEW ex, ExchTyped(ex), OrdersKnown(os, ex), Traced(os, ex)
  PROVE  /\ \A p : /\ OrderSum(PasLeft(os, p)) \in Nat /\ OrderSum(PasKnown(os, ex, p)) \in Nat
                   /\ OrderSum(PasFilled(ex, p)) \in Nat
         /\ \A d : OrderSum(SideLeft(os, d)) \in Nat
         /\ OrderSum(SignedKnown(os, ex)) \in Int
<1>1. ASSUME NEW w, \A o \in OrderId : w[o] \in Nat PROVE OrderSum(w) \in Nat
  BY <1>1, FiniteIds, SumNotNegative DEF OrderSum
<1>2. ASSUME NEW w, \A o \in OrderId : w[o] \in Int PROVE OrderSum(w) \in Int
  BY <1>2, FiniteIds, SumInt DEF OrderSum
<1>3. ASSUME NEW p PROVE /\ OrderSum(PasLeft(os, p)) \in Nat
                         /\ OrderSum(PasKnown(os, ex, p)) \in Nat
                         /\ OrderSum(PasFilled(ex, p)) \in Nat
  <2>1. \A o \in OrderId : PasLeft(os, p)[o] \in Nat
    BY Terms
  <2>2. \A o \in OrderId : PasKnown(os, ex, p)[o] \in Nat
    BY Terms
  <2>3. \A o \in OrderId : PasFilled(ex, p)[o] \in Nat
    BY Terms
  <2> QED BY <1>1, <2>1, <2>2, <2>3
<1>4. ASSUME NEW d PROVE OrderSum(SideLeft(os, d)) \in Nat
  <2>1. \A o \in OrderId : SideLeft(os, d)[o] \in Nat
    BY Terms
  <2> QED BY <1>1, <2>1
<1>5. OrderSum(SignedKnown(os, ex)) \in Int
  <2>1. \A o \in OrderId : SignedKnown(os, ex)[o] \in Int
    BY Terms
  <2> QED BY <1>2, <2>1
<1> QED BY <1>3, <1>4, <1>5

\* A sum over order ids after a change in one place.
LEMMA OrderSumPoint ==
  ASSUME NEW f, NEW g, NEW e \in OrderId, \A o \in OrderId : f[o] \in Int, g[e] \in Int,
         \A o \in OrderId : o # e => g[o] = f[o]
  PROVE  OrderSum(g) = OrderSum(f) + (g[e] - f[e])
  BY FiniteIds, SumPoint DEF OrderSum

\* Sums of equal terms are equal.
LEMMA OrderSumSame ==
  ASSUME NEW f, NEW g, \A o \in OrderId : g[o] = f[o]
  PROVE  OrderSum(g) = OrderSum(f)
  BY FiniteIds, SumCongruent DEF OrderSum

\* A step that changes neither volumes nor fills nor what is open keeps the ledger.
SameLedger(os, ex, os2, ex2) ==
  /\ DOMAIN os2 = DOMAIN os /\ DOMAIN ex2 = DOMAIN ex
  /\ \A o \in DOMAIN os : /\ os2[o].dir = os[o].dir /\ os2[o].volume = os[o].volume
                          /\ os2[o].total = os[o].total
  /\ \A o \in DOMAIN ex : /\ ex2[o].dir = ex[o].dir /\ ex2[o].volume = ex[o].volume
                          /\ ex2[o].filled = ex[o].filled /\ ex2[o].open = ex[o].open

\* Such a step changes no term of the sums.
LEMMA SameTerms ==
  ASSUME NEW os, NEW ex, NEW os2, NEW ex2, SameLedger(os, ex, os2, ex2), DOMAIN os \subseteq DOMAIN ex
  PROVE  /\ \A p : /\ PasLeft(os2, p) = PasLeft(os, p) /\ PasKnown(os2, ex2, p) = PasKnown(os, ex, p)
                   /\ PasFilled(ex2, p) = PasFilled(ex, p)
                   /\ ActLeft(os2, p) = ActLeft(os, p) /\ ActKnown(os2, ex2, p) = ActKnown(os, ex, p)
                   /\ ActFilled(ex2, p) = ActFilled(ex, p)
         /\ \A d : SideLeft(os2, d) = SideLeft(os, d)
         /\ SignedKnown(os2, ex2) = SignedKnown(os, ex)
<1>1. \A o \in DOMAIN os : Left(os2, o) = Left(os, o)
  BY DEF SameLedger, Left
<1>2. \A o \in DOMAIN ex : Known(os2, ex2, o) = Known(os, ex, o)
  BY DEF SameLedger, Known
<1>3. DOMAIN os2 = DOMAIN os /\ DOMAIN ex2 = DOMAIN ex
  BY DEF SameLedger
<1>4. ASSUME NEW p
      PROVE  /\ PasLeft(os2, p) = PasLeft(os, p) /\ ActLeft(os2, p) = ActLeft(os, p)
             /\ PasKnown(os2, ex2, p) = PasKnown(os, ex, p)
             /\ ActKnown(os2, ex2, p) = ActKnown(os, ex, p)
             /\ PasFilled(ex2, p) = PasFilled(ex, p) /\ ActFilled(ex2, p) = ActFilled(ex, p)
  <2>1. PasLeft(os2, p) = PasLeft(os, p)
    BY <1>1, <1>3 DEF PasLeft
  <2>2. ActLeft(os2, p) = ActLeft(os, p)
    BY <1>1, <1>3 DEF ActLeft
  <2>3. PasKnown(os2, ex2, p) = PasKnown(os, ex, p)
    BY <1>2, <1>3 DEF PasKnown
  <2>4. ActKnown(os2, ex2, p) = ActKnown(os, ex, p)
    BY <1>2, <1>3 DEF ActKnown
  <2>5. PasFilled(ex2, p) = PasFilled(ex, p)
    BY <1>3 DEF PasFilled, SameLedger
  <2>6. ActFilled(ex2, p) = ActFilled(ex, p)
    BY <1>3 DEF ActFilled, SameLedger
  <2> QED BY <2>1, <2>2, <2>3, <2>4, <2>5, <2>6
<1>5. ASSUME NEW d PROVE SideLeft(os2, d) = SideLeft(os, d)
  BY <1>1, <1>3 DEF SideLeft, SameLedger
<1>6. SignedKnown(os2, ex2) = SignedKnown(os, ex)
  BY <1>2, <1>3 DEF SignedKnown, SameLedger
<1> QED BY <1>4, <1>5, <1>6

\* So the ledger stays as it is.
LEMMA SameKeepsLedger ==
  ASSUME NEW ps, NEW os, NEW ex, NEW os2, NEW ex2, NEW n, NEW pos,
         SameLedger(os, ex, os2, ex2), DOMAIN os \subseteq DOMAIN ex
  PROVE  /\ Ledger(ps, os, ex, n) => Ledger(ps, os2, ex2, n)
         /\ Whole(pos, ps, os, ex, n) => Whole(pos, ps, os2, ex2, n)
<1>1. DOMAIN os2 = DOMAIN os /\ DOMAIN ex2 = DOMAIN ex
  BY DEF SameLedger
<1>2. Traced(os, ex) => Traced(os2, ex2)
  BY <1>1 DEF Traced, SameLedger
<1>3. Numbered(ps, ex, n) => Numbered(ps, ex2, n)
  BY <1>1 DEF Numbered, SameLedger
<1>4. Paired(ps, os) => Paired(ps, os2)
  BY <1>1 DEF Paired
<1>5. Matched(ps, os) => Matched(ps, os2)
  BY SameTerms DEF Matched
<1>6. Counted(ps, os, ex) => Counted(ps, os2, ex2)
  BY SameTerms DEF Counted
<1>7. OpenTracked(os, ex) => OpenTracked(os2, ex2)
  BY <1>1 DEF OpenTracked, SameLedger
<1>8. Accounted(pos, ps, os, ex) => Accounted(pos, ps, os2, ex2)
  BY SameTerms DEF Accounted
<1>9. FlatPairs(ps, ex, n) => FlatPairs(ps, ex2, n)
  BY SameTerms DEF FlatPairs, Flat, Gap
<1> QED BY <1>2, <1>3, <1>4, <1>5, <1>6, <1>7, <1>8, <1>9 DEF Ledger, Whole

-----------------------------------------------------------------------------
(* A report *)

\* What a report that o has filled k, and has ended if done, changes: ps and os
\* become ps2 and os2.  Gone is what leaves the frozen volumes.
Gone(os, o, k, done) == IF done THEN Left(os, o) ELSE k - os[o].total
Reported(o, k, done, ps, os, ps2, os2) ==
  LET old == ps[PairOf(o)]
      new == ps2[PairOf(o)]
  IN
  /\ DOMAIN ps2 = DOMAIN ps /\ PairOf(o) \in DOMAIN ps /\ o \in DOMAIN os
  /\ \A p \in DOMAIN ps : p # PairOf(o) => ps2[p] = ps[p]
  /\ new.dir = old.dir /\ new.hedges = old.hedges
  /\ IsActiveOrder(o) =>
       /\ new.actTotal = k /\ new.actFrozen = old.actFrozen - Gone(os, o, k, done)
       /\ new.pasTotal = old.pasTotal /\ new.pasFrozen = old.pasFrozen
  /\ ~IsActiveOrder(o) =>
       /\ new.actTotal = old.actTotal /\ new.actFrozen = old.actFrozen
       /\ new.pasTotal = old.pasTotal + (k - os[o].total)
       /\ new.pasFrozen = old.pasFrozen - Gone(os, o, k, done)
  /\ DOMAIN os2 = IF done THEN DOMAIN os \ {o} ELSE DOMAIN os
  /\ \A x \in DOMAIN os : x # o => os2[x] = os[x]
  /\ ~done => os2[o].dir = os[o].dir /\ os2[o].volume = os[o].volume /\ os2[o].total = k

\* What the report may say, given what the exchange knows of the order.
Truthful(o, k, done, os, ex) ==
  /\ k \in Nat /\ os[o].total <= k /\ k <= ex[o].filled
  /\ done => ~ex[o].open /\ k = ex[o].filled
  /\ ~done => k < ex[o].volume

\* How a report changes the terms of the sums: only those of its order.
TermsMoved(o, k, done, os, os2, ex) ==
  /\ \A x \in OrderId : x # o =>
       /\ \A p, d : /\ PasLeft(os2, p)[x] = PasLeft(os, p)[x]
                    /\ PasKnown(os2, ex, p)[x] = PasKnown(os, ex, p)[x]
                    /\ SideLeft(os2, d)[x] = SideLeft(os, d)[x]
       /\ SignedKnown(os2, ex)[x] = SignedKnown(os, ex)[x]
  /\ \A p : PassiveOf(p, o) =>
       /\ PasLeft(os2, p)[o] = PasLeft(os, p)[o] - Gone(os, o, k, done)
       /\ PasKnown(os2, ex, p)[o] = PasKnown(os, ex, p)[o] + (k - os[o].total)
  /\ \A p : ~PassiveOf(p, o) =>
       /\ PasLeft(os2, p)[o] = PasLeft(os, p)[o]
       /\ PasKnown(os2, ex, p)[o] = PasKnown(os, ex, p)[o]
  /\ \A d : SideLeft(os2, d)[o] = SideLeft(os, d)[o] -
       (IF IsActiveOrder(o) /\ os[o].dir = d THEN Gone(os, o, k, done) ELSE 0)
  /\ SignedKnown(os2, ex)[o] =
       IF IsActiveOrder(o) THEN ex[o].dir * k ELSE SignedKnown(os, ex)[o]
  /\ Known(os2, ex, o) = k /\ Known(os, ex, o) = os[o].total
  /\ (IF done THEN 0 ELSE Left(os2, o)) = Left(os, o) - Gone(os, o, k, done)

\* A report moves the terms of its order only.
LEMMA ReportTerms ==
  ASSUME NEW ps, NEW os, NEW ex, ExchTyped(ex), OrdersKnown(os, ex), Traced(os, ex),
         NEW o, NEW k, NEW done \in BOOLEAN, NEW ps2, NEW os2,
         Reported(o, k, done, ps, os, ps2, os2), Truthful(o, k, done, os, ex)
  PROVE  TermsMoved(o, k, done, os, os2, ex)
<1>1. /\ DOMAIN os2 = IF done THEN DOMAIN os \ {o} ELSE DOMAIN os
      /\ \A x \in DOMAIN os : x # o => os2[x] = os[x]
      /\ ~done => os2[o].dir = os[o].dir /\ os2[o].volume = os[o].volume /\ os2[o].total = k
      /\ o \in DOMAIN os
  BY DEF Reported
<1>2. /\ o \in OrderId /\ o \in DOMAIN ex /\ os[o].total \in Nat /\ os[o].volume \in Nat
      /\ k \in Nat /\ ex[o].filled \in Nat /\ (done => k = ex[o].filled)
  BY <1>1, BookFields DEF Truthful
<1>3. /\ \A x \in DOMAIN os : x # o => Left(os2, x) = Left(os, x)
      /\ (IF done THEN 0 ELSE Left(os2, o)) = Left(os, o) - Gone(os, o, k, done)
  BY <1>1, <1>2 DEF Left, Gone
<1>4. /\ \A x \in DOMAIN ex : x # o => Known(os2, ex, x) = Known(os, ex, x)
      /\ Known(os2, ex, o) = k /\ Known(os, ex, o) = os[o].total
  BY <1>1, <1>2 DEF Known
<1>5. Left(os, o) \in Nat /\ Gone(os, o, k, done) \in Int
  BY <1>1, <1>2, Terms DEF Gone
<1>6. ASSUME NEW p
      PROVE  /\ \A x \in OrderId : x # o => PasLeft(os2, p)[x] = PasLeft(os, p)[x]
             /\ PasLeft(os2, p)[o] = IF PassiveOf(p, o) THEN Left(os, o) - Gone(os, o, k, done) ELSE 0
             /\ PasLeft(os, p)[o] = IF PassiveOf(p, o) THEN Left(os, o) ELSE 0
  BY <1>1, <1>2, <1>3 DEF PasLeft
<1>7. ASSUME NEW p
      PROVE  /\ \A x \in OrderId : x # o => PasKnown(os2, ex, p)[x] = PasKnown(os, ex, p)[x]
             /\ PasKnown(os2, ex, p)[o] = IF PassiveOf(p, o) THEN k ELSE 0
             /\ PasKnown(os, ex, p)[o] = IF PassiveOf(p, o) THEN os[o].total ELSE 0
  BY <1>1, <1>2, <1>4 DEF PasKnown
<1>8. ASSUME NEW d
      PROVE  /\ \A x \in OrderId : x # o => SideLeft(os2, d)[x] = SideLeft(os, d)[x]
             /\ SideLeft(os2, d)[o] = IF IsActiveOrder(o) /\ os[o].dir = d
                                      THEN Left(os, o) - Gone(os, o, k, done) ELSE 0
             /\ SideLeft(os, d)[o] = IF IsActiveOrder(o) /\ os[o].dir = d THEN Left(os, o) ELSE 0
  BY <1>1, <1>2, <1>3 DEF SideLeft
<1>9. /\ \A x \in OrderId : x # o => SignedKnown(os2, ex)[x] = SignedKnown(os, ex)[x]
      /\ SignedKnown(os2, ex)[o] = IF IsActiveOrder(o) THEN ex[o].dir * k ELSE 0
      /\ ~IsActiveOrder(o) => SignedKnown(os, ex)[o] = 0
  BY <1>1, <1>2, <1>4 DEF SignedKnown
<1> DEFINE L == Left(os, o)
           G == Gone(os, o, k, done)
<1>10. ASSUME NEW p, PassiveOf(p, o)
       PROVE  /\ PasLeft(os2, p)[o] = PasLeft(os, p)[o] - G
              /\ PasKnown(os2, ex, p)[o] = PasKnown(os, ex, p)[o] + (k - os[o].total)
  BY <1>2, <1>6, <1>7, <1>10
<1>11. ASSUME NEW p, ~PassiveOf(p, o)
       PROVE  /\ PasLeft(os2, p)[o] = PasLeft(os, p)[o]
              /\ PasKnown(os2, ex, p)[o] = PasKnown(os, ex, p)[o]
  BY <1>6, <1>7, <1>11
<1>12. ASSUME NEW d
       PROVE  SideLeft(os2, d)[o] =
                SideLeft(os, d)[o] - (IF IsActiveOrder(o) /\ os[o].dir = d THEN G ELSE 0)
  BY <1>5, <1>8
<1>13. \A x \in OrderId : x # o =>
              /\ \A p, d : /\ PasLeft(os2, p)[x] = PasLeft(os, p)[x]
                           /\ PasKnown(os2, ex, p)[x] = PasKnown(os, ex, p)[x]
                           /\ SideLeft(os2, d)[x] = SideLeft(os, d)[x]
              /\ SignedKnown(os2, ex)[x] = SignedKnown(os, ex)[x]
  BY <1>6, <1>7, <1>8, <1>9
<1>14. SignedKnown(os2, ex)[o] = IF IsActiveOrder(o) THEN ex[o].dir * k ELSE SignedKnown(os, ex)[o]
  BY <1>9
<1> HIDE DEF L
<1> QED BY <1>3, <1>4, <1>10, <1>11, <1>12, <1>13, <1>14 DEF TermsMoved

\* A truthful report keeps the frozen volumes of the pairs matched and their
\* totals counted.
LEMMA ReportKeepsLedger ==
  ASSUME NEW ps, NEW os, NEW ex, NEW n, ExchTyped(ex), OrdersKnown(os, ex),
         Ledger(ps, os, ex, n), NEW o, NEW k, NEW done \in BOOLEAN, NEW ps2, NEW os2,
         Reported(o, k, done, ps, os, ps2, os2), Truthful(o, k, done, os, ex)
  PROVE  Ledger(ps2, os2, ex, n)
<1>0. Traced(os, ex) /\ Numbered(ps, ex, n) /\ Paired(ps, os) /\ Matched(ps, os)
      /\ Counted(ps, os, ex)
  BY DEF Ledger
<1>1. /\ DOMAIN ps2 = DOMAIN ps /\ PairOf(o) \in DOMAIN ps /\ o \in DOMAIN os
      /\ DOMAIN os2 = IF done THEN DOMAIN os \ {o} ELSE DOMAIN os
      /\ \A x \in DOMAIN os : x # o => os2[x] = os[x]
      /\ ~done => os2[o].dir = os[o].dir /\ os2[o].volume = os[o].volume /\ os2[o].total = k
      /\ \A p \in DOMAIN ps : p # PairOf(o) => ps2[p] = ps[p]
      /\ \A p \in DOMAIN ps : ps2[p].dir = ps[p].dir /\ ps2[p].hedges = ps[p].hedges
  BY DEF Reported
<1>2. /\ o \in OrderId /\ o \in DOMAIN ex /\ os[o].total \in Nat /\ os[o].volume \in Nat
      /\ k \in Nat /\ ex[o].filled \in Nat /\ os[o].volume = ex[o].volume
  BY <1>0, <1>1, BookFields DEF Truthful
<1>9. TermsMoved(o, k, done, os, os2, ex)
  BY <1>0, ReportTerms
<1>3. Traced(os2, ex)
  BY <1>0, <1>1, <1>2 DEF Traced, Truthful
<1>4. Numbered(ps2, ex, n)
  BY <1>0, <1>1 DEF Numbered
<1>5. Paired(ps2, os2)
  BY <1>0, <1>1 DEF Paired
<1> DEFINE G == Gone(os, o, k, done)
<1>6. G \in Int /\ Left(os, o) \in Nat
  BY <1>0, <1>1, <1>2, Terms DEF Gone
<1>7. Matched(ps2, os2)
  <2> SUFFICES ASSUME NEW p \in DOMAIN ps
               PROVE  /\ ps2[p].actFrozen = ActLeft(os2, p)
                      /\ ps2[p].pasFrozen = OrderSum(PasLeft(os2, p))
    BY <1>1 DEF Matched
  <2>1. /\ ps[p].actFrozen = ActLeft(os, p) /\ ps[p].pasFrozen = OrderSum(PasLeft(os, p))
    BY <1>0 DEF Matched
  <2>2. \A x \in OrderId : PasLeft(os, p)[x] \in Int /\ PasLeft(os2, p)[o] \in Int
    <3>1. \A x \in OrderId : PasLeft(os, p)[x] \in Nat
      BY <1>0, Terms
    <3>2. PasLeft(os2, p)[o] = PasLeft(os, p)[o] - G \/ PasLeft(os2, p)[o] = PasLeft(os, p)[o]
      BY <1>9 DEF TermsMoved
    <3> HIDE DEF G
    <3> QED BY <1>2, <1>6, <3>1, <3>2
  <2>3. OrderSum(PasLeft(os2, p)) = OrderSum(PasLeft(os, p)) + (PasLeft(os2, p)[o] - PasLeft(os, p)[o])
    <3>1. \A x \in OrderId : x # o => PasLeft(os2, p)[x] = PasLeft(os, p)[x]
      BY <1>9 DEF TermsMoved
    <3> QED BY <1>2, <2>2, <3>1, OrderSumPoint
  <2>4. OrderSum(PasLeft(os, p)) \in Nat
    BY <1>0, Sums
  <2>5. CASE PassiveOf(p, o)
    <3>1. p = PairOf(o) /\ ~IsActiveOrder(o)
      BY <2>5 DEF PassiveOf
    <3>2. ps2[p].actFrozen = ps[p].actFrozen /\ ps2[p].pasFrozen = ps[p].pasFrozen - G
      BY <3>1 DEF Reported
    <3>3. PasLeft(os2, p)[o] = PasLeft(os, p)[o] - G
      BY <1>9, <2>5 DEF TermsMoved
    <3>4. ActLeft(os2, p) = ActLeft(os, p)
      <4>1. <<p, 0>> # o
        BY <1>2, <3>1, OrderIds
      <4> QED BY <1>1, <4>1 DEF ActLeft, Left
    <3> HIDE DEF G
    <3>5. ps2[p].pasFrozen = OrderSum(PasLeft(os2, p))
      BY <1>2, <1>6, <2>1, <2>2, <2>3, <2>4, <3>2, <3>3
    <3> QED BY <2>1, <3>2, <3>4, <3>5
  <2>6. CASE ~PassiveOf(p, o)
    <3>1. PasLeft(os2, p)[o] = PasLeft(os, p)[o]
      BY <1>9, <2>6 DEF TermsMoved
    <3>2. OrderSum(PasLeft(os2, p)) = OrderSum(PasLeft(os, p))
      BY <1>2, <2>2, <2>3, <2>4, <3>1
    <3>3. CASE p = PairOf(o)
      <4>1. IsActiveOrder(o) /\ o = <<p, 0>>
        BY <1>2, <2>6, <3>3, OrderIds DEF PassiveOf
      <4>2. ps2[p].actFrozen = ps[p].actFrozen - G /\ ps2[p].pasFrozen = ps[p].pasFrozen
        BY <3>3, <4>1 DEF Reported
      <4>3. ActLeft(os, p) = Left(os, o) /\ ActLeft(os2, p) = IF done THEN 0 ELSE Left(os2, o)
        BY <1>1, <4>1 DEF ActLeft
      <4>4. (IF done THEN 0 ELSE Left(os2, o)) = Left(os, o) - G
        BY <1>9 DEF TermsMoved
      <4> QED BY <2>1, <3>2, <4>2, <4>3, <4>4
    <3>4. CASE p # PairOf(o)
      <4>1. <<p, 0>> # o
        BY <3>4 DEF PairOf
      <4>2. ActLeft(os2, p) = ActLeft(os, p)
        BY <1>1, <4>1 DEF ActLeft, Left
      <4> QED BY <1>1, <2>1, <3>2, <3>4, <4>2
    <3> QED BY <3>3, <3>4
  <2> QED BY <2>5, <2>6
<1>8. Counted(ps2, os2, ex)
  <2> SUFFICES ASSUME NEW p \in DOMAIN ps
               PROVE  /\ ps2[p].actTotal = ActKnown(os2, ex, p)
                      /\ ps2[p].pasTotal = OrderSum(PasKnown(os2, ex, p))
    BY <1>1 DEF Counted
  <2>1. ps[p].actTotal = ActKnown(os, ex, p) /\ ps[p].pasTotal = OrderSum(PasKnown(os, ex, p))
    BY <1>0 DEF Counted
  <2>2. \A x \in OrderId : PasKnown(os, ex, p)[x] \in Int /\ PasKnown(os2, ex, p)[o] \in Int
    <3>1. \A x \in OrderId : PasKnown(os, ex, p)[x] \in Nat
      BY <1>0, Terms
    <3>2. \/ PasKnown(os2, ex, p)[o] = PasKnown(os, ex, p)[o] + (k - os[o].total)
          \/ PasKnown(os2, ex, p)[o] = PasKnown(os, ex, p)[o]
      BY <1>9 DEF TermsMoved
    <3> QED BY <1>2, <3>1, <3>2
  <2>3. OrderSum(PasKnown(os2, ex, p)) =
          OrderSum(PasKnown(os, ex, p)) + (PasKnown(os2, ex, p)[o] - PasKnown(os, ex, p)[o])
    <3>1. \A x \in OrderId : x # o => PasKnown(os2, ex, p)[x] = PasKnown(os, ex, p)[x]
      BY <1>9 DEF TermsMoved
    <3> QED BY <1>2, <2>2, <3>1, OrderSumPoint
  <2>4. OrderSum(PasKnown(os, ex, p)) \in Nat
    BY <1>0, Sums
  <2>5. CASE PassiveOf(p, o)
    <3>1. p = PairOf(o) /\ ~IsActiveOrder(o)
      BY <2>5 DEF PassiveOf
    <3>2. /\ ps2[p].actTotal = ps[p].actTotal
          /\ ps2[p].pasTotal = ps[p].pasTotal + (k - os[o].total)
      BY <3>1 DEF Reported
    <3>3. PasKnown(os2, ex, p)[o] = PasKnown(os, ex, p)[o] + (k - os[o].total)
      BY <1>9, <2>5 DEF TermsMoved
    <3>4. ActKnown(os2, ex, p) = ActKnown(os, ex, p)
      <4>1. <<p, 0>> # o
        BY <1>2, <3>1, OrderIds
      <4> QED BY <1>1, <4>1 DEF ActKnown, Known
    <3> DEFINE f == k - os[o].total
    <3>5. f \in Int
      BY <1>2
    <3> HIDE DEF f
    <3>6. ps2[p].pasTotal = OrderSum(PasKnown(os2, ex, p))
      <4>1. ps2[p].pasTotal = ps[p].pasTotal + f
            /\ PasKnown(os2, ex, p)[o] = PasKnown(os, ex, p)[o] + f
        BY <3>2, <3>3 DEF f
      <4> QED BY <1>2, <2>1, <2>2, <2>3, <2>4, <3>5, <4>1
    <3> QED BY <2>1, <3>2, <3>4, <3>6
  <2>6. CASE ~PassiveOf(p, o)
    <3>1. PasKnown(os2, ex, p)[o] = PasKnown(os, ex, p)[o]
      BY <1>9, <2>6 DEF TermsMoved
    <3>2. OrderSum(PasKnown(os2, ex, p)) = OrderSum(PasKnown(os, ex, p))
      BY <1>2, <2>2, <2>3, <2>4, <3>1
    <3>3. CASE p = PairOf(o)
      <4>1. IsActiveOrder(o) /\ o = <<p, 0>>
        BY <1>2, <2>6, <3>3, OrderIds DEF PassiveOf
      <4>2. ps2[p].actTotal = k /\ ps2[p].pasTotal = ps[p].pasTotal
        BY <3>3, <4>1 DEF Reported
      <4>3. ActKnown(os2, ex, p) = Known(os2, ex, o)
        BY <1>2, <4>1 DEF ActKnown
      <4>4. Known(os2, ex, o) = k
        BY <1>9 DEF TermsMoved
      <4> QED BY <2>1, <3>2, <4>2, <4>3, <4>4
    <3>4. CASE p # PairOf(o)
      <4>1. <<p, 0>> # o
        BY <3>4 DEF PairOf
      <4>2. ActKnown(os2, ex, p) = ActKnown(os, ex, p)
        BY <1>1, <4>1 DEF ActKnown, Known
      <4> QED BY <1>1, <2>1, <3>2, <3>4, <4>2
    <3> QED BY <3>3, <3>4
  <2> QED BY <2>5, <2>6
<1> QED BY <1>3, <1>4, <1>5, <1>7, <1>8 DEF Ledger

\* What is frozen on a side changes by what the report releases.
LEMMA ReportSides ==
  ASSUME NEW os, NEW ex, ExchTyped(ex), OrdersKnown(os, ex), Traced(os, ex),
         NEW o \in DOMAIN os, NEW k \in Nat, NEW done \in BOOLEAN, NEW os2,
         TermsMoved(o, k, done, os, os2, ex), NEW d
  PROVE  OrderSum(SideLeft(os2, d)) = OrderSum(SideLeft(os, d)) -
           (IF IsActiveOrder(o) /\ os[o].dir = d THEN Gone(os, o, k, done) ELSE 0)
<1> DEFINE f == SideLeft(os, d)
           g == SideLeft(os2, d)
           r == IF IsActiveOrder(o) /\ os[o].dir = d THEN Gone(os, o, k, done) ELSE 0
<1>1. o \in OrderId /\ os[o].total \in Nat /\ os[o].volume \in Nat
  BY BookFields
<1>2. r \in Int
  <2>1. Gone(os, o, k, done) \in Int
    BY <1>1 DEF Gone, Left
  <2> QED BY <2>1
<1>3. g[o] = f[o] - r /\ \A x \in OrderId : x # o => g[x] = f[x]
  BY DEF TermsMoved
<1>4. (\A x \in OrderId : f[x] \in Int) /\ OrderSum(f) \in Int
  <2>1. \A x \in OrderId : SideLeft(os, d)[x] \in Nat
    BY Terms
  <2>2. OrderSum(SideLeft(os, d)) \in Nat
    BY Sums
  <2> QED BY <2>1, <2>2
<1> HIDE DEF f, g, r
<1>5. g[o] \in Int
  BY <1>1, <1>2, <1>3, <1>4
<1>6. OrderSum(g) = OrderSum(f) + (g[o] - f[o])
  BY <1>1, <1>3, <1>4, <1>5, OrderSumPoint
<1>7. OrderSum(g) = OrderSum(f) - r
  BY <1>1, <1>2, <1>3, <1>4, <1>6
<1> QED BY <1>7 DEF f, g, r

\* The terms of the pairs' sum are numbers.
LEMMA PairTerms ==
  ASSUME NEW ps, NEW n, PairsTyped(ps, n)
  PROVE  /\ \A p \in PairId : PairFill(ps)[p] \in Int
         /\ PairSum(PairFill(ps)) \in Int
<1>1. \A p \in DOMAIN ps : ps[p] \in Pair
  BY DEF PairsTyped
<1>2. \A p \in DOMAIN ps : ps[p].dir \in {1, -1} /\ ps[p].actTotal \in Nat
  BY <1>1, PairFields
<1>3. \A p \in PairId : PairFill(ps)[p] \in Int
  <2> SUFFICES ASSUME NEW p \in PairId PROVE PairFill(ps)[p] \in Int
    OBVIOUS
  <2>1. CASE p \in DOMAIN ps
    <3> DEFINE a == ps[p].dir
               b == ps[p].actTotal
    <3>1. PairFill(ps)[p] = a * b /\ a \in {1, -1} /\ b \in Nat
      BY <1>2, <2>1 DEF PairFill
    <3> HIDE DEF a, b
    <3>2. a * b \in Int
      BY <3>1
    <3> QED BY <3>1, <3>2
  <2>2. CASE p \notin DOMAIN ps
    BY <2>2 DEF PairFill
  <2> QED BY <2>1, <2>2
<1>4. PairSum(PairFill(ps)) \in Int
  BY <1>3, FiniteIds, SumInt DEF PairSum
<1> QED BY <1>3, <1>4

\* A truthful report moves the books of the strategy as it moves what is known
\* of the exchange.
LEMMA ReportKeepsWhole ==
  ASSUME NEW ps, NEW os, NEW ex, NEW n \in Int, ExchTyped(ex), OrdersKnown(os, ex),
         PairsTyped(ps, n), Ledger(ps, os, ex, n), NEW o, NEW k, NEW done \in BOOLEAN,
         NEW ps2, NEW os2, NEW pos \in Int,
         Reported(o, k, done, ps, os, ps2, os2), Truthful(o, k, done, os, ex),
         Whole(pos, ps, os, ex, n)
  PROVE  Whole(pos, ps2, os2, ex, n)
<1>0. Traced(os, ex) /\ Numbered(ps, ex, n) /\ Counted(ps, os, ex)
  BY DEF Ledger
<1>1. /\ DOMAIN ps2 = DOMAIN ps /\ PairOf(o) \in DOMAIN ps /\ o \in DOMAIN os
      /\ DOMAIN os2 = IF done THEN DOMAIN os \ {o} ELSE DOMAIN os
      /\ \A p \in DOMAIN ps : p # PairOf(o) => ps2[p] = ps[p]
      /\ ps2[PairOf(o)].dir = ps[PairOf(o)].dir
  BY DEF Reported
<1>2. /\ o \in OrderId /\ o \in DOMAIN ex /\ os[o].total \in Nat /\ k \in Nat
      /\ ex[o].dir \in {1, -1}
  BY <1>0, <1>1, BookFields DEF Truthful
<1>3. TermsMoved(o, k, done, os, os2, ex)
  BY <1>0, ReportTerms
<1>4. OpenTracked(os2, ex)
  BY <1>1 DEF Whole, OpenTracked, Truthful
<1>5. FlatPairs(ps2, ex, n)
  BY <1>1 DEF Whole, FlatPairs
<1>6. Accounted(pos, ps2, os2, ex)
  <2> DEFINE q == PairOf(o)
             f == PairFill(ps)
             g == PairFill(ps2)
             a == SignedKnown(os, ex)
             b == SignedKnown(os2, ex)
  <2>1. (\A p \in PairId : f[p] \in Int) /\ PairSum(f) \in Int
    BY PairTerms
  <2>2. (\A x \in OrderId : a[x] \in Int) /\ OrderSum(a) \in Int
    <3>1. \A x \in OrderId : a[x] \in Int
      BY <1>0, Terms
    <3>2. OrderSum(a) \in Int
      BY <1>0, Sums
    <3> QED BY <3>1, <3>2
  <2>3. q \in PairId /\ \A p \in PairId : p # q => g[p] = f[p]
    BY <1>1, <1>2, OrderIds DEF PairFill
  <2>4. \A x \in OrderId : x # o => b[x] = a[x]
    BY <1>3 DEF TermsMoved
  <2>5. pos + PairSum(f) = StartVolume + OrderSum(a) /\ StartVolume \in Int
    BY VolumeAssumption DEF Whole, Accounted
  <2>6. g[q] \in Int /\ b[o] \in Int /\ g[q] - f[q] = b[o] - a[o]
    <3>1. CASE IsActiveOrder(o)
      <4> DEFINE d == ex[o].dir
                 t == os[o].total
      <4>1. o = <<q, 0>>
        BY <1>2, <3>1, OrderIds
      <4>2. ps[q].dir = d
        BY <1>0, <1>1, <1>2, <3>1 DEF Numbered
      <4>3. ps2[q].actTotal = k
        BY <3>1 DEF Reported
      <4>4. ps[q].actTotal = t
        <5>1. ps[q].actTotal = ActKnown(os, ex, q)
          BY <1>0, <1>1 DEF Counted
        <5>2. ActKnown(os, ex, q) = Known(os, ex, o)
          BY <1>2, <4>1 DEF ActKnown
        <5>3. Known(os, ex, o) = os[o].total
          BY <1>3 DEF TermsMoved
        <5> QED BY <5>1, <5>2, <5>3
      <4>5. f[q] = d * t /\ g[q] = d * k
        BY <1>1, <2>3, <4>2, <4>3, <4>4 DEF PairFill
      <4>6. b[o] = d * k
        BY <1>3, <3>1 DEF TermsMoved
      <4>7. a[o] = d * t
        <5>1. Known(os, ex, o) = os[o].total
          BY <1>3 DEF TermsMoved
        <5> QED BY <1>2, <3>1, <5>1 DEF SignedKnown
      <4>8. d \in {1, -1} /\ t \in Nat
        BY <1>2
      <4> HIDE DEF d, t, f, g, a, b, q
      <4>9. d * k \in Int
        BY <1>2, <4>8
      <4> QED BY <4>5, <4>6, <4>7, <4>9
    <3>2. CASE ~IsActiveOrder(o)
      <4>1. ps2[q].actTotal = ps[q].actTotal
        BY <3>2 DEF Reported
      <4>2. g[q] = f[q]
        BY <1>1, <2>3, <4>1 DEF PairFill
      <4>3. b[o] = a[o]
        BY <1>3, <3>2 DEF TermsMoved
      <4> HIDE DEF f, g, a, b, q
      <4> QED BY <1>2, <2>1, <2>2, <2>3, <4>2, <4>3
    <3> QED BY <3>1, <3>2
  <2> HIDE DEF f, g, a, b, q
  <2>7. PairSum(g) = PairSum(f) + (g[q] - f[q])
    BY <2>1, <2>3, <2>6, FiniteIds, SumPoint DEF PairSum
  <2>8. OrderSum(b) = OrderSum(a) + (b[o] - a[o])
    BY <1>2, <2>2, <2>4, <2>6, OrderSumPoint
  <2>9. pos + PairSum(g) = StartVolume + OrderSum(b)
    <3> DEFINE e == g[q] - f[q]
    <3>1. e \in Int /\ PairSum(g) = PairSum(f) + e /\ OrderSum(b) = OrderSum(a) + e
      BY <2>1, <2>3, <2>6, <2>7, <2>8
    <3> HIDE DEF e
    <3> QED BY <2>1, <2>2, <2>5, <3>1
  <2> QED BY <2>9 DEF Accounted, g, b
<1> QED BY <1>4, <1>5, <1>6 DEF Whole

-----------------------------------------------------------------------------
(* PairOrderTrade *)

\* What PairOrderTrade changes when it hedges the pairs H and finishes the pairs F:
\* ps, os, ex become ps2, os2, ex2.
Placements(ps, H) == {NextHedge(ps, p) : p \in H}
Traded(ps, os, ex, H, F, ps2, os2, ex2) ==
  /\ H \subseteq DOMAIN ps /\ F \subseteq DOMAIN ps \ H
  /\ DOMAIN ps2 = DOMAIN ps \ F
  /\ DOMAIN os2 = DOMAIN os \union Placements(ps, H)
  /\ DOMAIN ex2 = DOMAIN ex \union Placements(ps, H)
  /\ \A p \in DOMAIN ps2 :
       /\ ps2[p].dir = ps[p].dir
       /\ ps2[p].actTotal = ps[p].actTotal /\ ps2[p].actFrozen = ps[p].actFrozen
       /\ ps2[p].pasTotal = ps[p].pasTotal
       /\ ps2[p].pasFrozen = IF p \in H THEN ps[p].pasFrozen + HedgeVolume(ps[p])
                                        ELSE ps[p].pasFrozen
       /\ ps2[p].hedges = IF p \in H THEN ps[p].hedges + 1 ELSE ps[p].hedges
  /\ \A o \in Placements(ps, H) :
       /\ os2[o].dir = ex2[o].dir /\ os2[o].volume = HedgeVolume(ps[PairOf(o)])
       /\ os2[o].total = 0 /\ ex2[o].filled = 0
  /\ \A o \in DOMAIN os \ Placements(ps, H) : os2[o] = os[o]
  /\ \A o \in DOMAIN ex \ Placements(ps, H) : ex2[o] = ex[o]
  /\ \A p \in H : HedgeVolume(ps[p]) \in Nat /\ HedgeVolume(ps[p]) >= 1
  /\ \A p \in H : ps[p].hedges \in Nat /\ NextHedge(ps, p) \in OrderId
  /\ \A p \in F : /\ ps[p].actFrozen = 0 /\ ps[p].pasFrozen = 0
                  /\ HedgeVolume(ps[p]) < PasMin

\* What PairOrderTrade does, field by field.
LEMMA TradeFacts ==
  ASSUME NEW ps, NEW os, NEW P \in SUBSET DOMAIN ps, NEW C,
         PairsTyped(ps, nextPair), nextPair \in 1..(PairBound + 1),
         PairOrderTrade(ps, os, P, C)
  PROVE  /\ Traded(ps, CancelOrders(os, C), RequestCancels(exch, C),
                   Hedged(ps, P), Finished(ps, P), pairs', orders', exch')
         /\ position' = PositionAfter(ps, Finished(ps, P))
<1> DEFINE H      == Hedged(ps, P)
           F      == Finished(ps, P)
           placed == Placements(ps, H)
           vol(o) == HedgeVolume(ps[PairOf(o)])
           dir(o) == -ps[PairOf(o)].dir
           cs     == CancelOrders(os, C)
           ex     == RequestCancels(exch, C)
<1>1. /\ \A p \in H : ps[p].hedges < HedgeBound
      /\ pairs' = [p \in DOMAIN ps \ F |->
                     IF p \in H
                     THEN [ps[p] EXCEPT !.pasFrozen = @ + HedgeVolume(ps[p]), !.hedges = @ + 1]
                     ELSE ps[p]]
      /\ orders' = [o \in DOMAIN cs \union placed |->
                      IF o \in placed THEN NewOrder(dir(o), vol(o)) ELSE cs[o]]
      /\ exch' = [o \in DOMAIN ex \union placed |->
                    IF o \in placed THEN Placed(dir(o), vol(o)) ELSE ex[o]]
      /\ position' = PositionAfter(ps, F)
  BY DEF PairOrderTrade, Placements
<1>2. /\ H \subseteq DOMAIN ps /\ F \subseteq DOMAIN ps \ H
      /\ \A p \in H : HedgeVolume(ps[p]) >= PasMin
      /\ \A p \in F : /\ ps[p].actFrozen = 0 /\ ps[p].pasFrozen = 0
                      /\ p \in P /\ ~(HedgeVolume(ps[p]) >= PasMin)
  BY DEF Hedged, Finished
<1>3. \A p \in DOMAIN ps : /\ ps[p] \in Pair /\ HedgeVolume(ps[p]) \in Nat
                           /\ ps[p].hedges \in Nat /\ p \in PairId
  <2> SUFFICES ASSUME NEW p \in DOMAIN ps
               PROVE  /\ ps[p] \in Pair /\ HedgeVolume(ps[p]) \in Nat
                      /\ ps[p].hedges \in Nat /\ p \in PairId
    OBVIOUS
  <2>1. ps[p] \in Pair /\ p \in 1..(nextPair - 1)
    BY DEF PairsTyped
  <2> QED BY <2>1, HedgeVolumeBound, PairFields, LimitAssumption DEF PairId
<1> HIDE DEF H, F, placed, cs, ex
<1>4. \A p \in H : HedgeVolume(ps[p]) \in Nat /\ HedgeVolume(ps[p]) >= 1
  <2>1. PasMin \in Nat \ {0}
    BY VolumeAssumption
  <2> QED BY <1>2, <1>3, <2>1
<1>5. \A p \in F : HedgeVolume(ps[p]) < PasMin
  <2>1. PasMin \in Nat \ {0}
    BY VolumeAssumption
  <2> QED BY <1>2, <1>3, <2>1
<1>6. \A p \in H : ps[p].hedges \in Nat /\ NextHedge(ps, p) \in OrderId
  <2>1. \A p \in H : p \in PairId /\ ps[p].hedges \in Nat /\ ps[p].hedges < HedgeBound
    BY <1>1, <1>2, <1>3
  <2>2. \A p \in H : ps[p].hedges + 1 \in 0..HedgeBound
    BY <2>1, LimitAssumption
  <2> QED BY <2>1, <2>2 DEF NextHedge, OrderId
<1>7. \A p \in DOMAIN pairs' :
       /\ pairs'[p].dir = ps[p].dir
       /\ pairs'[p].actTotal = ps[p].actTotal /\ pairs'[p].actFrozen = ps[p].actFrozen
       /\ pairs'[p].pasTotal = ps[p].pasTotal
       /\ pairs'[p].pasFrozen = IF p \in H THEN ps[p].pasFrozen + HedgeVolume(ps[p])
                                        ELSE ps[p].pasFrozen
       /\ pairs'[p].hedges = IF p \in H THEN ps[p].hedges + 1 ELSE ps[p].hedges
  <2> SUFFICES ASSUME NEW p \in DOMAIN pairs'
      PROVE /\ pairs'[p].dir = ps[p].dir
            /\ pairs'[p].actTotal = ps[p].actTotal /\ pairs'[p].actFrozen = ps[p].actFrozen
            /\ pairs'[p].pasTotal = ps[p].pasTotal
            /\ pairs'[p].pasFrozen = IF p \in H THEN ps[p].pasFrozen + HedgeVolume(ps[p])
                                             ELSE ps[p].pasFrozen
            /\ pairs'[p].hedges = IF p \in H THEN ps[p].hedges + 1 ELSE ps[p].hedges
    OBVIOUS
  <2>1. p \in DOMAIN ps /\ ps[p] \in Pair
    BY <1>1, <1>3
  <2>2. pairs'[p] = IF p \in H
                    THEN [ps[p] EXCEPT !.pasFrozen = @ + HedgeVolume(ps[p]), !.hedges = @ + 1]
                    ELSE ps[p]
    BY <1>1
  <2> DEFINE pr == ps[p]
             a  == pr.pasFrozen + HedgeVolume(pr)
             b  == pr.hedges + 1
  <2>3. pairs'[p] = IF p \in H THEN [pr EXCEPT !.pasFrozen = a, !.hedges = b] ELSE pr
    BY <2>2
  <2> HIDE DEF a, b
  <2>4. p \in H => /\ pairs'[p].dir = pr.dir /\ pairs'[p].actTotal = pr.actTotal
                   /\ pairs'[p].actFrozen = pr.actFrozen /\ pairs'[p].pasTotal = pr.pasTotal
                   /\ pairs'[p].pasFrozen = a /\ pairs'[p].hedges = b
    BY <2>1, <2>3, Zenon DEF Pair
  <2> QED BY <2>3, <2>4 DEF a, b
<1>8. \A d, v : /\ NewOrder(d, v).dir = Placed(d, v).dir /\ NewOrder(d, v).volume = v
                /\ NewOrder(d, v).total = 0 /\ Placed(d, v).filled = 0
  BY DEF NewOrder, Placed
<1>9. \A o \in placed :
       /\ orders'[o].dir = exch'[o].dir /\ orders'[o].volume = HedgeVolume(ps[PairOf(o)])
       /\ orders'[o].total = 0 /\ exch'[o].filled = 0
  <2>1. \A o \in placed : orders'[o] = NewOrder(dir(o), vol(o)) /\ exch'[o] = Placed(dir(o), vol(o))
    BY <1>1
  <2> QED BY <1>8, <2>1
<1>10. /\ \A o \in DOMAIN cs \ placed : orders'[o] = cs[o]
       /\ \A o \in DOMAIN ex \ placed : exch'[o] = ex[o]
       /\ DOMAIN orders' = DOMAIN cs \union placed /\ DOMAIN exch' = DOMAIN ex \union placed
       /\ DOMAIN pairs' = DOMAIN ps \ F
  BY <1>1
<1>11. Traded(ps, cs, ex, H, F, pairs', orders', exch')
  BY <1>2, <1>4, <1>5, <1>6, <1>7, <1>9, <1>10 DEF Traded, placed
<1> QED BY <1>1, <1>11 DEF H, F, cs, ex

\* A trade changes one term of the sums: the new hedge, in its pair's frozen volume.
TermsHedged(ps, H, os, ex, os2, ex2) ==
  /\ \A p : /\ ActLeft(os2, p) = ActLeft(os, p) /\ ActKnown(os2, ex2, p) = ActKnown(os, ex, p)
            /\ ActFilled(ex2, p) = ActFilled(ex, p)
            /\ OrderSum(PasKnown(os2, ex2, p)) = OrderSum(PasKnown(os, ex, p))
            /\ OrderSum(PasFilled(ex2, p)) = OrderSum(PasFilled(ex, p))
            /\ OrderSum(PasLeft(os2, p)) =
                 IF p \in H THEN OrderSum(PasLeft(os, p)) + HedgeVolume(ps[p])
                            ELSE OrderSum(PasLeft(os, p))
  /\ \A d : OrderSum(SideLeft(os2, d)) = OrderSum(SideLeft(os, d))
  /\ OrderSum(SignedKnown(os2, ex2)) = OrderSum(SignedKnown(os, ex))

\* The hedges placed are new orders of their pairs.
LEMMA FreshHedges ==
  ASSUME NEW ps, NEW os, NEW ex, NEW n, DOMAIN os \subseteq DOMAIN ex, Numbered(ps, ex, n),
         \A o \in DOMAIN ex : o \in OrderId,
         NEW H, NEW F, NEW ps2, NEW os2, NEW ex2, Traded(ps, os, ex, H, F, ps2, os2, ex2)
  PROVE  /\ \A o \in Placements(ps, H) :
              /\ o \in OrderId /\ PairOf(o) \in H /\ o = NextHedge(ps, PairOf(o))
              /\ ~IsActiveOrder(o) /\ o \notin DOMAIN ex /\ o \notin DOMAIN os
         /\ \A p \in H : /\ NextHedge(ps, p) \in Placements(ps, H)
                         /\ PairOf(NextHedge(ps, p)) = p
         /\ \A o \in DOMAIN os : os2[o] = os[o]
         /\ \A o \in DOMAIN ex : ex2[o] = ex[o]
<1>1. /\ H \subseteq DOMAIN ps
      /\ \A p \in H : ps[p].hedges \in Nat /\ NextHedge(ps, p) \in OrderId
      /\ \A o \in DOMAIN os \ Placements(ps, H) : os2[o] = os[o]
      /\ \A o \in DOMAIN ex \ Placements(ps, H) : ex2[o] = ex[o]
  BY DEF Traded
<1>2. ASSUME NEW o \in Placements(ps, H)
      PROVE  /\ o \in OrderId /\ PairOf(o) \in H /\ o = NextHedge(ps, PairOf(o))
             /\ ~IsActiveOrder(o) /\ o \notin DOMAIN ex /\ o \notin DOMAIN os
  <2>1. PICK p \in H : o = <<p, ps[p].hedges + 1>>
    BY DEF Placements, NextHedge
  <2>2. PairOf(o) = p /\ o[2] = ps[p].hedges + 1 /\ ps[p].hedges \in Nat
    BY <1>1, <2>1 DEF PairOf
  <2>3. o \in OrderId
    BY <1>1, <2>1 DEF NextHedge
  <2>4. ~IsActiveOrder(o)
    BY <2>2 DEF IsActiveOrder
  <2>5. o \notin DOMAIN ex
    <3> SUFFICES ASSUME o \in DOMAIN ex PROVE FALSE
      OBVIOUS
    <3>1. o[2] <= ps[p].hedges
      BY <1>1, <2>2 DEF Numbered
    <3> QED BY <2>2, <3>1
  <2> QED BY <2>1, <2>2, <2>3, <2>4, <2>5 DEF NextHedge
<1>3. \A p \in H : NextHedge(ps, p) \in Placements(ps, H) /\ PairOf(NextHedge(ps, p)) = p
  BY DEF Placements, NextHedge, PairOf
<1> QED BY <1>1, <1>2, <1>3

\* Fresh passive orders add their volume to what their pair has left, and nothing to
\* what is filled.
LEMMA TradeTerms ==
  ASSUME NEW ps, NEW os, NEW ex, NEW n, ExchTyped(ex), OrdersKnown(os, ex), Traced(os, ex),
         Numbered(ps, ex, n), NEW H, NEW F, NEW ps2, NEW os2, NEW ex2,
         Traded(ps, os, ex, H, F, ps2, os2, ex2)
  PROVE  TermsHedged(ps, H, os, ex, os2, ex2)
<1> DEFINE new == Placements(ps, H)
<1>0. DOMAIN os \subseteq DOMAIN ex /\ \A o \in DOMAIN ex : o \in OrderId
  BY DEF OrdersKnown, ExchTyped
<1>1. /\ \A o \in new : /\ o \in OrderId /\ PairOf(o) \in H /\ o = NextHedge(ps, PairOf(o))
                        /\ ~IsActiveOrder(o) /\ o \notin DOMAIN ex /\ o \notin DOMAIN os
      /\ \A p \in H : NextHedge(ps, p) \in new /\ PairOf(NextHedge(ps, p)) = p
      /\ \A o \in DOMAIN os : os2[o] = os[o]
      /\ \A o \in DOMAIN ex : ex2[o] = ex[o]
  BY <1>0, FreshHedges
<1>2. /\ DOMAIN os2 = DOMAIN os \union new /\ DOMAIN ex2 = DOMAIN ex \union new
      /\ \A o \in new : /\ os2[o].volume = HedgeVolume(ps[PairOf(o)])
                        /\ os2[o].total = 0 /\ ex2[o].filled = 0
      /\ \A p \in H : HedgeVolume(ps[p]) \in Nat
  BY DEF Traded
<1> HIDE DEF new
<1>3. /\ \A o \in DOMAIN os : Left(os2, o) = Left(os, o)
      /\ \A o \in new : Left(os2, o) = HedgeVolume(ps[PairOf(o)])
  BY <1>1, <1>2 DEF Left
<1>4. /\ \A o \in DOMAIN ex : Known(os2, ex2, o) = Known(os, ex, o)
      /\ \A o \in new : Known(os2, ex2, o) = 0
  BY <1>1, <1>2 DEF Known
<1>5. ASSUME NEW p
      PROVE  /\ ActLeft(os2, p) = ActLeft(os, p) /\ ActKnown(os2, ex2, p) = ActKnown(os, ex, p)
             /\ ActFilled(ex2, p) = ActFilled(ex, p)
  <2>1. <<p, 0>> \notin new
    BY <1>1 DEF IsActiveOrder
  <2> QED BY <1>1, <1>2, <1>3, <1>4, <2>1 DEF ActLeft, ActKnown, ActFilled
<1>6. ASSUME NEW p PROVE OrderSum(PasKnown(os2, ex2, p)) = OrderSum(PasKnown(os, ex, p))
  <2>1. \A o \in OrderId : PasKnown(os2, ex2, p)[o] = PasKnown(os, ex, p)[o]
    BY <1>1, <1>2, <1>4 DEF PasKnown
  <2> QED BY <2>1, OrderSumSame
<1>7. ASSUME NEW p PROVE OrderSum(PasFilled(ex2, p)) = OrderSum(PasFilled(ex, p))
  <2>1. \A o \in OrderId : PasFilled(ex2, p)[o] = PasFilled(ex, p)[o]
    BY <1>1, <1>2 DEF PasFilled
  <2> QED BY <2>1, OrderSumSame
<1>8. ASSUME NEW d PROVE OrderSum(SideLeft(os2, d)) = OrderSum(SideLeft(os, d))
  <2>1. \A o \in OrderId : SideLeft(os2, d)[o] = SideLeft(os, d)[o]
    BY <1>1, <1>2, <1>3 DEF SideLeft
  <2> QED BY <2>1, OrderSumSame
<1>9. OrderSum(SignedKnown(os2, ex2)) = OrderSum(SignedKnown(os, ex))
  <2>1. \A o \in OrderId : SignedKnown(os2, ex2)[o] = SignedKnown(os, ex)[o]
    BY <1>1, <1>2, <1>4 DEF SignedKnown
  <2> QED BY <2>1, OrderSumSame
<1>10. ASSUME NEW p, p \notin H PROVE OrderSum(PasLeft(os2, p)) = OrderSum(PasLeft(os, p))
  <2>1. \A o \in OrderId : PasLeft(os2, p)[o] = PasLeft(os, p)[o]
    BY <1>1, <1>2, <1>3, <1>10 DEF PasLeft, PassiveOf
  <2> QED BY <2>1, OrderSumSame
<1>11. ASSUME NEW p \in H
       PROVE  OrderSum(PasLeft(os2, p)) = OrderSum(PasLeft(os, p)) + HedgeVolume(ps[p])
  <2> DEFINE e == NextHedge(ps, p)
             f == PasLeft(os, p)
             g == PasLeft(os2, p)
  <2>1. e \in new /\ PairOf(e) = p /\ e \in OrderId /\ ~IsActiveOrder(e) /\ e \notin DOMAIN os
    BY <1>1
  <2>2. f[e] = 0 /\ g[e] = HedgeVolume(ps[p])
    BY <1>2, <1>3, <2>1 DEF PasLeft, PassiveOf
  <2>3. \A o \in OrderId : o # e => g[o] = f[o]
    <3> SUFFICES ASSUME NEW o \in OrderId, o # e PROVE g[o] = f[o]
      OBVIOUS
    <3>1. o \in new => PairOf(o) # p
      BY <1>1
    <3> QED BY <1>1, <1>2, <1>3, <3>1 DEF PasLeft, PassiveOf
  <2>4. (\A o \in OrderId : f[o] \in Int) /\ OrderSum(f) \in Int
    <3>1. \A o \in OrderId : PasLeft(os, p)[o] \in Nat
      BY Terms
    <3>2. OrderSum(PasLeft(os, p)) \in Nat
      BY Sums
    <3> QED BY <3>1, <3>2
  <2>5. HedgeVolume(ps[p]) \in Nat
    BY <1>2
  <2> HIDE DEF e, f, g
  <2>6. g[e] \in Int
    BY <2>2, <2>5
  <2>7. OrderSum(g) = OrderSum(f) + (g[e] - f[e])
    BY <2>1, <2>3, <2>4, <2>6, OrderSumPoint
  <2>8. OrderSum(g) = OrderSum(f) + HedgeVolume(ps[p])
    BY <2>2, <2>5, <2>7
  <2> QED BY <2>8 DEF f, g
<1> QED BY <1>5, <1>6, <1>7, <1>8, <1>9, <1>10, <1>11 DEF TermsHedged

\* A pair with nothing frozen has no tracked order.
LEMMA NothingTracked ==
  ASSUME NEW ps, NEW os, NEW ex, NEW n, ExchTyped(ex), OrdersKnown(os, ex), Ledger(ps, os, ex, n),
         NEW p \in DOMAIN ps, ps[p].actFrozen = 0, ps[p].pasFrozen = 0
  PROVE  \A o \in DOMAIN os : PairOf(o) # p
<1> SUFFICES ASSUME NEW o \in DOMAIN os, PairOf(o) = p PROVE FALSE
  OBVIOUS
<1>1. Traced(os, ex) /\ ActLeft(os, p) = 0 /\ OrderSum(PasLeft(os, p)) = 0
  BY DEF Ledger, Matched
<1>2. o \in OrderId /\ Left(os, o) \in Nat /\ Left(os, o) >= 1
  <2>1. o \in OrderId
    BY <1>1, BookFields
  <2>2. Left(os, o) \in Nat /\ Left(os, o) >= 1
    BY <1>1, Terms
  <2> QED BY <2>1, <2>2
<1>3. CASE IsActiveOrder(o)
  <2>1. o = <<p, 0>>
    BY <1>2, <1>3, OrderIds
  <2> QED BY <1>1, <1>2, <2>1 DEF ActLeft
<1>4. CASE ~IsActiveOrder(o)
  <2> DEFINE f == PasLeft(os, p)
  <2>1. \A x \in OrderId : f[x] \in Nat
    BY <1>1, Terms
  <2>2. f[o] = Left(os, o)
    BY <1>2, <1>4 DEF PasLeft, PassiveOf
  <2> HIDE DEF f
  <2>3. f[o] <= OrderSum(f)
    BY <1>2, <2>1, FiniteIds, SumAtLeast DEF OrderSum
  <2>4. OrderSum(f) = 0
    BY <1>1 DEF f
  <2> QED BY <1>2, <2>2, <2>3, <2>4
<1> QED BY <1>3, <1>4

\* A trade keeps the ledger: a hedge is frozen as it is placed, and only a pair
\* without tracked orders is finished.
LEMMA TradeKeepsLedger ==
  ASSUME NEW ps, NEW os, NEW ex, NEW n, PairsTyped(ps, n), ExchTyped(ex), OrdersKnown(os, ex),
         Ledger(ps, os, ex, n), n \in Int, \A p \in DOMAIN ps : p < n,
         NEW H, NEW F, NEW ps2, NEW os2, NEW ex2, Traded(ps, os, ex, H, F, ps2, os2, ex2)
  PROVE  Ledger(ps2, os2, ex2, n)
<1> DEFINE new == Placements(ps, H)
<1>0. /\ Traced(os, ex) /\ Numbered(ps, ex, n) /\ Paired(ps, os) /\ Matched(ps, os)
      /\ Counted(ps, os, ex) /\ DOMAIN os \subseteq DOMAIN ex
      /\ \A o \in DOMAIN ex : o \in OrderId
  BY DEF Ledger, OrdersKnown, ExchTyped
<1>1. /\ \A o \in new : /\ o \in OrderId /\ PairOf(o) \in H /\ o = NextHedge(ps, PairOf(o))
                        /\ ~IsActiveOrder(o) /\ o \notin DOMAIN ex /\ o \notin DOMAIN os
      /\ \A p \in H : NextHedge(ps, p) \in new /\ PairOf(NextHedge(ps, p)) = p
      /\ \A o \in DOMAIN os : os2[o] = os[o]
      /\ \A o \in DOMAIN ex : ex2[o] = ex[o]
  BY <1>0, FreshHedges
<1>2. /\ H \subseteq DOMAIN ps /\ F \subseteq DOMAIN ps \ H /\ DOMAIN ps2 = DOMAIN ps \ F
      /\ DOMAIN os2 = DOMAIN os \union new /\ DOMAIN ex2 = DOMAIN ex \union new
      /\ \A o \in new : /\ os2[o].dir = ex2[o].dir /\ os2[o].volume = HedgeVolume(ps[PairOf(o)])
                        /\ os2[o].total = 0 /\ ex2[o].filled = 0
      /\ \A p \in H : HedgeVolume(ps[p]) \in Nat /\ HedgeVolume(ps[p]) >= 1
      /\ \A p \in H : ps[p].hedges \in Nat
      /\ \A p \in F : ps[p].actFrozen = 0 /\ ps[p].pasFrozen = 0
  BY DEF Traded
<1>3. \A p \in DOMAIN ps2 :
       /\ ps2[p].dir = ps[p].dir
       /\ ps2[p].actTotal = ps[p].actTotal /\ ps2[p].actFrozen = ps[p].actFrozen
       /\ ps2[p].pasTotal = ps[p].pasTotal
       /\ ps2[p].pasFrozen = IF p \in H THEN ps[p].pasFrozen + HedgeVolume(ps[p])
                                        ELSE ps[p].pasFrozen
       /\ ps2[p].hedges = IF p \in H THEN ps[p].hedges + 1 ELSE ps[p].hedges
  BY DEF Traded
<1>4. TermsHedged(ps, H, os, ex, os2, ex2)
  BY <1>0, TradeTerms
<1>5. \A p \in DOMAIN ps : ps[p].hedges \in Nat
  <2>1. \A p \in DOMAIN ps : ps[p] \in Pair
    BY DEF PairsTyped
  <2> QED BY <2>1, PairFields
<1> HIDE DEF new
<1>6. Traced(os2, ex2)
  BY <1>0, <1>1, <1>2 DEF Traced
<1>7. Numbered(ps2, ex2, n)
  <2> SUFFICES ASSUME NEW o \in DOMAIN ex2
               PROVE  /\ PairOf(o) < n
                      /\ PairOf(o) \in DOMAIN ps2 =>
                           /\ o[2] <= ps2[PairOf(o)].hedges
                           /\ IsActiveOrder(o) => ex2[o].dir = ps2[PairOf(o)].dir
    BY DEF Numbered
  <2>1. CASE o \in DOMAIN ex
    <3>1. /\ PairOf(o) < n
          /\ PairOf(o) \in DOMAIN ps => /\ o[2] <= ps[PairOf(o)].hedges
                                        /\ IsActiveOrder(o) => ex[o].dir = ps[PairOf(o)].dir
      BY <1>0, <2>1 DEF Numbered
    <3>2. o[2] \in Int
      BY <1>0, <2>1, OrderIds
    <3> QED BY <1>1, <1>2, <1>3, <1>5, <2>1, <3>1, <3>2
  <2>2. CASE o \in new
    <3>1. PairOf(o) \in H /\ o[2] = ps[PairOf(o)].hedges + 1 /\ ~IsActiveOrder(o)
      BY <1>1, <2>2 DEF NextHedge
    <3> QED BY <1>2, <1>3, <1>5, <3>1
  <2> QED BY <1>2, <2>1, <2>2
<1>8. Paired(ps2, os2)
  <2> SUFFICES ASSUME NEW o \in DOMAIN os2 PROVE PairOf(o) \in DOMAIN ps2
    BY DEF Paired
  <2>1. CASE o \in DOMAIN os
    <3>1. PairOf(o) \in DOMAIN ps
      BY <1>0, <2>1 DEF Paired
    <3>2. PairOf(o) \notin F
      BY <1>2, <2>1, <3>1, NothingTracked
    <3> QED BY <1>2, <3>1, <3>2
  <2>2. CASE o \in new
    BY <1>1, <1>2, <2>2
  <2> QED BY <1>2, <2>1, <2>2
<1>9. Matched(ps2, os2)
  <2> SUFFICES ASSUME NEW p \in DOMAIN ps2
               PROVE  /\ ps2[p].actFrozen = ActLeft(os2, p)
                      /\ ps2[p].pasFrozen = OrderSum(PasLeft(os2, p))
    BY DEF Matched
  <2>1. ps[p].actFrozen = ActLeft(os, p) /\ ps[p].pasFrozen = OrderSum(PasLeft(os, p))
    BY <1>0, <1>2 DEF Matched
  <2>2. /\ ActLeft(os2, p) = ActLeft(os, p)
        /\ OrderSum(PasLeft(os2, p)) =
             IF p \in H THEN OrderSum(PasLeft(os, p)) + HedgeVolume(ps[p])
                        ELSE OrderSum(PasLeft(os, p))
    BY <1>4 DEF TermsHedged
  <2> QED BY <1>3, <2>1, <2>2
<1>10. Counted(ps2, os2, ex2)
  <2> SUFFICES ASSUME NEW p \in DOMAIN ps2
               PROVE  /\ ps2[p].actTotal = ActKnown(os2, ex2, p)
                      /\ ps2[p].pasTotal = OrderSum(PasKnown(os2, ex2, p))
    BY DEF Counted
  <2>1. ps[p].actTotal = ActKnown(os, ex, p) /\ ps[p].pasTotal = OrderSum(PasKnown(os, ex, p))
    BY <1>0, <1>2 DEF Counted
  <2>2. /\ ActKnown(os2, ex2, p) = ActKnown(os, ex, p)
        /\ OrderSum(PasKnown(os2, ex2, p)) = OrderSum(PasKnown(os, ex, p))
    BY <1>4 DEF TermsHedged
  <2> QED BY <1>3, <2>1, <2>2
<1> QED BY <1>6, <1>7, <1>8, <1>9, <1>10 DEF Ledger

\* A pair that is finished is flat: its totals are the true fills, and what is
\* left to hedge is less than the smallest order.
LEMMA FinishedIsFlat ==
  ASSUME NEW ps, NEW os, NEW ex, NEW n, PairsTyped(ps, n), ExchTyped(ex), OrdersKnown(os, ex),
         Ledger(ps, os, ex, n), NotOverhedged(ps), NEW p \in DOMAIN ps,
         ps[p].actFrozen = 0, ps[p].pasFrozen = 0, HedgeVolume(ps[p]) < PasMin
  PROVE  Flat(ex, p)
<1>0. /\ \A o \in DOMAIN os : PairOf(o) # p
      /\ Traced(os, ex)
      /\ ps[p].actTotal = ActKnown(os, ex, p) /\ ps[p].pasTotal = OrderSum(PasKnown(os, ex, p))
  BY NothingTracked DEF Ledger, Counted
<1>1. ActKnown(os, ex, p) = ActFilled(ex, p)
  <2>1. <<p, 0>> \notin DOMAIN os
    BY <1>0 DEF PairOf
  <2> QED BY <2>1 DEF ActKnown, ActFilled, Known
<1>2. OrderSum(PasKnown(os, ex, p)) = OrderSum(PasFilled(ex, p))
  <2>1. \A o \in OrderId : PasKnown(os, ex, p)[o] = PasFilled(ex, p)[o]
    BY <1>0 DEF PasKnown, PasFilled, Known, PassiveOf
  <2> QED BY <2>1, OrderSumSame
<1> DEFINE a == ps[p].actTotal
           b == ps[p].pasTotal
<1>3. Gap(ex, p) = a - b
  BY <1>0, <1>1, <1>2 DEF Gap
<1>4. ps[p] \in Pair
  BY DEF PairsTyped
<1>5. a \in Nat /\ b \in Nat /\ PasLot \in Nat
  BY <1>4, PairFields, VolumeAssumption
<1>6. 2 * (b + 0 - a) <= PasLot
  BY DEF NotOverhedged
<1>7. HedgeVolume(ps[p]) = IF a - b - 0 > 0 THEN RoundLot(a - b - 0, PasLot) ELSE 0
  BY DEF HedgeVolume
<1> HIDE DEF a, b
<1>8. a - b - 0 = a - b /\ -PasLot <= 2 * (a - b)
  BY <1>5, <1>6
<1> QED BY <1>3, <1>7, <1>8 DEF Flat

\* The position takes over what the finished pairs counted, and nothing else.
LEMMA TradeKeepsWhole ==
  ASSUME NEW ps, NEW os, NEW ex, NEW n, n \in Int, PairsTyped(ps, n), ExchTyped(ex),
         OrdersKnown(os, ex), Ledger(ps, os, ex, n), NotOverhedged(ps), DOMAIN ps \subseteq PairId,
         NEW H, NEW F, NEW ps2, NEW os2, NEW ex2, Traded(ps, os, ex, H, F, ps2, os2, ex2),
         position \in Int, Whole(position, ps, os, ex, n)
  PROVE  Whole(PositionAfter(ps, F), ps2, os2, ex2, n)
<1>0. /\ Traced(os, ex) /\ Numbered(ps, ex, n) /\ DOMAIN os \subseteq DOMAIN ex
      /\ \A o \in DOMAIN ex : o \in OrderId
  BY DEF Ledger, OrdersKnown, ExchTyped
<1>1. TermsHedged(ps, H, os, ex, os2, ex2)
  BY <1>0, TradeTerms
<1>2. /\ F \subseteq DOMAIN ps /\ DOMAIN ps2 = DOMAIN ps \ F
      /\ DOMAIN os2 = DOMAIN os \union Placements(ps, H)
      /\ DOMAIN ex2 = DOMAIN ex \union Placements(ps, H)
      /\ \A p \in F : /\ ps[p].actFrozen = 0 /\ ps[p].pasFrozen = 0
                      /\ HedgeVolume(ps[p]) < PasMin
      /\ \A p \in DOMAIN ps2 : ps2[p].dir = ps[p].dir /\ ps2[p].actTotal = ps[p].actTotal
  BY DEF Traded
<1>3. OpenTracked(os2, ex2)
  <2>1. \A o \in DOMAIN ex : ex2[o] = ex[o]
    BY <1>0, FreshHedges
  <2> QED BY <1>2, <2>1 DEF Whole, OpenTracked
<1>4. FlatPairs(ps2, ex2, n)
  <2> SUFFICES ASSUME NEW p \in 1..(n - 1), p \notin DOMAIN ps2 PROVE Flat(ex2, p)
    BY DEF FlatPairs
  <2>1. Flat(ex, p)
    <3>1. CASE p \in F
      BY <1>2, <3>1, FinishedIsFlat
    <3>2. CASE p \notin F
      BY <1>2, <3>2 DEF Whole, FlatPairs
    <3> QED BY <3>1, <3>2
  <2>2. Gap(ex2, p) = Gap(ex, p)
    BY <1>1 DEF TermsHedged, Gap
  <2> QED BY <2>1, <2>2 DEF Flat
<1>5. Accounted(PositionAfter(ps, F), ps2, os2, ex2)
  <2> DEFINE fin  == [p \in F |-> ps[p].dir * ps[p].actTotal]
             all  == [p \in PairId |-> IF p \in F THEN ps[p].dir * ps[p].actTotal ELSE 0]
             f    == PairFill(ps)
             g    == PairFill(ps2)
  <2>1. (\A p \in PairId : f[p] \in Int) /\ PairSum(f) \in Int
    BY PairTerms
  <2>2. \A p \in F : p \in PairId /\ fin[p] = f[p] /\ fin[p] \in Int
    <3>1. \A p \in F : p \in PairId /\ fin[p] = f[p]
      BY <1>2 DEF PairFill
    <3> QED BY <2>1, <3>1
  <2>3. \A p \in PairId : all[p] = IF p \in F THEN fin[p] ELSE 0
    OBVIOUS
  <2>4. \A p \in PairId : f[p] = g[p] + all[p]
    <3> SUFFICES ASSUME NEW p \in PairId PROVE f[p] = g[p] + all[p]
      OBVIOUS
    <3>1. CASE p \in F
      <4>1. g[p] = 0 /\ all[p] = f[p]
        BY <1>2, <2>2, <2>3, <3>1 DEF PairFill
      <4> HIDE DEF f, g, all
      <4> QED BY <2>1, <4>1
    <3>2. CASE p \notin F
      <4>1. g[p] = f[p] /\ all[p] = 0
        BY <1>2, <2>3, <3>2 DEF PairFill
      <4> HIDE DEF f, g, all
      <4> QED BY <2>1, <4>1
    <3> QED BY <3>1, <3>2
  <2>5. \A p \in PairId : all[p] \in Int /\ g[p] \in Int
    <3>1. \A p \in PairId : all[p] \in Int
      <4> HIDE DEF f, fin, all
      <4> QED BY <2>2, <2>3
    <3>2. \A p \in PairId : g[p] \in Int
      <4>1. \A p \in PairId : p \in F => g[p] = 0
        BY <1>2 DEF PairFill
      <4>2. \A p \in PairId : p \notin F => g[p] = f[p]
        BY <1>2 DEF PairFill
      <4> HIDE DEF f, g
      <4> QED BY <2>1, <4>1, <4>2
    <3> QED BY <3>1, <3>2
  <2>6. SumFunction(fin) = SumFunctionOnSet(fin, F)
    BY DEF SumFunction
  <2>7. PositionAfter(ps, F) = position + SumFunction(fin)
    BY DEF PositionAfter
  <2>8. SumFunctionOnSet(fin, F) = PairSum(all)
    <3>1. F \in SUBSET PairId
      BY <1>2
    <3> HIDE DEF fin, all
    <3> QED BY <2>2, <2>3, <3>1, FiniteIds, SumWithin DEF PairSum
  <2>9. PairSum(f) = PairSum(g) + PairSum(all)
    <3> HIDE DEF f, g, all
    <3> QED BY <2>4, <2>5, FiniteIds, SumPlus DEF PairSum
  <2>10. PairSum(g) \in Int /\ PairSum(all) \in Int
    <3> HIDE DEF g, all
    <3> QED BY <2>5, FiniteIds, SumInt DEF PairSum
  <2>11. position + PairSum(f) = StartVolume + OrderSum(SignedKnown(os, ex))
    BY DEF Whole, Accounted
  <2>12. OrderSum(SignedKnown(os2, ex2)) = OrderSum(SignedKnown(os, ex))
    BY <1>1 DEF TermsHedged
  <2> HIDE DEF f, g, fin, all
  <2>13. PositionAfter(ps, F) + PairSum(g) = position + PairSum(f)
    <3>1. PositionAfter(ps, F) = position + PairSum(all)
      BY <2>6, <2>7, <2>8
    <3> QED BY <2>9, <2>10, <3>1
  <2> QED BY <2>11, <2>12, <2>13 DEF Accounted, g
<1> QED BY <1>3, <1>4, <1>5 DEF Whole

\* Asking for cancels changes nothing the ledger counts.
LEMMA CancelSameLedger ==
  ASSUME NEW os, NEW ex, NEW C, ExchTyped(ex), OrdersKnown(os, ex)
  PROVE  SameLedger(os, ex, CancelOrders(os, C), RequestCancels(ex, C))
<1>1. \A o \in DOMAIN os : /\ CancelOrders(os, C)[o].volume = os[o].volume
                           /\ CancelOrders(os, C)[o].total = os[o].total
                           /\ CancelOrders(os, C)[o].dir = os[o].dir
  BY DEF OrdersKnown, CancelOrders, Order
<1>2. \A o \in DOMAIN ex : /\ RequestCancels(ex, C)[o].volume = ex[o].volume
                           /\ RequestCancels(ex, C)[o].filled = ex[o].filled
                           /\ RequestCancels(ex, C)[o].dir = ex[o].dir
                           /\ RequestCancels(ex, C)[o].open = ex[o].open
  BY DEF ExchTyped, RequestCancels, ExchOrder
<1>3. DOMAIN CancelOrders(os, C) = DOMAIN os /\ DOMAIN RequestCancels(ex, C) = DOMAIN ex
  BY DEF CancelOrders, RequestCancels
<1> QED BY <1>1, <1>2, <1>3 DEF SameLedger

\* PairOrderTrade, cancels included, keeps the ledger and what is frozen on a side.
LEMMA TradeStep ==
  ASSUME NEW ps, NEW os, NEW P \in SUBSET DOMAIN ps, NEW C, Books(ps, os, exch, nextPair),
         Ledger(ps, os, exch, nextPair), nextPair \in 1..(PairBound + 1), position \in Int,
         PairOrderTrade(ps, os, P, C)
  PROVE  /\ Ledger(pairs', orders', exch', nextPair)
         /\ Whole(position, ps, os, exch, nextPair) =>
              Whole(position', pairs', orders', exch', nextPair)
         /\ \A d : OrderSum(SideLeft(orders', d)) = OrderSum(SideLeft(os, d))
<1> DEFINE cs == CancelOrders(os, C)
           ex == RequestCancels(exch, C)
           H  == Hedged(ps, P)
           F  == Finished(ps, P)
<1>1. /\ PairsTyped(ps, nextPair) /\ ExchTyped(exch) /\ OrdersKnown(os, exch)
      /\ NotOverhedged(ps) /\ DOMAIN os \subseteq DOMAIN exch
  BY DEF Books, OrdersKnown
<1>2. Books(ps, cs, ex, nextPair)
  BY CancelKeepsBooks
<1>3. ExchTyped(ex) /\ OrdersKnown(cs, ex)
  BY <1>2 DEF Books
<1>4. SameLedger(os, exch, cs, ex)
  BY <1>1, CancelSameLedger
<1>5. /\ Traded(ps, cs, ex, H, F, pairs', orders', exch')
      /\ position' = PositionAfter(ps, F)
  BY <1>1, TradeFacts
<1>6. nextPair \in Int /\ DOMAIN ps \subseteq PairId /\ \A p \in DOMAIN ps : p < nextPair
  BY <1>1, LimitAssumption DEF PairsTyped, PairId
<1> HIDE DEF cs, ex, H, F
<1>7. Ledger(ps, cs, ex, nextPair)
  BY <1>1, <1>4, SameKeepsLedger
<1>8. Ledger(pairs', orders', exch', nextPair)
  BY <1>1, <1>3, <1>5, <1>6, <1>7, TradeKeepsLedger
<1>9. ASSUME Whole(position, ps, os, exch, nextPair)
      PROVE  Whole(position', pairs', orders', exch', nextPair)
  <2>1. Whole(position, ps, cs, ex, nextPair)
    BY <1>1, <1>4, <1>9, SameKeepsLedger
  <2>2. Whole(PositionAfter(ps, F), pairs', orders', exch', nextPair)
    BY <1>1, <1>3, <1>5, <1>6, <1>7, <2>1, TradeKeepsWhole
  <2> QED BY <1>5, <2>2
<1>10. ASSUME NEW d PROVE OrderSum(SideLeft(orders', d)) = OrderSum(SideLeft(os, d))
  <2>1. SideLeft(cs, d) = SideLeft(os, d)
    BY <1>1, <1>4, SameTerms
  <2>2. TermsHedged(ps, H, cs, ex, orders', exch')
    BY <1>3, <1>5, <1>7, TradeTerms DEF Ledger
  <2>3. OrderSum(SideLeft(orders', d)) = OrderSum(SideLeft(cs, d))
    BY <2>2 DEF TermsHedged
  <2> QED BY <2>1, <2>3
<1> QED BY <1>8, <1>9, <1>10

-----------------------------------------------------------------------------
(* A new pair order *)

\* Pair n of direction dir, and its active order of volume v if it is sent.
Created(dir, v, sent, ps, os, ex, n, ps2, os2, ex2) ==
  /\ DOMAIN ps2 = DOMAIN ps \union {n}
  /\ \A p \in DOMAIN ps : p # n => ps2[p] = ps[p]
  /\ ps2[n].dir = dir /\ ps2[n].actTotal = 0 /\ ps2[n].pasTotal = 0 /\ ps2[n].pasFrozen = 0
  /\ ps2[n].actFrozen = (IF sent THEN v ELSE 0) /\ ps2[n].hedges = 0
  /\ DOMAIN os2 = DOMAIN os \union (IF sent THEN {<<n, 0>>} ELSE {})
  /\ DOMAIN ex2 = DOMAIN ex \union (IF sent THEN {<<n, 0>>} ELSE {})
  /\ \A o \in DOMAIN os : o # <<n, 0>> => os2[o] = os[o]
  /\ \A o \in DOMAIN ex : o # <<n, 0>> => ex2[o] = ex[o]
  /\ sent => LET o == <<n, 0>> IN
       /\ os2[o].dir = dir /\ os2[o].volume = v /\ os2[o].total = 0
       /\ ex2[o].dir = dir /\ ex2[o].filled = 0 /\ ex2[o].volume = v

\* The sum of zeros.
LEMMA SumZeros ==
  ASSUME NEW w, \A o \in OrderId : w[o] = 0
  PROVE  OrderSum(w) = 0
<1>1. SumFunctionOnSet(w, {}) = SumFunctionOnSet(w, OrderId)
  BY FiniteIds, SumWithin
<1> QED BY <1>1, SumEmpty DEF OrderSum

\* The terms of a new pair are those of its active order.
TermsCreated(dir, v, sent, os, ex, n, os2, ex2) ==
  /\ \A p : p # n =>
       /\ ActLeft(os2, p) = ActLeft(os, p) /\ ActKnown(os2, ex2, p) = ActKnown(os, ex, p)
       /\ ActFilled(ex2, p) = ActFilled(ex, p)
       /\ OrderSum(PasLeft(os2, p)) = OrderSum(PasLeft(os, p))
       /\ OrderSum(PasKnown(os2, ex2, p)) = OrderSum(PasKnown(os, ex, p))
       /\ OrderSum(PasFilled(ex2, p)) = OrderSum(PasFilled(ex, p))
  /\ ActLeft(os2, n) = (IF sent THEN v ELSE 0) /\ ActKnown(os2, ex2, n) = 0
  /\ OrderSum(PasLeft(os2, n)) = 0 /\ OrderSum(PasKnown(os2, ex2, n)) = 0
  /\ OrderSum(SignedKnown(os2, ex2)) = OrderSum(SignedKnown(os, ex))
  /\ \A d : OrderSum(SideLeft(os2, d)) =
              OrderSum(SideLeft(os, d)) + (IF sent /\ d = dir THEN v ELSE 0)

\* A new pair and its active order add the volume of the order to one side.
LEMMA CreateTerms ==
  ASSUME NEW ps, NEW os, NEW ex, NEW n \in PairId, ExchTyped(ex), OrdersKnown(os, ex), Traced(os, ex),
         Numbered(ps, ex, n), NEW dir \in {1, -1}, NEW v \in Nat, NEW sent \in BOOLEAN,
         NEW ps2, NEW os2, NEW ex2, Created(dir, v, sent, ps, os, ex, n, ps2, os2, ex2)
  PROVE  TermsCreated(dir, v, sent, os, ex, n, os2, ex2)
<1> DEFINE e == <<n, 0>>
<1>0. /\ DOMAIN os \subseteq DOMAIN ex /\ \A o \in DOMAIN ex : o \in OrderId
      /\ \A o \in DOMAIN ex : PairOf(o) # n
  <2>1. \A o \in DOMAIN ex : PairOf(o) < n
    BY DEF Numbered
  <2> QED BY <2>1 DEF OrdersKnown, ExchTyped, PairId
<1>1. /\ e \in OrderId /\ IsActiveOrder(e) /\ PairOf(e) = n /\ e \notin DOMAIN ex /\ e \notin DOMAIN os
  <2>1. e \in OrderId /\ IsActiveOrder(e) /\ PairOf(e) = n
    BY LimitAssumption DEF OrderId, IsActiveOrder, PairOf
  <2> QED BY <1>0, <2>1
<1>2. /\ DOMAIN os2 = DOMAIN os \union (IF sent THEN {e} ELSE {})
      /\ DOMAIN ex2 = DOMAIN ex \union (IF sent THEN {e} ELSE {})
      /\ \A o \in DOMAIN os : os2[o] = os[o]
      /\ \A o \in DOMAIN ex : ex2[o] = ex[o]
      /\ sent => /\ os2[e].dir = dir /\ os2[e].volume = v /\ os2[e].total = 0
                 /\ ex2[e].dir = dir /\ ex2[e].filled = 0
  BY <1>1 DEF Created
<1>3. \A p : <<p, 0>> = e <=> p = n
  OBVIOUS
<1> HIDE DEF e
<1>4. (\A o \in DOMAIN os : Left(os2, o) = Left(os, o)) /\ (sent => Left(os2, e) = v)
  BY <1>1, <1>2 DEF Left
<1>5. (\A o \in DOMAIN ex : Known(os2, ex2, o) = Known(os, ex, o)) /\ (sent => Known(os2, ex2, e) = 0)
  BY <1>0, <1>1, <1>2 DEF Known
<1>6. ASSUME NEW p, p # n
      PROVE  /\ ActLeft(os2, p) = ActLeft(os, p) /\ ActKnown(os2, ex2, p) = ActKnown(os, ex, p)
             /\ ActFilled(ex2, p) = ActFilled(ex, p)
  <2>1. <<p, 0>> # e
    BY <1>3, <1>6
  <2> QED BY <1>2, <1>4, <1>5, <2>1 DEF ActLeft, ActKnown, ActFilled
<1>7. ActLeft(os2, n) = (IF sent THEN v ELSE 0) /\ ActKnown(os2, ex2, n) = 0
  <2>1. e = <<n, 0>>
    BY DEF e
  <2> QED BY <1>1, <1>2, <1>4, <1>5, <2>1 DEF ActLeft, ActKnown
<1>8. ASSUME NEW p
      PROVE  /\ OrderSum(PasLeft(os2, p)) = OrderSum(PasLeft(os, p))
             /\ OrderSum(PasKnown(os2, ex2, p)) = OrderSum(PasKnown(os, ex, p))
             /\ OrderSum(PasFilled(ex2, p)) = OrderSum(PasFilled(ex, p))
  <2>1. \A o \in OrderId : PasLeft(os2, p)[o] = PasLeft(os, p)[o]
    BY <1>1, <1>2, <1>4 DEF PasLeft, PassiveOf
  <2>2. \A o \in OrderId : PasKnown(os2, ex2, p)[o] = PasKnown(os, ex, p)[o]
    BY <1>1, <1>2, <1>5 DEF PasKnown, PassiveOf
  <2>3. \A o \in OrderId : PasFilled(ex2, p)[o] = PasFilled(ex, p)[o]
    BY <1>1, <1>2 DEF PasFilled, PassiveOf
  <2> QED BY <2>1, <2>2, <2>3, OrderSumSame
<1>9. OrderSum(PasLeft(os, n)) = 0 /\ OrderSum(PasKnown(os, ex, n)) = 0
  <2>1. \A o \in OrderId : PasLeft(os, n)[o] = 0
    BY <1>0 DEF PasLeft, PassiveOf
  <2>2. \A o \in OrderId : PasKnown(os, ex, n)[o] = 0
    BY <1>0 DEF PasKnown, PassiveOf
  <2> QED BY <2>1, <2>2, SumZeros
<1>10. OrderSum(SignedKnown(os2, ex2)) = OrderSum(SignedKnown(os, ex))
  <2>1. \A o \in OrderId : SignedKnown(os2, ex2)[o] = SignedKnown(os, ex)[o]
    <3> SUFFICES ASSUME NEW o \in OrderId PROVE SignedKnown(os2, ex2)[o] = SignedKnown(os, ex)[o]
      OBVIOUS
    <3>1. CASE o # e
      BY <1>2, <1>5, <3>1 DEF SignedKnown
    <3>2. CASE o = e
      <4>1. SignedKnown(os, ex)[e] = 0
        BY <1>1 DEF SignedKnown
      <4>2. sent => SignedKnown(os2, ex2)[e] = dir * 0
        BY <1>1, <1>2, <1>5 DEF SignedKnown
      <4>3. ~sent => SignedKnown(os2, ex2)[e] = 0
        BY <1>1, <1>2 DEF SignedKnown
      <4>4. dir * 0 = 0
        OBVIOUS
      <4> QED BY <3>2, <4>1, <4>2, <4>3, <4>4
    <3> QED BY <3>1, <3>2
  <2> QED BY <2>1, OrderSumSame
<1>11. ASSUME NEW d
       PROVE OrderSum(SideLeft(os2, d)) =
               OrderSum(SideLeft(os, d)) + (IF sent /\ d = dir THEN v ELSE 0)
  <2> DEFINE f == SideLeft(os, d)
             g == SideLeft(os2, d)
             r == IF sent /\ d = dir THEN v ELSE 0
  <2>1. f[e] = 0 /\ g[e] = r
    BY <1>1, <1>2, <1>4 DEF SideLeft
  <2>2. \A o \in OrderId : o # e => g[o] = f[o]
    BY <1>2, <1>4 DEF SideLeft
  <2>3. (\A o \in OrderId : f[o] \in Int) /\ OrderSum(f) \in Int
    <3>1. \A x \in OrderId : SideLeft(os, d)[x] \in Nat
      BY Terms
    <3>2. OrderSum(SideLeft(os, d)) \in Nat
      BY Sums
    <3> QED BY <3>1, <3>2
  <2>4. r \in Int
    OBVIOUS
  <2> HIDE DEF f, g, r
  <2>5. g[e] \in Int
    BY <2>1, <2>4
  <2>6. OrderSum(g) = OrderSum(f) + (g[e] - f[e])
    BY <1>1, <2>2, <2>3, <2>5, OrderSumPoint
  <2>7. OrderSum(g) = OrderSum(f) + r
    BY <2>1, <2>3, <2>4, <2>6
  <2> QED BY <2>7 DEF f, g, r
<1> QED BY <1>6, <1>7, <1>8, <1>9, <1>10, <1>11 DEF TermsCreated

\* A new pair starts with a ledger of its own.
LEMMA CreateKeepsLedger ==
  ASSUME NEW ps, NEW os, NEW ex, NEW n \in PairId, PairsTyped(ps, n), ExchTyped(ex),
         OrdersKnown(os, ex), Ledger(ps, os, ex, n),
         NEW dir \in {1, -1}, NEW v \in Nat, v > 0, NEW sent \in BOOLEAN,
         NEW ps2, NEW os2, NEW ex2, Created(dir, v, sent, ps, os, ex, n, ps2, os2, ex2)
  PROVE  Ledger(ps2, os2, ex2, n + 1)
<1> DEFINE e == <<n, 0>>
<1>0. /\ Traced(os, ex) /\ Numbered(ps, ex, n) /\ Paired(ps, os) /\ Matched(ps, os)
      /\ Counted(ps, os, ex) /\ DOMAIN os \subseteq DOMAIN ex
      /\ \A o \in DOMAIN ex : o \in OrderId /\ PairOf(o) < n /\ PairOf(o) # n /\ PairOf(o) \in Int
  <2>1. \A o \in DOMAIN ex : o \in OrderId /\ PairOf(o) < n
    BY DEF Ledger, Numbered, ExchTyped
  <2>2. \A o \in DOMAIN ex : PairOf(o) \in Int
    BY <2>1, OrderIds DEF PairId
  <2> QED BY <2>1, <2>2 DEF Ledger, OrdersKnown, PairId
<1>1. n \in Int /\ n \notin DOMAIN ps /\ PairOf(e) = n /\ e[2] = 0 /\ IsActiveOrder(e)
  BY DEF PairsTyped, PairId, PairOf, IsActiveOrder
<1>2. e \notin DOMAIN ex /\ e \notin DOMAIN os
  BY <1>0, <1>1
<1>3. /\ DOMAIN ps2 = DOMAIN ps \union {n}
      /\ \A p \in DOMAIN ps : ps2[p] = ps[p]
      /\ ps2[n].dir = dir /\ ps2[n].actTotal = 0 /\ ps2[n].pasTotal = 0 /\ ps2[n].pasFrozen = 0
      /\ ps2[n].actFrozen = (IF sent THEN v ELSE 0) /\ ps2[n].hedges = 0
      /\ DOMAIN os2 = DOMAIN os \union (IF sent THEN {e} ELSE {})
      /\ DOMAIN ex2 = DOMAIN ex \union (IF sent THEN {e} ELSE {})
      /\ \A o \in DOMAIN os : os2[o] = os[o]
      /\ \A o \in DOMAIN ex : ex2[o] = ex[o]
      /\ sent => /\ os2[e].dir = dir /\ os2[e].volume = v /\ os2[e].total = 0
                 /\ ex2[e].dir = dir /\ ex2[e].filled = 0
  BY <1>1, <1>2 DEF Created
<1>4. TermsCreated(dir, v, sent, os, ex, n, os2, ex2)
  BY <1>0, CreateTerms
<1> HIDE DEF e
<1>5. Traced(os2, ex2)
  BY <1>0, <1>3 DEF Traced
<1>6. Numbered(ps2, ex2, n + 1)
  <2> SUFFICES ASSUME NEW o \in DOMAIN ex2
               PROVE  /\ PairOf(o) < n + 1
                      /\ PairOf(o) \in DOMAIN ps2 =>
                           /\ o[2] <= ps2[PairOf(o)].hedges
                           /\ IsActiveOrder(o) => ex2[o].dir = ps2[PairOf(o)].dir
    BY DEF Numbered
  <2>1. CASE o \in DOMAIN ex
    BY <1>0, <1>1, <1>3, <2>1 DEF Numbered
  <2>2. CASE sent /\ o = e
    BY <1>1, <1>3, <2>2
  <2> QED BY <1>3, <2>1, <2>2
<1>7. Paired(ps2, os2)
  BY <1>0, <1>1, <1>3 DEF Paired
<1>8. Matched(ps2, os2)
  <2> SUFFICES ASSUME NEW p \in DOMAIN ps2
               PROVE  /\ ps2[p].actFrozen = ActLeft(os2, p)
                      /\ ps2[p].pasFrozen = OrderSum(PasLeft(os2, p))
    BY DEF Matched
  <2>1. CASE p = n
    BY <1>3, <1>4, <2>1 DEF TermsCreated
  <2>2. CASE p # n
    BY <1>0, <1>3, <1>4, <2>2 DEF TermsCreated, Matched
  <2> QED BY <2>1, <2>2
<1>9. Counted(ps2, os2, ex2)
  <2> SUFFICES ASSUME NEW p \in DOMAIN ps2
               PROVE  /\ ps2[p].actTotal = ActKnown(os2, ex2, p)
                      /\ ps2[p].pasTotal = OrderSum(PasKnown(os2, ex2, p))
    BY DEF Counted
  <2>1. CASE p = n
    BY <1>3, <1>4, <2>1 DEF TermsCreated
  <2>2. CASE p # n
    BY <1>0, <1>3, <1>4, <2>2 DEF TermsCreated, Counted
  <2> QED BY <2>1, <2>2
<1> QED BY <1>5, <1>6, <1>7, <1>8, <1>9 DEF Ledger

\* A new pair leaves the account and the finished pairs alone.
LEMMA CreateKeepsWhole ==
  ASSUME NEW ps, NEW os, NEW ex, NEW n \in PairId, PairsTyped(ps, n), ExchTyped(ex),
         OrdersKnown(os, ex), Ledger(ps, os, ex, n), NEW pos, Whole(pos, ps, os, ex, n),
         NEW dir \in {1, -1}, NEW v \in Nat, v > 0, NEW sent \in BOOLEAN,
         NEW ps2, NEW os2, NEW ex2, Created(dir, v, sent, ps, os, ex, n, ps2, os2, ex2)
  PROVE  Whole(pos, ps2, os2, ex2, n + 1)
<1>0. Traced(os, ex) /\ Numbered(ps, ex, n) /\ \A o \in DOMAIN ex : PairOf(o) < n
  BY DEF Ledger, Numbered
<1>1. TermsCreated(dir, v, sent, os, ex, n, os2, ex2)
  BY <1>0, CreateTerms
<1>2. n \in Int /\ n \notin DOMAIN ps
  BY DEF PairsTyped, PairId
<1>3. /\ DOMAIN ps2 = DOMAIN ps \union {n} /\ \A p \in DOMAIN ps : ps2[p] = ps[p]
      /\ ps2[n].dir = dir /\ ps2[n].actTotal = 0
  BY <1>2 DEF Created
<1>4. OpenTracked(os2, ex2)
  <2>1. <<n, 0>> \notin DOMAIN ex
    BY <1>0, <1>2 DEF PairOf
  <2> QED BY <2>1 DEF Whole, OpenTracked, Created
<1>5. FlatPairs(ps2, ex2, n + 1)
  <2> SUFFICES ASSUME NEW p \in 1..((n + 1) - 1), p \notin DOMAIN ps2 PROVE Flat(ex2, p)
    BY DEF FlatPairs
  <2>1. p # n /\ p \in 1..(n - 1) /\ p \notin DOMAIN ps
    BY <1>2, <1>3
  <2>2. Flat(ex, p)
    BY <2>1 DEF Whole, FlatPairs
  <2>3. Gap(ex2, p) = Gap(ex, p)
    BY <1>1, <2>1 DEF TermsCreated, Gap
  <2> QED BY <2>2, <2>3 DEF Flat
<1>6. PairSum(PairFill(ps2)) = PairSum(PairFill(ps))
  <2>1. \A p \in PairId : PairFill(ps2)[p] = PairFill(ps)[p]
    <3> SUFFICES ASSUME NEW p \in PairId PROVE PairFill(ps2)[p] = PairFill(ps)[p]
      OBVIOUS
    <3>1. CASE p # n
      BY <1>3, <3>1 DEF PairFill
    <3>2. CASE p = n
      <4>1. PairFill(ps2)[p] = dir * 0 /\ PairFill(ps)[p] = 0
        BY <1>2, <1>3, <3>2 DEF PairFill
      <4> QED BY <4>1
    <3> QED BY <3>1, <3>2
  <2> QED BY <2>1, FiniteIds, SumCongruent DEF PairSum
<1>7. Accounted(pos, ps2, os2, ex2)
  BY <1>1, <1>6 DEF Whole, Accounted, TermsCreated
<1> QED BY <1>4, <1>5, <1>7 DEF Whole

-----------------------------------------------------------------------------
(* The inductive invariant of the ledger *)

\* An algo order that reports FILLED or CANCELED works nothing any more, and a
\* deleted one tracks nothing.
Ended ==
  /\ algoStatus \in {"FILLED", "CANCELED"} => DOMAIN pairs = {}
  /\ algoStatus = "DELETED" => DOMAIN pairs = {} /\ DOMAIN orders = {}

JInv ==
  /\ IInv
  /\ Ledger(pairs, orders, exch, nextPair)
  /\ Ended
  /\ algoStatus # "DELETED" => Whole(position, pairs, orders, exch, nextPair)

\* The parts of the invariant the lemmas ask for.
LEMMA JInvFields ==
  JInv => /\ PairsTyped(pairs, nextPair) /\ ExchTyped(exch) /\ OrdersKnown(orders, exch)
          /\ NotOverhedged(pairs) /\ Traced(orders, exch) /\ Numbered(pairs, exch, nextPair)
          /\ Paired(pairs, orders) /\ nextPair \in 1..(PairBound + 1) /\ nextPair \in Int
          /\ position \in Int /\ frozenLong \in Int /\ frozenShort \in Int
          /\ DOMAIN orders \subseteq DOMAIN exch
  BY DEF JInv, IInv, ScalarsTyped, Books, Ledger, OrdersKnown

\* What OnOrder does to the pair and the child order, field by field.
LEMMA ReportFacts ==
  ASSUME JInv, NEW o \in DOMAIN orders, PairOf(o) \in DOMAIN pairs,
         NEW st \in LiveStatus \union {"DONE"}, NEW k \in 0..exch[o].volume, NEW isQuery \in BOOLEAN
  PROVE  Reported(o, k, st = "DONE", pairs, orders,
                  PairsReported(o, k, st = "DONE"), OrdersReported(o, st, k, isQuery))
<1> DEFINE done == st = "DONE"
           ps   == PairsReported(o, k, done)
           os   == OrdersReported(o, st, k, isQuery)
           old  == pairs[PairOf(o)]
           new  == UpdatePair(old, o, k, done)
           fill == k - orders[o].total
           left == IF done THEN orders[o].volume - k ELSE 0
           g    == Gone(orders, o, k, done)
<1>1. old \in Pair /\ orders[o] \in Order /\ exch[o].volume \in Nat
  <2>1. exch[o] \in ExchOrder
    BY JInvFields DEF ExchTyped
  <2> QED BY <2>1, JInvFields DEF PairsTyped, OrdersKnown, ExchOrder
<1>2. k \in Nat /\ orders[o].total \in Nat /\ orders[o].volume \in Nat
  BY <1>1, OrderFields
<1>3. /\ DOMAIN ps = DOMAIN pairs /\ ps[PairOf(o)] = new
      /\ \A p \in DOMAIN pairs : p # PairOf(o) => ps[p] = pairs[p]
  BY DEF PairsReported
<1>4. fill \in Int /\ left \in Int /\ g = fill + left
  BY <1>2 DEF Gone, Left
<1>5. new = IF IsActiveOrder(o) THEN [old EXCEPT !.actTotal = k, !.actFrozen = @ - fill - left]
            ELSE [old EXCEPT !.pasTotal = @ + fill, !.pasFrozen = @ - fill - left]
  BY DEF UpdatePair
<1>6. /\ new.dir = old.dir /\ new.hedges = old.hedges
      /\ IsActiveOrder(o) =>
           /\ new.actTotal = k /\ new.actFrozen = old.actFrozen - fill - left
           /\ new.pasTotal = old.pasTotal /\ new.pasFrozen = old.pasFrozen
      /\ ~IsActiveOrder(o) =>
           /\ new.actTotal = old.actTotal /\ new.actFrozen = old.actFrozen
           /\ new.pasTotal = old.pasTotal + fill
           /\ new.pasFrozen = old.pasFrozen - fill - left
  <2> HIDE DEF old, new, fill, left
  <2>1. CASE IsActiveOrder(o)
    <3> DEFINE a == old.actFrozen - fill - left
    <3>1. new = [old EXCEPT !.actTotal = k, !.actFrozen = a]
      BY <1>5, <2>1
    <3> HIDE DEF a
    <3>2. /\ new.dir = old.dir /\ new.hedges = old.hedges /\ new.actTotal = k /\ new.actFrozen = a
          /\ new.pasTotal = old.pasTotal /\ new.pasFrozen = old.pasFrozen
      BY <1>1, <3>1, Zenon DEF Pair
    <3> QED BY <2>1, <3>2 DEF a
  <2>2. CASE ~IsActiveOrder(o)
    <3> DEFINE a == old.pasFrozen - fill - left
               b == old.pasTotal + fill
    <3>1. new = [old EXCEPT !.pasTotal = b, !.pasFrozen = a]
      BY <1>5, <2>2
    <3> HIDE DEF a, b
    <3>2. /\ new.dir = old.dir /\ new.hedges = old.hedges /\ new.actTotal = old.actTotal
          /\ new.actFrozen = old.actFrozen /\ new.pasTotal = b /\ new.pasFrozen = a
      BY <1>1, <3>1, Zenon DEF Pair
    <3> QED BY <2>2, <3>2 DEF a, b
  <2> QED BY <2>1, <2>2
<1>7. /\ old.actFrozen - fill - left = old.actFrozen - g
      /\ old.pasFrozen - fill - left = old.pasFrozen - g
  <2>1. old.actFrozen \in Int /\ old.pasFrozen \in Int
    BY <1>1, PairFields
  <2> HIDE DEF old, fill, left, g
  <2> QED BY <1>4, <2>1
<1>8. /\ DOMAIN os = IF done THEN DOMAIN orders \ {o} ELSE DOMAIN orders
      /\ \A x \in DOMAIN orders : x # o => os[x] = orders[x]
      /\ ~done => os[o] = UpdateOrder(orders[o], st, k, isQuery)
  BY DEF OrdersReported, Without
<1>9. ~done => os[o].dir = orders[o].dir /\ os[o].volume = orders[o].volume /\ os[o].total = k
  <2> SUFFICES ASSUME ~done
               PROVE os[o].dir = orders[o].dir /\ os[o].volume = orders[o].volume /\ os[o].total = k
    OBVIOUS
  <2> DEFINE n == IF isQuery THEN Least(orders[o].queries + 1, MaxQueries + 1) ELSE 0
             q == os[o]
             ord == orders[o]
  <2>1. q = [ord EXCEPT !.status = st, !.total = k, !.old = FALSE, !.queries = n]
    BY <1>8 DEF UpdateOrder
  <2>2. ord \in Order
    BY <1>1
  <2> HIDE DEF n, q, ord
  <2>3. q.dir = ord.dir /\ q.volume = ord.volume /\ q.total = k
    BY <2>1, <2>2, Zenon DEF Order
  <2> QED BY <2>3 DEF q, ord
<1> HIDE DEF ps, os, new, g, fill, left, old
<1>10. Reported(o, k, done, pairs, orders, ps, os)
  BY <1>3, <1>6, <1>7, <1>8, <1>9 DEF Reported, old, g, fill
<1> QED BY <1>10 DEF ps, os

\* What a report carries is what the exchange knows of the order, now or earlier.
LEMMA ReportTruthful ==
  ASSUME JInv, NEW o \in DOMAIN orders, NEW st \in LiveStatus \union {"DONE"},
         NEW k \in 0..exch[o].volume, Reportable(o, st, k), ~OutOfOrder(o, k)
  PROVE  Truthful(o, k, st = "DONE", orders, exch)
<1>1. /\ exch[o].filled \in Nat /\ exch[o].volume \in Nat /\ orders[o].total \in Nat
  BY JInvFields, BookFields
<1>2. k \in Nat /\ orders[o].total <= k
  BY <1>1 DEF OutOfOrder
<1>3. k <= exch[o].filled /\ (st = "DONE" => ~exch[o].open /\ k = exch[o].filled)
      /\ (st # "DONE" => k < exch[o].volume)
  BY <1>1, <1>2 DEF Reportable
<1> QED BY <1>2, <1>3 DEF Truthful

\* A report and the trade that follows keep the ledger.
LEMMA OnOrderStep ==
  ASSUME JInv, NEW o \in DOMAIN orders, NEW st \in LiveStatus \union {"DONE"},
         NEW k \in 0..exch[o].volume, NEW isQuery \in BOOLEAN, NEW pass \in BOOLEAN, NEW C,
         Reportable(o, st, k), OnOrder(o, st, k, isQuery, pass, C)
  PROVE  /\ JInv'
         /\ \A d : OrderSum(SideLeft(orders', d)) = OrderSum(SideLeft(orders, d)) -
              (IF IsActiveOrder(o) /\ orders[o].dir = d THEN Gone(orders, o, k, st = "DONE") ELSE 0)
<1> DEFINE done == st = "DONE"
           ps   == PairsReported(o, k, done)
           os   == OrdersReported(o, st, k, isQuery)
           P    == IF (done \/ (IsActiveOrder(o) /\ k > orders[o].total)) /\ pass
                   THEN {PairOf(o)} ELSE {}
<1>1. /\ PairOf(o) \in DOMAIN pairs /\ ~OutOfOrder(o, k)
      /\ PairOrderTrade(ps, os, P, C)
      /\ UNCHANGED <<algoVars, nextPair>>
  BY DEF OnOrder, PairsReported, OrdersReported
<1>2. IInv'
  BY OnOrderKeepsIInv DEF JInv
<1>3. Books(ps, os, exch, nextPair)
  BY <1>1, ReportKeepsBooks DEF JInv
<1>4. Reported(o, k, done, pairs, orders, ps, os)
  BY <1>1, ReportFacts
<1>5. Truthful(o, k, done, orders, exch)
  BY <1>1, ReportTruthful
<1>6. P \in SUBSET DOMAIN ps
  <2>1. PairOf(o) \in DOMAIN ps
    BY <1>1 DEF PairsReported
  <2> QED BY <2>1
<1>7. done \in BOOLEAN
  OBVIOUS
<1>8. k \in Nat
  BY <1>5 DEF Truthful
<1> HIDE DEF ps, os, P, done
<1>9. Ledger(ps, os, exch, nextPair)
  BY <1>4, <1>5, <1>7, JInvFields, ReportKeepsLedger DEF JInv
<1>10. /\ Ledger(pairs', orders', exch', nextPair)
       /\ Whole(position, ps, os, exch, nextPair) =>
            Whole(position', pairs', orders', exch', nextPair)
       /\ \A d : OrderSum(SideLeft(orders', d)) = OrderSum(SideLeft(os, d))
  BY <1>1, <1>3, <1>6, <1>9, JInvFields, TradeStep
<1>11. algoStatus \notin {"FILLED", "CANCELED", "DELETED"}
  BY <1>1 DEF JInv, Ended
<1>12. Whole(position', pairs', orders', exch', nextPair)
  <2>1. Whole(position, pairs, orders, exch, nextPair)
    BY <1>11 DEF JInv
  <2>2. Whole(position, ps, os, exch, nextPair)
    BY <1>4, <1>5, <1>7, <2>1, JInvFields, ReportKeepsWhole DEF JInv
  <2> QED BY <1>10, <2>2
<1>13. JInv'
  BY <1>1, <1>2, <1>10, <1>11, <1>12 DEF JInv, Ended, algoVars
<1>14. ASSUME NEW d
       PROVE  OrderSum(SideLeft(orders', d)) = OrderSum(SideLeft(orders, d)) -
                (IF IsActiveOrder(o) /\ orders[o].dir = d THEN Gone(orders, o, k, done) ELSE 0)
  <2>1. TermsMoved(o, k, done, orders, os, exch)
    BY <1>4, <1>5, <1>7, JInvFields, ReportTerms
  <2>2. OrderSum(SideLeft(os, d)) = OrderSum(SideLeft(orders, d)) -
          (IF IsActiveOrder(o) /\ orders[o].dir = d THEN Gone(orders, o, k, done) ELSE 0)
    BY <1>7, <1>8, <2>1, JInvFields, ReportSides
  <2> QED BY <1>10, <2>2
<1> QED BY <1>13, <1>14 DEF done

\* Creating a pair order keeps the ledger and freezes what its order asks for.
LEMMA CreateStep ==
  ASSUME JInv, algoStatus = "NEW", NEW dir \in {1, -1}, NEW v \in Int, NEW funded \in BOOLEAN,
         NEW C, CreatePairOrder(dir, v, funded, C)
  PROVE  /\ JInv'
         /\ \A d : OrderSum(SideLeft(orders', d)) = OrderSum(SideLeft(orders, d)) +
              (IF (v >= ActMin /\ funded) /\ d = dir THEN v ELSE 0)
         /\ PairSum(PairFill(pairs')) = PairSum(PairFill(pairs))
<1> DEFINE cs   == CancelOrders(orders, C)
           ex   == RequestCancels(exch, C)
           sent == v >= ActMin /\ funded
           o    == <<nextPair, 0>>
           pr   == [dir |-> dir, actTotal |-> 0, actFrozen |-> IF sent THEN v ELSE 0,
                    pasTotal |-> 0, pasFrozen |-> 0, hedges |-> 0]
<1>0. IInv'
  BY CreateKeepsIInv DEF JInv
<1>1. /\ v > 0 /\ nextPair <= PairBound /\ nextPair' = nextPair + 1
      /\ pairs' = [p \in DOMAIN pairs \union {nextPair} |-> IF p = nextPair THEN pr ELSE pairs[p]]
      /\ orders' = [x \in DOMAIN cs \union (IF sent THEN {o} ELSE {}) |->
                      IF x = o THEN NewOrder(dir, v) ELSE cs[x]]
      /\ exch' = [x \in DOMAIN ex \union (IF sent THEN {o} ELSE {}) |->
                    IF x = o THEN Placed(dir, v) ELSE ex[x]]
      /\ UNCHANGED <<algoStatus, position>>
  BY DEF CreatePairOrder
<1>2. v \in Nat /\ v > 0 /\ sent \in BOOLEAN /\ nextPair \in PairId
  BY <1>1, JInvFields, LimitAssumption DEF PairId
<1>3. /\ SameLedger(orders, exch, cs, ex) /\ ExchTyped(ex) /\ OrdersKnown(cs, ex)
  <2>1. Books(pairs, cs, ex, nextPair)
    BY CancelKeepsBooks DEF JInv, IInv
  <2> QED BY <2>1, JInvFields, CancelSameLedger DEF Books
<1>4. Ledger(pairs, cs, ex, nextPair) /\ Whole(position, pairs, cs, ex, nextPair)
  <2>1. Whole(position, pairs, orders, exch, nextPair) /\ Ledger(pairs, orders, exch, nextPair)
    BY DEF JInv
  <2> HIDE DEF cs, ex
  <2> QED BY <1>3, <2>1, JInvFields, SameKeepsLedger
<1>5. Created(dir, v, sent, pairs, cs, ex, nextPair, pairs', orders', exch')
  <2>1. /\ pr.dir = dir /\ pr.actTotal = 0 /\ pr.pasTotal = 0 /\ pr.pasFrozen = 0
        /\ pr.actFrozen = (IF sent THEN v ELSE 0) /\ pr.hedges = 0
    OBVIOUS
  <2>2. /\ NewOrder(dir, v).dir = dir /\ NewOrder(dir, v).volume = v /\ NewOrder(dir, v).total = 0
        /\ Placed(dir, v).dir = dir /\ Placed(dir, v).filled = 0 /\ Placed(dir, v).volume = v
    BY DEF NewOrder, Placed
  <2> HIDE DEF cs, ex, sent, pr
  <2> QED BY <1>1, <2>1, <2>2 DEF Created
<1> HIDE DEF cs, ex, sent, pr
<1>6. Ledger(pairs', orders', exch', nextPair + 1)
  BY <1>2, <1>3, <1>4, <1>5, JInvFields, CreateKeepsLedger
<1>7. Whole(position, pairs', orders', exch', nextPair + 1)
  BY <1>2, <1>3, <1>4, <1>5, JInvFields, CreateKeepsWhole
<1>8. JInv'
  BY <1>0, <1>1, <1>6, <1>7 DEF JInv, Ended
<1>9. TermsCreated(dir, v, sent, cs, ex, nextPair, orders', exch')
  BY <1>2, <1>3, <1>4, <1>5, CreateTerms DEF Ledger
<1>10. ASSUME NEW d
       PROVE  OrderSum(SideLeft(orders', d)) = OrderSum(SideLeft(orders, d)) +
                (IF sent /\ d = dir THEN v ELSE 0)
  <2>1. SideLeft(cs, d) = SideLeft(orders, d)
    BY <1>3, JInvFields, SameTerms
  <2> QED BY <1>9, <2>1 DEF TermsCreated
<1>11. PairSum(PairFill(pairs')) = PairSum(PairFill(pairs))
  <2>1. position + PairSum(PairFill(pairs')) = StartVolume + OrderSum(SignedKnown(orders', exch'))
    BY <1>7 DEF Whole, Accounted
  <2>2. position + PairSum(PairFill(pairs)) = StartVolume + OrderSum(SignedKnown(cs, ex))
    BY <1>4 DEF Whole, Accounted
  <2>3. OrderSum(SignedKnown(orders', exch')) = OrderSum(SignedKnown(cs, ex))
    BY <1>9 DEF TermsCreated
  <2>4. PairSum(PairFill(pairs)) \in Int
    BY JInvFields, PairTerms
  <2>5. PairSum(PairFill(pairs')) \in Int
    <3>1. PairsTyped(pairs', nextPair')
      BY <1>0 DEF IInv, Books
    <3> QED BY <3>1, PairTerms
  <2>6. position \in Int
    BY JInvFields
  <2>7. position + PairSum(PairFill(pairs')) = position + PairSum(PairFill(pairs))
    BY <2>1, <2>2, <2>3
  <2> DEFINE a == PairSum(PairFill(pairs'))
             b == PairSum(PairFill(pairs))
  <2> HIDE DEF a, b
  <2>8. a \in Int /\ b \in Int /\ position + a = position + b
    BY <2>4, <2>5, <2>7 DEF a, b
  <2>9. a = b
    BY <2>6, <2>8
  <2> QED BY <2>9 DEF a, b
<1> QED BY <1>8, <1>10, <1>11 DEF sent

\* The timer's queries, hedges and ends of pairs keep the ledger, and an algo order
\* it finds complete has no pair left.
LEMMA TimerStep ==
  ASSUME JInv, NEW P \in SUBSET DOMAIN pairs, NEW Q, OnTimer(P, Q)
  PROVE  /\ JInv'
         /\ \A d : OrderSum(SideLeft(orders', d)) = OrderSum(SideLeft(orders, d))
<1> DEFINE queried == [o \in DOMAIN orders |->
                         IF o \in Q THEN [orders[o] EXCEPT !.old = FALSE,
                                          !.queries = Least(@ + 1, MaxQueries + 1)]
                         ELSE orders[o]]
<1>0. IInv'
  BY TimerKeepsIInv DEF JInv
<1>1. /\ PairOrderTrade(pairs, queried, P, {}) /\ nextPair' = nextPair
      /\ algoStatus \in {"NEW", "CANCELLING"}
  BY DEF OnTimer
<1>2. DOMAIN pairs' = DOMAIN pairs \ Finished(pairs, P)
  BY <1>1 DEF PairOrderTrade
<1>3. /\ algoStatus' \in {"FILLED", "CANCELED"} => DOMAIN pairs = {}
      /\ algoStatus' # "DELETED"
  BY <1>1 DEF OnTimer
<1>4. DOMAIN queried = DOMAIN orders /\ queried \in [DOMAIN orders -> Order]
      /\ \A o \in DOMAIN orders : /\ queried[o].dir = orders[o].dir
                                  /\ queried[o].volume = orders[o].volume
                                  /\ queried[o].total = orders[o].total
  <2>1. ASSUME NEW o \in DOMAIN orders
        PROVE  /\ queried[o] \in Order /\ queried[o].dir = orders[o].dir
               /\ queried[o].volume = orders[o].volume /\ queried[o].total = orders[o].total
    <3>1. orders[o] \in Order
      BY DEF JInv, IInv, Books, OrdersKnown
    <3> DEFINE q == Least(orders[o].queries + 1, MaxQueries + 1)
    <3>2. q \in 0..(MaxQueries + 1)
      BY <3>1, LimitAssumption DEF Order, Least
    <3>3. queried[o] = IF o \in Q THEN [orders[o] EXCEPT !.old = FALSE, !.queries = q]
                       ELSE orders[o]
      OBVIOUS
    <3> HIDE DEF q, queried
    <3> QED BY <3>1, <3>2, <3>3, Zenon DEF Order
  <2> HIDE DEF queried
  <2>2. \A o \in DOMAIN orders : queried[o] \in Order
    BY <2>1
  <2>3. queried = [o \in DOMAIN orders |-> queried[o]]
    BY DEF queried
  <2> QED BY <2>1, <2>2, <2>3
<1> HIDE DEF queried
<1>5. SameLedger(orders, exch, queried, exch)
  BY <1>4 DEF SameLedger
<1>6. Books(pairs, queried, exch, nextPair)
  <2>1. exch \in [DOMAIN exch -> ExchOrder] /\ \A o \in DOMAIN exch : exch[o].filled <= exch[o].volume
    BY JInvFields DEF ExchTyped
  <2> QED BY <1>4, <2>1, SameVolumesKeepBooks DEF JInv, IInv
<1>7. Ledger(pairs, queried, exch, nextPair)
      /\ (Whole(position, pairs, orders, exch, nextPair) =>
            Whole(position, pairs, queried, exch, nextPair))
  BY <1>5, JInvFields, SameKeepsLedger DEF JInv
<1>8. /\ Ledger(pairs', orders', exch', nextPair)
      /\ Whole(position, pairs, queried, exch, nextPair) =>
           Whole(position', pairs', orders', exch', nextPair)
      /\ \A d : OrderSum(SideLeft(orders', d)) = OrderSum(SideLeft(queried, d))
  BY <1>1, <1>6, <1>7, JInvFields, TradeStep
<1>9. \A d : SideLeft(queried, d) = SideLeft(orders, d)
  BY <1>5, JInvFields, SameTerms
<1>10. Ended'
  BY <1>2, <1>3 DEF Ended
<1>11. Whole(position', pairs', orders', exch', nextPair)
  BY <1>1, <1>7, <1>8 DEF JInv
<1> QED BY <1>0, <1>1, <1>8, <1>9, <1>10, <1>11 DEF JInv

\* What the exchange does to an order.
Moved(o, ex, ex2) ==
  /\ DOMAIN ex2 = DOMAIN ex /\ o \in DOMAIN ex /\ ex[o].open
  /\ \A x \in DOMAIN ex : x # o => ex2[x] = ex[x]
  /\ ex2[o].dir = ex[o].dir /\ ex2[o].volume = ex[o].volume /\ ex2[o].filled >= ex[o].filled

\* ExchFill and ExchClose change one open order, and nothing of the strategy.
LEMMA ExchangeFacts ==
  ASSUME JInv, NEW o \in DOMAIN exch, ExchFill(o) \/ ExchClose(o)
  PROVE  Moved(o, exch, exch') /\ UNCHANGED <<algoVars, bookVars>>
<1>1. UNCHANGED <<algoVars, bookVars>> /\ exch[o].open
  BY DEF ExchFill, ExchClose
<1>2. exch[o] \in ExchOrder /\ exch[o].filled \in Nat
  <2>1. exch[o] \in ExchOrder
    BY JInvFields DEF ExchTyped
  <2> QED BY <2>1, ExchFields
<1> DEFINE old == exch[o]
           new == exch'[o]
<1>3. PICK n \in {old.filled, old.filled + 1}, b \in BOOLEAN :
             new = [old EXCEPT !.filled = n, !.open = b]
  <2>1. CASE ExchFill(o)
    <3> DEFINE n == old.filled + 1
               b == old.filled + 1 < old.volume
    <3>1. exch' = [exch EXCEPT ![o] = [old EXCEPT !.filled = n, !.open = b]]
      BY <2>1, Zenon DEF ExchFill
    <3>2. new = [old EXCEPT !.filled = n, !.open = b]
      BY <3>1
    <3>3. n \in {old.filled, old.filled + 1} /\ b \in BOOLEAN
      BY <1>2
    <3> QED BY <3>2, <3>3
  <2>2. CASE ExchClose(o)
    <3>1. new = [old EXCEPT !.open = FALSE]
      BY <2>2 DEF ExchClose
    <3>2. new = [old EXCEPT !.filled = old.filled, !.open = FALSE]
      BY <1>2, <3>1 DEF ExchOrder
    <3> QED BY <3>2
  <2> QED BY <2>1, <2>2
<1>4. DOMAIN exch' = DOMAIN exch /\ \A x \in DOMAIN exch : x # o => exch'[x] = exch[x]
  BY DEF ExchFill, ExchClose
<1>5. old \in ExchOrder
  BY <1>2
<1> HIDE DEF old, new
<1>6. new.dir = old.dir /\ new.volume = old.volume /\ new.filled = n
  BY <1>3, <1>5, Zenon DEF ExchOrder
<1>7. n >= old.filled
  BY <1>2 DEF old
<1> QED BY <1>1, <1>4, <1>6, <1>7 DEF Moved, old, new

\* An order the exchange works is tracked, so what the strategy knows stays as it
\* is; and its pair is not finished.
LEMMA ExchangeStep ==
  ASSUME JInv, NEW o \in DOMAIN exch, ExchFill(o) \/ ExchClose(o)
  PROVE  JInv' /\ UNCHANGED <<algoVars, bookVars>>
<1>0. IInv'
  BY ExchangeKeepsIInv DEF JInv
<1>1. /\ UNCHANGED <<algoStatus, position, pairs, orders, nextPair>>
      /\ UNCHANGED <<algoVars, bookVars>> /\ Moved(o, exch, exch')
  BY ExchangeFacts DEF algoVars, bookVars
<1>2. /\ DOMAIN exch' = DOMAIN exch /\ exch[o].open
      /\ \A x \in DOMAIN exch : x # o => exch'[x] = exch[x]
      /\ \A x \in DOMAIN exch : exch'[x].dir = exch[x].dir /\ exch'[x].volume = exch[x].volume
      /\ exch'[o].filled >= exch[o].filled
  BY <1>1 DEF Moved
<1>3. /\ \A x \in DOMAIN exch : exch[x].filled \in Nat
      /\ \A x \in DOMAIN orders : orders[x].total \in Nat /\ x \in DOMAIN exch
      /\ \A x \in DOMAIN exch' : exch'[x].filled \in Nat
  <2>1. ExchTyped(exch')
    BY <1>0 DEF IInv, Books
  <2>2. \A x \in DOMAIN exch' : exch'[x] \in ExchOrder
    BY <2>1 DEF ExchTyped
  <2> QED BY <2>2, JInvFields, BookFields, ExchFields
<1>4. Traced(orders, exch')
  <2>1. Traced(orders, exch)
    BY JInvFields
  <2> QED BY <1>2, <1>3, <2>1 DEF Traced
<1>5. Numbered(pairs, exch', nextPair) /\ Paired(pairs, orders) /\ Matched(pairs, orders)
  BY <1>2 DEF Numbered, JInv, Ledger
<1>6. CASE algoStatus = "DELETED"
  <2>1. DOMAIN pairs = {}
    BY <1>6 DEF JInv, Ended
  <2>2. Counted(pairs, orders, exch')
    BY <2>1 DEF Counted
  <2>3. Ledger(pairs, orders, exch', nextPair)
    BY <1>4, <1>5, <2>2 DEF Ledger
  <2> QED BY <1>0, <1>1, <1>6, <2>3 DEF JInv, Ended
<1>7. CASE algoStatus # "DELETED"
  <2>1. Whole(position, pairs, orders, exch, nextPair) /\ Counted(pairs, orders, exch)
    BY <1>7 DEF JInv, Ledger
  <2>2. o \in DOMAIN orders /\ PairOf(o) \in DOMAIN pairs
    BY <1>2, <1>5, <2>1 DEF Whole, OpenTracked, Paired
  <2>3. \A x \in DOMAIN exch : Known(orders, exch', x) = Known(orders, exch, x)
    BY <1>2, <2>2 DEF Known
  <2>4. \A p : /\ ActKnown(orders, exch', p) = ActKnown(orders, exch, p)
               /\ PasKnown(orders, exch', p) = PasKnown(orders, exch, p)
    BY <1>2, <2>3 DEF ActKnown, PasKnown
  <2>5. SignedKnown(orders, exch') = SignedKnown(orders, exch)
    BY <1>2, <2>3 DEF SignedKnown
  <2>6. Counted(pairs, orders, exch')
    BY <2>1, <2>4 DEF Counted
  <2>7. Accounted(position, pairs, orders, exch')
    BY <2>1, <2>5 DEF Whole, Accounted
  <2>8. OpenTracked(orders, exch')
    BY <1>2, <2>1, <2>2 DEF Whole, OpenTracked
  <2>9. FlatPairs(pairs, exch', nextPair)
    <3> SUFFICES ASSUME NEW p \in 1..(nextPair - 1), p \notin DOMAIN pairs PROVE Flat(exch', p)
      BY DEF FlatPairs
    <3>1. Flat(exch, p)
      BY <2>1 DEF Whole, FlatPairs
    <3>2. \A x \in DOMAIN exch : PairOf(x) = p => exch'[x] = exch[x]
      BY <1>2, <2>2
    <3>3. PairOf(<<p, 0>>) = p
      BY DEF PairOf
    <3>4. ActFilled(exch', p) = ActFilled(exch, p)
      BY <1>2, <3>2, <3>3 DEF ActFilled
    <3>5. PasFilled(exch', p) = PasFilled(exch, p)
      BY <1>2, <3>2 DEF PasFilled, PassiveOf
    <3> QED BY <3>1, <3>4, <3>5 DEF Flat, Gap
  <2>10. Ledger(pairs, orders, exch', nextPair)
    BY <1>4, <1>5, <2>6 DEF Ledger
  <2>11. Whole(position, pairs, orders, exch', nextPair)
    BY <2>7, <2>8, <2>9 DEF Whole
  <2> QED BY <1>0, <1>1, <2>10, <2>11 DEF JInv, Ended
<1> QED BY <1>1, <1>6, <1>7

\* The steps that only change what the ledger does not count: cancel requests, the
\* age of an order, the command and the switches.
LEMMA PlainStep ==
  ASSUME JInv,
         \/ CancelOrderOnSpread \/ SubmitCancel \/ Modify \/ UNCHANGED vars
         \/ \E o \in DOMAIN orders : Age(o)
  PROVE  /\ JInv'
         /\ \A d : SideLeft(orders', d) = SideLeft(orders, d)
         /\ UNCHANGED <<position, pairs, frozenLong, frozenShort, nextPair>>
         /\ DOMAIN exch' = DOMAIN exch
<1>0. IInv'
  BY NextIInv DEF JInv, Next
<1>1. /\ UNCHANGED <<position, pairs, frozenLong, frozenShort, nextPair>>
      /\ algoStatus' = algoStatus \/ (algoStatus = "NEW" /\ algoStatus' = "CANCELLING")
  BY DEF CancelOrderOnSpread, SubmitCancel, Modify, Age, vars, algoVars, bookVars
<1>2. SameLedger(orders, exch, orders', exch')
  <2>1. CASE CancelOrderOnSpread
    <3>1. PICK C : orders' = CancelOrders(orders, C) /\ exch' = RequestCancels(exch, C)
      BY <2>1 DEF CancelOrderOnSpread
    <3> QED BY <3>1, JInvFields, CancelSameLedger
  <2>2. CASE SubmitCancel \/ Modify \/ UNCHANGED vars
    BY <2>2 DEF SubmitCancel, Modify, vars, bookVars, SameLedger
  <2>3. CASE \E o \in DOMAIN orders : Age(o)
    <3>1. PICK o \in DOMAIN orders : Age(o)
      BY <2>3
    <3>2. orders' = [orders EXCEPT ![o].old = TRUE] /\ exch' = exch
      BY <3>1 DEF Age
    <3>3. orders \in [DOMAIN orders -> Order]
      BY JInvFields DEF OrdersKnown
    <3>4. \A x \in DOMAIN orders : /\ orders'[x].dir = orders[x].dir
                                   /\ orders'[x].volume = orders[x].volume
                                   /\ orders'[x].total = orders[x].total
      BY <3>2, <3>3, Zenon DEF Order
    <3> QED BY <3>2, <3>4 DEF SameLedger
  <2> QED BY <2>1, <2>2, <2>3
<1>3. /\ Ledger(pairs, orders, exch, nextPair) => Ledger(pairs, orders', exch', nextPair)
      /\ Whole(position, pairs, orders, exch, nextPair) =>
           Whole(position, pairs, orders', exch', nextPair)
  BY <1>2, JInvFields, SameKeepsLedger
<1>4. DOMAIN orders' = DOMAIN orders /\ DOMAIN exch' = DOMAIN exch
  BY <1>2 DEF SameLedger
<1>5. JInv'
  BY <1>0, <1>1, <1>3, <1>4 DEF JInv, Ended
<1>6. \A d : SideLeft(orders', d) = SideLeft(orders, d)
  BY <1>2, JInvFields, SameTerms
<1> QED BY <1>1, <1>4, <1>5, <1>6

\* Deleting the algo order empties the books.
LEMMA DeleteStep ==
  ASSUME JInv, DeleteAlgoOrder
  PROVE  /\ JInv'
         /\ \A d : OrderSum(SideLeft(orders', d)) = 0
<1>0. IInv'
  BY NextIInv DEF JInv, Next
<1>1. /\ pairs' = Without(pairs, DOMAIN pairs) /\ orders' = Without(orders, DOMAIN orders)
      /\ algoStatus' = "DELETED" /\ UNCHANGED <<position, nextPair, exch>>
  BY DEF DeleteAlgoOrder
<1>2. DOMAIN pairs' = {} /\ DOMAIN orders' = {}
  BY <1>1 DEF Without
<1>3. Ledger(pairs', orders', exch', nextPair')
  <2>1. Numbered(pairs, exch, nextPair)
    BY JInvFields
  <2> QED BY <1>1, <1>2, <2>1 DEF Ledger, Traced, Numbered, Paired, Matched, Counted
<1>4. ASSUME NEW d PROVE OrderSum(SideLeft(orders', d)) = 0
  <2>1. \A o \in OrderId : SideLeft(orders', d)[o] = 0
    BY <1>2 DEF SideLeft
  <2> QED BY <2>1, SumZeros
<1> QED BY <1>0, <1>1, <1>2, <1>3, <1>4 DEF JInv, Ended

\* The initial books are empty.
LEMMA InitJInv == Init => JInv /\ \A d : OrderSum(SideLeft(orders, d)) = 0
<1> SUFFICES ASSUME Init PROVE JInv /\ \A d : OrderSum(SideLeft(orders, d)) = 0
  OBVIOUS
<1>0. IInv
  BY InitIInv
<1>1. /\ algoStatus = "NEW" /\ position = StartVolume /\ nextPair = 1
      /\ DOMAIN pairs = {} /\ DOMAIN orders = {} /\ DOMAIN exch = {}
  BY DEF Init, EmptyMap
<1>2. Ledger(pairs, orders, exch, nextPair)
  BY <1>1 DEF Ledger, Traced, Numbered, Paired, Matched, Counted
<1>3. \A d : OrderSum(SideLeft(orders, d)) = 0
  BY <1>1, SumZeros DEF SideLeft
<1>4. OrderSum(SignedKnown(orders, exch)) = 0
  BY <1>1, SumZeros DEF SignedKnown
<1>5. PairSum(PairFill(pairs)) = 0
  <2>1. \A p \in PairId : PairFill(pairs)[p] = 0
    BY <1>1 DEF PairFill
  <2>2. SumFunctionOnSet(PairFill(pairs), {}) = SumFunctionOnSet(PairFill(pairs), PairId)
    BY <2>1, FiniteIds, SumWithin
  <2> QED BY <2>2, SumEmpty DEF PairSum
<1>6. Whole(position, pairs, orders, exch, nextPair)
  <2>1. OpenTracked(orders, exch) /\ FlatPairs(pairs, exch, nextPair)
    BY <1>1 DEF OpenTracked, FlatPairs
  <2>2. Accounted(position, pairs, orders, exch)
    BY <1>1, <1>4, <1>5, VolumeAssumption DEF Accounted
  <2> QED BY <2>1, <2>2 DEF Whole
<1> QED BY <1>0, <1>1, <1>2, <1>3, <1>6 DEF JInv, Ended

-----------------------------------------------------------------------------
(* Part 3: the frozen volumes of the position manager *)

\* The release of a SPOT sell order compares with the frozen buy volume, so the
\* position manager is right if the active leg is a swap, or never sells.
NeverCloses == \A s \in Switches : ~s[2]
Careful == InstType = "SWAP" \/ NeverCloses

Sides ==
  /\ frozenLong = OrderSum(SideLeft(orders, 1))
  /\ frozenShort = OrderSum(SideLeft(orders, -1))
  /\ NeverCloses => ~mayClose /\ frozenShort = 0

\* A report releases from its side what it takes from the orders.
LEMMA ReportReleases ==
  ASSUME JInv, Sides, Careful, NEW o \in DOMAIN orders, NEW k \in Nat, NEW done \in BOOLEAN
  PROVE  /\ ReleaseLong(o, k, done) =
              frozenLong - (IF IsActiveOrder(o) /\ orders[o].dir = 1 THEN Gone(orders, o, k, done) ELSE 0)
         /\ ReleaseShort(o, k, done) =
              frozenShort - (IF IsActiveOrder(o) /\ orders[o].dir = -1 THEN Gone(orders, o, k, done) ELSE 0)
         /\ NeverCloses => ~(IsActiveOrder(o) /\ orders[o].dir = -1)
<1>1. /\ frozenLong \in Int /\ frozenShort \in Int /\ o \in OrderId
      /\ orders[o].total \in Nat /\ orders[o].volume \in Nat
  BY JInvFields, BookFields
<1> DEFINE fill == k - orders[o].total
           left == orders[o].volume - k
           g    == Gone(orders, o, k, done)
<1>2. fill \in Int /\ left \in Int /\ g = IF done THEN fill + left ELSE fill
  BY <1>1 DEF Gone, Left
<1>3. NeverCloses => ~(IsActiveOrder(o) /\ orders[o].dir = -1)
  <2> SUFFICES ASSUME NeverCloses, IsActiveOrder(o), orders[o].dir = -1 PROVE FALSE
    OBVIOUS
  <2>1. OrderSum(SideLeft(orders, -1)) = 0
    BY DEF Sides
  <2>2. \A x \in OrderId : SideLeft(orders, -1)[x] \in Nat
    BY JInvFields, Terms
  <2>3. SideLeft(orders, -1)[o] <= OrderSum(SideLeft(orders, -1))
    BY <1>1, <2>2, FiniteIds, SumAtLeast DEF OrderSum
  <2>4. SideLeft(orders, -1)[o] = Left(orders, o)
    BY <1>1 DEF SideLeft
  <2>5. Left(orders, o) \in Nat /\ Left(orders, o) >= 1
    BY JInvFields, Terms
  <2> QED BY <2>1, <2>3, <2>4, <2>5
<1>4. ReleaseLong(o, k, done) =
        IF IsActiveOrder(o) /\ orders[o].dir = 1
        THEN frozenLong - fill - (IF done THEN left ELSE 0) ELSE frozenLong
  BY DEF ReleaseLong
<1>5. ReleaseShort(o, k, done) =
        IF IsActiveOrder(o) /\ orders[o].dir = -1
        THEN frozenShort - fill - (IF done THEN left ELSE 0) ELSE frozenShort
  <2>1. IsActiveOrder(o) /\ orders[o].dir = -1 => InstType # "SPOT"
    BY <1>3 DEF Careful
  <2>2. frozenShort - fill = frozenShort - fill - 0
    BY <1>1, <1>2
  <2> QED BY <2>1, <2>2 DEF ReleaseShort
<1> HIDE DEF fill, left, g
<1> QED BY <1>1, <1>2, <1>3, <1>4, <1>5 DEF g

\* The sides of the position manager after a step.
LEMMA NextSides ==
  ASSUME JInv, Sides, Careful, [Next]_vars
  PROVE  Sides'
<1>0. /\ frozenLong \in Int /\ frozenShort \in Int
      /\ NeverCloses => ~mayClose /\ frozenShort = 0
  BY JInvFields DEF Sides
<1>1. CASE OpenOnSpread \/ CloseOnSpread
  <2>1. PICK dir \in {1, -1}, v \in Int, funded \in BOOLEAN, C \in SUBSET Cancellable(orders) :
           /\ algoStatus = "NEW" /\ CreatePairOrder(dir, v, funded, C) /\ (dir = -1 => mayClose)
    <3>1. CASE OpenOnSpread
      <4>1. PICK C \in SUBSET Cancellable(orders), t \in 0..MaxTarget, funded \in BOOLEAN :
             CreatePairOrder(1, OpenVolume(t), funded, C)
        BY <3>1 DEF OpenOnSpread
      <4>2. OpenVolume(t) \in Int
        BY TargetVolumeInt DEF JInv
      <4> QED BY <3>1, <4>1, <4>2 DEF OpenOnSpread
    <3>2. CASE CloseOnSpread
      <4>1. PICK C \in SUBSET Cancellable(orders), t \in 0..MaxTarget, funded \in BOOLEAN :
             CreatePairOrder(-1, CloseVolume(t), funded, C)
        BY <3>2 DEF CloseOnSpread
      <4>2. CloseVolume(t) \in Int
        BY TargetVolumeInt DEF JInv
      <4>3. CloseVolume(t) > 0
        BY <4>1 DEF CreatePairOrder
      <4>4. mayClose
        BY <4>3 DEF CloseVolume
      <4> QED BY <3>2, <4>1, <4>2, <4>4 DEF CloseOnSpread
    <3> QED BY <1>1, <3>1, <3>2
  <2> DEFINE sent == v >= ActMin /\ funded
  <2>2. \A d : OrderSum(SideLeft(orders', d)) = OrderSum(SideLeft(orders, d)) +
                 (IF sent /\ d = dir THEN v ELSE 0)
    BY <2>1, CreateStep
  <2>3. /\ frozenLong' = Freeze(frozenLong, 1, dir, IF sent THEN v ELSE 0)
        /\ frozenShort' = Freeze(frozenShort, -1, dir, IF sent THEN v ELSE 0)
        /\ mayClose' = mayClose
    BY <2>1 DEF CreatePairOrder
  <2>4. /\ frozenLong' = frozenLong + (IF sent /\ 1 = dir THEN v ELSE 0)
        /\ frozenShort' = frozenShort + (IF sent /\ -1 = dir THEN v ELSE 0)
    BY <1>0, <2>3 DEF Freeze
  <2>5. NeverCloses => frozenShort' = 0
    BY <1>0, <2>1, <2>4
  <2> HIDE DEF sent
  <2> QED BY <1>0, <2>2, <2>3, <2>4, <2>5 DEF Sides, NeverCloses
<1>2. CASE Deliver
  <2>1. PICK o \in DOMAIN orders, st \in LiveStatus \union {"DONE"} :
          \E k \in 0..exch[o].volume : Reportable(o, st, k) /\
            \E isQuery, pass \in BOOLEAN, C \in SUBSET (Cancellable(orders) \union {o}) :
              OnOrder(o, st, k, isQuery, pass, C)
    BY <1>2 DEF Deliver
  <2>2. PICK k \in 0..exch[o].volume : Reportable(o, st, k) /\
            \E isQuery, pass \in BOOLEAN, C \in SUBSET (Cancellable(orders) \union {o}) :
              OnOrder(o, st, k, isQuery, pass, C)
    BY <2>1
  <2>3. PICK isQuery \in BOOLEAN, pass \in BOOLEAN, C \in SUBSET (Cancellable(orders) \union {o}) :
           OnOrder(o, st, k, isQuery, pass, C)
    BY <2>2
  <2> DEFINE done == st = "DONE"
  <2>4. \A d : OrderSum(SideLeft(orders', d)) = OrderSum(SideLeft(orders, d)) -
              (IF IsActiveOrder(o) /\ orders[o].dir = d THEN Gone(orders, o, k, done) ELSE 0)
    BY <2>2, <2>3, OnOrderStep
  <2>5. /\ frozenLong' = ReleaseLong(o, k, done) /\ frozenShort' = ReleaseShort(o, k, done)
        /\ mayClose' = mayClose
    BY <2>3 DEF OnOrder, algoVars
  <2>6. k \in Nat /\ done \in BOOLEAN
    <3>1. exch[o].volume \in Nat
      BY JInvFields, BookFields
    <3> QED BY <3>1
  <2> HIDE DEF done
  <2>7. /\ frozenLong' = frozenLong -
             (IF IsActiveOrder(o) /\ orders[o].dir = 1 THEN Gone(orders, o, k, done) ELSE 0)
        /\ frozenShort' = frozenShort -
             (IF IsActiveOrder(o) /\ orders[o].dir = -1 THEN Gone(orders, o, k, done) ELSE 0)
        /\ NeverCloses => ~(IsActiveOrder(o) /\ orders[o].dir = -1)
    BY <2>5, <2>6, ReportReleases
  <2>8. NeverCloses => frozenShort' = 0
    BY <1>0, <2>7
  <2> QED BY <1>0, <2>4, <2>5, <2>7, <2>8 DEF Sides, NeverCloses
<1>3. CASE Timer
  <2>1. PICK P \in SUBSET DOMAIN pairs, Q \in SUBSET {o \in DOMAIN orders : Stuck(o)} : OnTimer(P, Q)
    BY <1>3 DEF Timer
  <2>2. \A d : OrderSum(SideLeft(orders', d)) = OrderSum(SideLeft(orders, d))
    BY <2>1, TimerStep
  <2> QED BY <2>1, <2>2 DEF Sides, OnTimer, NeverCloses
<1>4. CASE DeleteAlgoOrder
  BY <1>4, DeleteStep DEF DeleteAlgoOrder, Sides, NeverCloses
<1>5. CASE CancelOrderOnSpread \/ SubmitCancel \/ Modify \/ UNCHANGED vars
           \/ \E o \in DOMAIN orders : Age(o)
  <2>1. /\ \A d : SideLeft(orders', d) = SideLeft(orders, d)
        /\ UNCHANGED <<position, pairs, frozenLong, frozenShort, nextPair>>
    BY <1>5, PlainStep
  <2>2. NeverCloses => ~mayClose'
    BY <1>0, <1>5 DEF CancelOrderOnSpread, SubmitCancel, Modify, Age, vars, algoVars, NeverCloses
  <2> QED BY <2>1, <2>2 DEF Sides, NeverCloses
<1>6. CASE \E o \in DOMAIN exch : ExchFill(o) \/ ExchClose(o)
  BY <1>6, ExchangeStep DEF algoVars, bookVars, Sides, NeverCloses
<1> QED BY <1>1, <1>2, <1>3, <1>4, <1>5, <1>6 DEF Next

\* Every step keeps the ledger.
LEMMA NextJInv == JInv /\ [Next]_vars => JInv'
<1> SUFFICES ASSUME JInv, [Next]_vars PROVE JInv'
  OBVIOUS
<1>1. CASE OpenOnSpread
  <2>1. PICK C \in SUBSET Cancellable(orders), t \in 0..MaxTarget, funded \in BOOLEAN :
          CreatePairOrder(1, OpenVolume(t), funded, C)
    BY <1>1 DEF OpenOnSpread
  <2>2. OpenVolume(t) \in Int
    BY TargetVolumeInt DEF JInv
  <2> QED BY <1>1, <2>1, <2>2, CreateStep DEF OpenOnSpread
<1>2. CASE CloseOnSpread
  <2>1. PICK C \in SUBSET Cancellable(orders), t \in 0..MaxTarget, funded \in BOOLEAN :
          CreatePairOrder(-1, CloseVolume(t), funded, C)
    BY <1>2 DEF CloseOnSpread
  <2>2. CloseVolume(t) \in Int
    BY TargetVolumeInt DEF JInv
  <2> QED BY <1>2, <2>1, <2>2, CreateStep DEF CloseOnSpread
<1>3. CASE Deliver
  <2>1. PICK o \in DOMAIN orders, st \in LiveStatus \union {"DONE"} :
          \E k \in 0..exch[o].volume : Reportable(o, st, k) /\
            \E isQuery, pass \in BOOLEAN, C \in SUBSET (Cancellable(orders) \union {o}) :
              OnOrder(o, st, k, isQuery, pass, C)
    BY <1>3 DEF Deliver
  <2>2. PICK k \in 0..exch[o].volume : Reportable(o, st, k) /\
            \E isQuery, pass \in BOOLEAN, C \in SUBSET (Cancellable(orders) \union {o}) :
              OnOrder(o, st, k, isQuery, pass, C)
    BY <2>1
  <2> QED BY <2>2, OnOrderStep
<1>4. CASE Timer
  BY <1>4, TimerStep DEF Timer
<1>5. CASE DeleteAlgoOrder
  BY <1>5, DeleteStep
<1>6. CASE CancelOrderOnSpread \/ SubmitCancel \/ Modify \/ UNCHANGED vars
           \/ \E o \in DOMAIN orders : Age(o)
  BY <1>6, PlainStep
<1>7. CASE \E o \in DOMAIN exch : ExchFill(o) \/ ExchClose(o)
  BY <1>7, ExchangeStep
<1> QED BY <1>1, <1>2, <1>3, <1>4, <1>5, <1>6, <1>7 DEF Next

-----------------------------------------------------------------------------
(* The properties, read off the ledger *)

\* A sum over some order ids, as a sum over all of them.
LEMMA SumOverIds ==
  ASSUME NEW f, DOMAIN f \subseteq OrderId, NEW w, \A x \in DOMAIN f : f[x] \in Int,
         \A x \in OrderId : w[x] = IF x \in DOMAIN f THEN f[x] ELSE 0
  PROVE  SumFunction(f) = OrderSum(w)
  BY FiniteIds, SumWithin DEF SumFunction, OrderSum

\* The sum of a function that is zero but in one place.
LEMMA SumOnePlace ==
  ASSUME NEW e \in OrderId, NEW v \in Int, NEW w, \A o \in OrderId : w[o] = IF o = e THEN v ELSE 0
  PROVE  OrderSum(w) = v
<1> DEFINE z == [o \in OrderId |-> 0]
<1>1. OrderSum(z) = 0
  BY SumZeros
<1>2. (\A o \in OrderId : z[o] = 0) /\ w[e] = v /\ \A o \in OrderId : o # e => w[o] = z[o]
  OBVIOUS
<1> HIDE DEF z
<1>3. OrderSum(w) = OrderSum(z) + (w[e] - z[e])
  BY <1>2, OrderSumPoint
<1> QED BY <1>1, <1>2, <1>3

\* The fills of the live pairs.
LEMMA LiveFills ==
  ASSUME JInv
  PROVE  /\ SumFunction([p \in DOMAIN pairs |-> pairs[p].dir * pairs[p].actTotal]) =
              PairSum(PairFill(pairs))
         /\ PairSum(PairFill(pairs)) \in Int
<1> DEFINE f == [p \in DOMAIN pairs |-> pairs[p].dir * pairs[p].actTotal]
           g == PairFill(pairs)
<1>1. (\A p \in PairId : g[p] \in Int) /\ PairSum(g) \in Int
  BY JInvFields, PairTerms
<1>2. DOMAIN pairs \subseteq PairId
  BY JInvFields, LimitAssumption DEF PairsTyped, PairId
<1>3. \A p \in PairId : g[p] = IF p \in DOMAIN pairs THEN f[p] ELSE 0
  BY DEF PairFill
<1>4. \A p \in DOMAIN pairs : f[p] \in Int
  <2>1. \A p \in DOMAIN pairs : f[p] = g[p]
    BY <1>2, <1>3
  <2> HIDE DEF f, g
  <2> QED BY <1>1, <1>2, <2>1
<1>5. DOMAIN f = DOMAIN pairs
  OBVIOUS
<1> HIDE DEF f, g
<1>6. SumFunctionOnSet(f, DOMAIN pairs) = SumFunctionOnSet(g, PairId)
  BY <1>2, <1>3, <1>4, FiniteIds, SumWithin
<1>7. SumFunction(f) = PairSum(g)
  BY <1>5, <1>6 DEF SumFunction, PairSum
<1> QED BY <1>1, <1>7 DEF f, g

\* BooksMatchExchange is the ledger's account.
LEMMA BooksFollow == JInv => BooksMatchExchange
<1> SUFFICES ASSUME JInv, algoStatus # "DELETED"
             PROVE  position + SumFunction([p \in DOMAIN pairs |-> pairs[p].dir * pairs[p].actTotal])
                      = StartVolume + SumFunction([o \in DOMAIN exch |->
                          Signed(o, IF o \in DOMAIN orders THEN orders[o].total ELSE exch[o].filled)])
  BY DEF BooksMatchExchange
<1> DEFINE f == [o \in DOMAIN exch |->
                   Signed(o, IF o \in DOMAIN orders THEN orders[o].total ELSE exch[o].filled)]
           w == SignedKnown(orders, exch)
<1>1. DOMAIN f = DOMAIN exch /\ DOMAIN exch \subseteq OrderId
  BY JInvFields DEF ExchTyped
<1>2. \A o \in OrderId : w[o] = IF o \in DOMAIN exch THEN f[o] ELSE 0
  BY DEF SignedKnown, Signed, Known
<1>3. \A o \in OrderId : w[o] \in Int
  BY JInvFields, Terms
<1>4. \A o \in DOMAIN f : f[o] \in Int
  <2> HIDE DEF f, w
  <2> QED BY <1>1, <1>2, <1>3
<1>5. SumFunction(f) = OrderSum(w)
  <2> HIDE DEF f, w
  <2> QED BY <1>1, <1>2, <1>4, SumOverIds
<1>6. position + PairSum(PairFill(pairs)) = StartVolume + OrderSum(w)
  BY DEF JInv, Whole, Accounted
<1> QED BY <1>5, <1>6, LiveFills

\* OpenOrdersTracked: an open order is tracked, so it has its pair, and an algo
\* order with a pair has not ended.
LEMMA OpenFollow == JInv => OpenOrdersTracked
<1> SUFFICES ASSUME JInv, algoStatus # "DELETED", NEW o \in DOMAIN exch, exch[o].open
             PROVE  /\ o \in DOMAIN orders /\ PairOf(o) \in DOMAIN pairs
                    /\ algoStatus \notin {"FILLED", "CANCELED"}
  BY DEF OpenOrdersTracked
<1>1. o \in DOMAIN orders
  BY DEF JInv, Whole, OpenTracked
<1>2. PairOf(o) \in DOMAIN pairs
  BY <1>1, JInvFields DEF Paired
<1> QED BY <1>1, <1>2 DEF JInv, Ended

\* What TrueGap sums is the gap of the ledger.
LEMMA GapIsTrue ==
  ASSUME JInv, NEW p \in PairId
  PROVE  TrueGap(p) = Gap(exch, p)
<1> DEFINE T == Live(p, DOMAIN exch)
           f == [o \in T |-> IF IsActiveOrder(o) THEN exch[o].filled ELSE -exch[o].filled]
           w == [o \in OrderId |-> IF o \in T THEN f[o] ELSE 0]
           h == PasFilled(exch, p)
           e == <<p, 0>>
           v == ActFilled(exch, p)
           a == [o \in OrderId |-> IF o = e THEN v ELSE 0]
<1>1. /\ \A o \in DOMAIN exch : o \in OrderId /\ exch[o].filled \in Nat
      /\ \A o \in OrderId : h[o] \in Nat
  BY JInvFields, BookFields, Terms
<1>2. e \in OrderId /\ v \in Nat
  <2>1. e \in OrderId
    BY LimitAssumption DEF OrderId, PairId
  <2> QED BY <1>1, <2>1 DEF ActFilled
<1>3. DOMAIN f = T /\ T \subseteq OrderId /\ \A o \in T : f[o] \in Int
  BY <1>1 DEF Live
<1>4. \A o \in OrderId : w[o] \in Int
  BY <1>3
<1>5. SumFunction(f) = OrderSum(w)
  <2>1. \A o \in OrderId : w[o] = IF o \in DOMAIN f THEN f[o] ELSE 0
    BY <1>3
  <2> HIDE DEF f, w, T
  <2> QED BY <1>3, <2>1, SumOverIds
<1>6. \A o \in OrderId : a[o] = w[o] + h[o]
  <2> SUFFICES ASSUME NEW o \in OrderId PROVE a[o] = w[o] + h[o]
    OBVIOUS
  <2>1. IsActiveOrder(o) /\ PairOf(o) = p <=> o = e
    BY OrderIds DEF PairOf
  <2>2. a[o] = IF o = e THEN v ELSE 0
    OBVIOUS
  <2>3. w[o] = IF o \in DOMAIN exch /\ PairOf(o) = p
               THEN (IF IsActiveOrder(o) THEN exch[o].filled ELSE -exch[o].filled) ELSE 0
    BY DEF Live
  <2>4. h[o] = IF o \in DOMAIN exch /\ PairOf(o) = p /\ ~IsActiveOrder(o) THEN exch[o].filled ELSE 0
    BY DEF PasFilled, PassiveOf
  <2>5. v = IF e \in DOMAIN exch THEN exch[e].filled ELSE 0
    BY DEF ActFilled
  <2>6. o \in DOMAIN exch => exch[o].filled \in Nat
    BY <1>1
  <2> HIDE DEF a, w, h, v, e
  <2> QED BY <1>2, <2>1, <2>2, <2>3, <2>4, <2>5, <2>6
<1>7. \A o \in OrderId : a[o] = IF o = e THEN v ELSE 0
  OBVIOUS
<1> HIDE DEF a, w, h, v, e, f
<1>8. OrderSum(a) = v
  BY <1>2, <1>7, SumOnePlace
<1>9. OrderSum(a) = OrderSum(w) + OrderSum(h)
  <2>1. \A o \in OrderId : w[o] \in Int /\ h[o] \in Int /\ a[o] = w[o] + h[o]
    BY <1>1, <1>4, <1>6
  <2> QED BY <2>1, FiniteIds, SumPlus DEF OrderSum
<1>10. OrderSum(w) \in Int /\ OrderSum(h) \in Int
  BY <1>1, <1>4, FiniteIds, SumInt DEF OrderSum
<1>11. SumFunction(f) = v - OrderSum(h)
  BY <1>2, <1>5, <1>8, <1>9, <1>10
<1> QED BY <1>11 DEF TrueGap, Gap, f, v, h

\* FinishedPairsHedged: the pairs that are gone are flat.
LEMMA HedgedFollow == JInv => FinishedPairsHedged
<1> SUFFICES ASSUME JInv, algoStatus # "DELETED", NEW p \in 1..(nextPair - 1), p \notin DOMAIN pairs
             PROVE  /\ -PasLot <= 2 * TrueGap(p)
                    /\ TrueGap(p) > 0 => RoundLot(TrueGap(p), PasLot) < PasMin
  BY DEF FinishedPairsHedged
<1>1. Flat(exch, p)
  BY DEF JInv, Whole, FlatPairs
<1>2. p \in PairId
  BY JInvFields, LimitAssumption DEF PairId
<1>3. TrueGap(p) = Gap(exch, p)
  BY <1>2, GapIsTrue
<1> QED BY <1>1, <1>3 DEF Flat

\* SumLeft over tracked orders, as a sum over all ids.
LEMMA SumLeftOver ==
  ASSUME JInv, NEW T \in SUBSET DOMAIN orders, NEW w,
         \A o \in OrderId : w[o] = IF o \in T THEN Left(orders, o) ELSE 0
  PROVE  SumLeft(T) = OrderSum(w)
<1> DEFINE f == [o \in T |-> LeftOf(o)]
<1>1. \A o \in DOMAIN orders : o \in OrderId /\ Left(orders, o) \in Int
  <2>1. \A o \in DOMAIN orders : o \in OrderId
    BY JInvFields, BookFields
  <2>2. \A o \in DOMAIN orders : Left(orders, o) \in Nat
    BY JInvFields, Terms
  <2> QED BY <2>1, <2>2
<1>2. DOMAIN f = T /\ \A o \in T : f[o] = Left(orders, o)
  BY DEF LeftOf, Left
<1>3. DOMAIN f \subseteq OrderId /\ \A o \in DOMAIN f : f[o] \in Int
  BY <1>1, <1>2
<1>4. \A o \in OrderId : w[o] = IF o \in DOMAIN f THEN f[o] ELSE 0
  BY <1>2
<1>5. SumLeft(T) = SumFunction(f)
  BY DEF SumLeft
<1> HIDE DEF f
<1> QED BY <1>3, <1>4, <1>5, SumOverIds

\* What a pair holds frozen is what its orders have left.
LEMMA PairsFollow ==
  ASSUME JInv, NEW p \in DOMAIN pairs
  PROVE  /\ pairs[p].actFrozen = SumLeft({o \in Live(p, DOMAIN orders) : IsActiveOrder(o)})
         /\ pairs[p].pasFrozen = SumLeft({o \in Live(p, DOMAIN orders) : ~IsActiveOrder(o)})
<1> DEFINE e == <<p, 0>>
           A == {o \in Live(p, DOMAIN orders) : IsActiveOrder(o)}
           B == {o \in Live(p, DOMAIN orders) : ~IsActiveOrder(o)}
           v == ActLeft(orders, p)
           w == [o \in OrderId |-> IF o = e THEN v ELSE 0]
<1>1. pairs[p].actFrozen = v /\ pairs[p].pasFrozen = OrderSum(PasLeft(orders, p))
  BY DEF JInv, Ledger, Matched
<1>2. e \in OrderId
  BY JInvFields, LimitAssumption DEF PairsTyped, OrderId, PairId
<1>3. v \in Int
  <2>1. \A o \in DOMAIN orders : Left(orders, o) \in Nat
    BY JInvFields, Terms
  <2> QED BY <2>1 DEF ActLeft
<1>4. A \in SUBSET DOMAIN orders /\ B \in SUBSET DOMAIN orders
  BY DEF Live
<1>5. \A o \in OrderId : w[o] = IF o \in A THEN Left(orders, o) ELSE 0
  <2> SUFFICES ASSUME NEW o \in OrderId PROVE w[o] = IF o \in A THEN Left(orders, o) ELSE 0
    OBVIOUS
  <2>1. IsActiveOrder(o) /\ PairOf(o) = p <=> o = e
    BY OrderIds DEF PairOf
  <2> QED BY <2>1 DEF Live, ActLeft
<1>6. \A o \in OrderId : PasLeft(orders, p)[o] = IF o \in B THEN Left(orders, o) ELSE 0
  BY DEF PasLeft, PassiveOf, Live
<1>7. \A o \in OrderId : w[o] = IF o = e THEN v ELSE 0
  OBVIOUS
<1> HIDE DEF A, B, w, v, e
<1>8. OrderSum(w) = v /\ SumLeft(A) = OrderSum(w)
  BY <1>2, <1>3, <1>4, <1>5, <1>7, SumOnePlace, SumLeftOver
<1>9. SumLeft(B) = OrderSum(PasLeft(orders, p))
  BY <1>4, <1>6, SumLeftOver
<1> QED BY <1>1, <1>8, <1>9 DEF A, B

\* FrozenMatchesOrders is the matching of the ledger and of the two sides.
LEMMA FrozenFollow == JInv /\ Sides => FrozenMatchesOrders
<1> SUFFICES ASSUME JInv, Sides PROVE FrozenMatchesOrders
  OBVIOUS
<1>1. ASSUME NEW d
      PROVE  OrderSum(SideLeft(orders, d)) = SumLeft({o \in DOMAIN orders : IsActiveOrder(o) /\ orders[o].dir = d})
  <2> DEFINE T == {o \in DOMAIN orders : IsActiveOrder(o) /\ orders[o].dir = d}
  <2>1. \A o \in OrderId : SideLeft(orders, d)[o] = IF o \in T THEN Left(orders, o) ELSE 0
    BY DEF SideLeft
  <2>2. T \in SUBSET DOMAIN orders
    OBVIOUS
  <2> HIDE DEF T
  <2>3. SumLeft(T) = OrderSum(SideLeft(orders, d))
    BY <2>1, <2>2, SumLeftOver
  <2> QED BY <2>3 DEF T
<1>2. /\ frozenLong  = SumLeft({o \in DOMAIN orders : IsActiveOrder(o) /\ orders[o].dir = 1})
      /\ frozenShort = SumLeft({o \in DOMAIN orders : IsActiveOrder(o) /\ orders[o].dir = -1})
  BY <1>1 DEF Sides
<1> QED BY <1>2, PairsFollow DEF FrozenMatchesOrders

-----------------------------------------------------------------------------
(* Orders stay within the target *)

\* Tracked orders counted as filled: what GetExpectActiveVolume computes.
LEMMA ExpectIsHolding ==
  ASSUME JInv, Sides, algoStatus # "DELETED"
  PROVE  HoldingIfAllFill = GetExpectActiveVolume /\ GetExpectActiveVolume \in Int
<1> DEFINE f == [o \in DOMAIN exch |->
                   Signed(o, IF o \in DOMAIN orders THEN exch[o].volume ELSE exch[o].filled)]
           w == [o \in OrderId |-> IF o \in DOMAIN exch THEN f[o] ELSE 0]
           s == SignedKnown(orders, exch)
           l == SideLeft(orders, 1)
           r == SideLeft(orders, -1)
           m == [o \in OrderId |-> s[o] + l[o]]
<1>1. \A o \in OrderId : s[o] \in Int /\ l[o] \in Nat /\ r[o] \in Nat
  BY JInvFields, Terms
<1>2. \A o \in OrderId : s[o] + l[o] = w[o] + r[o]
  <2> SUFFICES ASSUME NEW o \in OrderId PROVE s[o] + l[o] = w[o] + r[o]
    OBVIOUS
  <2>1. CASE o \notin DOMAIN exch \/ ~IsActiveOrder(o)
    <3>1. s[o] = 0 /\ l[o] = 0 /\ r[o] = 0 /\ w[o] = 0
      BY <2>1, JInvFields DEF SignedKnown, SideLeft, Signed
    <3> HIDE DEF s, l, r, w
    <3> QED BY <3>1
  <2>2. CASE o \in DOMAIN exch /\ IsActiveOrder(o)
    <3> DEFINE dir == exch[o].dir
               fld == exch[o].filled
               vol == exch[o].volume
               tot == orders[o].total
    <3>1. dir \in {1, -1} /\ fld \in Nat /\ vol \in Nat
      BY <2>2, JInvFields, BookFields
    <3>2. CASE o \in DOMAIN orders
      <4>1. orders[o].dir = dir /\ orders[o].volume = vol /\ tot \in Nat
        BY <3>2, JInvFields, BookFields
      <4>2. /\ s[o] = dir * tot /\ w[o] = dir * vol
            /\ l[o] = (IF dir = 1 THEN vol - tot ELSE 0)
            /\ r[o] = (IF dir = -1 THEN vol - tot ELSE 0)
        BY <2>2, <3>2, <4>1 DEF SignedKnown, Known, SideLeft, Left, Signed
      <4> HIDE DEF s, l, r, w, dir, vol, tot, fld
      <4>3. CASE dir = 1
        BY <3>1, <4>1, <4>2, <4>3
      <4>4. CASE dir = -1
        BY <3>1, <4>1, <4>2, <4>4
      <4> QED BY <3>1, <4>3, <4>4
    <3>3. CASE o \notin DOMAIN orders
      <4>1. s[o] = dir * fld /\ w[o] = dir * fld /\ l[o] = 0 /\ r[o] = 0
        BY <2>2, <3>3 DEF SignedKnown, Known, SideLeft, Signed
      <4>2. dir * fld \in Int
        <5> HIDE DEF dir, fld
        <5> QED BY <3>1
      <4> HIDE DEF s, l, r, w, dir, fld
      <4> QED BY <4>1, <4>2
    <3> QED BY <3>2, <3>3
  <2> QED BY <2>1, <2>2
<1>3. \A o \in OrderId : w[o] \in Int
  <2> SUFFICES ASSUME NEW o \in OrderId PROVE w[o] \in Int
    OBVIOUS
  <2>1. o \in DOMAIN exch => /\ exch[o].dir \in {1, -1} /\ exch[o].filled \in Nat
                             /\ exch[o].volume \in Nat
    BY JInvFields, BookFields
  <2>2. o \in DOMAIN exch => f[o] \in Int
    <3> SUFFICES ASSUME o \in DOMAIN exch PROVE f[o] \in Int
      OBVIOUS
    <3> DEFINE dir == exch[o].dir
               x   == IF o \in DOMAIN orders THEN exch[o].volume ELSE exch[o].filled
    <3>1. dir \in {1, -1} /\ x \in Nat
      BY <2>1
    <3>2. f[o] = IF IsActiveOrder(o) THEN dir * x ELSE 0
      BY DEF Signed
    <3> HIDE DEF f, dir, x
    <3>3. dir * x \in Int
      BY <3>1
    <3> QED BY <3>2, <3>3
  <2>3. w[o] = IF o \in DOMAIN exch THEN f[o] ELSE 0
    OBVIOUS
  <2> HIDE DEF f, w
  <2> QED BY <2>2, <2>3
<1>4. SumFunction(f) = OrderSum(w)
  <2>1. DOMAIN f = DOMAIN exch /\ DOMAIN exch \subseteq OrderId
    BY JInvFields DEF ExchTyped
  <2>2. \A o \in OrderId : w[o] = IF o \in DOMAIN f THEN f[o] ELSE 0
    BY <2>1
  <2> HIDE DEF f, w
  <2>3. \A o \in DOMAIN f : f[o] \in Int
    BY <1>3, <2>1, <2>2
  <2> QED BY <2>1, <2>2, <2>3, SumOverIds
<1>5. \A o \in OrderId : m[o] = s[o] + l[o]
  OBVIOUS
<1> HIDE DEF f, w, s, l, r, m
<1>6. OrderSum(m) = OrderSum(s) + OrderSum(l) /\ OrderSum(m) = OrderSum(w) + OrderSum(r)
  <2>1. \A o \in OrderId : s[o] \in Int /\ l[o] \in Int /\ m[o] = s[o] + l[o]
    BY <1>1, <1>5
  <2>2. \A o \in OrderId : w[o] \in Int /\ r[o] \in Int /\ m[o] = w[o] + r[o]
    BY <1>1, <1>2, <1>3, <1>5
  <2> QED BY <2>1, <2>2, FiniteIds, SumPlus DEF OrderSum
<1>7. OrderSum(s) \in Int /\ OrderSum(l) \in Int /\ OrderSum(r) \in Int /\ OrderSum(w) \in Int
  <2>1. \A o \in OrderId : s[o] \in Int /\ l[o] \in Int /\ r[o] \in Int /\ w[o] \in Int
    BY <1>1, <1>3
  <2> QED BY <2>1, FiniteIds, SumInt DEF OrderSum
<1>8. HoldingIfAllFill = StartVolume + OrderSum(w)
  BY <1>4 DEF HoldingIfAllFill, f
<1>9. GetExpectActiveVolume = position + PairSum(PairFill(pairs)) + OrderSum(l) - OrderSum(r)
  BY LiveFills DEF GetExpectActiveVolume, Sides, l, r
<1>10. position + PairSum(PairFill(pairs)) = StartVolume + OrderSum(s)
  BY DEF JInv, Whole, Accounted, s
<1> DEFINE pf == PairSum(PairFill(pairs))
<1>11. pf \in Int /\ position \in Int /\ StartVolume \in Int
  BY LiveFills, JInvFields, VolumeAssumption
<1> HIDE DEF pf
<1>12. /\ GetExpectActiveVolume = position + pf + OrderSum(l) - OrderSum(r)
       /\ position + pf = StartVolume + OrderSum(s)
  BY <1>9, <1>10 DEF pf
<1> QED BY <1>6, <1>7, <1>8, <1>11, <1>12

\* The volume of a new pair order is at most what is missing to the target, rounded
\* to an active lot.
LEMMA TargetVolumeBound ==
  ASSUME GetExpectActiveVolume \in Int, NEW t \in 0..MaxTarget
  PROVE  /\ OpenVolume(t) > 0 =>
              2 * (GetExpectActiveVolume + OpenVolume(t)) <= 2 * MaxTarget + ActLot
         /\ CloseVolume(t) > 0 => 2 * (GetExpectActiveVolume - CloseVolume(t)) >= -ActLot
<1> DEFINE e == GetExpectActiveVolume
           a == Least(t - e, ClipVolume)
           b == Least(e - t, ClipVolume)
<1>1. /\ e \in Int /\ t \in Nat /\ t <= MaxTarget /\ MaxTarget \in Nat /\ ClipVolume \in Nat
      /\ ActLot \in Nat \ {0} /\ MinVolume \in Nat
  BY VolumeAssumption
<1>2. OpenVolume(t) = IF mayOpen /\ ~fundVerifyFailed /\ e > -MinVolume /\ t > e /\ t > 0
                      THEN RoundLot(a, ActLot) ELSE 0
  BY DEF OpenVolume
<1>3. CloseVolume(t) = IF mayClose /\ e >= MinVolume /\ t < e THEN RoundLot(b, ActLot) ELSE 0
  BY DEF CloseVolume
<1> HIDE DEF e
<1>4. (t > e => a \in Nat /\ a <= t - e) /\ (t < e => b \in Nat /\ b <= e - t)
  BY <1>1 DEF Least
<1> HIDE DEF a, b
<1>5. t > e => RoundLot(a, ActLot) \in Nat /\ 2 * RoundLot(a, ActLot) <= 2 * a + ActLot
  BY <1>1, <1>4, RoundLotBound
<1>6. t < e => RoundLot(b, ActLot) \in Nat /\ 2 * RoundLot(b, ActLot) <= 2 * b + ActLot
  BY <1>1, <1>4, RoundLotBound
<1>7. OpenVolume(t) > 0 => t > e /\ OpenVolume(t) = RoundLot(a, ActLot)
  BY <1>2
<1>8. CloseVolume(t) > 0 => t < e /\ CloseVolume(t) = RoundLot(b, ActLot)
  BY <1>3
<1>9. OpenVolume(t) > 0 => 2 * (e + OpenVolume(t)) <= 2 * MaxTarget + ActLot
  BY <1>1, <1>4, <1>5, <1>7
<1>10. CloseVolume(t) > 0 => 2 * (e - CloseVolume(t)) >= -ActLot
  BY <1>1, <1>4, <1>6, <1>8
<1> QED BY <1>9, <1>10 DEF e

\* The same of the next state.
LEMMA NextExpected ==
  /\ JInv' /\ Sides' /\ algoStatus' # "DELETED" => HoldingIfAllFill' = GetExpectActiveVolume'
  /\ JInv' => GetExpectActiveVolume' =
                position' + PairSum(PairFill(pairs))' + frozenLong' - frozenShort'
<1>1. JInv /\ Sides /\ algoStatus # "DELETED" => HoldingIfAllFill = GetExpectActiveVolume
  BY ExpectIsHolding
<1>2. JInv => GetExpectActiveVolume =
                position + PairSum(PairFill(pairs)) + frozenLong - frozenShort
  BY LiveFills DEF GetExpectActiveVolume
<1>3. (JInv /\ Sides /\ algoStatus # "DELETED" => HoldingIfAllFill = GetExpectActiveVolume)'
  BY <1>1, PTL
<1>4. (JInv => GetExpectActiveVolume =
                 position + PairSum(PairFill(pairs)) + frozenLong - frozenShort)'
  BY <1>2, PTL
<1> QED BY <1>3, <1>4

\* A new pair order whose active order is sent raises what is expected by its volume.
LEMMA CreateExpects ==
  ASSUME JInv, Sides, algoStatus = "NEW", NEW dir \in {1, -1}, NEW v \in Int, NEW funded \in BOOLEAN,
         NEW C, CreatePairOrder(dir, v, funded, C), JInv', Sides', v >= ActMin /\ funded
  PROVE  /\ GetExpectActiveVolume \in Int
         /\ HoldingIfAllFill' = GetExpectActiveVolume + dir * v
<1>1. /\ position' = position /\ algoStatus' = "NEW"
      /\ frozenLong' = Freeze(frozenLong, 1, dir, v) /\ frozenShort' = Freeze(frozenShort, -1, dir, v)
  BY DEF CreatePairOrder
<1>2. HoldingIfAllFill' = GetExpectActiveVolume'
  BY <1>1, NextExpected
<1> DEFINE a == PairSum(PairFill(pairs))
<1>3. /\ a \in Int /\ GetExpectActiveVolume = position + a + frozenLong - frozenShort
  BY LiveFills DEF GetExpectActiveVolume
<1>4. GetExpectActiveVolume' = position' + a' + frozenLong' - frozenShort'
  BY NextExpected
<1>5. a' = a
  BY CreateStep
<1>6. position \in Int /\ frozenLong \in Int /\ frozenShort \in Int
  BY JInvFields
<1> HIDE DEF a
<1>7. dir = 1 => frozenLong' = frozenLong + v /\ frozenShort' = frozenShort
  BY <1>1 DEF Freeze
<1>8. dir = -1 => frozenLong' = frozenLong /\ frozenShort' = frozenShort + v
  BY <1>1 DEF Freeze
<1>9. GetExpectActiveVolume \in Int
  BY <1>3, <1>6
<1>10. GetExpectActiveVolume' = GetExpectActiveVolume + dir * v
  <2>1. CASE dir = 1
    <3>1. GetExpectActiveVolume' = position + a + (frozenLong + v) - frozenShort
      BY <1>1, <1>4, <1>5, <1>7, <2>1
    <3>2. GetExpectActiveVolume' = GetExpectActiveVolume + v
      BY <1>3, <1>6, <3>1
    <3> QED BY <2>1, <3>2
  <2>2. CASE dir = -1
    <3>1. GetExpectActiveVolume' = position + a + frozenLong - (frozenShort + v)
      BY <1>1, <1>4, <1>5, <1>8, <2>2
    <3>2. GetExpectActiveVolume' = GetExpectActiveVolume - v
      BY <1>3, <1>6, <3>1
    <3> QED BY <1>9, <2>2, <3>2
  <2> QED BY <2>1, <2>2
<1> QED BY <1>2, <1>9, <1>10

\* The order sent with a new pair.
LEMMA CreateSends ==
  ASSUME NEW dir, NEW v, NEW funded, NEW C, CreatePairOrder(dir, v, funded, C),
         NEW o \in DOMAIN exch' \ DOMAIN exch
  PROVE  v >= ActMin /\ funded /\ exch'[o].dir = dir
<1> DEFINE sent == v >= ActMin /\ funded
<1>1. exch' = [x \in DOMAIN exch \union (IF sent THEN {<<nextPair, 0>>} ELSE {}) |->
                 IF x = <<nextPair, 0>> THEN Placed(dir, v) ELSE RequestCancels(exch, C)[x]]
  BY DEF CreatePairOrder, RequestCancels
<1>2. o = <<nextPair, 0>> /\ sent
  BY <1>1
<1>3. exch'[o] = Placed(dir, v)
  BY <1>1, <1>2
<1> QED BY <1>2, <1>3 DEF Placed

\* Only the creation of a pair order sends an active order, sized from what is
\* expected; so no step sends one past the target.
LEMMA StepWithinTarget ==
  ASSUME JInv, Sides, Careful, Next, JInv', Sides'
  PROVE  \A o \in DOMAIN exch' \ DOMAIN exch : IsActiveOrder(o) =>
           IF exch'[o].dir = 1 THEN 2 * HoldingIfAllFill' <= 2 * MaxTarget + ActLot
                               ELSE 2 * HoldingIfAllFill' >= -ActLot
<1> SUFFICES ASSUME NEW o \in DOMAIN exch' \ DOMAIN exch, IsActiveOrder(o)
             PROVE  IF exch'[o].dir = 1 THEN 2 * HoldingIfAllFill' <= 2 * MaxTarget + ActLot
                                        ELSE 2 * HoldingIfAllFill' >= -ActLot
  OBVIOUS
<1>1. CASE OpenOnSpread
  <2>1. PICK C \in SUBSET Cancellable(orders), t \in 0..MaxTarget, funded \in BOOLEAN :
          CreatePairOrder(1, OpenVolume(t), funded, C)
    BY <1>1 DEF OpenOnSpread
  <2> DEFINE v == OpenVolume(t)
  <2>2. v \in Int /\ algoStatus = "NEW" /\ v > 0
    BY <1>1, <2>1, TargetVolumeInt DEF JInv, OpenOnSpread, CreatePairOrder
  <2>3. (v >= ActMin /\ funded) /\ exch'[o].dir = 1
    BY <2>1, CreateSends
  <2>4. CreatePairOrder(1, v, funded, C)
    BY <2>1
  <2>5. 2 * (GetExpectActiveVolume + v) <= 2 * MaxTarget + ActLot \/ GetExpectActiveVolume \notin Int
    BY <2>2, TargetVolumeBound
  <2> HIDE DEF v
  <2>6. /\ GetExpectActiveVolume \in Int
        /\ HoldingIfAllFill' = GetExpectActiveVolume + 1 * v
    BY <2>2, <2>3, <2>4, CreateExpects
  <2>7. HoldingIfAllFill' = GetExpectActiveVolume + v
    BY <2>2, <2>6
  <2> QED BY <2>3, <2>5, <2>6, <2>7
<1>2. CASE CloseOnSpread
  <2>1. PICK C \in SUBSET Cancellable(orders), t \in 0..MaxTarget, funded \in BOOLEAN :
          CreatePairOrder(-1, CloseVolume(t), funded, C)
    BY <1>2 DEF CloseOnSpread
  <2> DEFINE v == CloseVolume(t)
  <2>2. v \in Int /\ algoStatus = "NEW" /\ v > 0
    BY <1>2, <2>1, TargetVolumeInt DEF JInv, CloseOnSpread, CreatePairOrder
  <2>3. (v >= ActMin /\ funded) /\ exch'[o].dir = -1
    BY <2>1, CreateSends
  <2>4. CreatePairOrder(-1, v, funded, C)
    BY <2>1
  <2>5. 2 * (GetExpectActiveVolume - v) >= -ActLot \/ GetExpectActiveVolume \notin Int
    BY <2>2, TargetVolumeBound
  <2> HIDE DEF v
  <2>6. /\ GetExpectActiveVolume \in Int
        /\ HoldingIfAllFill' = GetExpectActiveVolume + (-1) * v
    BY <2>2, <2>3, <2>4, CreateExpects
  <2>7. HoldingIfAllFill' = GetExpectActiveVolume - v
    BY <2>2, <2>6
  <2> QED BY <2>3, <2>5, <2>6, <2>7
<1>3. CASE ~OpenOnSpread /\ ~CloseOnSpread
  BY <1>3, OthersSendOnlyHedges DEF JInv, OnlyHedges
<1> QED BY <1>1, <1>2, <1>3

-----------------------------------------------------------------------------
(* The theorems of the ledger *)

\* BooksMatchExchange holds for every number of orders, volumes and lots: nothing
\* is lost or counted twice when pairs are finished while reports are late.
THEOREM Accounts == Spec => []BooksMatchExchange
<1>1. Init => JInv
  BY InitJInv
<1> QED BY <1>1, NextJInv, BooksFollow, PTL DEF Spec

\* OpenOrdersTracked holds always: no order is forgotten while the exchange works it.
THEOREM Tracks == Spec => []OpenOrdersTracked
<1>1. Init => JInv
  BY InitJInv
<1> QED BY <1>1, NextJInv, OpenFollow, PTL DEF Spec

\* FinishedPairsHedged holds always, for every pair of lots and minimal sizes.
THEOREM Hedges == Spec => []FinishedPairsHedged
<1>1. Init => JInv
  BY InitJInv
<1> QED BY <1>1, NextJInv, HedgedFollow, PTL DEF Spec

\* Nothing is frozen at the start.
LEMMA InitSides == Init => Sides
<1> SUFFICES ASSUME Init PROVE Sides
  OBVIOUS
<1>1. \A d : OrderSum(SideLeft(orders, d)) = 0
  BY InitJInv
<1>2. frozenLong = 0 /\ frozenShort = 0
  BY DEF Init
<1>3. NeverCloses => ~mayClose
  <2>1. PICK s \in Switches : mayClose = s[2]
    BY DEF Init
  <2> QED BY <2>1 DEF NeverCloses
<1> QED BY <1>1, <1>2, <1>3 DEF Sides

\* FrozenMatchesOrders holds always when the active leg is a swap, or when the
\* strategy never closes: the release of SPOT sells is where it fails otherwise.
THEOREM Freezes == ASSUME Careful PROVE Spec => []FrozenMatchesOrders
<1>1. Init => JInv /\ Sides
  BY InitJInv, InitSides
<1>2. JInv /\ Sides /\ [Next]_vars => (JInv /\ Sides)'
  BY NextJInv, NextSides
<1>3. JInv /\ Sides => FrozenMatchesOrders
  BY FrozenFollow
<1> QED BY <1>1, <1>2, <1>3, PTL DEF Spec

\* OrdersWithinTarget holds under the same assumption, for every ladder and lot.
THEOREM Targets == ASSUME Careful PROVE Spec => OrdersWithinTarget
<1>1. Init => JInv /\ Sides
  BY InitJInv, InitSides
<1>2. JInv /\ Sides /\ [Next]_vars => (JInv /\ Sides)'
  BY NextJInv, NextSides
<1>3. JInv /\ Sides /\ JInv' /\ Sides' /\ [Next]_vars =>
        [\A o \in DOMAIN exch' \ DOMAIN exch : IsActiveOrder(o) =>
           IF exch'[o].dir = 1 THEN 2 * HoldingIfAllFill' <= 2 * MaxTarget + ActLot
                               ELSE 2 * HoldingIfAllFill' >= -ActLot]_vars
  BY StepWithinTarget
<1> QED BY <1>1, <1>2, <1>3, PTL DEF Spec, OrdersWithinTarget

-----------------------------------------------------------------------------
(* Part 4: PairOrderExec implements AlgoOrder *)

\* The algo order as the strategy sees it: the mapping of PairOrderRefinement.
LivePairs(ps) == {<<p, ps[p].dir>> : p \in DOMAIN ps}
View(status, pos, ps, open, close) ==
  [status |-> status, role |-> Role, position |-> pos, live |-> LivePairs(ps),
   mayOpen |-> open, mayClose |-> close]
Seen == View(algoStatus, position, pairs, mayOpen, mayClose)

\* Ended pairs move the position their own way.
LEMMA EndedPairsMove ==
  ASSUME NEW ps, NEW n \in Int, PairsTyped(ps, n), NEW F \in SUBSET DOMAIN ps, position \in Int
  PROVE  /\ PositionAfter(ps, F) > position => \E p \in F : ps[p].dir = 1
         /\ PositionAfter(ps, F) < position => \E p \in F : ps[p].dir = -1
<1> DEFINE f == [p \in F |-> ps[p].dir * ps[p].actTotal]
           g == [p \in F |-> -f[p]]
           z == [p \in F |-> 0]
           s == SumFunctionOnSet(f, F)
           t == SumFunctionOnSet(g, F)
<1>1. IsFiniteSet(F)
  <2>1. IsFiniteSet(1..(n - 1))
    BY FS_Interval
  <2> QED BY <2>1, FS_Subset DEF PairsTyped
<1>2. \A p \in F : ps[p].dir \in {1, -1} /\ ps[p].actTotal \in Nat
  <2>1. \A p \in F : ps[p] \in Pair
    BY DEF PairsTyped
  <2> QED BY <2>1, PairFields
<1>3. \A p \in F : /\ f[p] \in Int /\ g[p] \in Int /\ z[p] = f[p] + g[p]
                   /\ ps[p].dir = 1 => f[p] \in Nat
                   /\ ps[p].dir = -1 => g[p] \in Nat
  <2> SUFFICES ASSUME NEW p \in F
               PROVE  /\ f[p] \in Int /\ g[p] \in Int /\ z[p] = f[p] + g[p]
                      /\ ps[p].dir = 1 => f[p] \in Nat
                      /\ ps[p].dir = -1 => g[p] \in Nat
    OBVIOUS
  <2> DEFINE d == ps[p].dir
             a == ps[p].actTotal
  <2>1. d \in {1, -1} /\ a \in Nat /\ f[p] = d * a /\ g[p] = -f[p] /\ z[p] = 0
    BY <1>2
  <2> HIDE DEF d, a, f, g, z
  <2>2. CASE d = 1
    <3>1. f[p] = a
      BY <2>1, <2>2
    <3> QED BY <2>1, <2>2, <3>1 DEF d
  <2>3. CASE d = -1
    <3>1. f[p] = -a
      BY <2>1, <2>3
    <3> QED BY <2>1, <2>3, <3>1 DEF d
  <2> QED BY <2>1, <2>2, <2>3
<1>4. SumFunctionOnSet(z, F) = 0
  <2>1. \A p \in F : z[p] = 0
    OBVIOUS
  <2>2. SumFunctionOnSet(z, {}) = SumFunctionOnSet(z, F)
    <3> HIDE DEF z
    <3> QED BY <1>1, <2>1, SumWithin
  <2> QED BY <2>2, SumEmpty
<1>5. PositionAfter(ps, F) = position + s
  BY DEF PositionAfter, SumFunction
<1> HIDE DEF f, g, z
<1>6. SumFunctionOnSet(z, F) = s + t
  BY <1>1, <1>3, SumPlus
<1>7. s \in Int /\ t \in Int
  BY <1>1, <1>3, SumInt
<1>8. (\A p \in F : ps[p].dir = 1) => s \in Nat
  BY <1>1, <1>3, SumNotNegative
<1>9. (\A p \in F : ps[p].dir = -1) => t \in Nat
  BY <1>1, <1>3, SumNotNegative
<1> HIDE DEF s, t
<1>10. s + t = 0
  BY <1>4, <1>6
<1>11. s < 0 => \E p \in F : ps[p].dir = -1
  BY <1>2, <1>8
<1>12. s > 0 => \E p \in F : ps[p].dir = 1
  BY <1>2, <1>7, <1>9, <1>10
<1> QED BY <1>5, <1>7, <1>11, <1>12

\* PairOrderTrade ends pairs and moves the position as the contract says.  pd is
\* pairs, before the report that precedes the trade.
LEMMA TradeFinishes ==
  ASSUME NEW ps, NEW os, NEW P \in SUBSET DOMAIN ps, NEW C, PairsTyped(ps, nextPair),
         nextPair \in 1..(PairBound + 1), position \in Int, PairOrderTrade(ps, os, P, C),
         NEW pd, DOMAIN pd = DOMAIN ps, \A p \in DOMAIN ps : pd[p].dir = ps[p].dir
  PROVE  /\ LivePairs(pairs') = {x \in LivePairs(pd) : x[1] \notin Finished(ps, P)}
         /\ position' > position => \E x \in LivePairs(pd) \ LivePairs(pairs') : x[2] = 1
         /\ position' < position => \E x \in LivePairs(pd) \ LivePairs(pairs') : x[2] = -1
<1> DEFINE F == Finished(ps, P)
<1>1. /\ Traded(ps, CancelOrders(os, C), RequestCancels(exch, C), Hedged(ps, P), F, pairs', orders', exch')
      /\ position' = PositionAfter(ps, F)
  BY TradeFacts
<1>2. /\ F \in SUBSET DOMAIN ps /\ DOMAIN pairs' = DOMAIN ps \ F
      /\ \A p \in DOMAIN pairs' : pairs'[p].dir = ps[p].dir
  BY <1>1 DEF Traded
<1> HIDE DEF F
<1>3. LivePairs(pairs') = {x \in LivePairs(pd) : x[1] \notin F}
  BY <1>2 DEF LivePairs
<1>4. \A p \in F : <<p, ps[p].dir>> \in LivePairs(pd) \ LivePairs(pairs')
  <2> SUFFICES ASSUME NEW p \in F PROVE <<p, ps[p].dir>> \in LivePairs(pd) \ LivePairs(pairs')
    OBVIOUS
  <2>1. <<p, ps[p].dir>> \in LivePairs(pd)
    BY <1>2 DEF LivePairs
  <2>2. <<p, ps[p].dir>> \notin LivePairs(pairs')
    BY <1>3
  <2> QED BY <2>1, <2>2
<1>5. /\ PositionAfter(ps, F) > position => \E p \in F : ps[p].dir = 1
      /\ PositionAfter(ps, F) < position => \E p \in F : ps[p].dir = -1
  <2>1. nextPair \in Int
    BY LimitAssumption
  <2> QED BY <1>2, <2>1, EndedPairsMove
<1>6. ASSUME position' > position
      PROVE  \E x \in LivePairs(pd) \ LivePairs(pairs') : x[2] = 1
  <2>1. PICK p \in F : ps[p].dir = 1
    BY <1>1, <1>5, <1>6
  <2>2. <<p, ps[p].dir>>[2] = ps[p].dir
    OBVIOUS
  <2> QED BY <1>4, <2>1, <2>2
<1>7. ASSUME position' < position
      PROVE  \E x \in LivePairs(pd) \ LivePairs(pairs') : x[2] = -1
  <2>1. PICK p \in F : ps[p].dir = -1
    BY <1>1, <1>5, <1>7
  <2>2. <<p, ps[p].dir>>[2] = ps[p].dir
    OBVIOUS
  <2> QED BY <1>4, <2>1, <2>2
<1> QED BY <1>3, <1>6, <1>7 DEF F

\* The fields of a view.
LEMMA ViewFields ==
  ASSUME NEW s, NEW p, NEW ps, NEW o, NEW c
  PROVE  /\ View(s, p, ps, o, c).status = s /\ View(s, p, ps, o, c).role = Role
         /\ View(s, p, ps, o, c).position = p /\ View(s, p, ps, o, c).live = LivePairs(ps)
         /\ View(s, p, ps, o, c).mayOpen = o /\ View(s, p, ps, o, c).mayClose = c
  BY DEF View

\* A view whose status changes.
LEMMA ViewStatus ==
  ASSUME NEW s, NEW p, NEW ps, NEW o, NEW c, NEW s2
  PROVE  View(s2, p, ps, o, c) = [View(s, p, ps, o, c) EXCEPT !.status = s2]
  BY SMT DEF View

\* The position changes.
LEMMA ViewPosition ==
  ASSUME NEW s, NEW p, NEW ps, NEW o, NEW c, NEW p2
  PROVE  View(s, p2, ps, o, c) = [View(s, p, ps, o, c) EXCEPT !.position = p2]
  BY SMT DEF View

\* The live pairs change.
LEMMA ViewLive ==
  ASSUME NEW s, NEW p, NEW ps, NEW o, NEW c, NEW ps2
  PROVE  View(s, p, ps2, o, c) = [View(s, p, ps, o, c) EXCEPT !.live = LivePairs(ps2)]
  BY SMT DEF View

\* The opening switch changes.
LEMMA ViewOpen ==
  ASSUME NEW s, NEW p, NEW ps, NEW o, NEW c, NEW o2
  PROVE  View(s, p, ps, o2, c) = [View(s, p, ps, o, c) EXCEPT !.mayOpen = o2]
  BY SMT DEF View

\* The closing switch changes.
LEMMA ViewClose ==
  ASSUME NEW s, NEW p, NEW ps, NEW o, NEW c, NEW c2
  PROVE  View(s, p, ps, o, c2) = [View(s, p, ps, o, c) EXCEPT !.mayClose = c2]
  BY SMT DEF View

\* OnOrder is a report of the contract.
LEMMA ReportRefines ==
  ASSUME JInv, NEW o \in DOMAIN orders, NEW st \in LiveStatus \union {"DONE"},
         NEW k \in 0..exch[o].volume, NEW isQuery \in BOOLEAN, NEW pass \in BOOLEAN, NEW C,
         OnOrder(o, st, k, isQuery, pass, C)
  PROVE  Contract!TakesReport(Seen, Seen')
<1> DEFINE done == st = "DONE"
           ps   == PairsReported(o, k, done)
           os   == OrdersReported(o, st, k, isQuery)
           P    == IF (done \/ (IsActiveOrder(o) /\ k > orders[o].total)) /\ pass
                   THEN {PairOf(o)} ELSE {}
<1>1. /\ PairOf(o) \in DOMAIN pairs /\ ~OutOfOrder(o, k)
      /\ PairOrderTrade(ps, os, P, C)
      /\ UNCHANGED <<algoVars, nextPair>>
  BY DEF OnOrder, PairsReported, OrdersReported
<1>2. DOMAIN pairs = DOMAIN ps /\ \A p \in DOMAIN ps : pairs[p].dir = ps[p].dir
  BY <1>1, ReportKeepsDirection DEF PairsReported, JInv
<1>3. PairsTyped(ps, nextPair)
  <2>1. Books(ps, os, exch, nextPair)
    BY <1>1, ReportKeepsBooks DEF JInv
  <2> QED BY <2>1 DEF Books
<1>4. P \in SUBSET DOMAIN ps /\ P \subseteq {PairOf(o)}
  BY <1>1, <1>2
<1>5. Finished(ps, P) \subseteq P
  BY DEF Finished
<1>6. algoStatus # "DELETED"
  BY DEF JInv, Ended
<1> HIDE DEF done, ps, os, P
<1>7. /\ LivePairs(pairs') = {x \in LivePairs(pairs) : x[1] \notin Finished(ps, P)}
      /\ position' > position => \E x \in LivePairs(pairs) \ LivePairs(pairs') : x[2] = 1
      /\ position' < position => \E x \in LivePairs(pairs) \ LivePairs(pairs') : x[2] = -1
  BY <1>1, <1>2, <1>3, <1>4, JInvFields, TradeFinishes
<1>8. \A x, y \in LivePairs(pairs) \ LivePairs(pairs') : x = y
  BY <1>4, <1>5, <1>7 DEF LivePairs
<1>9. /\ Seen.status = algoStatus /\ Seen.live = LivePairs(pairs) /\ Seen.position = position
      /\ Seen'.live = LivePairs(pairs') /\ Seen'.position = position'
  BY ViewFields DEF Seen
<1>10. Seen' = [Seen EXCEPT !.position = position', !.live = LivePairs(pairs')]
  <2> DEFINE v == View(algoStatus, position', pairs, mayOpen, mayClose)
  <2>1. Seen' = View(algoStatus, position', pairs', mayOpen, mayClose)
    BY <1>1 DEF Seen, algoVars
  <2>2. Seen' = [v EXCEPT !.live = LivePairs(pairs')]
    BY <2>1, ViewLive
  <2>3. v = [Seen EXCEPT !.position = position']
    BY ViewPosition DEF Seen
  <2> HIDE DEF v
  <2> QED BY <2>2, <2>3
<1>11. Contract!Finishes(Seen, Seen')
  BY <1>7, <1>9 DEF Contract!Finishes
<1> QED BY <1>6, <1>8, <1>9, <1>10, <1>11 DEF Contract!TakesReport

\* OnTimer is a tick of the contract.
LEMMA TimerRefines ==
  ASSUME JInv, NEW P \in SUBSET DOMAIN pairs, NEW Q, OnTimer(P, Q)
  PROVE  Contract!Ticks(Seen, Seen')
<1>1. PICK queried : /\ PairOrderTrade(pairs, queried, P, {})
                     /\ UNCHANGED <<mayOpen, mayClose>>
  BY DEF OnTimer
<1>2. /\ algoStatus \in {"NEW", "CANCELLING"}
      /\ algoStatus' \in {algoStatus, "FILLED", "CANCELED", "ERRORCANCELED"}
      /\ algoStatus' = "FILLED" => DOMAIN pairs = {} /\ (mayOpen => Role # "OPEN_SIGNAL")
      /\ algoStatus' = "CANCELED" => DOMAIN pairs = {} /\ algoStatus = "CANCELLING"
      /\ algoStatus = "CANCELLING" /\ DOMAIN pairs = {} => algoStatus' # "CANCELLING"
  BY DEF OnTimer
<1>3. /\ LivePairs(pairs') = {x \in LivePairs(pairs) : x[1] \notin Finished(pairs, P)}
      /\ position' > position => \E x \in LivePairs(pairs) \ LivePairs(pairs') : x[2] = 1
      /\ position' < position => \E x \in LivePairs(pairs) \ LivePairs(pairs') : x[2] = -1
  BY <1>1, JInvFields, TradeFinishes
<1>4. LivePairs(pairs) = {} <=> DOMAIN pairs = {}
  BY DEF LivePairs
<1>5. /\ Seen.status = algoStatus /\ Seen.live = LivePairs(pairs) /\ Seen.position = position
      /\ Seen.mayOpen = mayOpen /\ Seen.role = Role /\ Seen'.status = algoStatus'
      /\ Seen'.live = LivePairs(pairs') /\ Seen'.position = position'
  BY ViewFields DEF Seen
<1>6. Seen' = [Seen EXCEPT !.status = algoStatus', !.position = position', !.live = LivePairs(pairs')]
  <2> DEFINE u == View(algoStatus', position, pairs, mayOpen, mayClose)
             v == View(algoStatus', position', pairs, mayOpen, mayClose)
  <2>1. Seen' = View(algoStatus', position', pairs', mayOpen, mayClose)
    BY <1>1 DEF Seen
  <2>2. Seen' = [v EXCEPT !.live = LivePairs(pairs')]
    BY <2>1, ViewLive
  <2>3. v = [u EXCEPT !.position = position']
    BY ViewPosition
  <2>4. u = [Seen EXCEPT !.status = algoStatus']
    BY ViewStatus DEF Seen
  <2> HIDE DEF u, v
  <2> QED BY <2>2, <2>3, <2>4
<1>7. Contract!Finishes(Seen, Seen')
  BY <1>3, <1>5 DEF Contract!Finishes
<1> QED BY <1>2, <1>4, <1>5, <1>6, <1>7 DEF Contract!Ticks, Contract!Working, Contract!Terminal

\* A new pair order is one the contract allows.
LEMMA CreateRefines ==
  ASSUME JInv, algoStatus = "NEW", NEW dir \in {1, -1}, NEW v, NEW funded, NEW C,
         CreatePairOrder(dir, v, funded, C), IF dir = 1 THEN mayOpen ELSE mayClose
  PROVE  Contract!Creates(Seen, Seen')
<1> DEFINE x == <<nextPair, dir>>
<1>1. /\ UNCHANGED <<algoStatus, mayOpen, mayClose, position>>
      /\ DOMAIN pairs' = DOMAIN pairs \union {nextPair}
      /\ pairs'[nextPair].dir = dir
      /\ \A p \in DOMAIN pairs : p # nextPair => pairs'[p] = pairs[p]
  BY DEF CreatePairOrder
<1>2. nextPair \notin DOMAIN pairs
  BY JInvFields, LimitAssumption DEF PairsTyped
<1>3. LivePairs(pairs') = LivePairs(pairs) \union {x} /\ x \notin LivePairs(pairs)
  BY <1>1, <1>2 DEF LivePairs
<1>4. /\ Seen.status = algoStatus /\ Seen.live = LivePairs(pairs) /\ Seen.mayOpen = mayOpen
      /\ Seen.mayClose = mayClose /\ Seen'.live = LivePairs(pairs')
  BY ViewFields DEF Seen
<1>5. Seen' = [Seen EXCEPT !.live = Seen.live \union {x}]
  <2>1. Seen' = View(algoStatus, position, pairs', mayOpen, mayClose)
    BY <1>1 DEF Seen
  <2>2. Seen' = [Seen EXCEPT !.live = LivePairs(pairs')]
    BY <2>1, ViewLive DEF Seen
  <2> QED BY <1>3, <1>4, <2>2
<1>6. x \in Seen'.live \ Seen.live /\ (IF x[2] = 1 THEN Seen.mayOpen ELSE Seen.mayClose)
  BY <1>3, <1>4
<1> HIDE DEF x
<1> QED BY <1>4, <1>5, <1>6 DEF Contract!Creates

\* Every step is a step of the contract, or none the strategy sees.
LEMMA StepRefines ==
  ASSUME JInv, [Next]_vars
  PROVE  \/ Seen' = Seen \/ Contract!Creates(Seen, Seen') \/ Contract!TakesReport(Seen, Seen')
         \/ Contract!Ticks(Seen, Seen') \/ Contract!Cancels(Seen, Seen')
         \/ Contract!Modifies(Seen, Seen') \/ Contract!Deletes(Seen, Seen')
<1>1. CASE OpenOnSpread
  <2>1. PICK C \in SUBSET Cancellable(orders), t \in 0..MaxTarget, funded \in BOOLEAN :
          algoStatus = "NEW" /\ CreatePairOrder(1, OpenVolume(t), funded, C)
    BY <1>1 DEF OpenOnSpread
  <2>2. OpenVolume(t) > 0
    BY <2>1 DEF CreatePairOrder
  <2>3. mayOpen
    BY <2>2 DEF OpenVolume
  <2> QED BY <2>1, <2>3, CreateRefines
<1>2. CASE CloseOnSpread
  <2>1. PICK C \in SUBSET Cancellable(orders), t \in 0..MaxTarget, funded \in BOOLEAN :
          algoStatus = "NEW" /\ CreatePairOrder(-1, CloseVolume(t), funded, C)
    BY <1>2 DEF CloseOnSpread
  <2>2. CloseVolume(t) > 0
    BY <2>1 DEF CreatePairOrder
  <2>3. mayClose
    BY <2>2 DEF CloseVolume
  <2>4. IF -1 = 1 THEN mayOpen ELSE mayClose
    BY <2>3
  <2> QED BY <2>1, <2>4, CreateRefines
<1>3. CASE Deliver
  <2>1. PICK o \in DOMAIN orders, st \in LiveStatus \union {"DONE"} :
          \E k \in 0..exch[o].volume :
            \E isQuery, pass \in BOOLEAN, C \in SUBSET (Cancellable(orders) \union {o}) :
              OnOrder(o, st, k, isQuery, pass, C)
    BY <1>3 DEF Deliver
  <2> QED BY <2>1, ReportRefines
<1>4. CASE Timer
  BY <1>4, TimerRefines DEF Timer
<1>5. CASE DeleteAlgoOrder
  <2>1. /\ algoStatus \in {"FILLED", "CANCELED", "ERRORCANCELED"} /\ algoStatus' = "DELETED"
        /\ pairs' = Without(pairs, DOMAIN pairs) /\ UNCHANGED <<mayOpen, mayClose, position>>
    BY <1>5 DEF DeleteAlgoOrder, TerminalStatus
  <2>2. LivePairs(pairs') = {}
    BY <2>1 DEF LivePairs, Without
  <2>3. Seen.status = algoStatus
    BY ViewFields DEF Seen
  <2>4. Seen' = [Seen EXCEPT !.status = "DELETED", !.live = {}]
    <3> DEFINE u == View("DELETED", position, pairs, mayOpen, mayClose)
    <3>1. Seen' = View("DELETED", position, pairs', mayOpen, mayClose)
      BY <2>1 DEF Seen
    <3>2. Seen' = [u EXCEPT !.live = {}]
      BY <2>2, <3>1, ViewLive
    <3>3. u = [Seen EXCEPT !.status = "DELETED"]
      BY ViewStatus DEF Seen
    <3> HIDE DEF u
    <3> QED BY <3>2, <3>3
  <2> QED BY <2>1, <2>3, <2>4 DEF Contract!Deletes, Contract!Deleted, Contract!Terminal
<1>6. CASE SubmitCancel
  <2>1. /\ algoStatus = "NEW" /\ algoStatus' = "CANCELLING"
        /\ UNCHANGED <<mayOpen, mayClose, position, pairs>>
    BY <1>6 DEF SubmitCancel, bookVars
  <2>2. Seen' = View("CANCELLING", position, pairs, mayOpen, mayClose)
    BY <2>1 DEF Seen
  <2>3. Seen' = [Seen EXCEPT !.status = "CANCELLING"]
    BY <2>2, ViewStatus DEF Seen
  <2>4. Seen.status = algoStatus
    BY ViewFields DEF Seen
  <2> QED BY <2>1, <2>3, <2>4 DEF Contract!Cancels
<1>7. CASE Modify
  <2>1. algoStatus = "NEW" /\ UNCHANGED <<algoStatus, position, pairs>>
    BY <1>7 DEF Modify, bookVars
  <2>2. Seen' = View(algoStatus, position, pairs, mayOpen', mayClose')
    BY <2>1 DEF Seen
  <2>3. Seen' = [Seen EXCEPT !.mayOpen = mayOpen', !.mayClose = mayClose']
    <3> DEFINE u == View(algoStatus, position, pairs, mayOpen', mayClose)
    <3>1. Seen' = [u EXCEPT !.mayClose = mayClose']
      BY <2>2, ViewClose
    <3>2. u = [Seen EXCEPT !.mayOpen = mayOpen']
      BY ViewOpen DEF Seen
    <3> HIDE DEF u
    <3> QED BY <3>1, <3>2
  <2>4. Seen.status = algoStatus /\ Seen'.mayOpen = mayOpen' /\ Seen'.mayClose = mayClose'
    BY ViewFields DEF Seen
  <2> QED BY <2>1, <2>3, <2>4 DEF Contract!Modifies
<1>8. CASE \/ CancelOrderOnSpread \/ UNCHANGED vars \/ \E o \in DOMAIN orders : Age(o)
           \/ \E o \in DOMAIN exch : ExchFill(o) \/ ExchClose(o)
  <2>1. UNCHANGED <<algoStatus, mayOpen, mayClose, position, pairs>>
    BY <1>8 DEF CancelOrderOnSpread, vars, Age, ExchFill, ExchClose, algoVars, bookVars
  <2> QED BY <2>1 DEF Seen
<1> QED BY <1>1, <1>2, <1>3, <1>4, <1>5, <1>6, <1>7, <1>8 DEF Next

\* PairOrderExec implements the contract AlgoOrder, for all values of its constants:
\* whatever child orders, exchange and gateway do, the strategy sees an algo order
\* that starts, reports, ends and is deleted as AlgoOrder allows.
THEOREM Implements == Spec => ImplementsAlgoOrder
<1>1. Init => Contract!Init
  <2> SUFFICES ASSUME Init PROVE Contract!Init
    OBVIOUS
  <2>1. algoStatus = "NEW" /\ DOMAIN pairs = {}
    BY DEF Init, EmptyMap
  <2> QED BY <2>1 DEF Contract!Init
<1>2. JInv /\ [Next]_vars => [Contract!Next]_Seen
  BY StepRefines DEF Contract!Next, Seen, View, LivePairs
<1>3. Init => JInv
  BY InitJInv
<1> QED BY <1>1, <1>2, <1>3, NextJInv, PTL
        DEF Spec, ImplementsAlgoOrder, Contract!Spec, Seen, View, LivePairs
=============================================================================
