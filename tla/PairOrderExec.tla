--------------------------- MODULE PairOrderExec ---------------------------
(* The execution of one algo order of type PairTrading, TAKER_TAKER: the     *)
(* part of AlgoContext, BaseAlgoOrder, AlgoPairOrder, PairOrder,             *)
(* OrderManager and PositionManager that turns a target volume into child    *)
(* orders of an active leg, hedges each fill on the passive leg and ends the *)
(* algo order.  The exchange and the gateway are external.                   *)
(*                                                                           *)
(* Volumes are integers in the unit of the finer lot; both legs are counted  *)
(* in the same base asset.  Positions are the long side (OPEN_SHORT buys the *)
(* active leg, CLOSE_SHORT sells it); OPEN_LONG / CLOSE_LONG mirror it and   *)
(* their switches are off.  Prices only decide WHETHER a step happens and    *)
(* appear as nondeterministic choices, as do the rate limiter (PassLimit)    *)
(* and the fund check (FundVerify).                                          *)
EXTENDS Integers, FiniteSets, Functions

CONSTANTS
  MaxTarget,       \* largest target the spread ladder yields (ttOSEndVolume)
  ClipVolume,      \* ttTargetVolume: the most one pair order may trade
  MinVolume,       \* minVolume: below it the algo order holds "no position"
  ActLot, ActSize, \* lotSize and minSize of the active instrument
  ActMin,          \* the least active order that is sent: minSize or minimum amount
  PasLot, PasMin,  \* the same of the passive one: lotSize, least order sent
  MaxTTOrderSize,  \* maxTTOrderSize: pair orders that may be alive at once
  StartVolume,     \* pairTotalVolume the algo order is submitted with
  Role,            \* AlgoRole of the order: "OPEN_SIGNAL" or "CLOSE_SIGNAL"
  InstType,        \* instrument type of the active leg: "SWAP" or "SPOT"
  MaxQueries,      \* unanswered queries before giving up (5 in the code)
  Switches,        \* settings <<ttOSSwitch, ttCSSwitch>> the strategy may submit
  Reports,         \* statuses a report of a live order may carry
  PairBound,       \* bound: pair orders created in a behaviour
  HedgeBound,      \* bound: passive orders sent for one pair order
  KillBound        \* bound: passive orders of a pair the exchange ends unfilled

LiveStatus     == {"PEND", "NEW", "CANCEL", "UNKNOWN"}
TerminalStatus == {"FILLED", "CANCELED", "ERRORCANCELED"}
AlgoStatus     == {"NEW", "CANCELLING", "DELETED"} \union TerminalStatus

ASSUME VolumeAssumption ==
  /\ MaxTarget \in Nat /\ ClipVolume \in Nat /\ StartVolume \in Nat
  /\ MinVolume \in Nat \ {0}
  /\ ActLot \in Nat \ {0} /\ ActSize \in Nat \ {0} /\ ActMin \in Nat /\ ActSize <= ActMin
  /\ PasLot \in Nat \ {0} /\ PasMin \in Nat \ {0}

ASSUME LimitAssumption ==
  /\ MaxTTOrderSize \in Nat /\ MaxQueries \in Nat
  /\ PairBound \in Nat /\ HedgeBound \in Nat /\ KillBound \in Nat
  /\ Role \in {"OPEN_SIGNAL", "CLOSE_SIGNAL"} /\ InstType \in {"SWAP", "SPOT"}
  /\ Switches \subseteq BOOLEAN \X BOOLEAN /\ Reports \subseteq LiveStatus

VARIABLES
  algoStatus,       \* algoOrderStatus
  mayOpen, mayClose,\* ttOSSwitch, ttCSSwitch
  fundVerifyFailed, \* fundVerifyFailedFlag
  position,         \* pairTotalVolume
  pairs,            \* pairOrderMgr: pair id -> pair order
  orders,           \* orderMgr: order id -> child order as the strategy knows it
  frozenLong,       \* posMgrTakerTaker, active instrument: frozenLongPosition
  frozenShort,      \*                                      frozenShortPosition
  nextPair,         \* next id of GenerateStrategyPairId
  exch              \* external: order id -> the order as the exchange holds it

algoVars == <<algoStatus, mayOpen, mayClose, fundVerifyFailed>>
bookVars == <<position, pairs, orders, frozenLong, frozenShort, nextPair>>
vars == <<algoVars, bookVars, exch>>

PairId    == 1..PairBound
\* Child orders are named by their pair and their rank in it: 0 is the active
\* order, 1, 2, ... the passive ones, as strategyOrderId and strategyRef do.
OrderId   == PairId \X (0..HedgeBound)
PairOf(o) == o[1]
IsActiveOrder(o) == o[2] = 0

\* The frozen volumes are plain numbers (double in the code); that they match
\* the orders, so are never negative, is the invariant FrozenMatchesOrders.
Pair == [dir : {1, -1}, actTotal : Nat, actFrozen : Int,
         pasTotal : Nat, pasFrozen : Int, hedges : 0..HedgeBound]
Order == [dir : {1, -1}, volume : Nat, total : Nat, status : LiveStatus,
          queries : 0..(MaxQueries + 1), old : BOOLEAN]
ExchOrder == [dir : {1, -1}, volume : Nat, filled : Nat,
              open : BOOLEAN, cancelReq : BOOLEAN]

Least(a, b)  == IF a <= b THEN a ELSE b
Without(f, S) == [x \in DOMAIN f \ S |-> f[x]]
\* round(v / lot) * lot for v >= 0: a half lot is rounded up.
RoundLot(v, lot) == ((2 * v + lot) \div (2 * lot)) * lot

-----------------------------------------------------------------------------
(* Volumes the decisions are taken from *)

\* Faulty variant: fills of live pairs are left out, as before the correction
\* described in GetExpectActiveVolume.
ExpectWithoutLivePairs == position + frozenLong - frozenShort

\* What the algo order will hold if every live active order fills: finished
\* pairs, the fills of live pairs, and what is still frozen.
GetExpectActiveVolume ==
  position + SumFunction([p \in DOMAIN pairs |-> pairs[p].dir * pairs[p].actTotal])
           + frozenLong - frozenShort

\* Faulty variant: the hedge already on its way is forgotten.
HedgeIgnoringFrozen(pr) ==
  IF pr.actTotal > pr.pasTotal THEN RoundLot(pr.actTotal - pr.pasTotal, PasLot) ELSE 0

\* The volume of the passive order a pair needs now; 0 or less than PasMin
\* means none is created.
HedgeVolume(pr) ==
  LET gap == pr.actTotal - pr.pasTotal - pr.pasFrozen
  IN  IF gap > 0 THEN RoundLot(gap, PasLot) ELSE 0

\* An order whose last update is too old for its status and that is queried.
Stuck(o) == orders[o].status \in {"PEND", "CANCEL", "UNKNOWN"} /\ orders[o].old

-----------------------------------------------------------------------------
(* Child orders *)

NewOrder(dir, v) == [dir |-> dir, volume |-> v, total |-> 0, status |-> "PEND",
                     queries |-> 0, old |-> FALSE]
Placed(dir, v) == [dir |-> dir, volume |-> v, filled |-> 0,
                   open |-> TRUE, cancelReq |-> FALSE]

\* UpdateOrderOnOrder and UpdateOrderOnQueryOrder
UpdateOrder(ord, st, k, isQuery) ==
  [ord EXCEPT !.status = st, !.total = k, !.old = FALSE,
              !.queries = IF isQuery THEN Least(@ + 1, MaxQueries + 1) ELSE 0]

\* Faulty variant: partly filled orders are not cancelled.
CancellableUnfilled(os) ==
  {o \in DOMAIN os :
     /\ os[o].status = "NEW" /\ os[o].total = 0
     /\ IF algoStatus = "CANCELLING" THEN IsActiveOrder(o) /\ os[o].old
                                     ELSE PairOf(o) \in DOMAIN pairs}

\* The orders of os a tick may cancel.  While the algo order is CANCELLING only
\* resting active orders older than 10 ms are; otherwise the spread decides.
Cancellable(os) ==
  {o \in DOMAIN os :
     /\ os[o].status = "NEW"
     /\ IF algoStatus = "CANCELLING" THEN IsActiveOrder(o) /\ os[o].old
                                     ELSE PairOf(o) \in DOMAIN pairs}

\* CancelOrderOnSpread cancelling exactly C: the request goes out and the order
\* waits in CANCEL for the exchange's answer.
CancelOrders(os, C) ==
  [o \in DOMAIN os |-> IF o \in C THEN [os[o] EXCEPT !.status = "CANCEL", !.old = FALSE]
                                  ELSE os[o]]
RequestCancels(ex, C) ==
  [o \in DOMAIN ex |-> IF o \in C THEN [ex[o] EXCEPT !.cancelReq = TRUE] ELSE ex[o]]

-----------------------------------------------------------------------------
(* PairOrderTrade on the pairs of P the limiter and the fund check let pass:  *)
(* a pair with an unhedged fill gets a passive order, a pair with nothing left *)
(* frozen is finished, added to the position and deleted.  ps and os are the   *)
(* pairs and orders the calling handler has already updated, C the orders it   *)
(* cancels.                                                                    *)
\* Faulty variants: hedging waits for the end of the active order; a pair is
\* finished without waiting for its passive, or for its active, order.
HedgedAtTheEnd(ps, P) == {p \in P : ps[p].actFrozen = 0 /\ HedgeVolume(ps[p]) >= PasMin}
FinishedNotWaitingPassive(ps, P) ==
  {p \in P : HedgeVolume(ps[p]) < PasMin /\ ps[p].actFrozen = 0}
FinishedNotWaitingActive(ps, P) ==
  {p \in P : HedgeVolume(ps[p]) < PasMin /\ ps[p].pasFrozen = 0}

Hedged(ps, P) == {p \in P : HedgeVolume(ps[p]) >= PasMin}
Finished(ps, P) ==
  {p \in P \ Hedged(ps, P) : ps[p].actFrozen = 0 /\ ps[p].pasFrozen = 0}
NextHedge(ps, p) == <<p, ps[p].hedges + 1>>

\* Faulty variant: the position counts only pairs that opened.
PositionOpened(ps, finished) ==
  position + SumFunction([p \in finished |-> IF ps[p].dir = 1 THEN ps[p].actTotal ELSE 0])

\* UpdateAlgoPairOrderByPairOrder: only a finished pair moves the position.
PositionAfter(ps, finished) ==
  position + SumFunction([p \in finished |-> ps[p].dir * ps[p].actTotal])

PairOrderTrade(ps, os, P, C) ==
  LET hedged   == Hedged(ps, P)
      finished == Finished(ps, P)
      placed   == {NextHedge(ps, p) : p \in hedged}
      vol(o)   == HedgeVolume(ps[PairOf(o)])
      dir(o)   == -ps[PairOf(o)].dir
      cs       == CancelOrders(os, C)
      ex       == RequestCancels(exch, C)
  IN
  /\ \A p \in hedged : ps[p].hedges < HedgeBound
  /\ pairs' = [p \in DOMAIN ps \ finished |->
                 IF p \in hedged
                 THEN [ps[p] EXCEPT !.pasFrozen = @ + HedgeVolume(ps[p]), !.hedges = @ + 1]
                 ELSE ps[p]]
  /\ orders' = [o \in DOMAIN cs \union placed |->
                  IF o \in placed THEN NewOrder(dir(o), vol(o)) ELSE cs[o]]
  /\ exch' = [o \in DOMAIN ex \union placed |->
                IF o \in placed THEN Placed(dir(o), vol(o)) ELSE ex[o]]
  /\ position' = PositionAfter(ps, finished)

-----------------------------------------------------------------------------
(* OnSpread: a market data tick of the pair *)

\* A tick that only cancels.
CancelOrderOnSpread ==
  /\ algoStatus \in {"NEW", "CANCELLING"}
  /\ \E C \in SUBSET Cancellable(orders) :
       /\ C # {}
       /\ orders' = CancelOrders(orders, C)
       /\ exch' = RequestCancels(exch, C)
  /\ UNCHANGED <<algoVars, position, pairs, frozenLong, frozenShort, nextPair>>

\* No active order is on its way to the book or in it (createFlag).
NoActiveWorking(os) ==
  \A o \in DOMAIN os : IsActiveOrder(o) => os[o].status \notin {"PEND", "NEW"}

\* GetTargetPairOrder: the signed volume towards target t, 0 when there is none.
OpenVolume(t) ==
  LET e == GetExpectActiveVolume
  IN  IF mayOpen /\ ~fundVerifyFailed /\ e > -MinVolume /\ t > e /\ t > 0
      THEN RoundLot(Least(t - e, ClipVolume), ActLot) ELSE 0
CloseVolume(t) ==
  LET e == GetExpectActiveVolume
  IN  IF mayClose /\ e >= MinVolume /\ t < e
      THEN RoundLot(Least(e - t, ClipVolume), ActLot) ELSE 0

\* PositionManager::OnInsertOrder: an order freezes its volume on its side.
Freeze(frozen, side, dir, v) == IF dir = side THEN frozen + v ELSE frozen

\* A tick that cancels C and creates pair order nextPair of direction dir and
\* volume v.  Its active order is sent if the volume is large enough and the
\* funds suffice; otherwise the pair stays without orders until the next timer.
CreatePairOrder(dir, v, funded, C) ==
  LET os   == CancelOrders(orders, C)
      ex   == RequestCancels(exch, C)
      sent == v >= ActMin /\ funded
      o    == <<nextPair, 0>>
  IN
  /\ v > 0
  /\ Cardinality(DOMAIN pairs) < MaxTTOrderSize
  /\ NoActiveWorking(os)
  /\ nextPair <= PairBound
  /\ nextPair' = nextPair + 1
  /\ pairs' = [p \in DOMAIN pairs \union {nextPair} |->
                IF p = nextPair
                THEN [dir |-> dir, actTotal |-> 0, actFrozen |-> IF sent THEN v ELSE 0,
                      pasTotal |-> 0, pasFrozen |-> 0, hedges |-> 0]
                ELSE pairs[p]]
  /\ orders' = [x \in DOMAIN os \union (IF sent THEN {o} ELSE {}) |->
                  IF x = o THEN NewOrder(dir, v) ELSE os[x]]
  /\ exch' = [x \in DOMAIN ex \union (IF sent THEN {o} ELSE {}) |->
                IF x = o THEN Placed(dir, v) ELSE ex[x]]
  /\ frozenLong'  = Freeze(frozenLong, 1, dir, IF sent THEN v ELSE 0)
  /\ frozenShort' = Freeze(frozenShort, -1, dir, IF sent THEN v ELSE 0)
  /\ fundVerifyFailed' = (fundVerifyFailed \/ (v >= ActMin /\ ~funded))
  /\ UNCHANGED <<algoStatus, mayOpen, mayClose, position>>

\* Faulty variant: opening does not look at the status of the algo order.
OpenWhileCancelling ==
  /\ algoStatus \in {"NEW", "CANCELLING"}
  /\ \E C \in SUBSET Cancellable(orders), t \in 0..MaxTarget, funded \in BOOLEAN :
       CreatePairOrder(1, OpenVolume(t), funded, C)

\* OPEN_SHORT is tried first; CLOSE_SHORT only when it yields nothing.
OpenOnSpread ==
  /\ algoStatus = "NEW"
  /\ \E C \in SUBSET Cancellable(orders), t \in 0..MaxTarget, funded \in BOOLEAN :
       CreatePairOrder(1, OpenVolume(t), funded, C)

CloseOnSpread ==
  /\ algoStatus = "NEW"
  /\ \E C \in SUBSET Cancellable(orders), t \in 0..MaxTarget, funded \in BOOLEAN :
       CreatePairOrder(-1, CloseVolume(t), funded, C)

-----------------------------------------------------------------------------
(* OnOrder: a report of a child order *)

\* External.  What the gateway may deliver about o: any state o has been in, so
\* that reports may be late, repeated, out of order or never come; a report of
\* the end (FILLED, CANCELED, REJECTED) carries the final filled volume.
Reportable(o, st, k) ==
  IF st = "DONE" THEN ~exch[o].open /\ k = exch[o].filled
                 ELSE st \in Reports /\ k \in 0..exch[o].filled /\ k < exch[o].volume

\* The report says less was filled than is known: it is dropped.
OutOfOrder(o, k) == orders[o].total > k

\* Faulty variants: the last fill is taken for the total; a passive fill is
\* subtracted.
UpdatePairLastFill(pr, o, k, done) ==
  LET fill == k - orders[o].total
      left == IF done THEN orders[o].volume - k ELSE 0
  IN  IF IsActiveOrder(o)
      THEN [pr EXCEPT !.actTotal = fill, !.actFrozen = @ - fill - left]
      ELSE [pr EXCEPT !.pasTotal = @ + fill, !.pasFrozen = @ - fill - left]
UpdatePairWrongSign(pr, o, k, done) ==
  LET fill == k - orders[o].total
      left == IF done THEN orders[o].volume - k ELSE 0
  IN  IF IsActiveOrder(o)
      THEN [pr EXCEPT !.actTotal = k, !.actFrozen = @ - fill - left]
      ELSE [pr EXCEPT !.pasTotal = @ - fill, !.pasFrozen = @ - fill - left]

\* The pair order after a report: the fill leaves the frozen volume and, when
\* the order has ended, so does what was left of it.
UpdatePair(pr, o, k, done) ==
  LET fill == k - orders[o].total
      left == IF done THEN orders[o].volume - k ELSE 0
  IN  IF IsActiveOrder(o)
      THEN [pr EXCEPT !.actTotal = k, !.actFrozen = @ - fill - left]
      ELSE [pr EXCEPT !.pasTotal = @ + fill, !.pasFrozen = @ - fill - left]

\* Faulty variant: the end of an order releases its last fill and not the rest.
ReleaseShortNotRest(o, k, done) ==
  IF IsActiveOrder(o) /\ orders[o].dir = -1 THEN frozenShort - (k - orders[o].total)
  ELSE frozenShort

\* PositionManager::OnOrder and OnDeleteOrder for the active instrument.  For a
\* SPOT leg the release of a sell order compares with the frozen BUY volume.
ReleaseLong(o, k, done) ==
  IF IsActiveOrder(o) /\ orders[o].dir = 1
  THEN frozenLong - (k - orders[o].total) - (IF done THEN orders[o].volume - k ELSE 0)
  ELSE frozenLong
ReleaseShort(o, k, done) ==
  LET fill == k - orders[o].total
      left == orders[o].volume - k
  IN  IF ~(IsActiveOrder(o) /\ orders[o].dir = -1) THEN frozenShort
      ELSE IF ~done THEN frozenShort - fill
      ELSE IF InstType = "SPOT" /\ frozenLong = left THEN 0
      ELSE frozenShort - fill - left

OnOrder(o, st, k, isQuery, pass, C) ==
  LET done   == st = "DONE"
      ps     == [pairs EXCEPT ![PairOf(o)] = UpdatePair(@, o, k, done)]
      os     == IF done THEN Without(orders, {o})
                ELSE [orders EXCEPT ![o] = UpdateOrder(@, st, k, isQuery)]
      trades == done \/ (IsActiveOrder(o) /\ k > orders[o].total)
  IN
  /\ PairOf(o) \in DOMAIN pairs
  /\ ~OutOfOrder(o, k)
  /\ C \subseteq (IF IsActiveOrder(o) /\ st = "NEW" THEN Cancellable(os) ELSE {})
  /\ PairOrderTrade(ps, os, IF trades /\ pass THEN {PairOf(o)} ELSE {}, C)
  /\ frozenLong'  = ReleaseLong(o, k, done)
  /\ frozenShort' = ReleaseShort(o, k, done)
  /\ UNCHANGED <<algoVars, nextPair>>

Deliver ==
  \E o \in DOMAIN orders, st \in LiveStatus \union {"DONE"} :
    \E k \in 0..exch[o].volume :
      /\ Reportable(o, st, k)
      /\ \E isQuery, pass \in BOOLEAN, C \in SUBSET (Cancellable(orders) \union {o}) :
           OnOrder(o, st, k, isQuery, pass, C)

-----------------------------------------------------------------------------
(* OnTimer *)

Abs(n) == IF n < 0 THEN -n ELSE n

\* P: the pairs PassLimit lets trade.  Q: the stuck orders it lets be queried.
OnTimer(P, Q) ==
  LET queried == [o \in DOMAIN orders |->
                    IF o \in Q THEN [orders[o] EXCEPT !.old = FALSE,
                                     !.queries = Least(@ + 1, MaxQueries + 1)]
                    ELSE orders[o]]
      giveUp   == \E o \in DOMAIN orders : Stuck(o) /\ orders[o].queries > MaxQueries
      idle     == DOMAIN pairs = {}
      complete == idle /\ (~mayOpen \/ Role # "OPEN_SIGNAL") /\ Abs(position) < ActSize
  IN
  /\ algoStatus \in {"NEW", "CANCELLING"}
  /\ PairOrderTrade(pairs, queried, P, {})
  /\ algoStatus' = CASE complete -> "FILLED"
                     [] ~complete /\ giveUp -> "ERRORCANCELED"
                     [] ~complete /\ ~giveUp /\ idle /\ algoStatus = "CANCELLING" -> "CANCELED"
                     [] OTHER -> algoStatus
  /\ \/ fundVerifyFailed' = FALSE
     \/ fundVerifyFailed' = fundVerifyFailed
  /\ UNCHANGED <<mayOpen, mayClose, frozenLong, frozenShort, nextPair>>

Timer == \E P \in SUBSET DOMAIN pairs :
           \E Q \in SUBSET {o \in DOMAIN orders : Stuck(o)} : OnTimer(P, Q)

\* The grace period of a terminal algo order is over: it is deleted, with every
\* pair and child order it still knows.
DeleteAlgoOrder ==
  /\ algoStatus \in TerminalStatus
  /\ algoStatus' = "DELETED"
  /\ pairs' = Without(pairs, DOMAIN pairs)
  /\ orders' = Without(orders, DOMAIN orders)
  /\ frozenLong' = 0 /\ frozenShort' = 0
  /\ UNCHANGED <<mayOpen, mayClose, fundVerifyFailed, position, nextPair, exch>>

-----------------------------------------------------------------------------
(* SubmitAlgoOrder(id, cmd, modify) *)

SubmitCancel ==
  /\ algoStatus = "NEW"
  /\ algoStatus' = "CANCELLING"
  /\ UNCHANGED <<mayOpen, mayClose, fundVerifyFailed, bookVars, exch>>

Modify ==
  /\ algoStatus = "NEW"
  /\ \E s \in Switches : mayOpen' = s[1] /\ mayClose' = s[2]
  /\ UNCHANGED <<algoStatus, fundVerifyFailed, bookVars, exch>>

-----------------------------------------------------------------------------
(* External: the exchange, and time *)

\* Passive orders of pair p that ended without being filled.
Killed(p) == {o \in DOMAIN exch : /\ PairOf(o) = p /\ ~IsActiveOrder(o)
                                  /\ ~exch[o].open /\ exch[o].filled < exch[o].volume}

ExchFill(o) ==
  /\ exch[o].open /\ exch[o].filled < exch[o].volume
  /\ exch' = [exch EXCEPT ![o].filled = @ + 1,
                          ![o].open = exch[o].filled + 1 < exch[o].volume]
  /\ UNCHANGED <<algoVars, bookVars>>

\* The exchange cancels or rejects o, asked to or not.
ExchClose(o) ==
  /\ exch[o].open
  /\ IsActiveOrder(o) \/ Cardinality(Killed(PairOf(o))) < KillBound
  /\ exch' = [exch EXCEPT ![o].open = FALSE]
  /\ UNCHANGED <<algoVars, bookVars>>

\* Time passes until o is older than the threshold its status is tested with:
\* 10 ms for NEW while cancelling, 5 s for PEND and CANCEL, 15 s for UNKNOWN.
Age(o) ==
  /\ ~orders[o].old
  /\ orders[o].status = "NEW" => algoStatus = "CANCELLING"
  /\ orders' = [orders EXCEPT ![o].old = TRUE]
  /\ UNCHANGED <<algoVars, position, pairs, frozenLong, frozenShort, nextPair, exch>>

-----------------------------------------------------------------------------
EmptyMap == [x \in {} |-> x]

Init ==
  /\ algoStatus = "NEW"
  /\ \E s \in Switches : mayOpen = s[1] /\ mayClose = s[2]
  /\ fundVerifyFailed = FALSE
  /\ position = StartVolume
  /\ pairs = EmptyMap /\ orders = EmptyMap /\ exch = EmptyMap
  /\ frozenLong = 0 /\ frozenShort = 0
  /\ nextPair = 1

Next ==
  \/ CancelOrderOnSpread
  \/ OpenOnSpread
  \/ CloseOnSpread
  \/ Deliver
  \/ Timer
  \/ DeleteAlgoOrder
  \/ SubmitCancel
  \/ Modify
  \/ \E o \in DOMAIN exch : ExchFill(o) \/ ExchClose(o)
  \/ \E o \in DOMAIN orders : Age(o)

Spec == Init /\ [][Next]_vars

(* Fairness.  The main loop runs OnTimer every timerInterval and OnSpread on  *)
(* every market data tick; the rate limiter's window slides, so a refused     *)
(* trade or query is let through at a later tick.  The exchange answers a     *)
(* cancel request and fills a passive order, which is priced to cross the     *)
(* spread; the gateway delivers the state of an order or answers its query.   *)
(* A late repeat of an older report can put an order back to NEW, so that it  *)
(* is cancellable again and again rather than for good: hence SF.             *)
TimerPasses ==
  OnTimer({p \in DOMAIN pairs : HedgeVolume(pairs[p]) >= PasMin => pairs[p].hedges < HedgeBound},
          {o \in DOMAIN orders : Stuck(o)})

CancelResting(o) ==
  /\ algoStatus \in {"NEW", "CANCELLING"} /\ o \in Cancellable(orders)
  /\ orders' = CancelOrders(orders, {o})
  /\ exch' = RequestCancels(exch, {o})
  /\ UNCHANGED <<algoVars, position, pairs, frozenLong, frozenShort, nextPair>>

\* The current state of o is reported, by push or in answer to a query.
Answer(o, st) ==
  /\ o \in DOMAIN orders
  /\ st = IF exch[o].open THEN "NEW" ELSE "DONE"
  /\ st = "NEW" => orders[o].status # "NEW"
  /\ \E isQuery, pass \in BOOLEAN : OnOrder(o, st, exch[o].filled, isQuery, pass, {})

Fairness ==
  /\ WF_vars(TimerPasses)
  /\ \A o \in OrderId :
       /\ SF_vars(algoStatus = "CANCELLING" /\ CancelResting(o))
       /\ WF_vars(Answer(o, "NEW"))
       /\ WF_vars(Answer(o, "DONE"))
       /\ WF_vars(o \in DOMAIN orders /\ Age(o))
       /\ WF_vars(o \in DOMAIN exch /\ exch[o].cancelReq /\ ExchClose(o))
       /\ WF_vars(o \in DOMAIN exch /\ ~IsActiveOrder(o) /\ ExchFill(o))

FairSpec == Spec /\ Fairness

-----------------------------------------------------------------------------
(* Properties *)

\* The variables have their types; ids are consistent across the managers.
TypeOK ==
  /\ algoStatus \in AlgoStatus
  /\ mayOpen \in BOOLEAN /\ mayClose \in BOOLEAN /\ fundVerifyFailed \in BOOLEAN
  /\ position \in Int /\ frozenLong \in Int /\ frozenShort \in Int
  /\ nextPair \in 1..(PairBound + 1)
  /\ DOMAIN pairs \subseteq 1..(nextPair - 1) /\ pairs \in [DOMAIN pairs -> Pair]
  /\ DOMAIN exch \subseteq OrderId /\ exch \in [DOMAIN exch -> ExchOrder]
  /\ DOMAIN orders \subseteq DOMAIN exch /\ orders \in [DOMAIN orders -> Order]

Live(p, ids) == {o \in ids : PairOf(o) = p}
LeftOf(o)    == orders[o].volume - orders[o].total
SumLeft(ids) == SumFunction([o \in ids |-> LeftOf(o)])

\* The hedge never overshoots the active fill by more than half a passive lot,
\* what is filled and what is still on its way counted together: a fill is
\* never hedged twice, however reports are delayed, repeated or reordered and
\* whichever of OnOrder and OnTimer gets to the pair first.
HedgeBounded ==
  \A p \in DOMAIN pairs :
    2 * (pairs[p].pasTotal + pairs[p].pasFrozen - pairs[p].actTotal) <= PasLot

\* What the pair orders and the position manager hold frozen is exactly what the
\* child orders they track have left: every release matches one insertion, so
\* the expected volume new orders are sized from carries no phantom order.
FrozenMatchesOrders ==
  /\ \A p \in DOMAIN pairs :
       LET mine == Live(p, DOMAIN orders) IN
       /\ pairs[p].actFrozen = SumLeft({o \in mine : IsActiveOrder(o)})
       /\ pairs[p].pasFrozen = SumLeft({o \in mine : ~IsActiveOrder(o)})
  /\ frozenLong  = SumLeft({o \in DOMAIN orders : IsActiveOrder(o) /\ orders[o].dir = 1})
  /\ frozenShort = SumLeft({o \in DOMAIN orders : IsActiveOrder(o) /\ orders[o].dir = -1})

\* Position and pair orders account for every fill of an order that is no longer
\* tracked, and for the reported fills of those that are: nothing is lost or
\* counted twice when a pair is finished while the position is updated.
Signed(o, v) == IF IsActiveOrder(o) THEN exch[o].dir * v ELSE 0
BooksMatchExchange ==
  algoStatus # "DELETED" =>
    position + SumFunction([p \in DOMAIN pairs |-> pairs[p].dir * pairs[p].actTotal])
      = StartVolume + SumFunction([o \in DOMAIN exch |->
          Signed(o, IF o \in DOMAIN orders THEN orders[o].total ELSE exch[o].filled)])

\* An order open at the exchange is tracked, with its pair, until the algo order
\* itself is deleted; and an algo order that reports FILLED or CANCELED has none.
OpenOrdersTracked ==
  algoStatus # "DELETED" =>
    \A o \in DOMAIN exch : exch[o].open =>
      /\ o \in DOMAIN orders /\ PairOf(o) \in DOMAIN pairs
      /\ algoStatus \notin {"FILLED", "CANCELED"}

\* A finished pair is really flat: what the exchange filled on its active leg is
\* matched on its passive leg to within half a lot, or less than the smallest
\* order the exchange takes.
TrueGap(p) == SumFunction([o \in Live(p, DOMAIN exch) |->
                IF IsActiveOrder(o) THEN exch[o].filled ELSE -exch[o].filled])
FinishedPairsHedged ==
  algoStatus # "DELETED" =>
    \A p \in 1..(nextPair - 1) : p \notin DOMAIN pairs =>
      /\ -PasLot <= 2 * TrueGap(p)
      /\ TrueGap(p) > 0 => RoundLot(TrueGap(p), PasLot) < PasMin

\* The holding the algo order ends with if every active order it still tracks
\* fills: what GetExpectActiveVolume is meant to be, read off the exchange.
HoldingIfAllFill == StartVolume + SumFunction([o \in DOMAIN exch |->
                      Signed(o, IF o \in DOMAIN orders THEN exch[o].volume ELSE exch[o].filled)])

\* An order sent on the active leg never takes that holding past the end of the
\* ladder, and one that closes never past zero, up to half an active lot: new
\* orders are not sized from fills or orders the books have lost sight of, while
\* earlier ones wait in CANCEL or UNKNOWN, a pair is hedged or the switches turn.
OrdersWithinTarget ==
  [][\A o \in DOMAIN exch' \ DOMAIN exch : IsActiveOrder(o) =>
       IF exch'[o].dir = 1 THEN 2 * HoldingIfAllFill' <= 2 * MaxTarget + ActLot
                           ELSE 2 * HoldingIfAllFill' >= -ActLot]_vars

\* Once a cancel is accepted, or the algo order has ended, no order is sent on
\* the active leg; what is still sent only hedges.
NoNewExposureAfterCancel ==
  [][algoStatus # "NEW" =>
       \A o \in DOMAIN exch' \ DOMAIN exch :
         /\ ~IsActiveOrder(o)
         /\ exch'[o].dir = -pairs[PairOf(o)].dir]_vars

\* An accepted cancel completes: the active orders are cancelled, what they had
\* filled is hedged, and the algo order reaches a terminal status.
CancelCompletes == algoStatus = "CANCELLING" ~> algoStatus \in TerminalStatus

\* A fill whose hedge the limiter or the fund check refused when it was reported
\* is hedged later, unless the algo order is given up.
FillsGetHedged ==
  \A p \in PairId :
    (p \in DOMAIN pairs /\ HedgeVolume(pairs[p]) >= PasMin)
      ~> (\/ p \notin DOMAIN pairs
          \/ HedgeVolume(pairs[p]) < PasMin
          \/ algoStatus = "ERRORCANCELED")

=============================================================================
