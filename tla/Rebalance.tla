------------------------------ MODULE Rebalance ------------------------------
(* The repair of an abnormal exposure: CheckExposureAbnormal stops the pair,   *)
(* ProcessExposureRebalance builds an algo order that closes what exceeds the  *)
(* threshold, AlgoRebalanceOrder works it off with one leg in clips, and a     *)
(* cycle of cancelling and building anew follows the fills.  Three views of    *)
(* one position are at play: the exchange's, the pushed one the excess is      *)
(* computed from, and the ledger the end of the order is written in.           *)
(*                                                                             *)
(* Volumes are those of the active leg (multiples 1).  Only the active leg can *)
(* be worked: pairPassiveTotalVolume, the ledger of the passive one, is never  *)
(* written, so a heavier passive leg is given up (legLedger * legReal <= 0).   *)
EXTENDS Integers

CONSTANTS
  Lot, MinSize,     \* lotSize and minSize of the active instrument
  MinOrder,         \* the volume worth minOrderAmount
  MinVolume,        \* pi.minVolume, the least volume the strategy orders
  Target,           \* pi.ttTargetVolume, the clip
  Threshold,        \* exposureCancelTimes * ttTargetVolume
  Starts,           \* positions and ledger the pair may start with
  MaxUpsets         \* bound: RESUME commands, trades by hand and give-ups

ASSUME RebalanceAssumption ==
  /\ {Lot, MinSize, MinOrder, MinVolume, Target} \subseteq Nat \ {0}
  /\ Threshold \in Nat \ {0} /\ MinOrder <= MinVolume /\ MinSize <= MinVolume
  /\ Starts \subseteq [active : Int, passive : Int, ledger : Int, autoFlag : BOOLEAN]
  /\ MaxUpsets \in Nat

VARIABLES
  pi,       \* PairInfo
  algo,     \* the rebalance order
  pair,     \* its pair order
  exchange, \* positions, and the child order of the pair order
  blind,    \* history: a decision was taken over positions that were not true
  drift,    \* history: what the ledger was ahead of the exchange
  givenUp,  \* history: an algo order was given up
  upsets

vars == <<pi, algo, pair, exchange, blind, drift, givenUp, upsets>>

Legs == {"active", "passive"}

PairInfo == [ledger : Int, real : [Legs -> Int], stopFlag : BOOLEAN,
             reBalance : BOOLEAN, autoFlag : BOOLEAN]
\* dir: +1 buys (CLOSE_LONG, of a short ledger), -1 sells (CLOSE_SHORT).
Algo == [status : {"NONE", "NEW", "CANCELLING"}, total : Int, residual : Int, dir : {-1, 1}]
\* The pair order alive: none, one whose child order was not sent, one whose
\* child order was.
PairOrder == {"NONE", "REFUSED", "SENT"}
\* The child order: open or not, volume left and filled; loose is what is open of
\* orders nobody follows any more.
Exchange == [position : [Legs -> Int], open : BOOLEAN, left : Nat, filled : Nat,
             loose : Nat, looseDir : {-1, 1}]

NoAlgo == [status |-> "NONE", total |-> 0, residual |-> 0, dir |-> 1]

Abs(n)       == IF n < 0 THEN -n ELSE n
Least(m, n)  == IF m <= n THEN m ELSE n
Most(m, n)   == IF m >= n THEN m ELSE n
RoundLot(v)  == ((2 * v + Lot) \div (2 * Lot)) * Lot
Working      == algo.status # "NONE"

-----------------------------------------------------------------------------
(* The exposure, as pushed.                                                    *)

NetExposure(position) == Abs(position["active"] + position["passive"])

\* CalcExposureExcess: a pair with a naked leg is not abnormal.
InExcess(position) ==
  /\ position["active"] # 0 /\ position["passive"] # 0
  /\ NetExposure(position) > Threshold

\* What has to be closed, at most the whole leg.
CloseAmount(p) == Least(NetExposure(p.real) - Threshold, Abs(p.real["active"]))

\* What only a person can settle: the passive leg is the heavier one, ledger and
\* position contradict each other, or less than an order is to be closed.
Manual(p) ==
  \/ Abs(p.real["active"]) < Abs(p.real["passive"])
  \/ p.ledger * p.real["active"] <= 0
  \/ NetExposure(p.real) - Threshold < MinVolume

\* Faulty variant: the end of the order is where the pushed position should end.
EndOfPosition(p) ==
  p.real["active"] + (IF p.ledger > 0 THEN -CloseAmount(p) ELSE CloseAmount(p))

\* The ladder's end, in the ledger's coordinates.
EndVolume(p) == p.ledger + (IF p.ledger > 0 THEN -CloseAmount(p) ELSE CloseAmount(p))

BuildExposureRebalanceOrder(p) ==
  [status |-> "NEW", total |-> p.ledger, residual |-> EndVolume(p),
   dir |-> IF p.ledger > 0 THEN -1 ELSE 1]

-----------------------------------------------------------------------------
(* The execution: ticks and reports.                                           *)

ReduceOnly == algo.residual = 0

\* How far the order is from its end.
Gap == algo.dir * (algo.residual - algo.total)

\* GetTargetPairOrder.  (The switch opened at the start is the one of its
\* direction: a total beyond zero takes the branch of the other one and gets no
\* order, nor does a purchase at a total of 0, which counts as one to be sold.)
OrderVolume ==
  IF Gap <= 0 \/ algo.dir * algo.total > 0 \/ (algo.dir = 1 /\ algo.total = 0) THEN 0
  ELSE RoundLot(IF ReduceOnly THEN Least(Gap, Target) ELSE Most(Least(Gap, Target), MinOrder))

\* CreateActiveOrder sends nothing below the exchange's minima.
Sendable == ReduceOnly \/ (OrderVolume >= MinSize /\ OrderVolume >= MinOrder)

\* OnSpread: a pair order, when none is alive.  Its child order goes out, or
\* does not (too small, no funds, no connection) and the pair order stays.
MayOpen == algo.status = "NEW" /\ pair = "NONE" /\ OrderVolume > 0

OpenOnSpread ==
  /\ MayOpen /\ Sendable
  /\ pair' = "SENT"
  /\ exchange' = [exchange EXCEPT !.open = TRUE, !.left = OrderVolume, !.filled = 0]
  /\ UNCHANGED <<pi, algo, blind, drift, givenUp, upsets>>

RefusedOnSpread ==
  /\ MayOpen
  /\ pair' = "REFUSED"
  /\ UNCHANGED <<pi, algo, exchange, blind, drift, givenUp, upsets>>

\* An order that rests too long, or away from the market, or of an algo order
\* that is CANCELLING, is cancelled; the exchange may also end it unasked.
CancelOrderOnSpread ==
  /\ exchange.open
  /\ exchange' = [exchange EXCEPT !.open = FALSE]
  /\ UNCHANGED <<pi, algo, pair, blind, drift, givenUp, upsets>>

\* Faulty variant: an order that ends CANCELED counts as not filled.
FilledOnly(filled) == IF exchange.left = 0 THEN filled ELSE 0

\* UpdateAlgoPairOrderByPairOrder: what the pair order adds to the total.
Counted(filled) == filled

\* OnOrder, of an order that ended: nothing is frozen, so PairOrderTrade ends
\* the pair order.  The strategy is not told.  (Reports before that, late and
\* repeated ones are PairOrderExec's subject.)
OnOrder ==
  /\ pair = "SENT" /\ ~exchange.open
  /\ algo' = [algo EXCEPT !.total = @ + algo.dir * Counted(exchange.filled)]
  /\ pair' = "NONE"
  /\ exchange' = [exchange EXCEPT !.left = 0, !.filled = 0]
  /\ UNCHANGED <<pi, blind, drift, givenUp, upsets>>

-----------------------------------------------------------------------------
(* on_timer: the execution first, the strategy second.  Both work on w, which   *)
(* has the fields pi, algo, pair and exchange.                                 *)

\* OnAlgoOrderUpdate: the ledger takes the total over and the pair is free.
Settle(w) == [w EXCEPT !.pi.ledger = w.algo.total, !.algo = NoAlgo]

\* FILLED: less than an order is missing to the end.
Arrived == Abs(algo.total) - Abs(algo.residual) < MinSize

\* Faulty variant: the algo order ends with its pair order alive.
ExecNotWaiting(w) ==
  IF Working /\ (Arrived \/ algo.status = "CANCELLING")
  THEN [Settle(w) EXCEPT !.pair = "NONE"] ELSE w

\* A pair order that is alive at the beginning of the call, though this call
\* ends it, postpones the end of the algo order to the next one.
ExecOnTimer(w) ==
  IF pair = "REFUSED" THEN [w EXCEPT !.pair = "NONE"]
  ELSE IF Working /\ pair = "NONE" /\ (Arrived \/ algo.status = "CANCELLING")
  THEN Settle(w) ELSE w

\* An order that was queried too often without an answer: ERRORCANCELED, and
\* what is open or filled behind it is nobody's.
GiveUp(w) ==
  [Settle(w) EXCEPT !.pair = "NONE",
     !.exchange = [exchange EXCEPT !.open = FALSE, !.left = 0, !.filled = 0,
                     !.loose = IF exchange.open THEN exchange.left ELSE 0,
                     !.looseDir = algo.dir]]

Resume(w) == [w EXCEPT !.pi.stopFlag = FALSE, !.pi.reBalance = FALSE]

\* Faulty variant: the mark is gone with the first order built.
ProcessOnce(w) ==
  IF w.pi.reBalance /\ InExcess(w.pi.real) /\ w.algo.status = "NONE" /\ ~Manual(w.pi)
  THEN [w EXCEPT !.algo = BuildExposureRebalanceOrder(w.pi), !.pi.reBalance = FALSE]
  ELSE [w EXCEPT !.pi.reBalance = @ /\ InExcess(w.pi.real) /\ w.algo.status # "NONE"]

\* ProcessRisk without a forced close: ProcessExposureRebalance.
ProcessExposureRebalance(w) ==
  CASE ~w.pi.reBalance -> w
    [] w.pi.reBalance /\ ~InExcess(w.pi.real) -> [w EXCEPT !.pi.reBalance = FALSE]
    [] w.pi.reBalance /\ InExcess(w.pi.real) /\ w.algo.status # "NONE" -> w
    [] OTHER -> IF Manual(w.pi) THEN [w EXCEPT !.pi.reBalance = FALSE]
                ELSE [w EXCEPT !.algo = BuildExposureRebalanceOrder(w.pi)]

RequestCancelAlgoOrder(w) ==
  IF w.algo.status = "NEW" THEN [w EXCEPT !.algo.status = "CANCELLING"] ELSE w

\* Faulty variant: manual pairs are exempt, rebalancing or not.
TimedIfAuto(p) == p.autoFlag

\* Manual pairs are exempt, unless they are being rebalanced.
Timed(p) == p.reBalance \/ p.autoFlag

\* satisfyTime is the time the order was built, or of a later signal when the
\* pair was resumed; idle: that is longer ago than algoOrderTimeoutMs.
CheckAlgoOrderTimeout(w, idle) ==
  IF idle /\ w.algo.status # "NONE" /\ Timed(w.pi)
  THEN RequestCancelAlgoOrder(w) ELSE w

CheckExposureAbnormal(w) ==
  IF ~w.pi.stopFlag /\ InExcess(w.pi.real)
  THEN RequestCancelAlgoOrder([w EXCEPT !.pi.stopFlag = TRUE, !.pi.reBalance = TRUE])
  ELSE w

\* Whether ProcessExposureRebalance decides something, over positions that were
\* pushed too long ago or with an order at the exchange that nobody follows.
Deciding(w) == w.pi.reBalance /\ (~InExcess(w.pi.real) \/ w.algo.status = "NONE")
Mistaken(w) == w.pi.real # w.exchange.position \/ w.exchange.loose > 0

\* The execution left e behind.
StrategyOnTimer(e, idle) ==
  LET w == CheckExposureAbnormal(CheckAlgoOrderTimeout(ProcessExposureRebalance(e),
             idle /\ e.algo.status # "NONE")) IN
  /\ pi' = w.pi /\ algo' = w.algo /\ pair' = w.pair /\ exchange' = w.exchange
  /\ blind' = (blind \/ (Deciding(e) /\ Mistaken(e)))
  /\ UNCHANGED drift

Now == [pi |-> pi, algo |-> algo, pair |-> pair, exchange |-> exchange]

OnTimer(idle) ==
  /\ StrategyOnTimer(ExecOnTimer(Now), idle)
  /\ UNCHANGED <<givenUp, upsets>>

Upset == upsets < MaxUpsets /\ upsets' = upsets + 1

\* RESUME is applied between the two.
OnTimerResume(idle) ==
  /\ pi.stopFlag
  /\ Upset
  /\ StrategyOnTimer(Resume(ExecOnTimer(Now)), idle)
  /\ UNCHANGED givenUp

OnTimerGiveUp(idle) ==
  /\ pair = "SENT" /\ exchange.loose = 0
  /\ Upset /\ givenUp' = TRUE
  /\ StrategyOnTimer(GiveUp(Now), idle)

-----------------------------------------------------------------------------
(* Position pushes.                                                            *)

OnPosition(leg) ==
  /\ pi.real[leg] # exchange.position[leg]
  /\ pi' = [pi EXCEPT !.real[leg] = exchange.position[leg]]
  /\ UNCHANGED <<algo, pair, exchange, blind, drift, givenUp, upsets>>

-----------------------------------------------------------------------------
(* External: the exchange, and whoever else trades on the accounts.            *)

\* A reduce-only order never goes through zero.
Fill ==
  LET volume == exchange.position["active"] + algo.dir IN
  /\ exchange.open /\ exchange.left > 0
  /\ ReduceOnly => Abs(volume) < Abs(exchange.position["active"])
  /\ exchange' = [exchange EXCEPT !.position["active"] = volume, !.left = @ - 1,
                                  !.filled = @ + 1, !.open = exchange.left > 1]
  /\ UNCHANGED <<pi, algo, pair, blind, drift, givenUp, upsets>>

FillLoose ==
  /\ exchange.loose > 0
  /\ exchange' = [exchange EXCEPT !.position["active"] = @ + exchange.looseDir,
                                  !.loose = @ - 1]
  /\ UNCHANGED <<pi, algo, pair, blind, drift, givenUp, upsets>>

\* Nothing tells an algo order at work of a trade made by hand.
OutsideTrade(leg, dir) ==
  /\ Upset
  /\ exchange' = [exchange EXCEPT !.position[leg] = @ + dir]
  /\ blind' = (blind \/ pi.stopFlag \/ Working)
  /\ drift' = IF leg = "active" THEN drift - dir ELSE drift
  /\ UNCHANGED <<pi, algo, pair, givenUp>>

-----------------------------------------------------------------------------
Init ==
  /\ \E s \in Starts :
       LET position == [leg \in Legs |-> IF leg = "active" THEN s.active ELSE s.passive] IN
       /\ pi = [ledger |-> s.ledger, real |-> position, stopFlag |-> FALSE,
                reBalance |-> FALSE, autoFlag |-> s.autoFlag]
       /\ exchange = [position |-> position, open |-> FALSE, left |-> 0, filled |-> 0,
                      loose |-> 0, looseDir |-> 1]
       /\ drift = s.ledger - s.active
  /\ algo = NoAlgo /\ pair = "NONE"
  /\ blind = FALSE /\ givenUp = FALSE /\ upsets = 0

Next ==
  \/ OpenOnSpread \/ RefusedOnSpread \/ CancelOrderOnSpread \/ OnOrder
  \/ \E idle \in BOOLEAN : OnTimer(idle) \/ OnTimerResume(idle) \/ OnTimerGiveUp(idle)
  \/ \E leg \in Legs : OnPosition(leg)
  \/ Fill \/ FillLoose
  \/ \E leg \in Legs, dir \in {-1, 1} : OutsideTrade(leg, dir)

Spec == Init /\ [][Next]_vars

\* The main loop calls its handlers again and again, the exchange answers a
\* cancel and pushes its positions, and, while orders keep being sent, some of
\* them trade (they are priced to cross the book).
Fairness ==
  /\ WF_vars(OnTimer(TRUE)) /\ WF_vars(OnOrder)
  /\ WF_vars(CancelOrderOnSpread)
  /\ \A leg \in Legs : WF_vars(OnPosition(leg))
  /\ SF_vars(OpenOnSpread) /\ SF_vars(Fill)
FairSpec == Spec /\ Fairness

-----------------------------------------------------------------------------
TypeOK ==
  /\ blind \in BOOLEAN /\ drift \in Int
  /\ pi \in PairInfo /\ algo \in Algo /\ pair \in PairOrder /\ exchange \in Exchange
  /\ exchange.open => pair = "SENT"
  /\ givenUp \in BOOLEAN /\ upsets \in 0..MaxUpsets

\* The rounding of the last clip: half a lot, or an order raised to the minimum.
Slack == Most(Lot \div 2, RoundLot(MinOrder) - 1)

\* The exposure a rebalance order leaves, once all it has at the exchange is
\* filled, is never below the threshold (but for the rounding of its last clip):
\* one leg is closed by the excess, however far the ledger has drifted from the
\* position, over any number of clips, cancels and new orders (the comment above
\* ProcessExposureRebalance).
NotOverclosed ==
  Working /\ ~blind =>
    -algo.dir * (exchange.position["active"] + exchange.position["passive"])
      - (IF exchange.open THEN exchange.left ELSE 0) >= Threshold - Slack

\* When no rebalance order works and none was given up, the ledger has moved by
\* exactly what was traded for the pair: no fill of an order that ended
\* half-filled, was cancelled or was replaced is lost or counted twice.
FillsReachLedger ==
  ~Working /\ ~givenUp => pi.ledger - exchange.position["active"] = drift

\* A stopped pair whose mark is gone is within the threshold, up to a volume too
\* small to order, or is one only a person can settle.
Repaired ==
  pi.stopFlag /\ ~pi.reBalance /\ ~Working /\ ~blind /\ exchange.loose = 0
    => ~InExcess(exchange.position) \/ Manual([pi EXCEPT !.real = exchange.position])

\* The cycle of cancelling and building anew ends: sooner or later the pair is
\* repaired or left to a person, manual pair or not.
RebalanceEnds == pi.reBalance ~> ~pi.reBalance
=============================================================================
