-------------------------- MODULE Rebalance_proofs --------------------------
(* Proofs about Rebalance, for all volumes, lots, thresholds and starts: the   *)
(* types, that no fill is lost (FillsReachLedger), that a rebalance order does *)
(* not close too much (NotOverclosed) and that what is left to itself is in    *)
(* order (Repaired).                                                           *)
(*                                                                             *)
(* The three views of the position meet in two equations.  Ledger or total,    *)
(* the fills the pair order still has and the exchange's position differ by    *)
(* what they differed by at the start (Booked).  And a fill brings the order   *)
(* as much nearer to its end as it takes from the exposure, so that what is    *)
(* left of the exposure and what is left of the order keep their distance,     *)
(* which is at least the threshold when the order is built (Aimed).            *)
EXTENDS Rebalance, TLAPS

Worlds == [pi : PairInfo, algo : Algo, pair : PairOrder, exchange : Exchange]

Busy(w)   == w.algo.status # "NONE"
Active(w) == w.exchange.position["active"]
Net(w)    == w.exchange.position["active"] + w.exchange.position["passive"]
Way(w)    == w.algo.dir * (w.algo.residual - w.algo.total)

Typed(w) == w \in Worlds /\ (w.exchange.open => w.pair = "SENT")

\* Only a pair order that was sent has fills, and only an algo order at work has
\* a pair order.
Resting(w) ==
  /\ w.pair # "SENT" => w.exchange.left = 0 /\ w.exchange.filled = 0
  /\ ~Busy(w) => w.pair = "NONE"

\* Total or ledger, and the fills on their way to it, are the position.
Booked(w, ahead, lost) ==
  /\ w.exchange.loose > 0 => lost
  /\ ~lost /\ Busy(w)  =>
       w.algo.total + w.algo.dir * w.exchange.filled - Active(w) = ahead
  /\ ~lost /\ ~Busy(w) => w.pi.ledger - Active(w) = ahead

\* What the order has still to close would leave the threshold; and what it has
\* at the exchange is no more than it has to close, but for the rounding.
Aimed(w, wrong) ==
  Busy(w) /\ ~wrong =>
    /\ w.exchange.loose = 0
    /\ -w.algo.dir * Net(w) - (Way(w) - w.exchange.filled) >= Threshold
    /\ w.exchange.left + w.exchange.filled <= Way(w) + Slack

\* What is open of an order that was given up takes no more than that.
LooseAimed(w, wrong) ==
  w.pi.stopFlag /\ ~w.pi.reBalance /\ ~wrong /\ w.exchange.loose > 0 =>
    -w.exchange.looseDir * Net(w) - w.exchange.loose >= Threshold - Slack

Light(position) == Abs(position["active"]) < Abs(position["passive"])

\* A stopped pair without its mark is in order, and remains so while what is
\* still open for it fills.
Settled(w, wrong) ==
  w.pi.stopFlag /\ ~w.pi.reBalance /\ ~wrong =>
    \/ ~InExcess(w.exchange.position)
    \/ IF Busy(w) \/ w.exchange.loose > 0 THEN Light(w.exchange.position)
       ELSE Manual([w.pi EXCEPT !.real = w.exchange.position])

Good(w, wrong, ahead, lost) ==
  Typed(w) /\ Resting(w) /\ Booked(w, ahead, lost) /\ Aimed(w, wrong) /\ LooseAimed(w, wrong)

History == blind \in BOOLEAN /\ drift \in Int /\ givenUp \in BOOLEAN /\ upsets \in 0..MaxUpsets

IInv == History /\ Good(Now, blind, drift, givenUp)

\* An order closes at most the excess and its rounding, and that is not so coarse
\* that it turns an excess into one of the other direction (the threshold is four
\* clips, a clip at least an order).
Modest == Slack <= 2 * Threshold

-----------------------------------------------------------------------------
(* The numbers *)

LEMMA Constants ==
  /\ Lot \in Nat \ {0} /\ MinSize \in Nat \ {0} /\ MinOrder \in Nat \ {0}
  /\ MinVolume \in Nat \ {0} /\ Target \in Nat \ {0} /\ Threshold \in Nat \ {0}
  /\ MaxUpsets \in Nat
  BY RebalanceAssumption

\* Rounding to lots is to the nearest.
LEMMA RoundLotBound ==
  ASSUME NEW v \in Nat
  PROVE  RoundLot(v) \in Nat /\ RoundLot(v) <= v + Lot \div 2 /\ Lot \div 2 \in Nat
<1>0. Lot \in Nat \ {0}
  BY Constants
<1> DEFINE q == (2 * v + Lot) \div (2 * Lot)
           h == Lot \div 2
<1>1. q \in Nat /\ (2 * Lot) * q <= 2 * v + Lot
  BY <1>0, SMT
<1>2. h \in Nat /\ 2 * h <= Lot /\ Lot <= 2 * h + 1
  BY <1>0, SMT
<1>3. RoundLot(v) = q * Lot
  BY DEF RoundLot
<1> HIDE DEF q, h
<1>4. 2 * (q * Lot) = (2 * Lot) * q /\ q * Lot \in Nat
  BY <1>0, <1>1, SMT
<1> DEFINE r == q * Lot
<1>5. r \in Nat /\ 2 * r <= 2 * v + Lot
  BY <1>1, <1>4
<1>6. RoundLot(v) = r
  BY <1>3
<1> HIDE DEF r
<1>7. r <= v + h
  BY <1>0, <1>2, <1>5, SMT
<1> QED BY <1>2, <1>5, <1>6, <1>7 DEF h

LEMMA SlackBound ==
  /\ Slack \in Nat
  /\ Lot \div 2 <= Slack
  /\ RoundLot(MinOrder) - 1 <= Slack
<1>1. MinOrder \in Nat /\ RoundLot(MinOrder) \in Nat /\ Lot \div 2 \in Nat
  BY Constants, RoundLotBound
<1> QED BY <1>1 DEF Slack, Most

\* A volume ordered exceeds what there is to close by the slack at most.
LEMMA OrderBound ==
  ASSUME Gap \in Int, OrderVolume > 0, algo.dir \in {-1, 1}, algo.total \in Int
  PROVE  OrderVolume \in Nat /\ OrderVolume <= Gap + Slack /\ Gap > 0
<1> DEFINE m == Least(Gap, Target)
           n == Most(m, MinOrder)
<1>1. Gap > 0 /\ OrderVolume = RoundLot(IF ReduceOnly THEN m ELSE n)
  BY DEF OrderVolume
<1>2. m \in Nat /\ m <= Gap /\ n \in Nat /\ (n = m \/ n = MinOrder)
  BY <1>1, Constants DEF Least, Most
<1> HIDE DEF m, n
<1>3. CASE ReduceOnly \/ n = m
  <2>1. OrderVolume = RoundLot(m)
    BY <1>1, <1>3
  <2> DEFINE h == Lot \div 2
             r == RoundLot(m)
  <2>2. r \in Nat /\ r <= m + h /\ h \in Nat /\ Slack \in Nat /\ h <= Slack
    BY <1>2, RoundLotBound, SlackBound
  <2> HIDE DEF h, r
  <2>3. r <= Gap + Slack
    BY <1>2, <2>2
  <2> QED BY <1>1, <2>1, <2>2, <2>3 DEF r
<1>4. CASE ~ReduceOnly /\ n = MinOrder
  <2>1. OrderVolume = RoundLot(MinOrder) /\ RoundLot(MinOrder) \in Nat
    BY <1>1, <1>2, <1>4, RoundLotBound
  <2> QED BY <1>1, <2>1, SlackBound
<1> QED BY <1>2, <1>3, <1>4

-----------------------------------------------------------------------------
(* The fields of a world *)

LEMMA PairFields ==
  ASSUME NEW p \in PairInfo
  PROVE  /\ p.ledger \in Int /\ p.real \in [Legs -> Int]
         /\ p.real["active"] \in Int /\ p.real["passive"] \in Int
         /\ p.stopFlag \in BOOLEAN /\ p.reBalance \in BOOLEAN /\ p.autoFlag \in BOOLEAN
  BY DEF PairInfo, Legs

LEMMA AlgoFields ==
  ASSUME NEW a \in Algo
  PROVE  /\ a.status \in {"NONE", "NEW", "CANCELLING"}
         /\ a.total \in Int /\ a.residual \in Int /\ a.dir \in {-1, 1}
  BY DEF Algo

LEMMA ExchangeFields ==
  ASSUME NEW x \in Exchange
  PROVE  /\ x.position \in [Legs -> Int]
         /\ x.position["active"] \in Int /\ x.position["passive"] \in Int
         /\ x.open \in BOOLEAN /\ x.left \in Nat /\ x.filled \in Nat
         /\ x.loose \in Nat /\ x.looseDir \in {-1, 1}
  BY DEF Exchange, Legs

LEMMA WorldFields ==
  ASSUME NEW w \in Worlds
  PROVE  w.pi \in PairInfo /\ w.algo \in Algo /\ w.pair \in PairOrder /\ w.exchange \in Exchange
  BY DEF Worlds

LEMMA NoAlgoTyped == NoAlgo \in Algo /\ NoAlgo.status = "NONE"
  BY DEF NoAlgo, Algo

-----------------------------------------------------------------------------
(* What on_timer does to a world *)

LEMMA SettleIs ==
  ASSUME NEW w \in Worlds
  PROVE  LET v == Settle(w) IN
         /\ v \in Worlds
         /\ v.pi = [w.pi EXCEPT !.ledger = w.algo.total]
         /\ v.pi.ledger = w.algo.total /\ v.pi.real = w.pi.real
         /\ v.pi.stopFlag = w.pi.stopFlag /\ v.pi.reBalance = w.pi.reBalance
         /\ v.algo = NoAlgo /\ v.pair = w.pair /\ v.exchange = w.exchange
<1> DEFINE p == [w.pi EXCEPT !.ledger = w.algo.total]
           v == Settle(w)
<1>1. w.algo.total \in Int /\ w.pi \in PairInfo
  BY WorldFields, AlgoFields
<1>2. /\ p \in PairInfo /\ p.ledger = w.algo.total /\ p.real = w.pi.real
      /\ p.stopFlag = w.pi.stopFlag /\ p.reBalance = w.pi.reBalance
  BY <1>1 DEF PairInfo
<1>3. v = [w EXCEPT !.pi = p, !.algo = NoAlgo]
  BY DEF Settle
<1> HIDE DEF p
<1>4. v \in Worlds /\ v.pi = p /\ v.algo = NoAlgo /\ v.pair = w.pair /\ v.exchange = w.exchange
  BY <1>2, <1>3, NoAlgoTyped, Zenon DEF Worlds
<1> QED BY <1>2, <1>4 DEF p

\* A settled world is good, when no pair order is left behind.
LEMMA SettleKeeps ==
  ASSUME NEW w, NEW wrong \in BOOLEAN, NEW ahead \in Int, NEW lost \in BOOLEAN,
         Good(w, wrong, ahead, lost), Busy(w), w.pair = "NONE"
  PROVE  Good(Settle(w), wrong, ahead, lost)
<1> DEFINE v == Settle(w)
<1>1. w \in Worlds /\ w.exchange.left = 0 /\ w.exchange.filled = 0
  BY DEF Good, Typed, Resting
<1>2. /\ v \in Worlds /\ v.pi.ledger = w.algo.total
      /\ v.pi.stopFlag = w.pi.stopFlag /\ v.pi.reBalance = w.pi.reBalance
      /\ v.algo = NoAlgo /\ v.pair = w.pair /\ v.exchange = w.exchange
  BY <1>1, SettleIs
<1> HIDE DEF v
<1>3. ~Busy(v)
  BY <1>2, NoAlgoTyped DEF Busy
<1>4. Typed(v) /\ Resting(v) /\ Aimed(v, wrong) /\ LooseAimed(v, wrong)
  BY <1>1, <1>2, <1>3 DEF Good, Typed, Resting, Aimed, LooseAimed, Net
<1>5. Booked(v, ahead, lost)
  <2>1. w.algo.dir * 0 = 0 /\ w.algo.total \in Int /\ Active(w) \in Int
    BY <1>1, WorldFields, AlgoFields, ExchangeFields DEF Active
  <2>2. Active(v) = Active(w)
    BY <1>2 DEF Active
  <2>3. ~lost => w.algo.total - Active(w) = ahead
    BY <1>1, <2>1 DEF Good, Booked
  <2> QED BY <1>2, <1>3, <2>2, <2>3 DEF Good, Booked
<1> QED BY <1>4, <1>5 DEF Good, v

\* Changes of the flags, of the mark and of NEW to CANCELLING keep a world good.
LEMMA FrameKeeps ==
  ASSUME NEW w, NEW v, NEW wrong \in BOOLEAN, NEW after \in BOOLEAN,
         NEW ahead \in Int, NEW lost \in BOOLEAN,
         Good(w, wrong, ahead, lost), v \in Worlds, wrong => after,
         v.pi.ledger = w.pi.ledger, v.pair = w.pair, v.exchange = w.exchange,
         Busy(v) <=> Busy(w), v.algo.dir = w.algo.dir,
         v.algo.total = w.algo.total, v.algo.residual = w.algo.residual,
         v.pi.stopFlag /\ ~v.pi.reBalance /\ ~after /\ v.exchange.loose > 0
           => w.pi.stopFlag /\ ~w.pi.reBalance
  PROVE  Good(v, after, ahead, lost)
<1>1. Typed(v) /\ Resting(v)
  BY DEF Good, Typed, Resting
<1>2. Booked(v, ahead, lost)
  <2>1. Active(v) = Active(w)
    BY DEF Active
  <2> QED BY <2>1 DEF Good, Booked
<1>3. Aimed(v, after)
  <2>1. Net(v) = Net(w) /\ Way(v) = Way(w)
    BY DEF Net, Way
  <2> QED BY <2>1 DEF Good, Aimed
<1>4. LooseAimed(v, after)
  <2>1. Net(v) = Net(w)
    BY DEF Net
  <2> QED BY <2>1 DEF Good, LooseAimed
<1> QED BY <1>1, <1>2, <1>3, <1>4 DEF Good

\* The decision about a pair of ledger l and position x.
ManualAt(l, x) ==
  \/ Abs(x["active"]) < Abs(x["passive"])
  \/ l * x["active"] <= 0
  \/ NetExposure(x) - Threshold < MinVolume

LEMMA ManualReads ==
  ASSUME NEW p \in PairInfo
  PROVE  /\ Manual(p) <=> ManualAt(p.ledger, p.real)
         /\ \A x : Manual([p EXCEPT !.real = x]) <=> ManualAt(p.ledger, x)
<1>1. Manual(p) <=> ManualAt(p.ledger, p.real)
  BY DEF Manual, ManualAt
<1>2. ASSUME NEW x PROVE Manual([p EXCEPT !.real = x]) <=> ManualAt(p.ledger, x)
  <2> DEFINE q == [p EXCEPT !.real = x]
  <2>1. q.ledger = p.ledger /\ q.real = x
    BY DEF PairInfo
  <2> HIDE DEF q
  <2>2. Manual(q) <=> ManualAt(p.ledger, x)
    BY <2>1 DEF Manual, ManualAt
  <2> QED BY <2>2 DEF q
<1> QED BY <1>1, <1>2

\* What Settled says, with the fields it reads.
LEMMA SettledReads ==
  ASSUME NEW w \in Worlds, NEW wrong \in BOOLEAN
  PROVE  Settled(w, wrong) <=>
           (w.pi.stopFlag /\ ~w.pi.reBalance /\ ~wrong =>
              \/ ~InExcess(w.exchange.position)
              \/ IF Busy(w) \/ w.exchange.loose > 0 THEN Light(w.exchange.position)
                 ELSE ManualAt(w.pi.ledger, w.exchange.position))
  BY WorldFields, ManualReads DEF Settled

LEMMA FrameSettles ==
  ASSUME NEW w \in Worlds, NEW v \in Worlds, NEW wrong \in BOOLEAN, NEW after \in BOOLEAN,
         Settled(w, wrong), wrong => after, v.exchange = w.exchange,
         v.pi.stopFlag /\ ~v.pi.reBalance /\ ~after =>
           /\ w.pi.stopFlag /\ ~w.pi.reBalance
           /\ (Busy(v) <=> Busy(w)) /\ v.pi.ledger = w.pi.ledger
  PROVE  Settled(v, after)
  BY SettledReads

\* RequestCancelAlgoOrder marks the order and nothing else.
LEMMA CancelIs ==
  ASSUME NEW w \in Worlds
  PROVE  LET v == RequestCancelAlgoOrder(w) IN
         /\ v \in Worlds /\ v.pi = w.pi /\ v.pair = w.pair /\ v.exchange = w.exchange
         /\ Busy(v) <=> Busy(w)
         /\ v.algo.dir = w.algo.dir /\ v.algo.total = w.algo.total
         /\ v.algo.residual = w.algo.residual
<1> DEFINE v == RequestCancelAlgoOrder(w)
           a == [w.algo EXCEPT !.status = "CANCELLING"]
<1>1. CASE w.algo.status = "NEW"
  <2>1. w.algo \in Algo
    BY WorldFields
  <2>2. /\ a \in Algo /\ a.status = "CANCELLING" /\ a.dir = w.algo.dir
        /\ a.total = w.algo.total /\ a.residual = w.algo.residual
    BY <2>1 DEF Algo
  <2>3. v = [w EXCEPT !.algo = a]
    BY <1>1 DEF RequestCancelAlgoOrder
  <2> HIDE DEF a
  <2>4. v \in Worlds /\ v.pi = w.pi /\ v.algo = a /\ v.pair = w.pair /\ v.exchange = w.exchange
    BY <2>2, <2>3, Zenon DEF Worlds
  <2> QED BY <1>1, <2>2, <2>4 DEF Busy
<1>2. CASE w.algo.status # "NEW"
  BY <1>2 DEF RequestCancelAlgoOrder
<1> QED BY <1>1, <1>2

\* A world with other flags.
LEMMA FlagsAre ==
  ASSUME NEW w \in Worlds, NEW s \in BOOLEAN, NEW r \in BOOLEAN
  PROVE  LET v == [w EXCEPT !.pi.stopFlag = s, !.pi.reBalance = r] IN
         /\ v \in Worlds /\ v.algo = w.algo /\ v.pair = w.pair /\ v.exchange = w.exchange
         /\ v.pi.ledger = w.pi.ledger /\ v.pi.real = w.pi.real
         /\ v.pi.stopFlag = s /\ v.pi.reBalance = r
<1> DEFINE v == [w EXCEPT !.pi.stopFlag = s, !.pi.reBalance = r]
           p == [w.pi EXCEPT !.stopFlag = s, !.reBalance = r]
<1>1. w.pi \in PairInfo
  BY WorldFields
<1>2. /\ p \in PairInfo /\ p.ledger = w.pi.ledger /\ p.real = w.pi.real
      /\ p.stopFlag = s /\ p.reBalance = r
  BY <1>1 DEF PairInfo
<1>3. v = [w EXCEPT !.pi = p]
  BY DEF Worlds
<1> HIDE DEF p
<1>4. v \in Worlds /\ v.pi = p /\ v.algo = w.algo /\ v.pair = w.pair /\ v.exchange = w.exchange
  BY <1>2, <1>3, Zenon DEF Worlds
<1> QED BY <1>2, <1>4

LEMMA MarkIs ==
  ASSUME NEW w \in Worlds, NEW r \in BOOLEAN
  PROVE  LET v == [w EXCEPT !.pi.reBalance = r] IN
         /\ v \in Worlds /\ v.algo = w.algo /\ v.pair = w.pair /\ v.exchange = w.exchange
         /\ v.pi.ledger = w.pi.ledger /\ v.pi.real = w.pi.real
         /\ v.pi.stopFlag = w.pi.stopFlag /\ v.pi.reBalance = r
<1> DEFINE v == [w EXCEPT !.pi.reBalance = r]
           p == [w.pi EXCEPT !.reBalance = r]
<1>1. w.pi \in PairInfo
  BY WorldFields
<1>2. /\ p \in PairInfo /\ p.ledger = w.pi.ledger /\ p.real = w.pi.real
      /\ p.stopFlag = w.pi.stopFlag /\ p.reBalance = r
  BY <1>1 DEF PairInfo
<1>3. v = [w EXCEPT !.pi = p]
  BY DEF Worlds
<1> HIDE DEF p
<1>4. v \in Worlds /\ v.pi = p /\ v.algo = w.algo /\ v.pair = w.pair /\ v.exchange = w.exchange
  BY <1>2, <1>3, Zenon DEF Worlds
<1> QED BY <1>2, <1>4

-----------------------------------------------------------------------------
(* The decision *)

\* A rebalance order is built to leave the threshold.
LEMMA BuildAims ==
  ASSUME NEW p \in PairInfo, InExcess(p.real), ~Manual(p)
  PROVE  LET a == BuildExposureRebalanceOrder(p)
             net == p.real["active"] + p.real["passive"]
         IN  /\ a \in Algo /\ a.status = "NEW" /\ a.total = p.ledger
             /\ a.dir * (a.residual - a.total) > 0
             /\ -a.dir * net - a.dir * (a.residual - a.total) >= Threshold
<1> DEFINE x == p.real["active"]
           y == p.real["passive"]
           l == p.ledger
           c == CloseAmount(p)
           a == BuildExposureRebalanceOrder(p)
<1>0. x \in Int /\ y \in Int /\ l \in Int /\ Threshold \in Nat /\ MinVolume \in Nat \ {0}
  BY PairFields, Constants
<1>1. /\ ~(Abs(x) < Abs(y)) /\ ~(l * x <= 0) /\ ~(Abs(x + y) - Threshold < MinVolume)
  BY DEF Manual, NetExposure
<1>2. c = Least(Abs(x + y) - Threshold, Abs(x))
  BY DEF CloseAmount, NetExposure
<1>3. /\ a.status = "NEW" /\ a.total = l
      /\ a.residual = l + (IF l > 0 THEN -c ELSE c)
      /\ a.dir = IF l > 0 THEN -1 ELSE 1
  BY DEF BuildExposureRebalanceOrder, EndVolume
<1>a. a = [status |-> "NEW", total |-> l, residual |-> l + (IF l > 0 THEN -c ELSE c),
           dir |-> IF l > 0 THEN -1 ELSE 1]
  BY DEF BuildExposureRebalanceOrder, EndVolume
<1> HIDE DEF x, y, l, c, a
<1>4. (l > 0 /\ x > 0) \/ (l < 0 /\ x < 0)
  <2>1. l * x > 0
    <3>1. l * x \in Int
      BY <1>0
    <3> QED BY <1>1, <3>1
  <2>2. (l = 0 \/ x = 0) => l * x = 0
    BY <1>0
  <2>3. (l > 0 /\ x < 0) => l * x <= 0
    <3> SUFFICES ASSUME l > 0, x < 0 PROVE l * x <= 0
      OBVIOUS
    <3> DEFINE z == -x
    <3>1. l \in Nat /\ z \in Nat /\ x = -z
      BY <1>0
    <3> HIDE DEF z
    <3>2. l * z \in Nat /\ l * x = -(l * z)
      BY <3>1
    <3> QED BY <3>2
  <2>4. (l < 0 /\ x > 0) => l * x <= 0
    <3> SUFFICES ASSUME l < 0, x > 0 PROVE l * x <= 0
      OBVIOUS
    <3> DEFINE z == -l
    <3>1. x \in Nat /\ z \in Nat /\ l = -z
      BY <1>0
    <3> HIDE DEF z
    <3>2. z * x \in Nat /\ l * x = -(z * x)
      BY <3>1
    <3> QED BY <3>2
  <2> QED BY <1>0, <2>1, <2>2, <2>3, <2>4
<1>5. /\ c \in Int /\ c > 0 /\ c <= Abs(x + y) - Threshold
      /\ Abs(x + y) = IF l > 0 THEN x + y ELSE -(x + y)
  BY <1>0, <1>1, <1>2, <1>4 DEF Abs, Least
<1>6. a.dir * (a.residual - a.total) = c
  <2>1. CASE l > 0
    <3>1. a.residual - a.total = -c /\ a.dir = -1
      BY <1>0, <1>3, <1>5, <2>1
    <3> QED BY <1>5, <3>1
  <2>2. CASE ~(l > 0)
    <3>1. a.residual - a.total = c /\ a.dir = 1
      BY <1>0, <1>3, <1>5, <2>2
    <3> QED BY <1>5, <3>1
  <2> QED BY <2>1, <2>2
<1>7. -a.dir * (x + y) = Abs(x + y)
  <2>1. CASE l > 0
    BY <1>0, <1>3, <1>5, <2>1
  <2>2. CASE ~(l > 0)
    BY <1>0, <1>3, <1>5, <2>2
  <2> QED BY <2>1, <2>2
<1>8. a \in Algo
  BY <1>0, <1>5, <1>a DEF Algo
<1>9. Abs(x + y) \in Int
  BY <1>0 DEF Abs
<1> QED BY <1>0, <1>3, <1>5, <1>6, <1>7, <1>8, <1>9 DEF a, x, y, l

\* An algo order built by the decision.
LEMMA BuiltIs ==
  ASSUME NEW w \in Worlds, NEW a \in Algo
  PROVE  LET v == [w EXCEPT !.algo = a] IN
         v \in Worlds /\ v.pi = w.pi /\ v.algo = a /\ v.pair = w.pair /\ v.exchange = w.exchange
  BY Zenon DEF Worlds

\* What is known of the deciding world, and what comes of it.
Decided(w, v, after) ==
  \/ v = w
  \/ v = [w EXCEPT !.pi.reBalance = FALSE] /\ w.pi.reBalance /\ ~InExcess(w.pi.real)
     /\ (after \/ ~Mistaken(w))
  \/ v = [w EXCEPT !.pi.reBalance = FALSE] /\ w.pi.reBalance /\ ~Busy(w) /\ Manual(w.pi)
     /\ (after \/ ~Mistaken(w))
  \/ v = [w EXCEPT !.algo = BuildExposureRebalanceOrder(w.pi)]
     /\ w.pi.reBalance /\ ~Busy(w) /\ InExcess(w.pi.real) /\ ~Manual(w.pi)
     /\ (after \/ ~Mistaken(w))

LEMMA ProcessDecides ==
  ASSUME NEW w \in Worlds, NEW wrong \in BOOLEAN
  PROVE  Decided(w, ProcessExposureRebalance(w), wrong \/ (Deciding(w) /\ Mistaken(w)))
<1>1. w.pi.reBalance \in BOOLEAN
  BY WorldFields, PairFields
<1> DEFINE v == ProcessExposureRebalance(w)
<1>2. CASE ~w.pi.reBalance
  BY <1>2 DEF ProcessExposureRebalance, Decided
<1>3. CASE w.pi.reBalance /\ ~InExcess(w.pi.real)
  BY <1>3 DEF ProcessExposureRebalance, Decided, Deciding
<1>4. CASE w.pi.reBalance /\ InExcess(w.pi.real) /\ w.algo.status # "NONE"
  BY <1>4 DEF ProcessExposureRebalance, Decided
<1>5. CASE w.pi.reBalance /\ InExcess(w.pi.real) /\ w.algo.status = "NONE"
  <2>1. v = IF Manual(w.pi) THEN [w EXCEPT !.pi.reBalance = FALSE]
            ELSE [w EXCEPT !.algo = BuildExposureRebalanceOrder(w.pi)]
    BY <1>5 DEF ProcessExposureRebalance
  <2>2. ~Busy(w) /\ Deciding(w)
    BY <1>5 DEF Busy, Deciding
  <2> QED BY <1>5, <2>1, <2>2 DEF Decided
<1> QED BY <1>1, <1>2, <1>3, <1>4, <1>5

\* A true view is the exchange's position, with nothing loose.
LEMMA NotMistaken ==
  ASSUME NEW w \in Worlds, ~Mistaken(w)
  PROVE  w.pi.real = w.exchange.position /\ w.exchange.loose = 0
<1>1. w.exchange.loose \in Nat
  BY WorldFields, ExchangeFields
<1> QED BY <1>1 DEF Mistaken

\* The build: the order starts where the ledger is and leaves the threshold.
LEMMA BuildKeeps ==
  ASSUME NEW w, NEW wrong \in BOOLEAN, NEW after \in BOOLEAN,
         NEW ahead \in Int, NEW lost \in BOOLEAN,
         Good(w, wrong, ahead, lost), wrong => after, w.pi.reBalance, ~Busy(w),
         InExcess(w.pi.real), ~Manual(w.pi), after \/ ~Mistaken(w)
  PROVE  Good([w EXCEPT !.algo = BuildExposureRebalanceOrder(w.pi)], after, ahead, lost)
<1> DEFINE a == BuildExposureRebalanceOrder(w.pi)
           v == [w EXCEPT !.algo = a]
           x == w.pi.real["active"] + w.pi.real["passive"]
           g == a.dir * (a.residual - a.total)
<1>1. w \in Worlds /\ w.pi \in PairInfo /\ w.pair = "NONE"
  BY WorldFields DEF Good, Typed, Resting
<1>2. w.exchange.left = 0 /\ w.exchange.filled = 0
  BY <1>1 DEF Good, Resting
<1>3. a \in Algo /\ a.status = "NEW" /\ a.total = w.pi.ledger /\ g > 0 /\ -a.dir * x - g >= Threshold
  BY <1>1, BuildAims
<1>4. v \in Worlds /\ v.pi = w.pi /\ v.algo = a /\ v.pair = w.pair /\ v.exchange = w.exchange
  BY <1>1, <1>3, BuiltIs
<1>5. a.dir \in {-1, 1} /\ a.total \in Int /\ a.residual \in Int
  BY <1>3, AlgoFields
<1>6. g = Way(v)
  BY <1>4 DEF Way
<1> HIDE DEF a, v
<1>7. Busy(v)
  BY <1>3, <1>4 DEF Busy
<1>8. Typed(v) /\ Resting(v) /\ LooseAimed(v, after)
  BY <1>1, <1>2, <1>4, <1>7 DEF Good, Typed, Resting, LooseAimed
<1>9. Booked(v, ahead, lost)
  <2>1. a.dir * 0 = 0 /\ Active(w) \in Int /\ Active(v) = Active(w)
    BY <1>1, <1>4, <1>5, WorldFields, ExchangeFields DEF Active
  <2>3. ~lost => w.pi.ledger - Active(w) = ahead
    BY DEF Good, Booked
  <2> DEFINE k == v.algo.dir * v.exchange.filled
  <2>2. k = 0 /\ v.algo.total = w.pi.ledger
    BY <1>2, <1>3, <1>4, <1>5, <2>1
  <2>4. w.pi.ledger \in Int
    BY <1>3, <1>5
  <2> HIDE DEF k
  <2>5. ~lost => v.algo.total + k - Active(v) = ahead
    BY <2>1, <2>2, <2>3, <2>4
  <2>6. ~lost => v.algo.total + v.algo.dir * v.exchange.filled - Active(v) = ahead
    BY <2>5 DEF k
  <2>7. v.exchange.loose > 0 => lost
    BY <1>4 DEF Good, Booked
  <2> QED BY <1>7, <2>6, <2>7, Zenon DEF Booked
<1>10. Aimed(v, after)
  <2> SUFFICES ASSUME ~after
               PROVE  /\ v.exchange.loose = 0
                      /\ -v.algo.dir * Net(v) - (Way(v) - v.exchange.filled) >= Threshold
                      /\ v.exchange.left + v.exchange.filled <= Way(v) + Slack
    BY DEF Aimed
  <2>1. w.pi.real = w.exchange.position /\ w.exchange.loose = 0
    BY <1>1, NotMistaken
  <2>2. Net(v) = x
    BY <1>4, <2>1 DEF Net
  <2>3. g \in Int /\ Slack \in Nat
    BY <1>5, SlackBound
  <2> HIDE DEF g, x
  <2>4. g - 0 = g
    BY <2>3
  <2> QED BY <1>2, <1>3, <1>4, <1>6, <2>1, <2>2, <2>3, <2>4
<1> QED BY <1>8, <1>9, <1>10 DEF Good, v, a

LEMMA ProcessKeeps ==
  ASSUME NEW w, NEW wrong \in BOOLEAN, NEW ahead \in Int, NEW lost \in BOOLEAN,
         Good(w, wrong, ahead, lost)
  PROVE  LET after == wrong \/ (Deciding(w) /\ Mistaken(w))
             v == ProcessExposureRebalance(w)
         IN  /\ Good(v, after, ahead, lost)
             /\ v.exchange = w.exchange
             /\ Settled(w, wrong) => Settled(v, after)
<1> DEFINE after == wrong \/ (Deciding(w) /\ Mistaken(w))
           v == ProcessExposureRebalance(w)
<1>1. w \in Worlds
  BY DEF Good, Typed
<1>2. Decided(w, v, after)
  BY <1>1, ProcessDecides
<1>3. after \in BOOLEAN /\ (wrong => after)
  OBVIOUS
<1> HIDE DEF after, v
<1>4. ASSUME v = w
      PROVE  Good(v, after, ahead, lost) /\ v.exchange = w.exchange
             /\ (Settled(w, wrong) => Settled(v, after))
  <2>1. Good(v, after, ahead, lost)
    BY <1>1, <1>3, <1>4, FrameKeeps
  <2>2. Settled(w, wrong) => Settled(v, after)
    BY <1>1, <1>3, <1>4, FrameSettles
  <2> QED BY <1>4, <2>1, <2>2
<1>5. ASSUME v = [w EXCEPT !.pi.reBalance = FALSE], w.pi.reBalance, after \/ ~Mistaken(w),
             ~InExcess(w.pi.real) \/ (~Busy(w) /\ Manual(w.pi))
      PROVE  Good(v, after, ahead, lost) /\ v.exchange = w.exchange /\ Settled(v, after)
  <2>1. /\ v \in Worlds /\ v.algo = w.algo /\ v.pair = w.pair /\ v.exchange = w.exchange
        /\ v.pi.ledger = w.pi.ledger /\ v.pi.real = w.pi.real
    BY <1>1, <1>5, MarkIs
  <2>2. ~after => w.pi.real = w.exchange.position /\ w.exchange.loose = 0
    BY <1>1, <1>5, NotMistaken
  <2>3. Busy(v) <=> Busy(w)
    BY <2>1 DEF Busy
  <2>4. w.exchange.loose \in Nat
    BY <1>1, WorldFields, ExchangeFields
  <2>5. Good(v, after, ahead, lost)
    BY <1>3, <2>1, <2>2, <2>3, <2>4, FrameKeeps
  <2>6. Settled(v, after)
    <3>1. Manual(w.pi) <=> ManualAt(w.pi.ledger, w.pi.real)
      BY <1>1, WorldFields, ManualReads
    <3>2. ~after => \/ ~InExcess(v.exchange.position)
                    \/ ~Busy(v) /\ ~(v.exchange.loose > 0) /\ ManualAt(v.pi.ledger, v.exchange.position)
      BY <1>5, <2>1, <2>2, <2>3, <3>1
    <3> QED BY <1>3, <2>1, <3>2, SettledReads
  <2> QED BY <2>1, <2>5, <2>6
<1>6. ASSUME v = [w EXCEPT !.algo = BuildExposureRebalanceOrder(w.pi)],
             w.pi.reBalance, ~Busy(w), InExcess(w.pi.real), ~Manual(w.pi), after \/ ~Mistaken(w)
      PROVE  Good(v, after, ahead, lost) /\ v.exchange = w.exchange /\ Settled(v, after)
  <2>1. Good(v, after, ahead, lost)
    BY <1>3, <1>6, BuildKeeps
  <2>2. BuildExposureRebalanceOrder(w.pi) \in Algo
    BY <1>1, <1>6, WorldFields, BuildAims
  <2>3. v \in Worlds /\ v.pi = w.pi /\ v.exchange = w.exchange
    BY <1>1, <1>6, <2>2, BuiltIs
  <2>4. Settled(v, after)
    BY <1>3, <1>6, <2>3, SettledReads
  <2> QED BY <2>1, <2>3, <2>4
<1>7. Good(v, after, ahead, lost) /\ v.exchange = w.exchange /\ (Settled(w, wrong) => Settled(v, after))
  BY <1>2, <1>4, <1>5, <1>6 DEF Decided
<1> QED BY <1>7 DEF after, v

\* The timeout only asks for a cancel.
LEMMA TimeoutKeeps ==
  ASSUME NEW w, NEW wrong \in BOOLEAN, NEW ahead \in Int, NEW lost \in BOOLEAN,
         Good(w, wrong, ahead, lost), NEW idle
  PROVE  LET v == CheckAlgoOrderTimeout(w, idle) IN
         /\ Good(v, wrong, ahead, lost) /\ v.exchange = w.exchange
         /\ Settled(w, wrong) => Settled(v, wrong)
<1> DEFINE v == CheckAlgoOrderTimeout(w, idle)
<1>1. w \in Worlds
  BY DEF Good, Typed
<1>2. v = w \/ v = RequestCancelAlgoOrder(w)
  BY DEF CheckAlgoOrderTimeout
<1>3. /\ v \in Worlds /\ v.pi = w.pi /\ v.pair = w.pair /\ v.exchange = w.exchange
      /\ Busy(v) <=> Busy(w)
      /\ v.algo.dir = w.algo.dir /\ v.algo.total = w.algo.total
      /\ v.algo.residual = w.algo.residual
  BY <1>1, <1>2, CancelIs
<1> HIDE DEF v
<1>4. Good(v, wrong, ahead, lost)
  BY <1>3, FrameKeeps
<1>5. Settled(w, wrong) => Settled(v, wrong)
  BY <1>1, <1>3, FrameSettles
<1> QED BY <1>3, <1>4, <1>5 DEF v

\* The check stops the pair and marks it, with the order at work cancelled.
LEMMA AbnormalKeeps ==
  ASSUME NEW w, NEW wrong \in BOOLEAN, NEW ahead \in Int, NEW lost \in BOOLEAN,
         Good(w, wrong, ahead, lost)
  PROVE  LET v == CheckExposureAbnormal(w) IN
         /\ Good(v, wrong, ahead, lost)
         /\ Settled(w, wrong) => Settled(v, wrong)
<1> DEFINE v == CheckExposureAbnormal(w)
           u == [w EXCEPT !.pi.stopFlag = TRUE, !.pi.reBalance = TRUE]
<1>1. w \in Worlds
  BY DEF Good, Typed
<1>2. CASE v = w
  BY <1>2
<1>3. CASE v = RequestCancelAlgoOrder(u)
  <2>1. /\ u \in Worlds /\ u.algo = w.algo /\ u.pair = w.pair /\ u.exchange = w.exchange
        /\ u.pi.ledger = w.pi.ledger /\ u.pi.reBalance = TRUE
    BY <1>1, FlagsAre
  <2> HIDE DEF u
  <2>2. /\ v \in Worlds /\ v.pi = u.pi /\ v.pair = u.pair /\ v.exchange = u.exchange
        /\ Busy(v) <=> Busy(u)
        /\ v.algo.dir = u.algo.dir /\ v.algo.total = u.algo.total
        /\ v.algo.residual = u.algo.residual
    BY <1>3, <2>1, CancelIs
  <2> HIDE DEF v
  <2>3. Busy(u) <=> Busy(w)
    BY <2>1 DEF Busy
  <2>4. Good(v, wrong, ahead, lost)
    BY <2>1, <2>2, <2>3, FrameKeeps
  <2>5. Settled(w, wrong) => Settled(v, wrong)
    BY <1>1, <2>1, <2>2, FrameSettles
  <2> QED BY <2>4, <2>5 DEF v
<1>4. v = w \/ v = RequestCancelAlgoOrder(u)
  BY DEF CheckExposureAbnormal
<1> QED BY <1>2, <1>3, <1>4

\* The strategy's half of on_timer, on the world e the execution left.
LEMMA StrategyKeeps ==
  ASSUME NEW e, NEW idle, blind \in BOOLEAN, drift \in Int, NEW lost \in BOOLEAN,
         Good(e, blind, drift, lost), StrategyOnTimer(e, idle)
  PROVE  /\ blind' \in BOOLEAN /\ drift' = drift
         /\ Good(Now', blind', drift, lost)
         /\ Settled(e, blind) => Settled(Now', blind')
<1> DEFINE p == ProcessExposureRebalance(e)
           t == CheckAlgoOrderTimeout(p, idle /\ e.algo.status # "NONE")
           w == CheckExposureAbnormal(t)
           after == blind \/ (Deciding(e) /\ Mistaken(e))
<1>1. /\ pi' = w.pi /\ algo' = w.algo /\ pair' = w.pair /\ exchange' = w.exchange
      /\ blind' = after /\ drift' = drift
  BY DEF StrategyOnTimer
<1>2. after \in BOOLEAN
  OBVIOUS
<1>3. Good(p, after, drift, lost) /\ (Settled(e, blind) => Settled(p, after))
  BY ProcessKeeps
<1> HIDE DEF after, p
<1>4. Good(t, after, drift, lost) /\ (Settled(p, after) => Settled(t, after))
  BY <1>2, <1>3, TimeoutKeeps
<1> HIDE DEF t
<1>5. Good(w, after, drift, lost) /\ (Settled(t, after) => Settled(w, after))
  BY <1>2, <1>4, AbnormalKeeps
<1> HIDE DEF w
<1>6. Now' = w
  <2>1. w \in Worlds
    BY <1>5 DEF Good, Typed
  <2>2. Now' = [pi |-> w.pi, algo |-> w.algo, pair |-> w.pair, exchange |-> w.exchange]
    BY <1>1 DEF Now
  <2> QED BY <2>1, <2>2 DEF Worlds
<1> QED BY <1>1, <1>2, <1>3, <1>4, <1>5, <1>6

-----------------------------------------------------------------------------
(* The execution's half of on_timer *)

LEMMA NowIs ==
  Now.pi = pi /\ Now.algo = algo /\ Now.pair = pair /\ Now.exchange = exchange
  BY DEF Now

LEMMA PairIs ==
  ASSUME NEW w \in Worlds, NEW x \in PairOrder
  PROVE  LET v == [w EXCEPT !.pair = x] IN
         v \in Worlds /\ v.pi = w.pi /\ v.algo = w.algo /\ v.pair = x /\ v.exchange = w.exchange
  BY Zenon DEF Worlds

\* The end of an algo order leaves a pair in order that was so.
LEMMA SettleSettles ==
  ASSUME NEW w, NEW wrong \in BOOLEAN, w \in Worlds, Busy(w), Settled(w, wrong)
  PROVE  Settled(Settle(w), wrong)
<1> DEFINE v == Settle(w)
<1>1. /\ v \in Worlds /\ v.pi.stopFlag = w.pi.stopFlag /\ v.pi.reBalance = w.pi.reBalance
      /\ v.exchange = w.exchange
  BY SettleIs
<1> HIDE DEF v
<1>2. \A x : Light(x) => ManualAt(v.pi.ledger, x)
  BY DEF Light, ManualAt
<1>3. Settled(v, wrong)
  BY <1>1, <1>2, SettledReads
<1> QED BY <1>3 DEF v

LEMMA ExecKeeps ==
  ASSUME NEW lost \in BOOLEAN, blind \in BOOLEAN, drift \in Int,
         Good(Now, blind, drift, lost)
  PROVE  /\ Good(ExecOnTimer(Now), blind, drift, lost)
         /\ Settled(Now, blind) => Settled(ExecOnTimer(Now), blind)
<1> DEFINE v == ExecOnTimer(Now)
<1>1. Now \in Worlds
  BY DEF Good, Typed
<1>2. CASE pair = "REFUSED"
  <2>1. v = [Now EXCEPT !.pair = "NONE"]
    BY <1>2 DEF ExecOnTimer
  <2>2. "NONE" \in PairOrder
    BY DEF PairOrder
  <2>3. v \in Worlds /\ v.pi = pi /\ v.algo = algo /\ v.pair = "NONE" /\ v.exchange = exchange
    BY <1>1, <2>1, <2>2, PairIs, NowIs
  <2> HIDE DEF v
  <2>4. Busy(v) <=> Busy(Now)
    BY <2>3, NowIs DEF Busy
  <2>5. exchange.left = 0 /\ exchange.filled = 0 /\ ~exchange.open
    BY <1>1, <1>2, NowIs DEF Good, Typed, Resting
  <2>6. Typed(v) /\ Resting(v)
    BY <2>3, <2>5 DEF Typed, Resting
  <2>7. Booked(v, drift, lost)
    <3>1. Active(v) = Active(Now)
      BY <2>3, NowIs DEF Active
    <3> QED BY <2>3, <2>4, <3>1, NowIs DEF Good, Booked
  <2>8. Aimed(v, blind) /\ LooseAimed(v, blind)
    <3>1. Net(v) = Net(Now) /\ Way(v) = Way(Now)
      BY <2>3, NowIs DEF Net, Way
    <3> QED BY <2>3, <2>4, <3>1, NowIs DEF Good, Aimed, LooseAimed
  <2>9. Settled(Now, blind) => Settled(v, blind)
    BY <1>1, <2>3, <2>4, NowIs, FrameSettles
  <2> QED BY <2>6, <2>7, <2>8, <2>9 DEF Good, v
<1>3. CASE pair # "REFUSED" /\ Working /\ pair = "NONE" /\ (Arrived \/ algo.status = "CANCELLING")
  <2>1. v = Settle(Now) /\ Busy(Now) /\ Now.pair = "NONE"
    BY <1>3, NowIs DEF ExecOnTimer, Busy, Working
  <2>2. Good(v, blind, drift, lost)
    BY <2>1, SettleKeeps
  <2>3. Settled(Now, blind) => Settled(v, blind)
    BY <1>1, <2>1, SettleSettles
  <2> QED BY <2>2, <2>3
<1>4. CASE pair # "REFUSED" /\ ~(Working /\ pair = "NONE" /\ (Arrived \/ algo.status = "CANCELLING"))
  <2>1. v = Now
    BY <1>4 DEF ExecOnTimer
  <2> QED BY <2>1
<1> QED BY <1>2, <1>3, <1>4

\* RESUME frees the pair.
LEMMA ResumeKeeps ==
  ASSUME NEW w, NEW wrong \in BOOLEAN, NEW ahead \in Int, NEW lost \in BOOLEAN,
         Good(w, wrong, ahead, lost)
  PROVE  Good(Resume(w), wrong, ahead, lost) /\ Settled(Resume(w), wrong)
<1> DEFINE v == Resume(w)
<1>1. w \in Worlds
  BY DEF Good, Typed
<1>2. /\ v \in Worlds /\ v.algo = w.algo /\ v.pair = w.pair /\ v.exchange = w.exchange
      /\ v.pi.ledger = w.pi.ledger /\ v.pi.stopFlag = FALSE
  BY <1>1, FlagsAre DEF Resume
<1> HIDE DEF v
<1>3. Busy(v) <=> Busy(w)
  BY <1>2 DEF Busy
<1>4. Good(v, wrong, ahead, lost)
  BY <1>2, <1>3, FrameKeeps
<1>5. Settled(v, wrong)
  BY <1>2, SettledReads
<1> QED BY <1>4, <1>5 DEF v

\* Giving an order up loses its fills; what is open of it keeps its aim.
LEMMA GiveUpKeeps ==
  ASSUME blind \in BOOLEAN, drift \in Int, NEW lost \in BOOLEAN,
         Good(Now, blind, drift, lost), pair = "SENT", exchange.loose = 0
  PROVE  /\ Good(GiveUp(Now), blind, drift, TRUE)
         /\ Settled(Now, blind) => Settled(GiveUp(Now), blind)
<1> DEFINE s == Settle(Now)
           l == IF exchange.open THEN exchange.left ELSE 0
           x == [exchange EXCEPT !.open = FALSE, !.left = 0, !.filled = 0, !.loose = l,
                                 !.looseDir = algo.dir]
           v == GiveUp(Now)
<1>1. Now \in Worlds /\ Busy(Now)
  BY NowIs DEF Good, Typed, Resting
<1>2. exchange \in Exchange /\ algo \in Algo /\ pi \in PairInfo
  BY <1>1, NowIs, WorldFields
<1>3. l \in Nat /\ algo.dir \in {-1, 1} /\ l <= exchange.left
  BY <1>2, ExchangeFields, AlgoFields
<1>4. /\ s \in Worlds /\ s.algo = NoAlgo /\ s.exchange = exchange
      /\ s.pi.stopFlag = pi.stopFlag /\ s.pi.reBalance = pi.reBalance
  BY <1>1, NowIs, SettleIs
<1>5. v = [s EXCEPT !.pair = "NONE", !.exchange = x]
  BY DEF GiveUp
<1>6. /\ x \in Exchange /\ x.position = exchange.position /\ ~x.open
      /\ x.left = 0 /\ x.filled = 0 /\ x.loose = l /\ x.looseDir = algo.dir
  <2> HIDE DEF l
  <2> QED BY <1>2, <1>3 DEF Exchange
<1> HIDE DEF x, s
<1>7. v \in Worlds /\ v.pi = s.pi /\ v.algo = s.algo /\ v.pair = "NONE" /\ v.exchange = x
  <2>1. "NONE" \in PairOrder
    BY DEF PairOrder
  <2> QED BY <1>4, <1>5, <1>6, <2>1, Zenon DEF Worlds
<1> HIDE DEF v
<1>8. ~Busy(v)
  BY <1>4, <1>7, NoAlgoTyped DEF Busy
<1>9. Typed(v) /\ Resting(v) /\ Booked(v, drift, TRUE) /\ Aimed(v, blind)
  BY <1>6, <1>7, <1>8 DEF Typed, Resting, Booked, Aimed
<1>10. LooseAimed(v, blind)
  <2> SUFFICES ASSUME ~blind, v.exchange.loose > 0
               PROVE  -v.exchange.looseDir * Net(v) - v.exchange.loose >= Threshold - Slack
    BY DEF LooseAimed
  <2>1. /\ -Now.algo.dir * Net(Now) - (Way(Now) - Now.exchange.filled) >= Threshold
        /\ Now.exchange.left + Now.exchange.filled <= Way(Now) + Slack
    BY <1>1 DEF Good, Aimed
  <2> DEFINE n == -algo.dir * Net(Now)
             g == Way(Now)
  <2>2. n \in Int /\ g \in Int /\ Slack \in Nat /\ Threshold \in Nat
    <3>1. Net(Now) \in Int /\ algo.residual \in Int /\ algo.total \in Int
      BY <1>2, NowIs, ExchangeFields, AlgoFields DEF Net
    <3> QED BY <1>3, <3>1, NowIs, SlackBound, Constants DEF Way
  <2>3. Net(v) = Net(Now)
    BY <1>6, <1>7, NowIs DEF Net
  <2>4. /\ n - (g - exchange.filled) >= Threshold
        /\ exchange.left + exchange.filled <= g + Slack
    BY <2>1, NowIs
  <2>5. -v.exchange.looseDir * Net(v) = n
    BY <1>6, <1>7, <2>3
  <2>6. exchange.left \in Nat /\ exchange.filled \in Nat
    BY <1>2, ExchangeFields
  <2> HIDE DEF n, g, l
  <2>7. n - l >= Threshold - Slack
    BY <1>3, <2>2, <2>4, <2>6
  <2> QED BY <1>6, <1>7, <2>5, <2>7
<1>11. Settled(Now, blind) => Settled(v, blind)
  <2>1. \A y : Light(y) => ManualAt(v.pi.ledger, y)
    BY DEF Light, ManualAt
  <2> QED BY <1>1, <1>4, <1>6, <1>7, <2>1, NowIs, SettledReads
<1> QED BY <1>9, <1>10, <1>11 DEF Good, v

-----------------------------------------------------------------------------
(* The other steps *)

LEMMA NowNext ==
  /\ Now'.pi = pi' /\ Now'.algo = algo' /\ Now'.pair = pair' /\ Now'.exchange = exchange'
  /\ pi' \in PairInfo /\ algo' \in Algo /\ pair' \in PairOrder /\ exchange' \in Exchange
       => Now' \in Worlds
  BY DEF Now, Worlds

LEMMA NowFields ==
  ASSUME IInv
  PROVE  /\ pi \in PairInfo /\ algo \in Algo /\ pair \in PairOrder /\ exchange \in Exchange
         /\ exchange.open => pair = "SENT"
         /\ pair # "SENT" => exchange.left = 0 /\ exchange.filled = 0
         /\ Busy(Now) <=> Working
         /\ ~Working => pair = "NONE"
<1>1. Now \in Worlds
  BY DEF IInv, Good, Typed
<1>2. Busy(Now) <=> Working
  BY NowIs DEF Busy, Working
<1> QED BY <1>1, <1>2, NowIs, WorldFields DEF IInv, Good, Typed, Resting

\* A clip is no more than what there is to close, but for the rounding.
LEMMA OpenKeeps ==
  ASSUME IInv, OpenOnSpread
  PROVE  IInv' /\ (Settled(Now, blind) => Settled(Now', blind'))
<1>1. /\ pair' = "SENT"
      /\ exchange' = [exchange EXCEPT !.open = TRUE, !.left = OrderVolume, !.filled = 0]
      /\ pi' = pi /\ algo' = algo /\ blind' = blind /\ drift' = drift
      /\ givenUp' = givenUp /\ upsets' = upsets
      /\ algo.status = "NEW" /\ pair = "NONE" /\ OrderVolume > 0
  BY DEF OpenOnSpread, MayOpen
<1>2. /\ pi \in PairInfo /\ algo \in Algo /\ exchange \in Exchange
      /\ exchange.left = 0 /\ exchange.filled = 0
  BY <1>1, NowFields
<1>3. /\ algo.dir \in {-1, 1} /\ algo.total \in Int /\ algo.residual \in Int
  BY <1>2, AlgoFields
<1>4. Gap \in Int /\ Gap = Way(Now)
  BY <1>3, NowIs DEF Gap, Way
<1>5. OrderVolume \in Nat /\ OrderVolume <= Gap + Slack
  BY <1>1, <1>3, <1>4, OrderBound
<1> DEFINE v == OrderVolume
           x == [exchange EXCEPT !.open = TRUE, !.left = v, !.filled = 0]
<1>6. exchange' = x
  BY <1>1
<1>7. v \in Nat /\ v <= Way(Now) + Slack
  BY <1>4, <1>5
<1> HIDE DEF v
<1>8. /\ x \in Exchange /\ x.position = exchange.position /\ x.open = TRUE /\ x.left = v
      /\ x.filled = 0 /\ x.loose = exchange.loose /\ x.looseDir = exchange.looseDir
  BY <1>2, <1>7 DEF Exchange
<1> HIDE DEF x
<1>9. Now \in Worlds /\ Now' \in Worlds
  <2>1. pair' \in PairOrder
    BY <1>1 DEF PairOrder
  <2> QED BY <1>1, <1>2, <1>6, <1>8, <2>1, NowNext DEF IInv, Good, Typed
<1>10. Busy(Now) /\ Busy(Now') /\ Active(Now') = Active(Now) /\ Net(Now') = Net(Now)
       /\ Way(Now') = Way(Now)
  BY <1>1, <1>6, <1>8, NowIs, NowNext DEF Busy, Active, Net, Way
<1>11. Typed(Now') /\ Resting(Now')
  BY <1>1, <1>9, <1>10, NowNext DEF Typed, Resting
<1>12. Booked(Now', drift, givenUp)
  BY <1>1, <1>2, <1>6, <1>8, <1>10, NowIs, NowNext DEF IInv, Good, Booked
<1>13. Aimed(Now', blind)
  <2>1. v + 0 = v
    BY <1>7
  <2> QED BY <1>1, <1>2, <1>6, <1>7, <1>8, <1>10, <2>1, NowIs, NowNext DEF IInv, Good, Aimed
<1>14. LooseAimed(Now', blind)
  BY <1>1, <1>6, <1>8, <1>10, NowIs, NowNext DEF IInv, Good, LooseAimed
<1>15. Settled(Now, blind) => Settled(Now', blind)
  BY <1>1, <1>6, <1>8, <1>9, <1>10, NowIs, NowNext, SettledReads DEF IInv, History
<1> QED BY <1>1, <1>11, <1>12, <1>13, <1>14, <1>15 DEF IInv, Good, History

LEMMA RefusedKeeps ==
  ASSUME IInv, RefusedOnSpread
  PROVE  IInv' /\ (Settled(Now, blind) => Settled(Now', blind'))
<1>1. /\ pair' = "REFUSED" /\ exchange' = exchange
      /\ pi' = pi /\ algo' = algo /\ blind' = blind /\ drift' = drift
      /\ givenUp' = givenUp /\ upsets' = upsets
      /\ algo.status = "NEW" /\ pair = "NONE"
  BY DEF RefusedOnSpread, MayOpen
<1>2. /\ pi \in PairInfo /\ algo \in Algo /\ exchange \in Exchange
      /\ exchange.left = 0 /\ exchange.filled = 0 /\ ~exchange.open
  BY <1>1, NowFields
<1>3. Now \in Worlds /\ Now' \in Worlds
  <2>1. pair' \in PairOrder
    BY <1>1 DEF PairOrder
  <2> QED BY <1>1, <1>2, <2>1, NowNext DEF IInv, Good, Typed
<1>4. Busy(Now) /\ Busy(Now') /\ Active(Now') = Active(Now) /\ Net(Now') = Net(Now)
       /\ Way(Now') = Way(Now)
  BY <1>1, NowIs, NowNext DEF Busy, Active, Net, Way
<1>5. Typed(Now') /\ Resting(Now')
  BY <1>1, <1>2, <1>3, <1>4, NowNext DEF Typed, Resting
<1>6. Booked(Now', drift, givenUp) /\ Aimed(Now', blind) /\ LooseAimed(Now', blind)
  BY <1>1, <1>4, NowIs, NowNext DEF IInv, Good, Booked, Aimed, LooseAimed
<1>7. Settled(Now, blind) => Settled(Now', blind)
  BY <1>1, <1>3, <1>4, NowIs, NowNext, SettledReads DEF IInv, History
<1> QED BY <1>1, <1>5, <1>6, <1>7 DEF IInv, Good, History

LEMMA CancelOrderKeeps ==
  ASSUME IInv, CancelOrderOnSpread
  PROVE  IInv' /\ (Settled(Now, blind) => Settled(Now', blind'))
<1>1. /\ pair' = pair /\ exchange' = [exchange EXCEPT !.open = FALSE]
      /\ pi' = pi /\ algo' = algo /\ blind' = blind /\ drift' = drift
      /\ givenUp' = givenUp /\ upsets' = upsets
  BY DEF CancelOrderOnSpread
<1>2. pi \in PairInfo /\ algo \in Algo /\ pair \in PairOrder /\ exchange \in Exchange
  BY NowFields
<1>3. /\ exchange' \in Exchange /\ exchange'.position = exchange.position /\ exchange'.open = FALSE
      /\ exchange'.left = exchange.left /\ exchange'.filled = exchange.filled
      /\ exchange'.loose = exchange.loose /\ exchange'.looseDir = exchange.looseDir
  BY <1>1, <1>2 DEF Exchange
<1>4. Now \in Worlds /\ Now' \in Worlds
  BY <1>1, <1>2, <1>3, NowNext DEF IInv, Good, Typed
<1>5. (Busy(Now') <=> Busy(Now)) /\ Active(Now') = Active(Now) /\ Net(Now') = Net(Now)
       /\ Way(Now') = Way(Now)
  BY <1>1, <1>3, NowIs, NowNext DEF Busy, Active, Net, Way
<1>6. Typed(Now') /\ Resting(Now')
  BY <1>1, <1>3, <1>4, <1>5, NowIs, NowNext DEF IInv, Good, Typed, Resting
<1>7. Booked(Now', drift, givenUp) /\ Aimed(Now', blind) /\ LooseAimed(Now', blind)
  BY <1>1, <1>3, <1>5, NowIs, NowNext DEF IInv, Good, Booked, Aimed, LooseAimed
<1>8. Settled(Now, blind) => Settled(Now', blind)
  BY <1>1, <1>3, <1>4, <1>5, NowIs, NowNext, SettledReads DEF IInv, History
<1> QED BY <1>1, <1>6, <1>7, <1>8 DEF IInv, Good, History

\* A report takes the fills over into the total.
LEMMA ReportKeeps ==
  ASSUME IInv, OnOrder
  PROVE  IInv' /\ (Settled(Now, blind) => Settled(Now', blind'))
<1> DEFINE n == algo.total + algo.dir * exchange.filled
<1>1. /\ pair = "SENT" /\ pair' = "NONE" /\ ~exchange.open
      /\ algo' = [algo EXCEPT !.total = n]
      /\ exchange' = [exchange EXCEPT !.left = 0, !.filled = 0]
      /\ pi' = pi /\ blind' = blind /\ drift' = drift
      /\ givenUp' = givenUp /\ upsets' = upsets
  BY DEF OnOrder, Counted
<1>2. pi \in PairInfo /\ algo \in Algo /\ pair \in PairOrder /\ exchange \in Exchange /\ Working
  BY <1>1, NowFields
<1>3. /\ algo.dir \in {-1, 1} /\ algo.total \in Int /\ algo.residual \in Int
      /\ exchange.filled \in Nat /\ exchange.left \in Nat
  BY <1>2, AlgoFields, ExchangeFields
<1>4. n \in Int
  BY <1>3
<1>5. Way(Now) \in Int /\ algo.dir * (algo.residual - n) = Way(Now) - exchange.filled
  <2>1. CASE algo.dir = 1
    <3>1. n = algo.total + exchange.filled
      BY <1>3, <2>1
    <3> QED BY <1>3, <2>1, <3>1, NowIs DEF Way
  <2>2. CASE algo.dir = -1
    <3>1. n = algo.total - exchange.filled
      BY <1>3, <2>2
    <3> QED BY <1>3, <2>2, <3>1, NowIs DEF Way
  <2> QED BY <1>3, <2>1, <2>2
<1>6. /\ exchange' \in Exchange /\ exchange'.position = exchange.position
      /\ exchange'.open = FALSE /\ exchange'.left = 0 /\ exchange'.filled = 0
      /\ exchange'.loose = exchange.loose /\ exchange'.looseDir = exchange.looseDir
  BY <1>1, <1>2, ExchangeFields DEF Exchange
<1>a. givenUp \/ n - Active(Now) = drift
  <2>1. ~givenUp => algo.total + algo.dir * exchange.filled - Active(Now) = drift
    BY <1>2, NowIs, NowFields DEF IInv, Good, Booked
  <2> DEFINE k == algo.dir * exchange.filled
  <2>2. k \in Int /\ Active(Now) \in Int /\ n = algo.total + k
    BY <1>2, <1>3, NowIs, ExchangeFields DEF Active
  <2>3. ~givenUp => algo.total + k - Active(Now) = drift
    BY <2>1
  <2> HIDE DEF n, k
  <2> QED BY <1>3, <2>2, <2>3
<1> HIDE DEF n
<1>7. /\ algo' \in Algo /\ algo'.status = algo.status /\ algo'.total = n
      /\ algo'.residual = algo.residual /\ algo'.dir = algo.dir
  BY <1>1, <1>2, <1>4 DEF Algo
<1>8. Now \in Worlds /\ Now' \in Worlds
  <2>1. pair' \in PairOrder
    BY <1>1 DEF PairOrder
  <2> QED BY <1>1, <1>2, <1>6, <1>7, <2>1, NowNext DEF IInv, Good, Typed
<1>9. Busy(Now) /\ Busy(Now') /\ Active(Now') = Active(Now) /\ Net(Now') = Net(Now)
  BY <1>2, <1>6, <1>7, NowIs, NowNext DEF Busy, Active, Net, Working
<1>10. Way(Now') = Way(Now) - exchange.filled
  BY <1>5, <1>7, NowNext DEF Way
<1>11. Typed(Now') /\ Resting(Now')
  BY <1>1, <1>6, <1>8, <1>9, NowNext DEF Typed, Resting
<1>12. Booked(Now', drift, givenUp)
  <2>1. algo.dir * 0 = 0 /\ Active(Now) \in Int
    BY <1>2, <1>3, NowIs, ExchangeFields DEF Active
  <2>2. Now'.algo.dir * Now'.exchange.filled = 0
    BY <1>6, <1>7, <2>1, NowNext
  <2>3. givenUp \/ n + 0 - Active(Now) = drift
    BY <1>4, <1>a, <2>1
  <2>4. exchange.loose > 0 => givenUp
    BY NowIs DEF IInv, Good, Booked
  <2> QED BY <1>6, <1>7, <1>9, <2>2, <2>3, <2>4, NowNext DEF Booked
<1>13. Aimed(Now', blind)
  <2> SUFFICES ASSUME ~blind
               PROVE  /\ exchange.loose = 0
                      /\ -algo.dir * Net(Now) - ((Way(Now) - exchange.filled) - 0) >= Threshold
                      /\ 0 + 0 <= (Way(Now) - exchange.filled) + Slack
    BY <1>6, <1>7, <1>9, <1>10, NowNext DEF Aimed
  <2>1. /\ exchange.loose = 0
        /\ -algo.dir * Net(Now) - (Way(Now) - exchange.filled) >= Threshold
        /\ exchange.left + exchange.filled <= Way(Now) + Slack
    BY <1>9, NowIs DEF IInv, Good, Aimed
  <2>2. (Way(Now) - exchange.filled) - 0 = Way(Now) - exchange.filled /\ Slack \in Nat
    BY <1>3, <1>5, SlackBound
  <2> QED BY <1>3, <1>5, <2>1, <2>2
<1>14. LooseAimed(Now', blind)
  BY <1>1, <1>6, <1>9, NowIs, NowNext DEF IInv, Good, LooseAimed
<1>15. Settled(Now, blind) => Settled(Now', blind)
  BY <1>1, <1>6, <1>8, <1>9, NowIs, NowNext, SettledReads DEF IInv, History
<1> QED BY <1>1, <1>11, <1>12, <1>13, <1>14, <1>15 DEF IInv, Good, History

\* A push changes what the strategy sees, and nothing that is.
LEMMA PushKeeps ==
  ASSUME IInv, NEW leg \in Legs, OnPosition(leg)
  PROVE  IInv' /\ (Settled(Now, blind) => Settled(Now', blind'))
<1>1. /\ pair' = pair /\ exchange' = exchange
      /\ pi' = [pi EXCEPT !.real = [pi.real EXCEPT ![leg] = exchange.position[leg]]]
      /\ algo' = algo /\ blind' = blind /\ drift' = drift
      /\ givenUp' = givenUp /\ upsets' = upsets
  BY DEF OnPosition
<1>2. /\ pi \in PairInfo /\ algo \in Algo /\ pair \in PairOrder /\ exchange \in Exchange
  BY NowFields
<1>3. [pi.real EXCEPT ![leg] = exchange.position[leg]] \in [Legs -> Int]
  <2>1. exchange.position \in [Legs -> Int] /\ pi.real \in [Legs -> Int]
    BY <1>2, ExchangeFields, PairFields
  <2> QED BY <2>1
<1> DEFINE r == [pi.real EXCEPT ![leg] = exchange.position[leg]]
<1> HIDE DEF r
<1>4. /\ pi' \in PairInfo /\ pi'.ledger = pi.ledger
      /\ pi'.stopFlag = pi.stopFlag /\ pi'.reBalance = pi.reBalance
  <2>1. pi' = [pi EXCEPT !.real = r] /\ r \in [Legs -> Int]
    BY <1>1, <1>3 DEF r
  <2> QED BY <1>2, <2>1 DEF PairInfo
<1>5. Now \in Worlds /\ Now' \in Worlds
  BY <1>1, <1>2, <1>4, NowNext DEF IInv, Good, Typed
<1>6. Busy(Now') <=> Busy(Now)
  BY <1>1, NowIs, NowNext DEF Busy
<1> DEFINE w == Now
           v == Now'
<1>7. /\ w \in Worlds /\ v \in Worlds /\ (Busy(v) <=> Busy(w))
      /\ v.pi.ledger = w.pi.ledger /\ v.pair = w.pair /\ v.exchange = w.exchange
      /\ v.algo = w.algo
      /\ v.pi.stopFlag = w.pi.stopFlag /\ v.pi.reBalance = w.pi.reBalance
      /\ Good(w, blind, drift, givenUp)
      /\ blind \in BOOLEAN /\ drift \in Int /\ givenUp \in BOOLEAN
  BY <1>1, <1>4, <1>5, <1>6, NowIs, NowNext DEF IInv, History
<1> HIDE DEF w, v
<1>8. Good(v, blind, drift, givenUp)
  BY <1>7, FrameKeeps
<1>9. Settled(w, blind) => Settled(v, blind)
  BY <1>7, FrameSettles
<1> QED BY <1>1, <1>8, <1>9 DEF IInv, History, w, v

-----------------------------------------------------------------------------
(* Fills *)

\* A fill that keeps what an order may leave turns no pair that is in order into
\* one in excess, unless the passive leg is the heavier one.
LEMMA FillCalms ==
  ASSUME Modest, NEW x \in [Legs -> Int], NEW y \in [Legs -> Int], NEW d \in {-1, 1},
         y["active"] = x["active"] + d, y["passive"] = x["passive"],
         ~InExcess(x) \/ Light(x),
         -d * (y["active"] + y["passive"]) >= Threshold - Slack
  PROVE  ~InExcess(y) \/ Light(y)
<1> DEFINE a == x["active"]
           b == y["active"]
           p == x["passive"]
           s == Slack
<1>1. a \in Int /\ p \in Int /\ b \in Int /\ b = a + d /\ y["passive"] = p
  BY DEF Legs
<1>2. Threshold \in Nat \ {0} /\ s \in Nat /\ s <= 2 * Threshold
  BY Constants, SlackBound DEF Modest
<1>3. a = 0 \/ p = 0 \/ Abs(a + p) <= Threshold \/ Abs(a) < Abs(p)
  <2>1. Abs(a + p) \in Int
    BY <1>1 DEF Abs
  <2> QED BY <1>2, <2>1 DEF InExcess, NetExposure, Light
<1>4. -d * (b + p) >= Threshold - s
  BY <1>1
<1>5. InExcess(y) <=> b # 0 /\ p # 0 /\ Abs(b + p) > Threshold
  BY <1>1 DEF InExcess, NetExposure
<1>6. Light(y) <=> Abs(b) < Abs(p)
  BY <1>1 DEF Light
<1> HIDE DEF a, b, p, s
<1>7. CASE d = 1
  <2>1. -(b + p) >= Threshold - s /\ b = a + 1
    BY <1>1, <1>4, <1>7
  <2>2. b = 0 \/ p = 0 \/ Abs(b + p) <= Threshold \/ Abs(b) < Abs(p)
    BY <1>1, <1>2, <1>3, <2>1 DEF Abs
  <2>3. Abs(b + p) \in Int
    BY <1>1 DEF Abs
  <2> QED BY <1>2, <1>5, <1>6, <2>2, <2>3
<1>8. CASE d = -1
  <2>1. b + p >= Threshold - s /\ b = a - 1
    BY <1>1, <1>4, <1>8
  <2>2. b = 0 \/ p = 0 \/ Abs(b + p) <= Threshold \/ Abs(b) < Abs(p)
    BY <1>1, <1>2, <1>3, <2>1 DEF Abs
  <2>3. Abs(b + p) \in Int
    BY <1>1 DEF Abs
  <2> QED BY <1>2, <1>5, <1>6, <2>2, <2>3
<1> QED BY <1>7, <1>8

\* Moving d further turns d times a number by one.
LEMMA Step ==
  ASSUME NEW d \in {-1, 1}, NEW m \in Int, NEW n \in Int
  PROVE  /\ d * m \in Int /\ -d * m \in Int
         /\ -d * ((m + d) + n) = -d * (m + n) - 1
         /\ d * (m + 1) = d * m + d
<1>1. CASE d = 1
  BY <1>1
<1>2. CASE d = -1
  BY <1>2
<1> QED BY <1>1, <1>2

LEMMA FillKeeps ==
  ASSUME IInv, Fill
  PROVE  IInv' /\ (Modest /\ Settled(Now, blind) => Settled(Now', blind'))
<1> DEFINE d == algo.dir
           x == exchange.position
           y == [x EXCEPT !["active"] = x["active"] + d]
           b == exchange.left > 1
<1>1. /\ exchange.open /\ exchange.left > 0
      /\ exchange' = [exchange EXCEPT !.position = y, !.left = exchange.left - 1,
                                      !.filled = exchange.filled + 1, !.open = b]
      /\ pi' = pi /\ algo' = algo /\ pair' = pair /\ blind' = blind /\ drift' = drift
      /\ givenUp' = givenUp /\ upsets' = upsets
  BY DEF Fill
<1>2. /\ pi \in PairInfo /\ algo \in Algo /\ pair \in PairOrder /\ exchange \in Exchange
      /\ pair = "SENT" /\ Working /\ Busy(Now)
  BY <1>1, NowFields
<1>3. /\ d \in {-1, 1} /\ algo.total \in Int /\ algo.residual \in Int
      /\ exchange.filled \in Nat /\ exchange.left \in Nat /\ exchange.loose \in Nat
      /\ x \in [Legs -> Int] /\ x["active"] \in Int /\ x["passive"] \in Int
  BY <1>2, AlgoFields, ExchangeFields
<1>4. y \in [Legs -> Int] /\ y["active"] = x["active"] + d /\ y["passive"] = x["passive"]
  BY <1>3 DEF Legs
<1>5. b \in BOOLEAN /\ exchange.left - 1 \in Nat /\ exchange.filled + 1 \in Nat
  BY <1>1, <1>3
<1> HIDE DEF y, b
<1>6. /\ exchange' \in Exchange /\ exchange'.position = y
      /\ exchange'.left = exchange.left - 1 /\ exchange'.filled = exchange.filled + 1
      /\ exchange'.loose = exchange.loose /\ exchange'.looseDir = exchange.looseDir
  BY <1>1, <1>2, <1>4, <1>5 DEF Exchange
<1>7. Now \in Worlds /\ Now' \in Worlds
  BY <1>1, <1>2, <1>6, NowNext DEF IInv, Good, Typed
<1>8. /\ Busy(Now') /\ Way(Now') = Way(Now) /\ Way(Now) \in Int
      /\ Active(Now) = x["active"] /\ Active(Now') = x["active"] + d
      /\ Net(Now) = x["active"] + x["passive"]
      /\ Net(Now') = (x["active"] + d) + x["passive"]
  <2>1. Way(Now) \in Int
    BY <1>3, NowIs DEF Way
  <2> QED BY <1>1, <1>2, <1>4, <1>6, <2>1, NowIs, NowNext DEF Busy, Way, Active, Net
<1>9. Typed(Now') /\ Resting(Now')
  BY <1>1, <1>2, <1>7, <1>8, NowNext DEF Typed, Resting
<1>10. Booked(Now', drift, givenUp)
  <2>1. ~givenUp => algo.total + d * exchange.filled - x["active"] = drift
    BY <1>2, <1>8, NowIs DEF IInv, Good, Booked
  <2>2. d * (exchange.filled + 1) = d * exchange.filled + d /\ d * exchange.filled \in Int
    BY <1>3, Step
  <2> DEFINE k == d * exchange.filled
             n == d * (exchange.filled + 1)
  <2>3. k \in Int /\ n = k + d /\ (~givenUp => algo.total + k - x["active"] = drift)
    BY <2>1, <2>2
  <2> HIDE DEF k, n
  <2>4. ~givenUp => algo.total + n - (x["active"] + d) = drift
    BY <1>3, <2>3
  <2>5. ~givenUp => algo.total + d * (exchange.filled + 1) - (x["active"] + d) = drift
    BY <2>4 DEF n
  <2>6. exchange.loose > 0 => givenUp
    BY NowIs DEF IInv, Good, Booked
  <2> QED BY <1>1, <1>6, <1>8, <2>5, <2>6, NowNext DEF Booked
<1>11. ~blind => /\ exchange.loose = 0
                 /\ -d * Net(Now) - (Way(Now) - exchange.filled) >= Threshold
                 /\ exchange.left + exchange.filled <= Way(Now) + Slack
  BY <1>2, NowIs DEF IInv, Good, Aimed
<1>12. -d * Net(Now') = -d * Net(Now) - 1 /\ -d * Net(Now) \in Int
  <2>1. -d * ((x["active"] + d) + x["passive"]) = -d * (x["active"] + x["passive"]) - 1
    BY <1>3, Step
  <2>2. -d * (x["active"] + x["passive"]) \in Int
    BY <1>3, Step
  <2> QED BY <1>8, <2>1, <2>2
<1> DEFINE m == -d * Net(Now)
           n == -d * Net(Now')
           w == Way(Now)
<1>13. m \in Int /\ n = m - 1 /\ w \in Int /\ Slack \in Nat /\ Threshold \in Nat
  BY <1>8, <1>12, SlackBound, Constants
<1>14. ~blind => /\ exchange.loose = 0 /\ m - (w - exchange.filled) >= Threshold
                 /\ exchange.left + exchange.filled <= w + Slack
  BY <1>11
<1>15. ~blind => n >= Threshold - Slack
  <2> HIDE DEF m, n, w
  <2> QED BY <1>1, <1>3, <1>13, <1>14
<1>16. Aimed(Now', blind)
  <2>1. ~blind => /\ n - (w - (exchange.filled + 1)) >= Threshold
                  /\ (exchange.left - 1) + (exchange.filled + 1) <= w + Slack
    <3> HIDE DEF m, n, w
    <3> QED BY <1>1, <1>3, <1>13, <1>14
  <2> QED BY <1>1, <1>6, <1>8, <1>14, <2>1, NowNext DEF Aimed
<1>17. LooseAimed(Now', blind)
  BY <1>3, <1>6, <1>14, NowNext DEF LooseAimed
<1>18. Modest /\ Settled(Now, blind) => Settled(Now', blind)
  <2> SUFFICES ASSUME Modest, Settled(Now, blind), pi.stopFlag, ~pi.reBalance, ~blind
               PROVE  ~InExcess(y) \/ Light(y)
    BY <1>1, <1>6, <1>7, <1>8, NowNext, SettledReads DEF IInv, History
  <2>1. ~InExcess(x) \/ Light(x)
    BY <1>2, <1>7, NowIs, SettledReads DEF IInv, History
  <2>2. -d * (y["active"] + y["passive"]) >= Threshold - Slack
    BY <1>4, <1>8, <1>15
  <2> HIDE DEF x, d
  <2> QED BY <1>3, <1>4, <2>1, <2>2, FillCalms
<1> QED BY <1>1, <1>9, <1>10, <1>16, <1>17, <1>18 DEF IInv, Good, History

LEMMA LooseKeeps ==
  ASSUME IInv, FillLoose
  PROVE  IInv' /\ (Modest /\ Settled(Now, blind) => Settled(Now', blind'))
<1> DEFINE d == exchange.looseDir
           x == exchange.position
           y == [x EXCEPT !["active"] = x["active"] + d]
<1>1. /\ exchange.loose > 0
      /\ exchange' = [exchange EXCEPT !.position = y, !.loose = exchange.loose - 1]
      /\ pi' = pi /\ algo' = algo /\ pair' = pair /\ blind' = blind /\ drift' = drift
      /\ givenUp' = givenUp /\ upsets' = upsets
  BY DEF FillLoose
<1>2. pi \in PairInfo /\ algo \in Algo /\ pair \in PairOrder /\ exchange \in Exchange
  BY NowFields
<1>3. /\ d \in {-1, 1} /\ exchange.loose \in Nat
      /\ x \in [Legs -> Int] /\ x["active"] \in Int /\ x["passive"] \in Int
  BY <1>2, ExchangeFields
<1>4. y \in [Legs -> Int] /\ y["active"] = x["active"] + d /\ y["passive"] = x["passive"]
  BY <1>3 DEF Legs
<1>5. exchange.loose - 1 \in Nat
  BY <1>1, <1>3
<1> HIDE DEF y
<1>6. /\ exchange' \in Exchange /\ exchange'.position = y /\ exchange'.open = exchange.open
      /\ exchange'.left = exchange.left /\ exchange'.filled = exchange.filled
      /\ exchange'.loose = exchange.loose - 1 /\ exchange'.looseDir = d
  BY <1>1, <1>2, <1>4, <1>5 DEF Exchange
<1>7. Now \in Worlds /\ Now' \in Worlds
  BY <1>1, <1>2, <1>6, NowNext DEF IInv, Good, Typed
<1>8. /\ Busy(Now') <=> Busy(Now)
      /\ Net(Now) = x["active"] + x["passive"]
      /\ Net(Now') = (x["active"] + d) + x["passive"]
  BY <1>1, <1>4, <1>6, NowIs, NowNext DEF Busy, Net
<1>9. Typed(Now') /\ Resting(Now')
  BY <1>1, <1>6, <1>7, <1>8, NowIs, NowNext DEF IInv, Good, Typed, Resting
<1>10. givenUp /\ (Busy(Now) => blind)
  BY <1>1, NowIs DEF IInv, Good, Booked, Aimed
<1>11. Booked(Now', drift, givenUp) /\ Aimed(Now', blind)
  BY <1>8, <1>10 DEF Booked, Aimed
<1>12. pi.stopFlag /\ ~pi.reBalance /\ ~blind
         => -d * Net(Now) - exchange.loose >= Threshold - Slack
  BY <1>1, NowIs DEF IInv, Good, LooseAimed
<1>13. -d * Net(Now') = -d * Net(Now) - 1 /\ -d * Net(Now) \in Int
  <2>1. -d * ((x["active"] + d) + x["passive"]) = -d * (x["active"] + x["passive"]) - 1
    BY <1>3, Step
  <2>2. -d * (x["active"] + x["passive"]) \in Int
    BY <1>3, Step
  <2> QED BY <1>8, <2>1, <2>2
<1> DEFINE m == -d * Net(Now)
           n == -d * Net(Now')
<1>14. /\ m \in Int /\ n = m - 1 /\ Slack \in Nat /\ Threshold \in Nat
       /\ pi.stopFlag /\ ~pi.reBalance /\ ~blind => m - exchange.loose >= Threshold - Slack
  BY <1>12, <1>13, SlackBound, Constants
<1>15. pi.stopFlag /\ ~pi.reBalance /\ ~blind
         => n - (exchange.loose - 1) >= Threshold - Slack /\ n >= Threshold - Slack
  <2> HIDE DEF m, n
  <2> QED BY <1>1, <1>3, <1>14
<1>16. LooseAimed(Now', blind)
  BY <1>1, <1>6, <1>15, NowNext DEF LooseAimed
<1>17. Modest /\ Settled(Now, blind) => Settled(Now', blind)
  <2> SUFFICES ASSUME Modest, Settled(Now, blind), pi.stopFlag, ~pi.reBalance, ~blind
               PROVE  ~InExcess(y) \/ Light(y)
    <3>1. \A z : Light(z) => ManualAt(pi.ledger, z)
      BY DEF Light, ManualAt
    <3> QED BY <1>1, <1>6, <1>7, <3>1, NowNext, SettledReads DEF IInv, History
  <2>1. ~InExcess(x) \/ Light(x)
    BY <1>1, <1>7, NowIs, SettledReads DEF IInv, History
  <2>2. -d * (y["active"] + y["passive"]) >= Threshold - Slack
    BY <1>4, <1>8, <1>15
  <2> HIDE DEF x, d
  <2> QED BY <1>3, <1>4, <2>1, <2>2, FillCalms
<1> QED BY <1>1, <1>9, <1>11, <1>16, <1>17 DEF IInv, Good, History

\* A trade by hand is seen by nobody who decides or works.
LEMMA OutsideKeeps ==
  ASSUME IInv, NEW leg \in Legs, NEW dir \in {-1, 1}, OutsideTrade(leg, dir)
  PROVE  IInv' /\ Settled(Now', blind')
<1> DEFINE x == exchange.position
           y == [x EXCEPT ![leg] = x[leg] + dir]
           s == IF leg = "active" THEN dir ELSE 0
<1>1. /\ exchange' = [exchange EXCEPT !.position = y]
      /\ pi' = pi /\ algo' = algo /\ pair' = pair /\ givenUp' = givenUp
      /\ blind' = (blind \/ pi.stopFlag \/ Working)
      /\ upsets < MaxUpsets /\ upsets' = upsets + 1
  BY DEF OutsideTrade, Upset
<1>2. drift' = IF leg = "active" THEN drift - dir ELSE drift
  BY DEF OutsideTrade
<1>3. pi \in PairInfo /\ algo \in Algo /\ pair \in PairOrder /\ exchange \in Exchange
      /\ (Working <=> Busy(Now))
  BY NowFields
<1>4. x \in [Legs -> Int] /\ x["active"] \in Int /\ algo.total \in Int /\ pi.ledger \in Int
      /\ algo.dir * exchange.filled \in Int /\ pi.stopFlag \in BOOLEAN
  <2>1. algo.dir \in {-1, 1} /\ exchange.filled \in Nat
    BY <1>3, AlgoFields, ExchangeFields
  <2>2. algo.dir * exchange.filled \in Int
    BY <2>1
  <2> QED BY <1>3, <2>2, AlgoFields, ExchangeFields, PairFields
<1>5. History /\ drift \in Int
  BY DEF IInv, History
<1>6. y \in [Legs -> Int] /\ y["active"] = x["active"] + s /\ s \in Int /\ drift' = drift - s
  BY <1>2, <1>4, <1>5 DEF Legs
<1> HIDE DEF y, s
<1>7. /\ exchange' \in Exchange /\ exchange'.position = y /\ exchange'.open = exchange.open
      /\ exchange'.left = exchange.left /\ exchange'.filled = exchange.filled
      /\ exchange'.loose = exchange.loose /\ exchange'.looseDir = exchange.looseDir
  BY <1>1, <1>3, <1>6 DEF Exchange
<1>8. Now \in Worlds /\ Now' \in Worlds
  BY <1>1, <1>3, <1>7, NowNext DEF IInv, Good, Typed
<1>9. /\ Busy(Now') <=> Busy(Now)
      /\ Active(Now) = x["active"] /\ Active(Now') = x["active"] + s
  BY <1>1, <1>6, <1>7, NowIs, NowNext DEF Busy, Active
<1>10. Typed(Now') /\ Resting(Now')
  BY <1>1, <1>7, <1>8, <1>9, NowIs, NowNext DEF IInv, Good, Typed, Resting
<1>11. Booked(Now', drift', givenUp)
  <2>1. /\ exchange.loose > 0 => givenUp
        /\ ~givenUp /\ Busy(Now)  => algo.total + algo.dir * exchange.filled - x["active"] = drift
        /\ ~givenUp /\ ~Busy(Now) => pi.ledger - x["active"] = drift
    BY <1>9, NowIs DEF IInv, Good, Booked
  <2> DEFINE k == algo.dir * exchange.filled
  <2>2. k \in Int /\ (~givenUp /\ Busy(Now) => algo.total + k - x["active"] = drift)
    BY <1>4, <2>1
  <2> HIDE DEF k
  <2>3. /\ ~givenUp /\ Busy(Now)  => algo.total + k - (x["active"] + s) = drift'
        /\ ~givenUp /\ ~Busy(Now) => pi.ledger - (x["active"] + s) = drift'
    BY <1>4, <1>5, <1>6, <2>1, <2>2
  <2>4. ~givenUp /\ Busy(Now) =>
          algo.total + algo.dir * exchange.filled - (x["active"] + s) = drift'
    BY <2>3 DEF k
  <2> QED BY <1>1, <1>7, <1>9, <2>1, <2>3, <2>4, NowNext DEF Booked
<1>12. Aimed(Now', blind') /\ LooseAimed(Now', blind')
  BY <1>1, <1>3, <1>9, NowNext DEF Aimed, LooseAimed
<1>13. Settled(Now', blind')
  BY <1>1, NowNext DEF Settled
<1>14. History'
  BY <1>1, <1>4, <1>5, <1>6, Constants DEF History, Working
<1> QED BY <1>1, <1>10, <1>11, <1>12, <1>13, <1>14 DEF IInv, Good

-----------------------------------------------------------------------------
(* on_timer *)

LEMMA TimerKeeps ==
  ASSUME IInv, NEW idle \in BOOLEAN, OnTimer(idle)
  PROVE  IInv' /\ (Settled(Now, blind) => Settled(Now', blind'))
<1> DEFINE e == ExecOnTimer(Now)
<1>1. StrategyOnTimer(e, idle) /\ givenUp' = givenUp /\ upsets' = upsets
  BY DEF OnTimer
<1>2. History /\ blind \in BOOLEAN /\ drift \in Int /\ givenUp \in BOOLEAN
      /\ Good(Now, blind, drift, givenUp)
  BY DEF IInv, History
<1>3. Good(e, blind, drift, givenUp) /\ (Settled(Now, blind) => Settled(e, blind))
  BY <1>2, ExecKeeps
<1> HIDE DEF e
<1>4. /\ blind' \in BOOLEAN /\ drift' = drift /\ Good(Now', blind', drift, givenUp)
      /\ Settled(e, blind) => Settled(Now', blind')
  BY <1>1, <1>2, <1>3, StrategyKeeps
<1> QED BY <1>1, <1>2, <1>3, <1>4 DEF IInv, History

LEMMA TimerResumeKeeps ==
  ASSUME IInv, NEW idle \in BOOLEAN, OnTimerResume(idle)
  PROVE  IInv' /\ Settled(Now', blind')
<1> DEFINE e == ExecOnTimer(Now)
           r == Resume(e)
<1>1. /\ StrategyOnTimer(r, idle) /\ givenUp' = givenUp
      /\ upsets < MaxUpsets /\ upsets' = upsets + 1
  BY DEF OnTimerResume, Upset
<1>2. History /\ blind \in BOOLEAN /\ drift \in Int /\ givenUp \in BOOLEAN
      /\ upsets \in 0..MaxUpsets /\ Good(Now, blind, drift, givenUp)
  BY DEF IInv, History
<1>3. Good(e, blind, drift, givenUp)
  BY <1>2, ExecKeeps
<1> HIDE DEF e
<1>4. Good(r, blind, drift, givenUp) /\ Settled(r, blind)
  BY <1>2, <1>3, ResumeKeeps
<1> HIDE DEF r
<1>5. blind' \in BOOLEAN /\ drift' = drift /\ Good(Now', blind', drift, givenUp)
      /\ Settled(Now', blind')
  BY <1>1, <1>2, <1>4, StrategyKeeps
<1>6. upsets' \in 0..MaxUpsets
  BY <1>1, <1>2, Constants
<1> QED BY <1>1, <1>2, <1>5, <1>6 DEF IInv, History

LEMMA TimerGiveUpKeeps ==
  ASSUME IInv, NEW idle \in BOOLEAN, OnTimerGiveUp(idle)
  PROVE  IInv' /\ (Settled(Now, blind) => Settled(Now', blind'))
<1> DEFINE e == GiveUp(Now)
<1>1. /\ pair = "SENT" /\ exchange.loose = 0 /\ givenUp' = TRUE
      /\ upsets < MaxUpsets /\ upsets' = upsets + 1 /\ StrategyOnTimer(e, idle)
  BY DEF OnTimerGiveUp, Upset
<1>2. History /\ blind \in BOOLEAN /\ drift \in Int /\ givenUp \in BOOLEAN
      /\ upsets \in 0..MaxUpsets /\ Good(Now, blind, drift, givenUp)
  BY DEF IInv, History
<1>3. Good(e, blind, drift, TRUE) /\ (Settled(Now, blind) => Settled(e, blind))
  BY <1>1, <1>2, GiveUpKeeps
<1> HIDE DEF e
<1>4. blind' \in BOOLEAN /\ drift' = drift /\ Good(Now', blind', drift, TRUE)
      /\ (Settled(e, blind) => Settled(Now', blind'))
  BY <1>1, <1>2, <1>3, StrategyKeeps
<1>5. upsets' \in 0..MaxUpsets
  BY <1>1, <1>2, Constants
<1> QED BY <1>1, <1>2, <1>3, <1>4, <1>5 DEF IInv, History

-----------------------------------------------------------------------------
(* The induction *)

LEMMA InitKeeps ==
  ASSUME Init
  PROVE  IInv /\ Settled(Now, blind)
<1>1. PICK s \in Starts :
        LET position == [leg \in Legs |-> IF leg = "active" THEN s.active ELSE s.passive] IN
        /\ pi = [ledger |-> s.ledger, real |-> position, stopFlag |-> FALSE,
                 reBalance |-> FALSE, autoFlag |-> s.autoFlag]
        /\ exchange = [position |-> position, open |-> FALSE, left |-> 0, filled |-> 0,
                       loose |-> 0, looseDir |-> 1]
        /\ drift = s.ledger - s.active
  BY DEF Init
<1>2. algo = NoAlgo /\ pair = "NONE" /\ blind = FALSE /\ givenUp = FALSE /\ upsets = 0
  BY DEF Init
<1>3. s.active \in Int /\ s.passive \in Int /\ s.ledger \in Int /\ s.autoFlag \in BOOLEAN
  BY RebalanceAssumption
<1> DEFINE x == [leg \in Legs |-> IF leg = "active" THEN s.active ELSE s.passive]
<1>4. x \in [Legs -> Int] /\ x["active"] = s.active
  BY <1>3 DEF Legs
<1>5. /\ pi = [ledger |-> s.ledger, real |-> x, stopFlag |-> FALSE,
               reBalance |-> FALSE, autoFlag |-> s.autoFlag]
      /\ exchange = [position |-> x, open |-> FALSE, left |-> 0, filled |-> 0,
                     loose |-> 0, looseDir |-> 1]
  BY <1>1
<1> HIDE DEF x
<1>6. pi \in PairInfo /\ pi.ledger = s.ledger /\ pi.stopFlag = FALSE
  BY <1>3, <1>4, <1>5 DEF PairInfo
<1>7. /\ exchange \in Exchange /\ exchange.position = x /\ exchange.open = FALSE
      /\ exchange.left = 0 /\ exchange.filled = 0 /\ exchange.loose = 0
  BY <1>4, <1>5 DEF Exchange
<1>8. pair \in PairOrder
  BY <1>2 DEF PairOrder
<1>9. Now \in Worlds /\ ~Busy(Now) /\ Active(Now) = s.active
  BY <1>2, <1>4, <1>6, <1>7, <1>8, NoAlgoTyped DEF Now, Worlds, Busy, Active
<1>10. Good(Now, blind, drift, givenUp)
  BY <1>1, <1>2, <1>6, <1>7, <1>9, NowIs
     DEF Good, Typed, Resting, Booked, Aimed, LooseAimed
<1>11. Settled(Now, blind)
  BY <1>6, NowIs DEF Settled
<1>12. History
  <2>1. drift = s.ledger - s.active
    BY <1>1
  <2>2. drift \in Int /\ 0 \in 0..MaxUpsets
    BY <1>3, <2>1, Constants
  <2> QED BY <1>2, <2>2 DEF History
<1> QED BY <1>10, <1>11, <1>12 DEF IInv

LEMMA NextKeeps ==
  ASSUME IInv, [Next]_vars
  PROVE  IInv' /\ (Modest /\ Settled(Now, blind) => Settled(Now', blind'))
<1>1. CASE OpenOnSpread
  BY <1>1, OpenKeeps
<1>2. CASE RefusedOnSpread
  BY <1>2, RefusedKeeps
<1>3. CASE CancelOrderOnSpread
  BY <1>3, CancelOrderKeeps
<1>4. CASE OnOrder
  BY <1>4, ReportKeeps
<1>5. ASSUME NEW idle \in BOOLEAN, OnTimer(idle)
      PROVE  IInv' /\ (Settled(Now, blind) => Settled(Now', blind'))
  BY <1>5, TimerKeeps
<1>6. ASSUME NEW idle \in BOOLEAN, OnTimerResume(idle)
      PROVE  IInv' /\ Settled(Now', blind')
  BY <1>6, TimerResumeKeeps
<1>7. ASSUME NEW idle \in BOOLEAN, OnTimerGiveUp(idle)
      PROVE  IInv' /\ (Settled(Now, blind) => Settled(Now', blind'))
  BY <1>7, TimerGiveUpKeeps
<1>8. ASSUME NEW leg \in Legs, OnPosition(leg)
      PROVE  IInv' /\ (Settled(Now, blind) => Settled(Now', blind'))
  BY <1>8, PushKeeps
<1>9. CASE Fill
  BY <1>9, FillKeeps
<1>10. CASE FillLoose
  BY <1>10, LooseKeeps
<1>11. ASSUME NEW leg \in Legs, NEW dir \in {-1, 1}, OutsideTrade(leg, dir)
       PROVE  IInv' /\ Settled(Now', blind')
  BY <1>11, OutsideKeeps
<1>12. CASE UNCHANGED vars
  <2>1. /\ Now' = Now /\ blind' = blind /\ drift' = drift /\ givenUp' = givenUp
        /\ upsets' = upsets
    BY <1>12 DEF vars, Now
  <2> QED BY <2>1 DEF IInv, History
<1> QED BY <1>1, <1>2, <1>3, <1>4, <1>5, <1>6, <1>7, <1>8, <1>9, <1>10, <1>11, <1>12 DEF Next

LEMMA Invariance == Spec => []IInv
<1>1. Init => IInv
  BY InitKeeps
<1>2. IInv /\ [Next]_vars => IInv'
  BY NextKeeps
<1> QED BY <1>1, <1>2, PTL DEF Spec

\* The variables have their types; an order is open only for a pair order sent.
THEOREM TypeCorrect == Spec => []TypeOK
<1>1. IInv => TypeOK
  <2> SUFFICES ASSUME IInv PROVE TypeOK
    OBVIOUS
  <2> QED BY NowFields DEF IInv, History, TypeOK
<1> QED BY <1>1, Invariance, PTL

\* FillsReachLedger holds for all starts, volumes and clips, over any number of
\* orders, cancels, refusals and trades by hand.
THEOREM Booking == Spec => []FillsReachLedger
<1>1. IInv => FillsReachLedger
  <2> SUFFICES ASSUME IInv, ~Working, ~givenUp
               PROVE  pi.ledger - exchange.position["active"] = drift
    BY DEF FillsReachLedger
  <2> QED BY NowFields, NowIs DEF IInv, Good, Booked, Active
<1> QED BY <1>1, Invariance, PTL

\* NotOverclosed holds for every threshold, lot and clip, however far ledger and
\* position are apart.
THEOREM LeavesThreshold == Spec => []NotOverclosed
<1>1. IInv => NotOverclosed
  <2> SUFFICES ASSUME IInv, Working, ~blind
               PROVE  -algo.dir * (exchange.position["active"] + exchange.position["passive"])
                        - (IF exchange.open THEN exchange.left ELSE 0) >= Threshold - Slack
    BY DEF NotOverclosed
  <2>1. /\ -algo.dir * Net(Now) - (Way(Now) - exchange.filled) >= Threshold
        /\ exchange.left + exchange.filled <= Way(Now) + Slack
    BY NowFields, NowIs DEF IInv, Good, Aimed
  <2> DEFINE n == -algo.dir * Net(Now)
             g == Way(Now)
             l == IF exchange.open THEN exchange.left ELSE 0
  <2>2. algo \in Algo /\ exchange \in Exchange
    BY NowFields
  <2>3. /\ n \in Int /\ g \in Int /\ Slack \in Nat /\ Threshold \in Nat
        /\ l \in Nat /\ l <= exchange.left /\ exchange.left \in Nat /\ exchange.filled \in Nat
    <3>1. Net(Now) \in Int /\ algo.residual \in Int /\ algo.total \in Int /\ algo.dir \in {-1, 1}
      BY <2>2, NowIs, ExchangeFields, AlgoFields DEF Net
    <3> QED BY <2>2, <3>1, NowIs, SlackBound, Constants, ExchangeFields DEF Way
  <2>4. n - (g - exchange.filled) >= Threshold /\ exchange.left + exchange.filled <= g + Slack
    BY <2>1
  <2>5. n = -algo.dir * (exchange.position["active"] + exchange.position["passive"])
    BY NowIs DEF Net
  <2> HIDE DEF n, g, l
  <2>6. n - l >= Threshold - Slack
    BY <2>3, <2>4
  <2> QED BY <2>5, <2>6 DEF l
<1> QED BY <1>1, Invariance, PTL

\* Repaired holds when a clip's rounding is modest beside the threshold.
THEOREM Repair == ASSUME Modest PROVE Spec => []Repaired
<1> DEFINE Whole == IInv /\ Settled(Now, blind)
<1>1. Init => Whole
  BY InitKeeps
<1>2. Whole /\ [Next]_vars => Whole'
  BY NextKeeps
<1>3. Whole => Repaired
  <2> SUFFICES ASSUME IInv, Settled(Now, blind),
                      pi.stopFlag, ~pi.reBalance, ~Working, ~blind, exchange.loose = 0
               PROVE  \/ ~InExcess(exchange.position)
                      \/ Manual([pi EXCEPT !.real = exchange.position])
    BY DEF Repaired
  <2> QED BY NowFields, NowIs DEF Settled
<1> QED BY <1>1, <1>2, <1>3, PTL DEF Spec
=============================================================================
