-------------------------------- MODULE Signals --------------------------------
(* The thresholds of every pair and the signals drawn from them: statistics,  *)
(* volumes, flags and risk states go into the order parameters whenever       *)
(* something has them recalculated, and every tick compares the live spreads  *)
(* with what was calculated last.                                             *)
(*                                                                            *)
(* A trade has a mode, taker-taker or maker-taker, and a direction.  The low  *)
(* directions, open long and close short, want the spread below a threshold,  *)
(* the high ones, close long and open short, above.  A long position is a     *)
(* negative volume.  Spreads are integers in units of the ramp of 5e-6.       *)
EXTENDS Integers, FiniteSetsExt

CONSTANTS
  Pairs,
  Cost,           \* CalcExecCost: of each mode, for both legs
  ttAddPercent, AdjNum, AdjDen, \* spreadAdjPct = AdjNum / AdjDen
  minSpreadSpan, minSpreadTarget, profitPct,
  ProfitTargets,  \* values of minProfitTarget a pair may be configured with
  maxPositionValue, \* of all pairs together; 0: no limit
  MaxAmount,      \* maxAmount over the leg's price, contract and daily cap
  MinVolume,      \* smallest order, of both legs
  Statistics,     \* statistics the signal thread may deliver
  Quotes,         \* ticks
  Remains,        \* closeRemainVolume of an operator's command
  AbnormalSpread, \* 10 %: a spread above it is taken for an error
  MaxPosition     \* bound: the position

NoTrade == <<>>
Modes == {"tt", "mt"}
Directions == {"OL", "CL", "OS", "CS"}
Opens == {"OL", "OS"}

ASSUME SignalsAssumption ==
  /\ Cost \in [Modes -> Nat] /\ ttAddPercent \in Nat
  /\ AdjNum \in Nat \ {0} /\ AdjDen \in Nat \ {0}
  /\ minSpreadSpan \in Nat /\ minSpreadTarget \in Nat /\ ProfitTargets \subseteq Nat
  /\ profitPct \in Nat /\ maxPositionValue \in Nat
  /\ MaxAmount \in Nat \ {0} /\ MinVolume \in Nat \ {0}
  /\ Remains \subseteq Nat /\ AbnormalSpread \in Nat /\ MaxPosition \in Nat
  /\ Statistics \subseteq [valid : BOOLEAN, bidAskDQ : Int, askAskDQ : Int,
                           askBidUQ : Int, bidBidUQ : Int]
  /\ Quotes \subseteq [valid : BOOLEAN, aBid : Int, aAsk : Int, pBid : Int, pAsk : Int,
                       price : Nat, fundingHigh : BOOLEAN]

\* What a maker on the active leg sees more than a taker: the code trusts books
\* to be no wider than this, for the market has no such bound of its own.
NarrowBooks(width) ==
  \A q \in Quotes : /\ q.aBid <= q.aAsk /\ q.pBid <= q.pAsk
                    /\ q.aAsk - q.aBid <= width + (q.pAsk - q.pBid)
OneSidedWidth == 2 * (minSpreadTarget + Cost["mt"]) + 3
KeptWidth(target) == 2 * Cost["mt"] + target

VARIABLES
  minProfitTarget, \* of each pair; a configuration, so it never changes
  volume,     \* pairTotalVolume of each pair
  maxVolume,
  flags,      \* stopFlag, closeFlag, closeRemainVolume
  liquid,     \* activeLiquidStatus, passiveLiquidStatus: near liquidation
  largeStats,
  rtSpread,   \* the last tick, or NoTick
  orderParams,
  trade,      \* the mode and direction of the algo order working, or NoTrade
  m_globalPosExceeded,
  m_closeOnly

vars == <<minProfitTarget, volume, maxVolume, flags, liquid, largeStats, rtSpread,
          orderParams, trade, m_globalPosExceeded, m_closeOnly>>

Sign(dir) == IF dir \in {"OL", "CS"} THEN -1 ELSE 1
Abs(x) == IF x < 0 THEN -x ELSE x
Least(a, b) == IF a < b THEN a ELSE b
Most(a, b)  == IF a < b THEN b ELSE a
IsLong(v)  == v < 0
IsShort(v) == v > 0

NoTick  == [valid |-> FALSE, aBid |-> 0, aAsk |-> 0, pBid |-> 0, pAsk |-> 0, price |-> 0,
            fundingHigh |-> FALSE]
NoStats == [valid |-> FALSE, bidAskDQ |-> 0, askAskDQ |-> 0, askBidUQ |-> 0, bidBidUQ |-> 0]
NoParams == [start  |-> [m \in Modes |-> [d \in Directions |-> 0]],
             end    |-> [d \in Directions |-> 0],
             switch |-> [m \in Modes |-> [d \in Directions |-> FALSE]]]

-----------------------------------------------------------------------------
(* RecalcOrderParams                                                          *)

\* The spread a trade of this mode and direction gets from the quotes: taker
\* legs cross the book.
Live(q, m, dir) ==
  CASE m = "tt" /\ Sign(dir) = -1 -> q.pAsk - q.aBid
    [] m = "tt" /\ Sign(dir) =  1 -> q.pBid - q.aAsk
    [] m = "mt" /\ Sign(dir) = -1 -> q.pAsk - q.aAsk
    [] m = "mt" /\ Sign(dir) =  1 -> q.pBid - q.aBid

Quantile(ls, m, dir) ==
  CASE m = "tt" /\ Sign(dir) = -1 -> ls.bidAskDQ
    [] m = "tt" /\ Sign(dir) =  1 -> ls.askBidUQ
    [] m = "mt" /\ Sign(dir) = -1 -> ls.askAskDQ
    [] m = "mt" /\ Sign(dir) =  1 -> ls.bidBidUQ

CalcExpectSpread(ls, m, dir) ==
  (Quantile(ls, m, dir) * AdjNum) \div AdjDen
    - Sign(dir) * (Cost[m] - (IF m = "tt" THEN ttAddPercent ELSE 0))

\* Faulty variant: the thresholds of opening have no floor.
Unfloored(m, dir, start) == start

\* No open threshold is nearer to zero than the target; the one above it makes
\* the strict comparison of Openable hold.
Floored(m, dir, start) ==
  LET floor == minSpreadTarget + 1 + (IF m = "tt" THEN ttAddPercent ELSE 0)
  IN IF minSpreadTarget = 0 THEN start
     ELSE Sign(dir) * Most(Sign(dir) * start, floor)

StartSpread(ls, m, dir) ==
  IF dir \in Opens THEN Floored(m, dir, CalcExpectSpread(ls, m, dir))
  ELSE CalcExpectSpread(ls, m, dir) + Sign(dir) * profitPct

\* The ladder: opening ends at the largest position, closing at what is to
\* remain of it.
EndVolume(mv, remain, dir) ==
  CASE dir = "OL" -> -mv
    [] dir = "OS" -> mv
    [] dir = "CL" -> -Least(remain, mv)
    [] dir = "CS" -> Least(remain, mv)

\* The maker threshold decides for both modes.
Openable(ls, dir) == Sign(dir) * StartSpread(ls, "mt", dir) > minSpreadTarget

ShutOpens(op) == [op EXCEPT !.switch = [m \in Modes |-> [d \in Directions |->
                                          d \notin Opens /\ op.switch[m][d]]]]

\* Faulty variant: the gate is left to whoever reads the parameters.
Ungated(op, closeFlag, exceeded, closeOnly) == op

ApplyNoOpenGate(op, closeFlag, exceeded, closeOnly) ==
  IF exceeded \/ closeOnly \/ closeFlag THEN ShutOpens(op) ELSE op

\* Without statistics the spreads and switches stay what they were, with a
\* narrow span only the open switches change.  (The margin states that are tested
\* beside liq are written nowhere and stay 0.)
RecalcOrderParams(op, ls, mv, f, liq, rt, exceeded, closeOnly) ==
  LET sized == [op EXCEPT !.end = [d \in Directions |->
                                     EndVolume(mv, f.closeRemainVolume, d)]]
      risky == (\E leg \in DOMAIN liq : liq[leg]) \/ rt.fundingHigh
      full  == [sized EXCEPT
                  !.start  = [m \in Modes |-> [d \in Directions |-> StartSpread(ls, m, d)]],
                  !.switch = [m \in Modes |-> [d \in Directions |->
                                d \in Opens => Openable(ls, d) /\ ~f.closeFlag /\ ~risky]]]
  IN CASE ~ls.valid -> ApplyNoOpenGate(sized, f.closeFlag, exceeded, closeOnly)
       [] ls.valid /\ ls.bidBidUQ - ls.askAskDQ < minSpreadSpan -> ShutOpens(sized)
       [] OTHER -> ApplyNoOpenGate(full, f.closeFlag, exceeded, closeOnly)

-----------------------------------------------------------------------------
(* RecalcVolumeParams, and the position limit of all pairs.                   *)

ceil2min(amount, price) ==
  ((amount + price * MinVolume - 1) \div (price * MinVolume)) * MinVolume

\* The position a pair has is never above its largest.
RecalcVolumeParams(mv, v, price) ==
  IF price = 0 THEN mv ELSE Most(ceil2min(MaxAmount, price), Abs(v))

TotalPositionValue == MapThenSumSet(LAMBDA p : Abs(volume[p]) * rtSpread[p].price, Pairs)
Exceeded == maxPositionValue > 0 /\ TotalPositionValue > maxPositionValue

-----------------------------------------------------------------------------
(* CheckSignal                                                                *)

Crosses(op, q, m, dir) ==
  Sign(dir) * (Live(q, m, dir) - op.start[m][dir]) > Cost[m]

\* Faulty variant: what the way back costs is not looked at.
AnyProfit(target, op, q, m, dir) == TRUE

\* What opening now and closing at the threshold of today would leave.
ProfitOk(target, op, q, m, dir) ==
  LET back == IF dir = "OL" THEN "CL" ELSE "CS"
  IN target = 0
     \/ Sign(dir) * (Live(q, m, dir) - op.start[m][back]) - Cost[m] >= target

Room(op, v, dir) ==
  CASE dir = "OL" -> v > op.end[dir]
    [] dir = "OS" -> v < op.end[dir]
    [] dir = "CL" -> IsLong(v) /\ v < op.end[dir]
    [] dir = "CS" -> IsShort(v) /\ v > op.end[dir]

CheckSignalForSatisfy(target, op, q, v, stopFlag) ==
  {t \in Modes \X Directions :
     /\ q.valid /\ ~(stopFlag /\ v = 0)
     /\ op.switch[t[1]][t[2]] /\ Room(op, v, t[2])
     /\ Crosses(op, q, t[1], t[2])
     /\ t[2] \in Opens => ProfitOk(target, op, q, t[1], t[2])}

\* Faulty variant: the makers' comparisons look at the other side of the books,
\* where the opposite direction closes.
ReachedOnOtherSide(op, q, v) ==
  q.valid /\ v # 0 /\
    IF IsLong(v)
    THEN \/ (q.pBid - q.aAsk) - Cost["tt"] > op.start["tt"]["CL"]
         \/ (q.pAsk - q.aAsk) - Cost["mt"] > op.start["mt"]["CL"]
    ELSE \/ (q.pAsk - q.aBid) + Cost["tt"] < op.start["tt"]["CS"]
         \/ (q.pBid - q.aBid) + Cost["mt"] < op.start["mt"]["CS"]

\* What risk control takes for a spread that has come back.  The code has the
\* comparisons of closing here a second time.
CloseSpreadReached(op, q, v) ==
  /\ v # 0 /\ q.valid
  /\ \/ /\ IsLong(v)
        /\ \/ (q.pBid - q.aAsk) - Cost["tt"] > op.start["tt"]["CL"]
           \/ (q.pBid - q.aBid) - Cost["mt"] > op.start["mt"]["CL"]
     \/ /\ IsShort(v)
        /\ \/ (q.pAsk - q.aBid) + Cost["tt"] < op.start["tt"]["CS"]
           \/ (q.pAsk - q.aAsk) + Cost["mt"] < op.start["mt"]["CS"]

CanOpen(f, q, closeOnly) ==
  ~closeOnly /\ ~f.stopFlag /\ ~f.closeFlag /\ Abs(q.pAsk - q.aAsk) <= AbnormalSpread
CanClose(f, v) == v # 0 /\ ~f.stopFlag /\ Abs(v) >= MinVolume

-----------------------------------------------------------------------------
(* The main loop.                                                             *)

\* First close, then open; first taker-taker, then maker-taker.
Priority == <<<<"tt", "CL">>, <<"tt", "CS">>, <<"mt", "CL">>, <<"mt", "CS">>,
              <<"tt", "OL">>, <<"tt", "OS">>, <<"mt", "OL">>, <<"mt", "OS">>>>

ProcessPairSignal(target, op, q, v, f, closeOnly) ==
  LET sig == CheckSignalForSatisfy(target, op, q, v, f.stopFlag)
      Can(t) == IF t[2] \in Opens THEN CanOpen(f, q, closeOnly) ELSE CanClose(f, v)
      I == {i \in 1..8 : Priority[i] \in sig /\ Can(Priority[i])}
  IN IF I = {} THEN NoTrade ELSE Priority[Min(I)]

OnSpread(p, q) ==
  /\ rtSpread' = [rtSpread EXCEPT ![p] = q]
  /\ trade' = [trade EXCEPT ![p] =
                 IF @ # NoTrade THEN @
                 ELSE ProcessPairSignal(minProfitTarget[p], orderParams[p], q, volume[p],
                                        flags[p], m_closeOnly)]
  /\ UNCHANGED <<minProfitTarget, volume, maxVolume, flags, liquid, largeStats, orderParams,
                 m_globalPosExceeded, m_closeOnly>>

\* OnAlgoOrderUpdate with a terminal state: the algo order got anywhere between
\* the position it started from and the end of its ladder.
AlgoOrderEnds(p, v) ==
  /\ trade[p] # NoTrade
  /\ LET end == orderParams[p].end[trade[p][2]]
     IN v \in Least(volume[p], end)..Most(volume[p], end)
  /\ volume' = [volume EXCEPT ![p] = v]
  /\ orderParams' = [orderParams EXCEPT ![p] =
       RecalcOrderParams(@, largeStats[p], maxVolume[p], flags[p], liquid[p], rtSpread[p],
                         m_globalPosExceeded, m_closeOnly)]
  /\ trade' = [trade EXCEPT ![p] = NoTrade]
  /\ UNCHANGED <<minProfitTarget, maxVolume, flags, liquid, largeStats, rtSpread,
                 m_globalPosExceeded, m_closeOnly>>

\* A push of the position of either leg: UpdateLiquidStatus is told that the leg
\* is the active one, whichever it is.
UpdateOnPosition(p, near) ==
  /\ liquid' = [liquid EXCEPT ![p].active = near]
  /\ UNCHANGED <<minProfitTarget, volume, maxVolume, flags, largeStats, rtSpread, orderParams,
                 trade, m_globalPosExceeded, m_closeOnly>>

\* What has to be done at the head of OnTimer, whatever follows.
SetGate(exceeded) == /\ m_globalPosExceeded' = exceeded
                     /\ UNCHANGED <<minProfitTarget, volume, liquid, rtSpread, trade>>

\* Parameters of the pairs in R are calculated anew from what is next.
Recalculated(R) ==
  /\ orderParams' = [p \in Pairs |-> IF p \notin R THEN orderParams[p] ELSE
       RecalcOrderParams(orderParams[p], largeStats'[p], maxVolume'[p], flags'[p], liquid[p],
                         rtSpread[p], m_globalPosExceeded', m_closeOnly')]

\* OnTimer when nothing is due, a configuration has arrived, the volumes are
\* due, or statistics of a pair have arrived.  A call in which several are due
\* is these, one after the other, in this order.
OnTimerIdle ==
  /\ SetGate(Exceeded)
  /\ UNCHANGED <<maxVolume, flags, largeStats, m_closeOnly>>
  /\ Recalculated({})

OnTimerConfig(closeOnly, p, f) ==
  /\ SetGate(Exceeded)
  /\ m_closeOnly' = closeOnly
  /\ flags' = [flags EXCEPT ![p] = f]
  /\ UNCHANGED <<maxVolume, largeStats>>
  /\ Recalculated(Pairs)

OnTimerVolumes ==
  /\ SetGate(Exceeded)
  /\ maxVolume' = [p \in Pairs |->
                     RecalcVolumeParams(maxVolume[p], volume[p], rtSpread[p].price)]
  /\ UNCHANGED <<flags, largeStats, m_closeOnly>>
  /\ Recalculated(Pairs)

OnTimerStats(p, ls) ==
  /\ SetGate(Exceeded)
  /\ largeStats' = [largeStats EXCEPT ![p] = ls]
  /\ UNCHANGED <<maxVolume, flags, m_closeOnly>>
  /\ Recalculated({p})

-----------------------------------------------------------------------------
NoFlags == [stopFlag |-> FALSE, closeFlag |-> FALSE, closeRemainVolume |-> 0]
Safe    == [active |-> FALSE, passive |-> FALSE]

\* A start: positions are restored, the parameters are the defaults.
Init ==
  /\ minProfitTarget \in [Pairs -> ProfitTargets]
  /\ volume \in [Pairs -> {-MaxPosition, 0, MaxPosition}]
  /\ maxVolume = [p \in Pairs |-> 0]
  /\ flags = [p \in Pairs |-> NoFlags] /\ liquid = [p \in Pairs |-> Safe]
  /\ largeStats = [p \in Pairs |-> NoStats] /\ rtSpread = [p \in Pairs |-> NoTick]
  /\ orderParams = [p \in Pairs |-> NoParams] /\ trade = [p \in Pairs |-> NoTrade]
  /\ m_globalPosExceeded = FALSE /\ m_closeOnly = FALSE

Flags == [stopFlag : BOOLEAN, closeFlag : BOOLEAN, closeRemainVolume : Remains]

Next ==
  \/ \E p \in Pairs :
       \/ \E q \in Quotes : OnSpread(p, q)
       \/ \E v \in -MaxPosition..MaxPosition : AlgoOrderEnds(p, v)
       \/ \E near \in BOOLEAN : UpdateOnPosition(p, near)
       \/ \E closeOnly \in BOOLEAN, f \in Flags : OnTimerConfig(closeOnly, p, f)
       \/ \E ls \in Statistics : OnTimerStats(p, ls)
  \/ OnTimerIdle
  \/ OnTimerVolumes

Spec == Init /\ [][Next]_vars

-----------------------------------------------------------------------------
TypeOK ==
  /\ minProfitTarget \in [Pairs -> ProfitTargets]
  /\ volume \in [Pairs -> -MaxPosition..MaxPosition] /\ maxVolume \in [Pairs -> Nat]
  /\ flags \in [Pairs -> Flags \union {NoFlags}]
  /\ liquid \in [Pairs -> [active : BOOLEAN, passive : BOOLEAN]]
  /\ largeStats \in [Pairs -> Statistics \union {NoStats}]
  /\ rtSpread \in [Pairs -> Quotes \union {NoTick}]
  /\ trade \in [Pairs -> (Modes \X Directions) \union {NoTrade}]
  /\ m_globalPosExceeded \in BOOLEAN /\ m_closeOnly \in BOOLEAN

OpensOff(p) == \A m \in Modes, d \in Opens : ~orderParams[p].switch[m][d]
Signals(p)  ==
  CheckSignalForSatisfy(minProfitTarget[p], orderParams[p], rtSpread[p], volume[p],
                        flags[p].stopFlag)

\* Close only means close only on every path: whatever had the parameters of a
\* pair recalculated, with statistics or without, no open switch is on while
\* the whole process or the pair is to close only.  The running algo order is
\* modified from these switches, with no further test.
CloseOnlyOpensNothing ==
  \A p \in Pairs : m_closeOnly \/ flags[p].closeFlag => OpensOff(p)

\* The market is never cheap and dear at once: no tick signals opening long and
\* opening short, in whichever modes.
OneSideOnly ==
  \A p \in Pairs : ~\E m, n \in Modes : {<<m, "OL">>, <<n, "OS">>} \subseteq Signals(p)

\* An algo order that opens by a signal does not find the closing threshold of
\* its own mode crossed by the same tick: it would be closed at once, for two
\* times the cost.  (This is what a profit target is for.)
OpensToKeep ==
  \A p \in Pairs : minProfitTarget[p] > 0 => \A m \in Modes :
    /\ <<m, "OL">> \in Signals(p) => ~Crosses(orderParams[p], rtSpread[p], m, "CL")
    /\ <<m, "OS">> \in Signals(p) => ~Crosses(orderParams[p], rtSpread[p], m, "CS")

\* Thresholds that are no longer the defaults.
Calculated(p) == orderParams[p].start # NoParams.start

\* Risk control and the main loop agree on a spread that has come back: of all
\* the ticks there may be, CloseSpreadReached holds of exactly those on which a
\* free pair submits a close.  Otherwise the clock of SpreadNoRegression stops
\* for a position nothing closes, or forces a close the signals just had.  The
\* thresholds are calculated, there is something to close and it may be closed.
RegressionMeansClose ==
  \A p \in Pairs, q \in Quotes :
    LET v == volume[p]  op == orderParams[p]
        t == ProcessPairSignal(minProfitTarget[p], op, q, v, flags[p], m_closeOnly)
    IN /\ Calculated(p) /\ CanClose(flags[p], v)
       /\ Room(op, v, IF IsLong(v) THEN "CL" ELSE "CS")
       => (CloseSpreadReached(op, q, v) <=> t # NoTrade /\ t[2] \notin Opens)
=============================================================================
