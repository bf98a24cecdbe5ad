---------------------------- MODULE Signals_proofs ----------------------------
(* Proofs about the signals of any number of pairs, for all costs, floors,    *)
(* percentages, statistics and ticks: what the gates shut stays shut on every *)
(* path, and what one tick may signal together.                               *)
EXTENDS Signals, TLAPS

-----------------------------------------------------------------------------
(* The parameters of a pair.                                                  *)

Params == [start  : [Modes -> [Directions -> Int]],
           end    : [Directions -> Int],
           switch : [Modes -> [Directions -> BOOLEAN]]]

Stats == Statistics \union {NoStats}
Ticks == Quotes \union {NoTick}

LEMMA DirFacts ==
  /\ \A d \in Directions : Sign(d) \in {-1, 1}
  /\ Sign("OL") = -1 /\ Sign("CS") = -1 /\ Sign("OS") = 1 /\ Sign("CL") = 1
  /\ Opens \subseteq Directions /\ "tt" \in Modes /\ "mt" \in Modes
  /\ \A m \in Modes : m = "tt" \/ m = "mt"
  /\ \A d \in Opens : d = "OL" \/ d = "OS"
BY DEF Sign, Directions, Opens, Modes

LEMMA StatFields ==
  ASSUME NEW ls \in Stats
  PROVE  /\ ls.valid \in BOOLEAN
         /\ ls.bidAskDQ \in Int /\ ls.askAskDQ \in Int
         /\ ls.askBidUQ \in Int /\ ls.bidBidUQ \in Int
<1>1. CASE ls \in Statistics
  <2>1. ls \in [valid : BOOLEAN, bidAskDQ : Int, askAskDQ : Int, askBidUQ : Int, bidBidUQ : Int]
    BY <1>1, SignalsAssumption, Zenon
  <2> QED
    BY <2>1
<1>2. CASE ls = NoStats
  BY <1>2 DEF NoStats
<1> QED
  BY <1>1, <1>2 DEF Stats

LEMMA TickFields ==
  ASSUME NEW q \in Ticks
  PROVE  /\ q.valid \in BOOLEAN /\ q.fundingHigh \in BOOLEAN
         /\ q.aBid \in Int /\ q.aAsk \in Int /\ q.pBid \in Int /\ q.pAsk \in Int
         /\ q.price \in Nat
<1>1. CASE q \in Quotes
  <2>1. q \in [valid : BOOLEAN, aBid : Int, aAsk : Int, pBid : Int, pAsk : Int,
              price : Nat, fundingHigh : BOOLEAN]
    BY <1>1, SignalsAssumption, Zenon
  <2> QED
    BY <2>1
<1>2. CASE q = NoTick
  BY <1>2 DEF NoTick
<1> QED
  BY <1>1, <1>2 DEF Ticks

LEMMA ParamFields ==
  ASSUME NEW op \in Params
  PROVE  /\ \A m \in Modes, d \in Directions : op.start[m][d] \in Int
         /\ \A m \in Modes, d \in Directions : op.switch[m][d] \in BOOLEAN
         /\ \A d \in Directions : op.end[d] \in Int
BY DEF Params

LEMMA CostType == \A m \in Modes : Cost[m] \in Nat
BY SignalsAssumption

LEMMA LiveType ==
  ASSUME NEW q \in Ticks, NEW m \in Modes, NEW d \in Directions
  PROVE  Live(q, m, d) \in Int
BY TickFields, DirFacts DEF Live

LEMMA ExpectType ==
  ASSUME NEW ls \in Stats, NEW m \in Modes, NEW d \in Directions
  PROVE  CalcExpectSpread(ls, m, d) \in Int
<1>1. Quantile(ls, m, d) \in Int
  BY StatFields, DirFacts DEF Quantile
<1>2. (Quantile(ls, m, d) * AdjNum) \in Int
  BY <1>1, SignalsAssumption
<1>3. ((Quantile(ls, m, d) * AdjNum) \div AdjDen) \in Int
  BY <1>2, SignalsAssumption
<1>4. Sign(d) * (Cost[m] - (IF m = "tt" THEN ttAddPercent ELSE 0)) \in Int
  BY DirFacts, CostType, SignalsAssumption
<1> QED
  BY <1>3, <1>4 DEF CalcExpectSpread

LEMMA StartType ==
  ASSUME NEW ls \in Stats, NEW m \in Modes, NEW d \in Directions
  PROVE  StartSpread(ls, m, d) \in Int
<1>1. CalcExpectSpread(ls, m, d) \in Int /\ Sign(d) \in {-1, 1}
  BY ExpectType, DirFacts
<1> QED
  BY <1>1, SignalsAssumption DEF StartSpread, Floored, Most

\* An opening threshold has the distance from zero the floor asks for.
LEMMA StartFloored ==
  ASSUME NEW ls \in Stats, NEW m \in Modes, NEW d \in Opens, minSpreadTarget > 0
  PROVE  Sign(d) * StartSpread(ls, m, d) > minSpreadTarget
<1>1. CalcExpectSpread(ls, m, d) \in Int /\ Sign(d) \in {-1, 1}
  BY ExpectType, DirFacts
<1>2. StartSpread(ls, m, d) = Floored(m, d, CalcExpectSpread(ls, m, d))
  BY DEF StartSpread
<1> QED
  BY <1>1, <1>2, SignalsAssumption DEF Floored, Most

-----------------------------------------------------------------------------
(* What a recalculation leaves behind, on each of its paths.                  *)

Shut(op) == \A m \in Modes, d \in Opens : ~op.switch[m][d]

\* A switch of opening that is on stands beside thresholds beyond the target.
Deep(op) ==
  \A m \in Modes, d \in Opens : op.switch[m][d] =>
    /\ Sign(d) * op.start["mt"][d] > minSpreadTarget
    /\ minSpreadTarget > 0 => Sign(d) * op.start[m][d] > minSpreadTarget

\* Where thresholds have been calculated the switches of closing are on.
Closing(op) ==
  op.start # NoParams.start => \A m \in Modes, d \in Directions \ Opens : op.switch[m][d]

Fit(op) == Deep(op) /\ Closing(op)

LEMMA ShutOpensDoes ==
  ASSUME NEW op \in Params, Closing(op)
  PROVE  ShutOpens(op) \in Params /\ Shut(ShutOpens(op)) /\ Fit(ShutOpens(op))
<1>1. ShutOpens(op) \in Params
  BY DEF ShutOpens, Params
<1>2. Shut(ShutOpens(op))
  BY DirFacts DEF ShutOpens, Shut, Params
<1>3. Closing(ShutOpens(op))
  <2>1. ShutOpens(op).start = op.start
    BY DEF ShutOpens, Params
  <2>2. ASSUME NEW m \in Modes, NEW d \in Directions \ Opens
        PROVE  ShutOpens(op).switch[m][d] = op.switch[m][d]
    BY <2>2 DEF ShutOpens, Params
  <2> QED
    BY <2>1, <2>2, Zenon DEF Closing
<1> QED
  BY <1>1, <1>2, <1>3 DEF Shut, Deep, Fit

LEMMA GateDoes ==
  ASSUME NEW op \in Params, Fit(op), NEW c \in BOOLEAN, NEW x \in BOOLEAN, NEW o \in BOOLEAN
  PROVE  /\ ApplyNoOpenGate(op, c, x, o) \in Params
         /\ Fit(ApplyNoOpenGate(op, c, x, o))
         /\ c \/ o => Shut(ApplyNoOpenGate(op, c, x, o))
BY ShutOpensDoes DEF ApplyNoOpenGate, Fit

LEMMA RecalcDoes ==
  ASSUME NEW op \in Params, Fit(op), NEW ls \in Stats, NEW mv \in Nat,
         NEW f \in Flags \union {NoFlags}, NEW liq, NEW rt \in Ticks,
         NEW x \in BOOLEAN, NEW o \in BOOLEAN
  PROVE  LET new == RecalcOrderParams(op, ls, mv, f, liq, rt, x, o)
         IN /\ new \in Params
            /\ Fit(new)
            /\ f.closeFlag \/ o => Shut(new)
<1> DEFINE ends  == [d \in Directions |-> EndVolume(mv, f.closeRemainVolume, d)]
           sized == [op EXCEPT !.end = ends]
           risky == (\E leg \in DOMAIN liq : liq[leg]) \/ rt.fundingHigh
           starts == [m \in Modes |-> [d \in Directions |-> StartSpread(ls, m, d)]]
           switches == [m \in Modes |-> [d \in Directions |->
                          d \in Opens => Openable(ls, d) /\ ~f.closeFlag /\ ~risky]]
           full  == [sized EXCEPT !.start = starts, !.switch = switches]
           new   == RecalcOrderParams(op, ls, mv, f, liq, rt, x, o)
<1>1. f.closeFlag \in BOOLEAN /\ f.closeRemainVolume \in Nat
  <2>1. CASE f \in Flags
    <3>1. f.closeFlag \in BOOLEAN /\ f.closeRemainVolume \in Remains
      BY <2>1 DEF Flags
    <3> QED
      BY <3>1, SignalsAssumption
  <2>2. CASE f = NoFlags
    BY <2>2 DEF NoFlags
  <2> QED
    BY <2>1, <2>2
<1>2. ends \in [Directions -> Int]
  <2>1. \A d \in Directions : EndVolume(mv, f.closeRemainVolume, d) \in Int
    BY <1>1 DEF EndVolume, Least, Directions
  <2> QED
    BY <2>1
<1> HIDE DEF ends
<1>3. sized \in Params /\ Fit(sized)
  <2>1. sized \in Params
    BY <1>2 DEF Params
  <2>2. sized.switch = op.switch /\ sized.start = op.start
    BY DEF Params
  <2> QED
    BY <2>1, <2>2, Zenon DEF Deep, Closing, Fit
<1>4. starts \in [Modes -> [Directions -> Int]]
  BY StartType
<1>5. switches \in [Modes -> [Directions -> BOOLEAN]]
  OBVIOUS
<1>6. full \in Params /\ full.start = starts /\ full.switch = switches
  <2> HIDE DEF starts, switches
  <2> QED
    BY <1>3, <1>4, <1>5 DEF Params
<1>7. Deep(full)
  <2> SUFFICES ASSUME NEW m \in Modes, NEW d \in Opens, full.switch[m][d]
               PROVE  /\ Sign(d) * full.start["mt"][d] > minSpreadTarget
                      /\ minSpreadTarget > 0 => Sign(d) * full.start[m][d] > minSpreadTarget
    BY DEF Deep
  <2>1. d \in Directions /\ "mt" \in Modes
    BY DirFacts
  <2>2. Openable(ls, d)
    <3>1. switches[m][d] = (d \in Opens => Openable(ls, d) /\ ~f.closeFlag /\ ~risky)
      BY <2>1, Zenon
    <3>2. switches[m][d]
      BY <1>6, Zenon
    <3> HIDE DEF switches, risky
    <3> QED
      BY <3>1, <3>2, Zenon
  <2>3. full.start["mt"][d] = StartSpread(ls, "mt", d) /\ full.start[m][d] = StartSpread(ls, m, d)
    BY <1>6, <2>1
  <2>4. minSpreadTarget > 0 => Sign(d) * StartSpread(ls, m, d) > minSpreadTarget
    BY StartFloored
  <2> QED
    BY <2>2, <2>3, <2>4 DEF Openable
<1>9. Fit(full)
  <2> SUFFICES ASSUME NEW m \in Modes, NEW d \in Directions \ Opens PROVE full.switch[m][d]
    BY <1>7 DEF Fit, Closing
  <2>1. switches[m][d] = (d \in Opens => Openable(ls, d) /\ ~f.closeFlag /\ ~risky)
    BY Zenon
  <2>2. full.switch[m][d] = switches[m][d]
    BY <1>6, Zenon
  <2> HIDE DEF switches, risky
  <2> QED
    BY <2>1, <2>2, Zenon
<1>8. /\ new = ApplyNoOpenGate(sized, f.closeFlag, x, o) \/ new = ShutOpens(sized)
         \/ new = ApplyNoOpenGate(full, f.closeFlag, x, o)
  <2>1. ls.valid \in BOOLEAN
    BY StatFields
  <2>2. CASE ~ls.valid
    BY <2>2, Zenon DEF RecalcOrderParams, ends
  <2>3. CASE ls.valid /\ ls.bidBidUQ - ls.askAskDQ < minSpreadSpan
    BY <2>3 DEF RecalcOrderParams, ends
  <2>4. CASE ls.valid /\ ~(ls.bidBidUQ - ls.askAskDQ < minSpreadSpan)
    BY <2>4 DEF RecalcOrderParams, ends
  <2> QED
    BY <2>1, <2>2, <2>3, <2>4
<1> HIDE DEF sized, full, new, starts, switches, risky
<1> QED
  <2>1. CASE new = ShutOpens(sized)
    BY <2>1, <1>3, ShutOpensDoes, Zenon DEF new, Fit
  <2>2. CASE new = ApplyNoOpenGate(sized, f.closeFlag, x, o)
    BY <2>2, <1>1, <1>3, GateDoes, Zenon DEF new
  <2>3. CASE new = ApplyNoOpenGate(full, f.closeFlag, x, o)
    BY <2>3, <1>1, <1>6, <1>9, GateDoes, Zenon DEF new
  <2> QED
    BY <1>8, <2>1, <2>2, <2>3

-----------------------------------------------------------------------------
(* Types.                                                                     *)

Typed == TypeOK /\ orderParams \in [Pairs -> Params]

LEMMA NoParamsTyped == NoParams \in Params /\ Shut(NoParams) /\ Fit(NoParams)
<1>1. NoParams \in Params
  BY DEF NoParams, Params
<1>2. Shut(NoParams)
  BY DirFacts DEF NoParams, Shut
<1> QED
  BY <1>1, <1>2 DEF Shut, Deep, Fit, Closing

LEMMA VolumeType ==
  ASSUME NEW mv \in Nat, NEW v \in Int, NEW price \in Nat
  PROVE  RecalcVolumeParams(mv, v, price) \in Nat
<1>1. CASE price = 0
  BY <1>1 DEF RecalcVolumeParams
<1>2. CASE price # 0
  <2> DEFINE k == price * MinVolume
  <2>1. k \in Nat \ {0}
    BY <1>2, SignalsAssumption
  <2> HIDE DEF k
  <2>2. (MaxAmount + (k - 1)) \in Nat
    BY <2>1, SignalsAssumption
  <2>3. ((MaxAmount + (k - 1)) \div k) \in Nat
    BY <2>1, <2>2
  <2> DEFINE n == (MaxAmount + (k - 1)) \div k
  <2>4. MaxAmount + k - 1 = MaxAmount + (k - 1)
    BY <2>1, SignalsAssumption
  <2>5. ceil2min(MaxAmount, price) = n * MinVolume
    BY <2>4 DEF ceil2min, k
  <2> HIDE DEF n
  <2>6. ceil2min(MaxAmount, price) \in Nat
    BY <2>3, <2>5, SignalsAssumption DEF n
  <2> QED
    BY <1>2, <2>6 DEF RecalcVolumeParams, Most, Abs
<1> QED
  BY <1>1, <1>2

\* A set of priorities has a first one.
LEMMA LeastPriority ==
  \A I \in SUBSET (1..8) : I # {} => \E x \in I : \A y \in I : x <= y
<1> SUFFICES ASSUME NEW I \in SUBSET (1..8), ~\E x \in I : \A y \in I : x <= y
             PROVE  I = {}
  BY Zenon
<1>0. \A x \in I : \E y \in I : y < x
  <2> SUFFICES ASSUME NEW x \in I PROVE \E y \in I : y < x
    OBVIOUS
  <2>1. PICK y \in I : ~(x <= y)
    BY Zenon
  <2>2. x \in Int /\ y \in Int
    OBVIOUS
  <2> QED
    BY <2>1, <2>2
<1>1. 1 \notin I /\ 2 \notin I
  BY <1>0
<1>2. 3 \notin I /\ 4 \notin I
  BY <1>0, <1>1
<1>3. 5 \notin I /\ 6 \notin I
  BY <1>0, <1>1, <1>2
<1>4. 7 \notin I /\ 8 \notin I
  BY <1>0, <1>1, <1>2, <1>3
<1>5. \A x \in 1..8 : x \in {1, 2, 3, 4, 5, 6, 7, 8}
  OBVIOUS
<1>6. \A x \in 1..8 : x \notin I
  BY <1>1, <1>2, <1>3, <1>4, <1>5
<1> QED
  BY <1>6

LEMMA SignalTyped ==
  ASSUME NEW target, NEW op, NEW q, NEW v, NEW f, NEW o
  PROVE  ProcessPairSignal(target, op, q, v, f, o) \in (Modes \X Directions) \union {NoTrade}
<1> DEFINE sig == CheckSignalForSatisfy(target, op, q, v, f.stopFlag)
           Can(t) == IF t[2] \in Opens THEN CanOpen(f, q, o) ELSE CanClose(f, v)
           I == {i \in 1..8 : Priority[i] \in sig /\ Can(Priority[i])}
<1>1. \A i \in 1..8 : Priority[i] \in Modes \X Directions
  BY DEF Priority, Modes, Directions
<1>2. CASE I = {}
  BY <1>2, Zenon DEF ProcessPairSignal
<1>3. CASE I # {}
  <2>1. \E x \in I : \A y \in I : x <= y
    BY <1>3, LeastPriority, Zenon
  <2>2. Min(I) \in I
    <3> HIDE DEF I
    <3> QED
      BY <2>1 DEF Min
  <2>3. ProcessPairSignal(target, op, q, v, f, o) = Priority[Min(I)]
    BY <1>3, Zenon DEF ProcessPairSignal
  <2> QED
    BY <1>1, <2>2, <2>3
<1> QED
  BY <1>2, <1>3

-----------------------------------------------------------------------------
(* The invariant: gates shut what they forbid, what is open is deep, and what  *)
(* has thresholds can close.                                                   *)

Gated(p) == m_closeOnly \/ flags[p].closeFlag => Shut(orderParams[p])

IInv == Typed /\ \A p \in Pairs : Gated(p) /\ Fit(orderParams[p])

THEOREM InitIInv == Init => IInv
<1> SUFFICES ASSUME Init PROVE IInv
  OBVIOUS
<1> USE DEF Init
<1>1. TypeOK
  <2>1. volume \in [Pairs -> -MaxPosition..MaxPosition]
    BY SignalsAssumption
  <2>2. liquid \in [Pairs -> [active : BOOLEAN, passive : BOOLEAN]]
    BY DEF Safe
  <2> QED
    BY <2>1, <2>2 DEF TypeOK
<1>2. orderParams \in [Pairs -> Params]
  BY NoParamsTyped
<1> QED
  BY <1>1, <1>2, NoParamsTyped DEF IInv, Typed, Gated

LEMMA PairFields ==
  ASSUME Typed, NEW p \in Pairs
  PROVE  /\ orderParams[p] \in Params /\ largeStats[p] \in Stats /\ rtSpread[p] \in Ticks
         /\ maxVolume[p] \in Nat /\ flags[p] \in Flags \union {NoFlags} /\ volume[p] \in Int
BY SignalsAssumption DEF Typed, TypeOK, Stats, Ticks

\* Recalculating the pairs of R from what is next keeps the invariant, if the
\* gates of the other pairs forbid nothing new.
LEMMA RecalculatedKeeps ==
  ASSUME IInv, NEW R, R \subseteq Pairs, Recalculated(R),
         maxVolume' \in [Pairs -> Nat], flags' \in [Pairs -> Flags \union {NoFlags}],
         largeStats' \in [Pairs -> Stats], rtSpread' = rtSpread,
         m_globalPosExceeded' \in BOOLEAN, m_closeOnly' \in BOOLEAN,
         \A p \in Pairs \ R : (m_closeOnly' \/ flags'[p].closeFlag)
                                => (m_closeOnly \/ flags[p].closeFlag)
  PROVE  /\ orderParams' \in [Pairs -> Params]
         /\ \A p \in Pairs : (Gated(p) /\ Fit(orderParams[p]))'
<1> DEFINE New(p) == RecalcOrderParams(orderParams[p], largeStats'[p], maxVolume'[p], flags'[p],
                                       liquid[p], rtSpread[p], m_globalPosExceeded', m_closeOnly')
<1>1. orderParams' = [p \in Pairs |-> IF p \notin R THEN orderParams[p] ELSE New(p)]
  BY Zenon DEF Recalculated
<1>2. \A p \in Pairs : /\ New(p) \in Params /\ Fit(New(p))
                       /\ flags'[p].closeFlag \/ m_closeOnly' => Shut(New(p))
  <2> SUFFICES ASSUME NEW p \in Pairs
               PROVE  /\ New(p) \in Params /\ Fit(New(p))
                      /\ flags'[p].closeFlag \/ m_closeOnly' => Shut(New(p))
    OBVIOUS
  <2>1. orderParams[p] \in Params /\ Fit(orderParams[p]) /\ rtSpread[p] \in Ticks
    BY PairFields DEF IInv
  <2>2. /\ largeStats'[p] \in Stats /\ maxVolume'[p] \in Nat
        /\ flags'[p] \in Flags \union {NoFlags}
    OBVIOUS
  <2> QED
    BY <2>1, <2>2, RecalcDoes, Zenon
<1> HIDE DEF New
<1>3. \A p \in Pairs : orderParams[p] \in Params
  BY PairFields DEF IInv
<1>4. orderParams' \in [Pairs -> Params]
  BY <1>1, <1>2, <1>3
<1>5. ASSUME NEW p \in Pairs PROVE (Gated(p) /\ Fit(orderParams[p]))'
  <2>1. CASE p \in R
    <3>1. orderParams'[p] = New(p)
      BY <1>1, <2>1
    <3> QED
      BY <1>2, <3>1, Zenon DEF Gated
  <2>2. CASE p \notin R
    <3>1. orderParams'[p] = orderParams[p]
      BY <1>1, <2>2
    <3>2. Gated(p) /\ Fit(orderParams[p])
      BY DEF IInv
    <3> QED
      BY <2>2, <3>1, <3>2, Zenon DEF Gated
  <2> QED
    BY <2>1, <2>2
<1> QED
  BY <1>4, <1>5

LEMMA ExceededType == Exceeded \in BOOLEAN
BY DEF Exceeded

LEMMA OnSpreadKeeps ==
  ASSUME IInv, NEW p \in Pairs, NEW q \in Quotes, OnSpread(p, q)
  PROVE  IInv'
<1> USE DEF OnSpread
<1>1. rtSpread' \in [Pairs -> Quotes \union {NoTick}]
  BY DEF IInv, Typed, TypeOK
<1>2. trade' \in [Pairs -> (Modes \X Directions) \union {NoTrade}]
  <2> DEFINE s == ProcessPairSignal(minProfitTarget[p], orderParams[p], q, volume[p], flags[p],
                                    m_closeOnly)
  <2>1. s \in (Modes \X Directions) \union {NoTrade}
    BY SignalTyped
  <2> HIDE DEF s
  <2>2. trade' = [trade EXCEPT ![p] = IF @ # NoTrade THEN @ ELSE s]
    BY DEF s
  <2>3. trade \in [Pairs -> (Modes \X Directions) \union {NoTrade}]
    BY DEF IInv, Typed, TypeOK
  <2> QED
    BY <2>1, <2>2, <2>3
<1>3. Typed'
  BY <1>1, <1>2 DEF IInv, Typed, TypeOK
<1> QED
  BY <1>3, Zenon DEF IInv, Gated

LEMMA EndKeeps ==
  ASSUME IInv, NEW p \in Pairs, NEW v \in -MaxPosition..MaxPosition, AlgoOrderEnds(p, v)
  PROVE  IInv'
<1> DEFINE new == RecalcOrderParams(orderParams[p], largeStats[p], maxVolume[p], flags[p],
                                    liquid[p], rtSpread[p], m_globalPosExceeded, m_closeOnly)
<1>1. /\ new \in Params /\ Fit(new)
      /\ flags[p].closeFlag \/ m_closeOnly => Shut(new)
  <2>1. Fit(orderParams[p]) /\ m_globalPosExceeded \in BOOLEAN /\ m_closeOnly \in BOOLEAN
    BY DEF IInv, Typed, TypeOK
  <2>2. /\ orderParams[p] \in Params /\ largeStats[p] \in Stats /\ rtSpread[p] \in Ticks
        /\ maxVolume[p] \in Nat /\ flags[p] \in Flags \union {NoFlags}
    BY PairFields DEF IInv
  <2> QED
    BY <2>1, <2>2, RecalcDoes, Zenon
<1> HIDE DEF new
<1>2. /\ orderParams' = [orderParams EXCEPT ![p] = new]
      /\ volume' = [volume EXCEPT ![p] = v] /\ trade' = [trade EXCEPT ![p] = NoTrade]
      /\ UNCHANGED <<minProfitTarget, maxVolume, flags, liquid, largeStats, rtSpread,
                     m_globalPosExceeded, m_closeOnly>>
  BY DEF AlgoOrderEnds, new
<1>3. Typed'
  <2>1. TypeOK /\ orderParams \in [Pairs -> Params]
    BY DEF IInv, Typed
  <2> QED
    BY <1>1, <1>2, <2>1 DEF Typed, TypeOK
<1>4. ASSUME NEW r \in Pairs PROVE (Gated(r) /\ Fit(orderParams[r]))'
  <2>1. orderParams \in [Pairs -> Params]
    BY DEF IInv, Typed
  <2>2. CASE r = p
    <3>1. orderParams'[r] = new
      BY <1>2, <2>1, <2>2
    <3> QED
      BY <1>1, <1>2, <2>2, <3>1, Zenon DEF Gated
  <2>3. CASE r # p
    <3>1. orderParams'[r] = orderParams[r]
      BY <1>2, <2>1, <2>3
    <3> QED
      BY <1>2, <3>1, Zenon DEF Gated, IInv
  <2> QED
    BY <2>2, <2>3
<1> QED
  BY <1>3, <1>4 DEF IInv

\* The calls of OnTimer differ in what they write before they recalculate.
LEMMA TimerKeeps ==
  ASSUME IInv, NEW R, R \subseteq Pairs, SetGate(Exceeded), Recalculated(R),
         maxVolume' \in [Pairs -> Nat], flags' \in [Pairs -> Flags \union {NoFlags}],
         largeStats' \in [Pairs -> Stats], m_closeOnly' \in BOOLEAN,
         \A p \in Pairs \ R : (m_closeOnly' \/ flags'[p].closeFlag)
                                => (m_closeOnly \/ flags[p].closeFlag)
  PROVE  IInv'
<1>1. /\ m_globalPosExceeded' \in BOOLEAN
      /\ UNCHANGED <<minProfitTarget, volume, liquid, rtSpread, trade>>
  BY ExceededType DEF SetGate
<1>2. /\ orderParams' \in [Pairs -> Params]
      /\ \A p \in Pairs : (Gated(p) /\ Fit(orderParams[p]))'
  BY <1>1, RecalculatedKeeps
<1>3. Typed'
  BY <1>1, <1>2 DEF IInv, Typed, TypeOK, Stats
<1> QED
  BY <1>2, <1>3 DEF IInv

LEMMA StepKeeps == IInv /\ [Next]_vars => IInv'
<1> SUFFICES ASSUME IInv, [Next]_vars PROVE IInv'
  OBVIOUS
<1>0. /\ maxVolume \in [Pairs -> Nat] /\ flags \in [Pairs -> Flags \union {NoFlags}]
      /\ largeStats \in [Pairs -> Stats] /\ m_closeOnly \in BOOLEAN
  BY DEF IInv, Typed, TypeOK, Stats
<1>1. ASSUME NEW p \in Pairs, NEW q \in Quotes, OnSpread(p, q) PROVE IInv'
  BY <1>1, OnSpreadKeeps
<1>2. ASSUME NEW p \in Pairs, NEW v \in -MaxPosition..MaxPosition, AlgoOrderEnds(p, v) PROVE IInv'
  BY <1>2, EndKeeps
<1>3. ASSUME NEW p \in Pairs, NEW near \in BOOLEAN, UpdateOnPosition(p, near) PROVE IInv'
  <2>1. Typed'
    BY <1>3 DEF UpdateOnPosition, IInv, Typed, TypeOK
  <2> QED
    BY <1>3, <2>1, Zenon DEF UpdateOnPosition, IInv, Gated
<1>4. ASSUME NEW p \in Pairs, NEW o \in BOOLEAN, NEW f \in Flags, OnTimerConfig(o, p, f) PROVE IInv'
  <2>1. flags' \in [Pairs -> Flags \union {NoFlags}] /\ m_closeOnly' \in BOOLEAN
    BY <1>0, <1>4 DEF OnTimerConfig
  <2>2. /\ maxVolume' = maxVolume /\ largeStats' = largeStats
        /\ SetGate(Exceeded) /\ Recalculated(Pairs)
    BY <1>4 DEF OnTimerConfig
  <2> QED
    BY <1>0, <2>1, <2>2, TimerKeeps
<1>5. ASSUME NEW p \in Pairs, NEW ls \in Statistics, OnTimerStats(p, ls) PROVE IInv'
  <2>1. largeStats' \in [Pairs -> Stats]
    BY <1>0, <1>5 DEF OnTimerStats, Stats
  <2>2. /\ maxVolume' = maxVolume /\ flags' = flags /\ m_closeOnly' = m_closeOnly
        /\ SetGate(Exceeded) /\ Recalculated({p})
    BY <1>5 DEF OnTimerStats
  <2> QED
    BY <1>0, <2>1, <2>2, TimerKeeps
<1>6. ASSUME OnTimerIdle PROVE IInv'
  <2>1. /\ maxVolume' = maxVolume /\ flags' = flags /\ m_closeOnly' = m_closeOnly
        /\ largeStats' = largeStats /\ SetGate(Exceeded) /\ Recalculated({})
    BY <1>6 DEF OnTimerIdle
  <2> QED
    BY <1>0, <2>1, TimerKeeps
<1>7. ASSUME OnTimerVolumes PROVE IInv'
  <2>1. maxVolume' \in [Pairs -> Nat]
    <3>1. \A p \in Pairs : RecalcVolumeParams(maxVolume[p], volume[p], rtSpread[p].price) \in Nat
      BY VolumeType, PairFields, TickFields DEF IInv
    <3> QED
      BY <1>7, <3>1 DEF OnTimerVolumes
  <2>2. /\ flags' = flags /\ m_closeOnly' = m_closeOnly
        /\ largeStats' = largeStats /\ SetGate(Exceeded) /\ Recalculated(Pairs)
    BY <1>7 DEF OnTimerVolumes
  <2> QED
    BY <1>0, <2>1, <2>2, TimerKeeps
<1>8. CASE UNCHANGED vars
  <2>1. Typed'
    BY <1>8 DEF vars, IInv, Typed, TypeOK
  <2> QED
    BY <1>8, <2>1, Zenon DEF vars, IInv, Gated
<1> QED
  BY <1>1, <1>2, <1>3, <1>4, <1>5, <1>6, <1>7, <1>8 DEF Next

THEOREM Invariant == Spec => []IInv
BY InitIInv, StepKeeps, PTL DEF Spec

-----------------------------------------------------------------------------
(* What the invariant says of the signals of a pair.                          *)

\* Thresholds, floors, costs and statistics keep to their types for any number
\* of pairs, whatever is recalculated from what.
THEOREM TypeCorrect == Spec => []TypeOK
<1>1. IInv => TypeOK
  BY DEF IInv, Typed
<1> QED
  BY <1>1, Invariant, PTL

\* Close only means close only on every path of RecalcOrderParams, for every
\* order in which configurations, statistics, volumes and ends of algo orders
\* arrive: no open switch is on.
THEOREM CloseOnly == Spec => []CloseOnlyOpensNothing
<1>1. IInv => CloseOnlyOpensNothing
  BY Zenon DEF IInv, Gated, Shut, CloseOnlyOpensNothing, OpensOff
<1> QED
  BY <1>1, Invariant, PTL

\* The signal of the highest priority that may be acted on is a close exactly
\* when there is one in the direction of the position.
LEMMA ClosesFirst ==
  ASSUME NEW target, NEW op, NEW q, NEW v \in Int, NEW f, NEW o, CanClose(f, v),
         NEW dir, dir = IF IsLong(v) THEN "CL" ELSE "CS"
  PROVE  LET t == ProcessPairSignal(target, op, q, v, f, o)
         IN t # NoTrade /\ t[2] \notin Opens
              <=> \E m \in Modes : <<m, dir>> \in CheckSignalForSatisfy(target, op, q, v, f.stopFlag)
<1> DEFINE sig == CheckSignalForSatisfy(target, op, q, v, f.stopFlag)
           Can(x) == IF x[2] \in Opens THEN CanOpen(f, q, o) ELSE CanClose(f, v)
           I == {i \in 1..8 : Priority[i] \in sig /\ Can(Priority[i])}
           t == ProcessPairSignal(target, op, q, v, f, o)
<1>1. t = IF I = {} THEN NoTrade ELSE Priority[Min(I)]
  BY Zenon DEF ProcessPairSignal
<1>2. ASSUME NEW x \in sig, x[2] \notin Opens
      PROVE  \E m \in Modes : x = <<m, dir>>
  <2>1. x \in Modes \X Directions /\ Room(op, v, x[2])
    BY <1>2 DEF CheckSignalForSatisfy
  <2>2. x[2] = "CL" \/ x[2] = "CS"
    BY <1>2, <2>1 DEF Directions, Opens
  <2>3. x[2] = "CL" => IsLong(v)
    BY <2>1 DEF Room
  <2>4. x[2] = "CS" => ~IsLong(v)
    BY <2>1 DEF Room, IsLong, IsShort
  <2>5. x[2] = dir
    BY <2>2, <2>3, <2>4
  <2> QED
    BY <2>1, <2>5
<1>3. ASSUME NEW i \in 1..4 PROVE Priority[i][2] \notin Opens
  BY DEF Priority, Opens
<1>4. ASSUME NEW i \in 5..8 PROVE Priority[i][2] \in Opens
  BY DEF Priority, Opens
<1>5. ASSUME NEW m \in Modes PROVE \E i \in 1..4 : Priority[i] = <<m, dir>>
  <2>1. (m = "tt" \/ m = "mt") /\ (dir = "CL" \/ dir = "CS")
    BY DEF Modes
  <2>2. /\ Priority[1] = <<"tt", "CL">> /\ Priority[2] = <<"tt", "CS">>
        /\ Priority[3] = <<"mt", "CL">> /\ Priority[4] = <<"mt", "CS">>
    BY DEF Priority
  <2> QED
    BY <2>1, <2>2
<1>6. ASSUME I # {} PROVE Min(I) \in I /\ \A i \in I : Min(I) <= i
  <2>1. \E x \in I : \A y \in I : x <= y
    BY <1>6, LeastPriority, Zenon
  <2> HIDE DEF I
  <2> QED
    BY <2>1 DEF Min
<1>7. ASSUME t # NoTrade, t[2] \notin Opens PROVE \E m \in Modes : <<m, dir>> \in sig
  <2>1. I # {} /\ t = Priority[Min(I)]
    BY <1>1, <1>7
  <2>2. t \in sig
    BY <1>6, <2>1
  <2> QED
    BY <1>2, <1>7, <2>2
<1>8. ASSUME NEW m \in Modes, <<m, dir>> \in sig PROVE t # NoTrade /\ t[2] \notin Opens
  <2>1. PICK i \in 1..4 : Priority[i] = <<m, dir>>
    BY <1>5
  <2>2. i \in I
    BY <1>3, <1>8, <2>1
  <2>3. Min(I) \in 1..4
    <3>1. Min(I) \in 1..8 /\ Min(I) <= i
      BY <1>6, <2>2
    <3> QED
      BY <3>1
  <2>4. t = Priority[Min(I)] /\ t[2] \notin Opens
    BY <1>1, <1>3, <2>2, <2>3
  <2>5. Priority[Min(I)] \in sig /\ sig \subseteq Modes \X Directions
    BY <1>6, <2>2 DEF CheckSignalForSatisfy
  <2>6. t # NoTrade
    BY <2>4, <2>5 DEF NoTrade
  <2> QED
    BY <2>4, <2>6
<1> QED
  BY <1>7, <1>8, Zenon

\* The comparisons risk control has of its own are those of the signals: same
\* axis, side, cost and threshold.
LEMMA SameComparisons ==
  ASSUME NEW op \in Params, NEW q \in Ticks, NEW v \in Int, v # 0, NEW dir,
         dir = IF IsLong(v) THEN "CL" ELSE "CS"
  PROVE  CloseSpreadReached(op, q, v)
           <=> q.valid /\ \E m \in Modes : Crosses(op, q, m, dir)
<1>1. "tt" \in Modes /\ "mt" \in Modes /\ \A m \in Modes : m = "tt" \/ m = "mt"
  BY DirFacts
<1>2. \A d \in {"CL", "CS"} : op.start["tt"][d] \in Int /\ op.start["mt"][d] \in Int
  BY <1>1, ParamFields DEF Directions
<1>3. q.aBid \in Int /\ q.aAsk \in Int /\ q.pBid \in Int /\ q.pAsk \in Int
  BY TickFields
<1>4. Cost["tt"] \in Nat /\ Cost["mt"] \in Nat
  BY <1>1, CostType
<1>5. (\E m \in Modes : Crosses(op, q, m, dir))
        <=> Crosses(op, q, "tt", dir) \/ Crosses(op, q, "mt", dir)
  BY <1>1, Zenon
<1>6. CASE IsLong(v)
  <2>1. dir = "CL" /\ ~IsShort(v)
    BY <1>6 DEF IsLong, IsShort
  <2>2. /\ Live(q, "tt", "CL") = q.pBid - q.aAsk
        /\ Live(q, "mt", "CL") = q.pBid - q.aBid
    BY DirFacts DEF Live
  <2>3. /\ Crosses(op, q, "tt", "CL") <=> (q.pBid - q.aAsk) - Cost["tt"] > op.start["tt"]["CL"]
        /\ Crosses(op, q, "mt", "CL") <=> (q.pBid - q.aBid) - Cost["mt"] > op.start["mt"]["CL"]
    <3>1. Sign("CL") = 1
      BY DEF Sign
    <3> QED
      BY <1>2, <1>3, <1>4, <2>2, <3>1 DEF Crosses
  <2> QED
    BY <1>5, <1>6, <2>1, <2>3, Zenon DEF CloseSpreadReached
<1>7. CASE ~IsLong(v)
  <2>1. dir = "CS" /\ IsShort(v)
    BY <1>7 DEF IsLong, IsShort
  <2>2. /\ Live(q, "tt", "CS") = q.pAsk - q.aBid
        /\ Live(q, "mt", "CS") = q.pAsk - q.aAsk
    BY DirFacts DEF Live
  <2>3. /\ Crosses(op, q, "tt", "CS") <=> (q.pAsk - q.aBid) + Cost["tt"] < op.start["tt"]["CS"]
        /\ Crosses(op, q, "mt", "CS") <=> (q.pAsk - q.aAsk) + Cost["mt"] < op.start["mt"]["CS"]
    <3>1. Sign("CS") = -1
      BY DEF Sign
    <3> QED
      BY <1>2, <1>3, <1>4, <2>2, <3>1 DEF Crosses
  <2> QED
    BY <1>5, <1>7, <2>1, <2>3, Zenon DEF CloseSpreadReached
<1> QED
  BY <1>6, <1>7

\* Of all ticks, those on which risk control finds the spread returned are those
\* on which a free pair submits a close, once its thresholds are calculated and
\* while it has something to close: for every position, every order of
\* recalculations before it and all costs.
THEOREM Regression == Spec => []RegressionMeansClose
<1>1. IInv => RegressionMeansClose
  <2> SUFFICES ASSUME IInv, NEW p \in Pairs, NEW q \in Quotes, NEW dir,
                      dir = IF IsLong(volume[p]) THEN "CL" ELSE "CS",
                      Calculated(p), CanClose(flags[p], volume[p]),
                      Room(orderParams[p], volume[p], dir)
               PROVE  LET t == ProcessPairSignal(minProfitTarget[p], orderParams[p], q, volume[p],
                                                 flags[p], m_closeOnly)
                      IN CloseSpreadReached(orderParams[p], q, volume[p])
                           <=> t # NoTrade /\ t[2] \notin Opens
    BY Zenon DEF RegressionMeansClose
  <2> DEFINE op == orderParams[p]  v == volume[p]
             sig == CheckSignalForSatisfy(minProfitTarget[p], op, q, v, flags[p].stopFlag)
  <2>1. dir \in Directions \ Opens
    BY DEF Directions, Opens
  <2>2. op \in Params /\ v \in Int /\ q \in Ticks
    BY PairFields DEF IInv, Ticks
  <2>3. \A m \in Modes : op.switch[m][dir]
    BY <2>1, Zenon DEF IInv, Fit, Closing, Calculated
  <2>4. v # 0 /\ ~flags[p].stopFlag
    BY DEF CanClose
  <2>5. ASSUME NEW m \in Modes
        PROVE  <<m, dir>> \in sig <=> q.valid /\ Crosses(op, q, m, dir)
    BY <2>1, <2>3, <2>4, <2>5 DEF CheckSignalForSatisfy
  <2>6. CloseSpreadReached(op, q, v) <=> \E m \in Modes : <<m, dir>> \in sig
    <3> HIDE DEF op, v, sig
    <3>1. dir = IF IsLong(v) THEN "CL" ELSE "CS"
      BY DEF v
    <3>2. CloseSpreadReached(op, q, v) <=> q.valid /\ \E m \in Modes : Crosses(op, q, m, dir)
      BY <2>2, <2>4, <3>1, SameComparisons
    <3> QED
      BY <2>5, <3>2, Zenon
  <2> QED
    BY <2>2, <2>6, ClosesFirst, Zenon
<1> QED
  BY <1>1, Invariant, PTL

\* What a signal says of the tick and the parameters it was drawn from.
LEMMA SignalMeans ==
  ASSUME IInv, NEW p \in Pairs, NEW m \in Modes, NEW d \in Opens, <<m, d>> \in Signals(p)
  PROVE  /\ rtSpread[p] \in Quotes
         /\ orderParams[p].switch[m][d]
         /\ Crosses(orderParams[p], rtSpread[p], m, d)
         /\ ProfitOk(minProfitTarget[p], orderParams[p], rtSpread[p], m, d)
<1>1. /\ rtSpread[p].valid
      /\ orderParams[p].switch[m][d]
      /\ Crosses(orderParams[p], rtSpread[p], m, d)
      /\ ProfitOk(minProfitTarget[p], orderParams[p], rtSpread[p], m, d)
  BY DEF Signals, CheckSignalForSatisfy
<1>2. rtSpread[p] \in Quotes \union {NoTick}
  BY PairFields DEF IInv, Ticks
<1> QED
  BY <1>1, <1>2 DEF NoTick

\* With a floor under the target, and books that are not wider than twice what
\* the floor and the costs leave, no tick signals opening long and opening
\* short at once, whichever modes the two are in.
THEOREM OneSided ==
  ASSUME minSpreadTarget > 0, NarrowBooks(OneSidedWidth)
  PROVE  Spec => []OneSideOnly
<1>1. IInv => OneSideOnly
  <2> SUFFICES ASSUME IInv, NEW p \in Pairs, NEW m \in Modes, NEW n \in Modes,
                      <<m, "OL">> \in Signals(p), <<n, "OS">> \in Signals(p)
               PROVE  FALSE
    BY DEF OneSideOnly
  <2> DEFINE op == orderParams[p]  q == rtSpread[p]
             low == op.start[m]["OL"]  high == op.start[n]["OS"]
  <2>1. "OL" \in Opens /\ "OS" \in Opens /\ Opens \subseteq Directions
    BY DirFacts DEF Opens
  <2>2. /\ q \in Quotes /\ op.switch[m]["OL"] /\ op.switch[n]["OS"]
        /\ Crosses(op, q, m, "OL") /\ Crosses(op, q, n, "OS")
    BY <2>1, SignalMeans
  <2>3. /\ Sign("OL") * op.start[m]["OL"] > minSpreadTarget
        /\ Sign("OS") * op.start[n]["OS"] > minSpreadTarget
    BY <2>1, <2>2 DEF IInv, Fit, Deep
  <2>4. low \in Int /\ high \in Int
    BY <2>1, PairFields, ParamFields DEF IInv
  <2>5. /\ q.aBid \in Int /\ q.aAsk \in Int /\ q.pBid \in Int /\ q.pAsk \in Int
        /\ q.aBid <= q.aAsk /\ q.pBid <= q.pAsk
        /\ q.aAsk - q.aBid <= OneSidedWidth + (q.pAsk - q.pBid)
    BY <2>2, TickFields DEF NarrowBooks, Ticks
  <2>6. Live(q, m, "OL") \in Int /\ Live(q, n, "OS") \in Int
    BY <2>1, <2>2, LiveType DEF Ticks
  <2>7. /\ minSpreadTarget \in Nat /\ Cost[m] \in Nat /\ Cost[n] \in Nat /\ Cost["mt"] \in Nat
    BY CostType, DirFacts, SignalsAssumption
  <2>8. (-1) * (Live(q, m, "OL") - low) > Cost[m] /\ (-1) * low > minSpreadTarget
    BY <2>2, <2>3, DirFacts DEF Crosses
  <2>9. 1 * (Live(q, n, "OS") - high) > Cost[n] /\ 1 * high > minSpreadTarget
    BY <2>2, <2>3, DirFacts DEF Crosses
  <2>10. /\ Live(q, m, "OL") = IF m = "tt" THEN q.pAsk - q.aBid ELSE q.pAsk - q.aAsk
         /\ Live(q, n, "OS") = IF n = "tt" THEN q.pBid - q.aAsk ELSE q.pBid - q.aBid
    BY DirFacts DEF Live
  <2> HIDE DEF low, high, op, q
  <2>11. Live(q, n, "OS") - Live(q, m, "OL") >= 2 * minSpreadTarget + 4 + (Cost[m] + Cost[n])
    BY <2>4, <2>6, <2>7, <2>8, <2>9
  <2>12. CASE m = "mt" /\ n = "mt"
    <3>1. Live(q, n, "OS") - Live(q, m, "OL") = (q.aAsk - q.aBid) - (q.pAsk - q.pBid)
      BY <2>5, <2>10, <2>12
    <3> QED
      BY <2>5, <2>7, <2>11, <2>12, <3>1 DEF OneSidedWidth
  <2>13. CASE m = "tt" \/ n = "tt"
    <3>1. Live(q, n, "OS") - Live(q, m, "OL") <= 0
      BY <2>5, <2>10, <2>13, DirFacts
    <3> QED
      BY <2>6, <2>7, <2>11, <3>1
  <2> QED
    BY <2>12, <2>13, DirFacts
<1> QED
  BY <1>1, Invariant, PTL

\* A signal to open in a pair with a profit target never comes with the signal
\* to close again in the same tick, in its own mode, while the active book is
\* not wider than both costs and the target.
THEOREM Keeps ==
  ASSUME \A target \in ProfitTargets \ {0} : NarrowBooks(KeptWidth(target))
  PROVE  Spec => []OpensToKeep
<1>1. ASSUME IInv, NEW p \in Pairs, minProfitTarget[p] > 0, NEW m \in Modes,
             NEW d \in Opens, NEW back, back = IF d = "OL" THEN "CL" ELSE "CS",
             <<m, d>> \in Signals(p), Crosses(orderParams[p], rtSpread[p], m, back)
      PROVE  FALSE
  <2> DEFINE op == orderParams[p]  q == rtSpread[p]  t == minProfitTarget[p]
             exit == op.start[m][back]
  <2>1. t \in ProfitTargets \ {0} /\ t \in Nat
    <3>1. minProfitTarget[p] \in ProfitTargets
      BY <1>1 DEF IInv, Typed, TypeOK
    <3>2. ProfitTargets \subseteq Nat
      BY SignalsAssumption
    <3>3. minProfitTarget[p] \in Nat
      BY <3>1, <3>2
    <3>4. minProfitTarget[p] > 0
      BY <1>1
    <3> QED
      BY <3>1, <3>3, <3>4
  <2>2. q \in Quotes /\ ProfitOk(t, op, q, m, d)
    BY <1>1, SignalMeans
  <2>3. back \in Directions /\ d \in Directions /\ Sign(back) = -Sign(d) /\ Sign(d) \in {-1, 1}
    BY <1>1, DirFacts DEF Directions
  <2>4. exit \in Int
    BY <2>3, PairFields, ParamFields, <1>1 DEF IInv
  <2>5. Live(q, m, d) \in Int /\ Live(q, m, back) \in Int /\ Cost[m] \in Nat /\ Cost["mt"] \in Nat
    BY <2>2, <2>3, LiveType, CostType, DirFacts DEF Ticks
  <2>6. /\ q.aBid \in Int /\ q.aAsk \in Int /\ q.pBid \in Int /\ q.pAsk \in Int
        /\ q.aBid <= q.aAsk /\ q.pBid <= q.pAsk
        /\ q.aAsk - q.aBid <= KeptWidth(t) + (q.pAsk - q.pBid)
    BY <2>1, <2>2, TickFields DEF NarrowBooks, Ticks
  <2>7. Sign(d) * (Live(q, m, d) - exit) - Cost[m] >= t
    BY <1>1, <2>1, <2>2 DEF ProfitOk
  <2>8. Sign(back) * (Live(q, m, back) - exit) > Cost[m]
    BY <1>1 DEF Crosses
  <2>9. Sign(d) * (Live(q, m, d) - Live(q, m, back))
          = IF m = "mt" THEN (q.aAsk - q.aBid) - (q.pAsk - q.pBid)
                        ELSE -((q.aAsk - q.aBid) + (q.pAsk - q.pBid))
    BY <1>1, <2>3, <2>6, DirFacts DEF Live
  <2> HIDE DEF op, q, t, exit
  <2>10. Sign(d) * (Live(q, m, d) - Live(q, m, back)) > 2 * Cost[m] + t
    <3>1. CASE Sign(d) = 1
      BY <2>1, <2>3, <2>4, <2>5, <2>7, <2>8, <3>1
    <3>2. CASE Sign(d) = -1
      BY <2>1, <2>3, <2>4, <2>5, <2>7, <2>8, <3>2
    <3> QED
      BY <2>3, <3>1, <3>2
  <2> QED
    BY <2>1, <2>5, <2>6, <2>9, <2>10, DirFacts DEF KeptWidth
<1>2. IInv => OpensToKeep
  BY <1>1, DirFacts DEF OpensToKeep, Opens
<1> QED
  BY <1>2, Invariant, PTL
=============================================================================
