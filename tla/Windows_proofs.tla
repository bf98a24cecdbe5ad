---------------------------- MODULE Windows_proofs ----------------------------
(* The promises of the two sliding windows, for all lengths, limits and       *)
(* numbers of requests and samples: that of the requests sent to a gateway    *)
(* (RateLimit) and that of the samples statistics are built from              *)
(* (SpreadStats).                                                             *)
EXTENDS SpreadStats, RateLimit, FiniteSums, SequenceTheorems

-----------------------------------------------------------------------------
(* The limiter.  WindowBounded is a statement about requests long forgotten   *)
(* by the list, so the inductive invariant says what the list is: the         *)
(* requests at the end of the history, the ones in front of them being out of *)
(* the window, for good, since the clock only advances.                       *)

Limits == maxPersec \in Nat /\ maxCancelPersec \in Nat /\ Second \in Nat /\ MaxClock \in Nat

ListTyped ==
  /\ clock \in Nat /\ passed \in BOOLEAN
  /\ ordertimes \in Seq(Nat) /\ sent \in Seq(Nat)

Forgotten == Len(sent) - Len(ordertimes)

ListIsTheRest ==
  /\ Len(ordertimes) <= Len(sent)
  /\ \A i \in 1..Len(ordertimes) : ordertimes[i] = sent[Forgotten + i]
  /\ \A i \in 1..Forgotten : clock > sent[i] + Second

RoomForIt == passed => Len(ordertimes) < Limit

RInv == ListTyped /\ ListIsTheRest /\ RoomForIt /\ WindowBounded

LEMMA LimitInNat == ASSUME Limits PROVE Limit \in Nat
  BY DEF Limits, Limit

\* Init establishes the invariant: nothing has been sent.
LEMMA LimitInitInv == ASSUME Limits, LimitInit PROVE RInv
  <1>1. Len(sent) = 0 /\ Len(ordertimes) = 0 /\ passed = FALSE /\ clock = 0
    BY DEF LimitInit
  <1>2. sent \in Seq(Nat) /\ ordertimes \in Seq(Nat)
    BY DEF LimitInit
  <1>3. ListTyped /\ RoomForIt
    BY <1>1, <1>2 DEF ListTyped, RoomForIt
  <1>4. ListIsTheRest /\ WindowBounded
    BY <1>1, <1>2 DEF ListIsTheRest, Forgotten, WindowBounded
  <1> QED BY <1>3, <1>4 DEF RInv

\* A check forgets a prefix of the list that is out of the window.
LEMMA CheckStep ==
  ASSUME Limits, RInv, NEW kind \in Kinds, Check(kind) PROVE RInv'
  <1> USE DEF RInv, ListTyped, ListIsTheRest, RoomForIt, Forgotten
  <1>1. PICK n \in 0..Len(ordertimes) :
          /\ Expired(ordertimes, n)
          /\ ordertimes' = SubSeq(ordertimes, n + 1, Len(ordertimes))
          /\ passed' = Passes(Len(ordertimes) - n, MaxPersec(kind))
    BY DEF Check
  <1>2. UNCHANGED <<clock, sent>>
    BY DEF Check
  <1>3. /\ ordertimes' \in Seq(Nat)
        /\ Len(ordertimes') = Len(ordertimes) - n
        /\ \A i \in 1..(Len(ordertimes) - n) : ordertimes'[i] = ordertimes[n + i]
    <2>1. ordertimes \in Seq(Nat) /\ n + 1 \in Int /\ Len(ordertimes) \in Nat
      BY <1>1
    <2>2. \A i \in (n + 1)..Len(ordertimes) : ordertimes[i] \in Nat
      BY <2>1
    <2> DEFINE Rest == SubSeq(ordertimes, n + 1, Len(ordertimes))
    <2>3. /\ Rest \in Seq(Nat)
          /\ Len(Rest) = IF n + 1 <= Len(ordertimes) THEN Len(ordertimes) - (n + 1) + 1 ELSE 0
          /\ \A i \in 1..(Len(ordertimes) - (n + 1) + 1) : Rest[i] = ordertimes[n + 1 + i - 1]
      BY <2>1, <2>2, SubSeqProperties
    <2> HIDE DEF Rest
    <2>4. Len(Rest) = Len(ordertimes) - n
      BY <2>1, <2>3
    <2>5. \A i \in 1..(Len(ordertimes) - n) : Rest[i] = ordertimes[n + i]
      BY <2>1, <2>3
    <2> QED BY <1>1, <2>3, <2>4, <2>5 DEF Rest
  <1>4. ListTyped'
    BY <1>1, <1>2, <1>3 DEF Passes
  <1>5. ListIsTheRest'
    <2>1. Forgotten' = Forgotten + n
      BY <1>2, <1>3
    <2>2. \A i \in 1..Len(ordertimes') : ordertimes'[i] = sent'[Forgotten' + i]
      BY <1>2, <1>3, <2>1
    <2>3. ASSUME NEW i \in 1..Forgotten' PROVE clock' > sent'[i] + Second
      <3>1. CASE i \in 1..Forgotten
        BY <1>2, <3>1
      <3>2. CASE i \notin 1..Forgotten
        <4>1. i - Forgotten \in 1..n
          BY <2>1, <3>2
        <4>2. sent[i] = ordertimes[i - Forgotten]
          BY <4>1
        <4> QED BY <1>1, <1>2, <4>1, <4>2 DEF Expired
      <3> QED BY <3>1, <3>2
    <2> QED BY <1>2, <1>3, <2>2, <2>3
  <1>6. RoomForIt'
    BY <1>1, <1>2, <1>3 DEF Passes, MaxPersec, Limit, Limits
  <1>7. WindowBounded'
    BY <1>2 DEF WindowBounded
  <1> QED BY <1>4, <1>5, <1>6, <1>7

\* A request that has passed: the one Limit before it is forgotten.
LEMMA OnOrderStep == ASSUME Limits, RInv, OnOrder PROVE RInv'
  <1> USE DEF RInv, ListTyped, ListIsTheRest, RoomForIt, Forgotten
  <1>1. /\ passed /\ passed' = FALSE /\ clock' = clock
        /\ ordertimes' = Append(ordertimes, clock) /\ sent' = Append(sent, clock)
    BY DEF OnOrder
  <1>2. /\ sent' \in Seq(Nat) /\ Len(sent') = Len(sent) + 1
        /\ \A i \in 1..Len(sent) : sent'[i] = sent[i]
        /\ sent'[Len(sent) + 1] = clock
    BY <1>1, AppendProperties
  <1>3. /\ ordertimes' \in Seq(Nat) /\ Len(ordertimes') = Len(ordertimes) + 1
        /\ \A i \in 1..Len(ordertimes) : ordertimes'[i] = ordertimes[i]
        /\ ordertimes'[Len(ordertimes) + 1] = clock
    BY <1>1, AppendProperties
  <1>4. ListTyped' /\ RoomForIt'
    BY <1>1, <1>2, <1>3
  <1>5. ListIsTheRest'
    <2>1. Forgotten' = Forgotten /\ Len(ordertimes') <= Len(sent')
      BY <1>2, <1>3
    <2>2. ASSUME NEW i \in 1..Len(ordertimes') PROVE ordertimes'[i] = sent'[Forgotten' + i]
      <3>1. CASE i = Len(ordertimes) + 1
        BY <1>2, <1>3, <2>1, <3>1
      <3>2. CASE i \in 1..Len(ordertimes)
        <4>1. Forgotten + i \in 1..Len(sent)
          BY <3>2
        <4> QED BY <1>2, <1>3, <2>1, <3>2, <4>1
      <3> QED BY <1>3, <3>1, <3>2
    <2>3. \A i \in 1..Forgotten' : clock' > sent'[i] + Second
      BY <1>1, <1>2, <2>1
    <2> QED BY <2>1, <2>2, <2>3
  <1>6. WindowBounded'
    <2> SUFFICES ASSUME NEW i \in 1..Len(sent'), i + Limit <= Len(sent')
                 PROVE sent'[i + Limit] > sent'[i] + Second
      BY DEF WindowBounded, Limit
    <2> DEFINE L == Limit
    <2>0. L \in Nat
      BY LimitInNat
    <2>1. CASE i + L <= Len(sent)
      <3>1. i \in 1..Len(sent) /\ i + L \in 1..Len(sent)
        BY <2>0, <2>1
      <3>2. sent[i + L] > sent[i] + Second
        BY <2>1, <3>1 DEF WindowBounded
      <3> QED BY <1>2, <3>1, <3>2
    <2>2. CASE i + L = Len(sent) + 1
      <3>1. Len(ordertimes) < L
        BY <1>1
      <3> HIDE DEF L
      <3>2. i \in 1..Forgotten
        BY <2>0, <2>2, <3>1
      <3>3. clock > sent[i] + Second
        BY <3>2
      <3>4. i \in 1..Len(sent)
        BY <3>2
      <3>5. sent'[i + L] > sent'[i] + Second
        BY <1>2, <2>2, <3>3, <3>4
      <3> QED BY <3>5 DEF L
    <2> HIDE DEF L
    <2>3. i + L <= Len(sent) \/ i + L = Len(sent) + 1
      <3>1. i + L <= Len(sent')
        BY DEF L
      <3>2. i \in Nat /\ Len(sent) \in Nat
        OBVIOUS
      <3> QED BY <1>2, <2>0, <3>1, <3>2
    <2> QED BY <2>1, <2>2, <2>3 DEF L
  <1> QED BY <1>4, <1>5, <1>6

LEMMA OtherRequestSteps ==
  ASSUME Limits, RInv, NotSent \/ Elapse \/ UNCHANGED limitVars PROVE RInv'
  <1> USE DEF RInv, ListTyped, ListIsTheRest, RoomForIt, Forgotten, WindowBounded
  <1>1. CASE NotSent
    BY <1>1 DEF NotSent, Limit
  <1>2. CASE Elapse
    <2>1. clock' = clock + 1 /\ UNCHANGED <<passed, ordertimes, sent>>
      BY <1>2 DEF Elapse
    <2>2. \A i \in 1..Forgotten : clock' > sent[i] + Second
      BY <2>1 DEF Limits
    <2> QED BY <2>1, <2>2 DEF Limit
  <1>3. CASE UNCHANGED limitVars
    BY <1>3 DEF limitVars, Limit
  <1> QED BY <1>1, <1>2, <1>3

\* No window of time sees more requests of one account than the larger of its
\* limits, for every pair of limits, every window and every length of history.
THEOREM RequestsBounded == ASSUME Limits PROVE LimitSpec => []WindowBounded
  <1>1. LimitInit => RInv
    BY LimitInitInv
  <1>2. RInv /\ [LimitNext]_limitVars => RInv'
    BY CheckStep, OnOrderStep, OtherRequestSteps DEF LimitNext
  <1>3. RInv => WindowBounded
    BY DEF RInv
  <1> QED BY <1>1, <1>2, <1>3, PTL DEF LimitSpec

-----------------------------------------------------------------------------
(* The sliding window of the samples.  A statistic is built from what is in   *)
(* the window, and the window is pruned at its front only: the invariant      *)
(* follows a sample from the tick through the queue into its window and says  *)
(* that on the whole way the samples of one pair stay in the order of their   *)
(* times, SampleGap apart.                                                    *)

Item == [pair : Pairs, s : SpreadSample]
Message == [pair : Pairs, st : Stats]

Far(s, t) == t.ts - s.ts >= SampleGap
Spaced(w) == \A i, j \in DOMAIN w : i < j => Far(w[i], w[j])

\* The samples of w come before those of p that wait in q from place n + 1 on.
Before(w, q, p, n) ==
  \A i \in DOMAIN w, j \in DOMAIN q : j > n /\ q[j].pair = p => Far(w[i], q[j].s)

\* Nothing is later than what AccumulateSpreadSample has noted.
NotLater(w, last) == \A i \in DOMAIN w : w[i].ts > 0 /\ w[i].ts <= last

WindowInOrder(p) ==
  /\ Spaced(m_spreadWindows[p])
  /\ Before(m_spreadWindows[p], m_sampleQ, p, 0)
  /\ NotLater(m_spreadWindows[p], m_lastSampleTs[p])

QueueInOrder ==
  /\ \A i, j \in DOMAIN m_sampleQ :
       i < j /\ m_sampleQ[i].pair = m_sampleQ[j].pair => Far(m_sampleQ[i].s, m_sampleQ[j].s)
  /\ \A i \in DOMAIN m_sampleQ :
       /\ m_sampleQ[i].s.ts > 0
       /\ m_sampleQ[i].s.ts <= m_lastSampleTs[m_sampleQ[i].pair]

Young(st) == st.count > 0 => st.built - st.since <= Window

AllYoung ==
  /\ \A p \in Pairs : Young(largeStats[p]) /\ Young(disk[p])
  /\ \A i \in DOMAIN m_statsQ : Young(m_statsQ[i].st)

SInv == TypeOK /\ QueueInOrder /\ (\A p \in Pairs : WindowInOrder(p)) /\ AllYoung

\* The samples of a window are samples.
LEMMA SampleOf ==
  ASSUME NEW w \in Seq(SpreadSample), NEW i \in DOMAIN w
  PROVE  w[i] \in SpreadSample /\ w[i].ts \in Time /\ w[i].ts \in Nat
<1>1. w[i] \in SpreadSample
  BY LenProperties, ElementOfSeq
<1>2. w[i].ts \in Time
  BY <1>1 DEF SpreadSample
<1> QED
  BY <1>1, <1>2, StatsAssumption DEF Time

\* Push adds what fits and changes nothing that is there.
LEMMA PushDoes ==
  ASSUME NEW S, NEW q \in Seq(S), NEW e \in Seq(S), NEW capacity \in Nat, Len(q) <= capacity
  PROVE  /\ Push(q, capacity, e) \in Seq(S)
         /\ Len(Push(q, capacity, e)) \in Len(q)..(Len(q) + Len(e))
         /\ Len(Push(q, capacity, e)) <= capacity
         /\ \A i \in 1..Len(Push(q, capacity, e)) :
              Push(q, capacity, e)[i] = IF i <= Len(q) THEN q[i] ELSE e[i - Len(q)]
<1> DEFINE n == Len(q) + Len(e)
           c == q \o e
           m == IF n < capacity THEN n ELSE capacity
           r == SubSeq(c, 1, m)
<1>1. Len(q) \in Nat /\ Len(e) \in Nat
  BY LenProperties
<1>2. /\ c \in Seq(S) /\ Len(c) = n
      /\ \A i \in 1..n : c[i] = IF i <= Len(q) THEN q[i] ELSE e[i - Len(q)]
  BY ConcatProperties
<1> HIDE DEF c
<1>3. m \in Nat /\ m <= n /\ m >= Len(q) /\ m <= capacity
  BY <1>1
<1>4. \A i \in 1..m : c[i] \in S
  BY <1>1, <1>2, <1>3, ElementOfSeq
<1> HIDE DEF m
<1>5. /\ r \in Seq(S) /\ Len(r) = IF 1 <= m THEN m - 1 + 1 ELSE 0
      /\ \A i \in 1..(m - 1 + 1) : r[i] = c[1 + i - 1]
  BY <1>3, <1>4, SubSeqProperties
<1>6. Len(r) = m
  BY <1>3, <1>5
<1>7. \A i \in 1..m : r[i] = c[i]
  BY <1>3, <1>5
<1>8. Push(q, capacity, e) = r
  BY DEF Push, c, m
<1> HIDE DEF r
<1> QED
  BY <1>1, <1>2, <1>3, <1>5, <1>6, <1>7, <1>8

\* Prune leaves the samples from some place on, all of them in the window.
LEMMA PruneDoes ==
  ASSUME NEW w \in Seq(SpreadSample), Spaced(w), now \in Nat
  PROVE  /\ Prune(w) \in Seq(SpreadSample)
         /\ Spaced(Prune(w))
         /\ \A i \in DOMAIN Prune(w) : /\ Prune(w)[i].ts >= now - Window
                                       /\ \E k \in DOMAIN w : Prune(w)[i] = w[k]
<1> DEFINE Kept == {i \in DOMAIN w : w[i].ts >= now - Window}
           First(k) == k \in Kept /\ \A j \in Kept : k <= j
           k == CHOOSE k \in Kept : \A j \in Kept : k <= j
           r == SubSeq(w, k, Len(w))
<1>1. Len(w) \in Nat /\ DOMAIN w = 1..Len(w)
  BY LenProperties
<1>2. \A i \in DOMAIN w : w[i] \in SpreadSample /\ w[i].ts \in Nat
  BY SampleOf
<1>3. CASE Kept = {}
  <2>1. Prune(w) = <<>>
    BY <1>3 DEF Prune
  <2> QED
    BY <2>1, EmptySeq DEF Spaced
<1>4. CASE Kept # {}
  <2>1. Kept \in SUBSET (0..Len(w))
    BY <1>1
  <2> HIDE DEF Kept
  <2>2. \E i \in Kept : \A j \in Kept : i <= j
    BY <1>1, <1>4, <2>1, LeastIndex
  <2>3. k \in Kept /\ \A j \in Kept : k <= j
    BY <2>2
  <2> HIDE DEF k
  <2>4. k \in 1..Len(w) /\ w[k].ts >= now - Window
    BY <1>1, <2>3 DEF Kept
  <2>5. Prune(w) = r
    BY <1>4 DEF Prune, Kept, k
  <2>6. \A i \in k..Len(w) : w[i] \in SpreadSample
    BY <1>1, <1>2, <2>4
  <2>7. /\ r \in Seq(SpreadSample)
        /\ Len(r) = IF k <= Len(w) THEN Len(w) - k + 1 ELSE 0
        /\ \A i \in 1..(Len(w) - k + 1) : r[i] = w[k + i - 1]
    BY <1>1, <2>4, <2>6, SubSeqProperties
  <2> HIDE DEF r
  <2>8. DOMAIN r = 1..Len(r) /\ Len(r) \in Nat
    BY <2>7, LenProperties
  <2>9. ASSUME NEW i \in DOMAIN r
        PROVE  /\ k + i - 1 \in DOMAIN w /\ k + i - 1 >= k /\ i \in Nat
               /\ r[i] = w[k + i - 1]
    BY <1>1, <2>4, <2>7, <2>8
  <2>10. Spaced(r)
    <3> SUFFICES ASSUME NEW i \in DOMAIN r, NEW j \in DOMAIN r, i < j PROVE Far(r[i], r[j])
      BY DEF Spaced
    <3>1. k + i - 1 < k + j - 1
      BY <2>4, <2>9
    <3> QED
      BY <2>9, <3>1 DEF Spaced
  <2>11. ASSUME NEW i \in DOMAIN r PROVE r[i].ts >= now - Window
    <3> DEFINE n == k + i - 1
    <3>1. n \in DOMAIN w /\ n >= k /\ r[i] = w[n] /\ n \in Nat /\ k \in DOMAIN w
      BY <1>1, <2>4, <2>9
    <3> HIDE DEF n
    <3>2. CASE n = k
      BY <2>4, <3>1, <3>2
    <3>3. CASE n # k
      <4>1. Far(w[k], w[n])
        BY <2>4, <3>1, <3>3 DEF Spaced
      <4>2. w[k].ts \in Nat /\ w[n].ts \in Nat
        BY <1>2, <3>1
      <4> QED
        BY <2>4, <3>1, <4>1, <4>2, StatsAssumption DEF Far
    <3> QED
      BY <3>2, <3>3
  <2> QED
    BY <2>5, <2>7, <2>9, <2>10, <2>11
<1> QED
  BY <1>3, <1>4

\* What is built from a pruned window is not older than the window.
LEMMA BuildDoes ==
  ASSUME NEW w \in Seq(SpreadSample), \A i \in DOMAIN w : w[i].ts >= now - Window,
         Spaced(w), now \in Time
  PROVE  Build(w) \in Stats /\ Young(Build(w))
<1> DEFINE F == {i \in DOMAIN w : w[i].finite}
           T == {w[i].ts : i \in DOMAIN w}
<1>1. Len(w) \in Nat /\ DOMAIN w = 1..Len(w)
  BY LenProperties
<1>2. Cardinality(F) \in Nat
  <2> DEFINE n == Len(w)
  <2>0. n \in Int /\ DOMAIN w = 1..n
    BY <1>1
  <2> HIDE DEF n
  <2>1. IsFiniteSet(1..n)
    BY <2>0, FS_Interval
  <2>2. IsFiniteSet(F)
    BY <2>0, <2>1, FS_Subset
  <2> QED
    BY <2>2, FS_CardinalityType
<1>3. \A i \in DOMAIN w : w[i].ts \in Time
  BY SampleOf
<1>4. CASE w = <<>>
  <2>1. F = {}
    BY <1>1, <1>4, EmptySeq
  <2>2. Cardinality(F) = 0
    BY <2>1, FS_EmptySet
  <2>3. Build(w) = [valid |-> Cardinality(F) >= MinSamples, count |-> Cardinality(F),
                    calcTs |-> 0, since |-> 0, built |-> now]
    BY <1>4 DEF Build
  <2> QED
    BY <2>2, <2>3, StatsAssumption DEF Stats, Young, Time
<1>5. CASE w # <<>>
  <2>1. 1 \in DOMAIN w /\ Len(w) \in DOMAIN w
    BY <1>1, <1>5, EmptySeq
  <2>2. \A t \in T : w[1].ts <= t
    <3> SUFFICES ASSUME NEW i \in DOMAIN w PROVE w[1].ts <= w[i].ts
      OBVIOUS
    <3>1. CASE i = 1
      BY <1>3, <3>1, StatsAssumption DEF Time
    <3>2. CASE i # 1
      <4>1. Far(w[1], w[i])
        BY <1>1, <2>1, <3>2 DEF Spaced
      <4> QED
        BY <1>3, <2>1, <4>1, StatsAssumption DEF Far, Time
    <3> QED
      BY <3>1, <3>2
  <2>3. w[1].ts \in T
    BY <2>1
  <2>4. Min(T) \in T
    <3> HIDE DEF T
    <3> QED
      BY <2>2, <2>3 DEF Min
  <2>5. Min(T) \in Time /\ Min(T) >= now - Window
    BY <1>3, <2>4
  <2> HIDE DEF F, T
  <2>6. Build(w) = [valid |-> Cardinality(F) >= MinSamples, count |-> Cardinality(F),
                    calcTs |-> Last(w).ts, since |-> Min(T), built |-> now]
    BY <1>5 DEF Build, F, T
  <2>7. Last(w).ts \in Time
    BY <1>3, <2>1 DEF Last
  <2>8. now - Min(T) <= Window
    BY <2>5, StatsAssumption DEF Time
  <2> QED
    BY <1>2, <2>5, <2>6, <2>7, <2>8 DEF Stats, Young
<1> QED
  BY <1>4, <1>5

\* g is the table of what the window w of p is after 0, 1, ..., n samples of q.
TakenTable(q, w, p, n, g) ==
  g = [i \in 0..n |-> IF i = 0 THEN w
                      ELSE IF q[i].pair = p THEN Append(g[i - 1], q[i].s) ELSE g[i - 1]]

LEMMA FilledByTable ==
  ASSUME NEW p
  PROVE  Filled(p) = (CHOOSE g : TakenTable(m_sampleQ, m_spreadWindows[p], p, Len(m_sampleQ), g))
                        [Len(m_sampleQ)]
BY DEF Filled, TakenTable

LEMMA TakenTableExists ==
  ASSUME NEW q, NEW w, NEW p, NEW n \in Nat
  PROVE  \E g : TakenTable(q, w, p, n, g)
<1> DEFINE Bad == {k \in 0..n : ~ \E g : TakenTable(q, w, p, k, g)}
           Take(u, i) == IF q[i].pair = p THEN Append(u, q[i].s) ELSE u
<1>1. Bad = {}
  <2> SUFFICES ASSUME Bad # {} PROVE FALSE
    OBVIOUS
  <2>1. PICK k \in Bad : k > 0 => k - 1 \in 0..n /\ k - 1 \notin Bad
    <3>1. Bad \in SUBSET (0..n)
      OBVIOUS
    <3> HIDE DEF Bad
    <3> QED
      BY <3>1, LeastIndex
  <2>2. CASE k = 0
    <3> DEFINE g == [i \in 0..0 |-> w]
    <3>1. \A i \in 0..0 : i = 0
      OBVIOUS
    <3>2. TakenTable(q, w, p, 0, g)
      BY <3>1 DEF TakenTable
    <3> QED
      BY <2>1, <2>2, <3>2
  <2>3. CASE k > 0
    <3>1. PICK h : TakenTable(q, w, p, k - 1, h)
      BY <2>1, <2>3
    <3> DEFINE last == Take(h[k - 1], k)
               g == [i \in 0..k |-> IF i = k THEN last ELSE h[i]]
    <3>2. \A i \in 0..(k - 1) : h[i] = IF i = 0 THEN w ELSE Take(h[i - 1], i)
      BY <3>1 DEF TakenTable
    <3> HIDE DEF last, Take
    <3>3. ASSUME NEW i \in 0..k PROVE g[i] = IF i = 0 THEN w ELSE Take(g[i - 1], i)
      <4>1. CASE i = k
        <5>1. g[i] = last /\ g[i - 1] = h[k - 1]
          BY <2>1, <2>3, <4>1
        <5> QED
          BY <2>3, <4>1, <5>1 DEF last
      <4>2. CASE i # k
        <5>1. i \in 0..(k - 1) /\ g[i] = h[i]
          BY <2>1, <4>2
        <5>2. i # 0 => g[i - 1] = h[i - 1]
          BY <2>1, <4>2
        <5> QED
          BY <3>2, <5>1, <5>2
      <4> QED
        BY <4>1, <4>2
    <3>4. g = [i \in 0..k |-> g[i]]
      OBVIOUS
    <3> HIDE DEF g
    <3>5. TakenTable(q, w, p, k, g)
      BY <3>3, <3>4 DEF TakenTable, Take
    <3> QED
      BY <2>1, <3>5
  <2> QED
    BY <2>1, <2>2, <2>3
<1> QED
  BY <1>1

\* A sample at the end of a window that is in order, and before what waits.
LEMMA TakeOne ==
  ASSUME NEW w \in Seq(SpreadSample), NEW s \in SpreadSample, NEW last,
         Spaced(w), NotLater(w, last), s.ts > 0, s.ts <= last, \A i \in DOMAIN w : Far(w[i], s)
  PROVE  /\ Append(w, s) \in Seq(SpreadSample)
         /\ Spaced(Append(w, s)) /\ NotLater(Append(w, s), last)
         /\ \A i \in DOMAIN Append(w, s) :
              Append(w, s)[i] = s \/ \E k \in DOMAIN w : Append(w, s)[i] = w[k]
<1> DEFINE a == Append(w, s)
<1>1. /\ a \in Seq(SpreadSample) /\ Len(a) = Len(w) + 1
      /\ \A i \in 1..Len(w) : a[i] = w[i]
      /\ a[Len(w) + 1] = s
  BY AppendProperties
<1>2. DOMAIN w = 1..Len(w) /\ DOMAIN a = 1..Len(a) /\ Len(w) \in Nat
  BY <1>1, LenProperties
<1> HIDE DEF a
<1>3. \A i \in DOMAIN a : (i \in DOMAIN w /\ a[i] = w[i]) \/ (i = Len(w) + 1 /\ a[i] = s)
  BY <1>1, <1>2
<1>4. Spaced(a)
  <2> SUFFICES ASSUME NEW i \in DOMAIN a, NEW j \in DOMAIN a, i < j PROVE Far(a[i], a[j])
    BY DEF Spaced
  <2>1. i \in DOMAIN w /\ a[i] = w[i]
    BY <1>1, <1>2, <1>3
  <2> QED
    BY <1>3, <2>1 DEF Spaced
<1>5. NotLater(a, last)
  BY <1>3 DEF NotLater
<1> QED
  BY <1>1, <1>3, <1>4, <1>5 DEF a

\* A window stays in order when it takes its samples from the queue.
LEMMA FilledDoes ==
  ASSUME TypeOK, QueueInOrder, NEW p \in Pairs, WindowInOrder(p)
  PROVE  /\ Filled(p) \in Seq(SpreadSample)
         /\ Spaced(Filled(p)) /\ NotLater(Filled(p), m_lastSampleTs[p])
<1> DEFINE q == m_sampleQ
           w == m_spreadWindows[p]
           n == Len(q)
           last == m_lastSampleTs[p]
           g == CHOOSE h : TakenTable(q, w, p, n, h)
           Fine(k) == /\ g[k] \in Seq(SpreadSample) /\ Spaced(g[k]) /\ NotLater(g[k], last)
                      /\ Before(g[k], q, p, k)
           Bad == {k \in 0..n : ~Fine(k)}
<1>1. /\ n \in Nat /\ DOMAIN q = 1..n
      /\ \A i \in DOMAIN q : q[i] \in Item
  <2>1. q \in Seq(Item)
    BY DEF TypeOK, Item
  <2> QED
    BY <2>1, LenProperties, ElementOfSeq
<1>2. TakenTable(q, w, p, n, g)
  BY <1>1, TakenTableExists
<1> HIDE DEF g
<1>3. \A i \in 0..n : g[i] = IF i = 0 THEN w
                             ELSE IF q[i].pair = p THEN Append(g[i - 1], q[i].s) ELSE g[i - 1]
  BY <1>2 DEF TakenTable
<1>4. w \in Seq(SpreadSample) /\ Spaced(w) /\ NotLater(w, last) /\ Before(w, q, p, 0)
  BY DEF TypeOK, WindowInOrder
<1>5. /\ \A i, j \in DOMAIN q : i < j /\ q[i].pair = q[j].pair => Far(q[i].s, q[j].s)
      /\ \A i \in DOMAIN q : q[i].s.ts > 0 /\ (q[i].pair = p => q[i].s.ts <= last)
  BY DEF QueueInOrder
<1> HIDE DEF q, w, n, last
<1>6. Bad = {}
  <2> SUFFICES ASSUME Bad # {} PROVE FALSE
    OBVIOUS
  <2>1. PICK k \in Bad : k > 0 => k - 1 \in 0..n /\ k - 1 \notin Bad
    <3>1. Bad \in SUBSET (0..n)
      OBVIOUS
    <3> HIDE DEF Bad
    <3> QED
      BY <1>1, <3>1, LeastIndex
  <2>2. CASE k = 0
    <3>1. g[k] = w
      BY <1>3, <2>1, <2>2
    <3> QED
      BY <1>4, <2>1, <2>2, <3>1
  <2>3. CASE k > 0
    <3>1. Fine(k - 1) /\ k \in 1..n
      BY <2>1, <2>3
    <3> DEFINE u == g[k - 1]
    <3>2. u \in Seq(SpreadSample) /\ Spaced(u) /\ NotLater(u, last) /\ Before(u, q, p, k - 1)
      BY <3>1
    <3>3. g[k] = IF q[k].pair = p THEN Append(u, q[k].s) ELSE u
      BY <1>1, <1>3, <3>1
    <3> HIDE DEF u, Fine
    <3>4. CASE q[k].pair # p
      <4>1. Before(u, q, p, k)
        BY <1>1, <3>1, <3>2 DEF Before
      <4> QED
        BY <2>1, <3>2, <3>3, <3>4, <4>1 DEF Fine
    <3>5. CASE q[k].pair = p
      <4> DEFINE s == q[k].s
                 a == Append(u, s)
      <4>1. s \in SpreadSample /\ s.ts > 0 /\ s.ts <= last
        BY <1>1, <1>5, <3>1, <3>5 DEF Item
      <4>2. \A i \in DOMAIN u : Far(u[i], s)
        BY <1>1, <3>1, <3>2, <3>5 DEF Before
      <4>3. g[k] = a
        BY <3>3, <3>5
      <4> HIDE DEF s
      <4>4. /\ a \in Seq(SpreadSample) /\ Spaced(a) /\ NotLater(a, last)
            /\ \A i \in DOMAIN a : a[i] = s \/ \E j \in DOMAIN u : a[i] = u[j]
        BY <3>2, <4>1, <4>2, TakeOne
      <4> HIDE DEF a
      <4>5. Before(a, q, p, k)
        <5> SUFFICES ASSUME NEW i \in DOMAIN a, NEW j \in DOMAIN q, j > k, q[j].pair = p
                     PROVE  Far(a[i], q[j].s)
          BY DEF Before
        <5>1. CASE a[i] = s
          BY <1>1, <1>5, <3>1, <3>5, <5>1 DEF s
        <5>2. ASSUME NEW m \in DOMAIN u, a[i] = u[m] PROVE Far(a[i], q[j].s)
          <6>1. j > k - 1
            BY <1>1, <3>1
          <6> QED
            BY <3>2, <5>2, <6>1 DEF Before
        <5> QED
          BY <4>4, <5>1, <5>2
      <4> QED
        BY <2>1, <4>3, <4>4, <4>5 DEF Fine
    <3> QED
      BY <3>4, <3>5
  <2> QED
    BY <1>1, <2>1, <2>2, <2>3
<1>7. Fine(n)
  BY <1>1, <1>6
<1>8. Filled(p) = g[n]
  BY FilledByTable DEF g, q, w, n
<1> QED
  BY <1>7, <1>8 DEF last

\* What is pushed after RunSignalOnce comes from pairs that have windows.
LEMMA OrderOfPairs ==
  ASSUME NEW S \in SUBSET Pairs
  PROVE  SetToSeq(S) \in Seq(S)
<1>1. IsFiniteSet(S)
  BY StatsAssumption, FS_Subset
<1> DEFINE n == Cardinality(S)
<1>2. n \in Nat /\ ExistsBijection(1..n, S)
  BY <1>1, FS_CardinalityType
<1> HIDE DEF n
<1>3. PICK f : f \in Bijection(1..n, S)
  BY <1>2 DEF ExistsBijection
<1>4. f \in [1..n -> S] /\ IsInjective(f)
  BY <1>3 DEF Bijection, Injection, Surjection, IsInjective
<1>5. SetToSeq(S) = CHOOSE h \in [1..n -> S] : IsInjective(h)
  BY DEF SetToSeq, n
<1>6. SetToSeq(S) \in [1..n -> S]
  BY <1>4, <1>5
<1> QED
  BY <1>2, <1>6, SeqDef

LEMMA SInit == ASSUME Init PROVE SInv
<1> USE DEF Init
<1>1. /\ NoStats \in Stats /\ Young(NoStats) /\ 0 \in Time
  BY StatsAssumption DEF NoStats, Stats, Young, Time
<1>2. /\ m_sampleQ \in Seq([pair : Pairs, s : SpreadSample]) /\ Len(m_sampleQ) = 0
      /\ m_statsQ \in Seq([pair : Pairs, st : Stats]) /\ Len(m_statsQ) = 0
      /\ \A p \in Pairs : m_spreadWindows[p] \in Seq(SpreadSample) /\ Len(m_spreadWindows[p]) = 0
  BY EmptySeq
<1>3. /\ DOMAIN m_sampleQ = {} /\ DOMAIN m_statsQ = {}
      /\ \A p \in Pairs : DOMAIN m_spreadWindows[p] = {}
  BY <1>2, LenProperties
<1>4. TypeOK
  BY <1>1, <1>2, StatsAssumption DEF TypeOK, Time
<1>5. QueueInOrder /\ AllYoung /\ \A p \in Pairs : WindowInOrder(p)
  BY <1>1, <1>3 DEF QueueInOrder, AllYoung, WindowInOrder, Spaced, Before, NotLater
<1> QED
  BY <1>4, <1>5 DEF SInv

\* A sample that is not dropped comes SampleGap after all of its pair.
LEMMA SampleStep ==
  ASSUME SInv, NEW p \in Pairs, NEW s \in SpreadSample, s.ts > 0, AccumulateSpreadSample(p, s)
  PROVE  SInv'
<1> DEFINE item == [pair |-> p, s |-> s]
           one == <<item>>
           q == m_sampleQ
<1>1. /\ ~TooSoon(p, s.ts)
      /\ m_lastSampleTs' = [m_lastSampleTs EXCEPT ![p] = s.ts]
      /\ m_sampleQ' = Push(q, SampleCapacity, one)
      /\ UNCHANGED <<now, m_spreadWindows, windowed, lastStatsUpdateUs, m_statsQ, largeStats,
                     disk, starts>>
  BY DEF AccumulateSpreadSample
<1>2. /\ q \in Seq(Item) /\ Len(q) <= SampleCapacity /\ SampleCapacity \in Nat
      /\ m_lastSampleTs \in [Pairs -> Time] /\ Len(q) \in Nat /\ DOMAIN q = 1..Len(q)
  <2>1. q \in Seq(Item) /\ Len(q) <= SampleCapacity /\ m_lastSampleTs \in [Pairs -> Time]
    BY DEF SInv, TypeOK, Item
  <2> QED
    BY <2>1, LenProperties, StatsAssumption
<1>3. item \in Item /\ item.pair = p /\ item.s = s
  BY DEF Item
<1> HIDE DEF item
<1>4. one \in Seq(Item) /\ Len(one) = 1 /\ one[1] = item
  BY <1>3
<1> HIDE DEF one, q
<1>5. /\ m_sampleQ' \in Seq(Item) /\ Len(m_sampleQ') <= SampleCapacity
      /\ Len(m_sampleQ') \in Len(q)..(Len(q) + 1)
      /\ \A i \in 1..Len(m_sampleQ') :
           m_sampleQ'[i] = IF i <= Len(q) THEN q[i] ELSE one[i - Len(q)]
  BY <1>1, <1>2, <1>4, PushDoes
<1>6. ASSUME NEW i \in DOMAIN m_sampleQ'
      PROVE  \/ i \in DOMAIN q /\ m_sampleQ'[i] = q[i]
             \/ i = Len(q) + 1 /\ m_sampleQ'[i] = item
  <2>1. i \in 1..Len(m_sampleQ')
    BY <1>5, LenProperties
  <2>2. CASE i <= Len(q)
    BY <1>2, <1>5, <2>1, <2>2
  <2>3. CASE ~(i <= Len(q))
    <3>1. i = Len(q) + 1 /\ i - Len(q) = 1
      BY <1>2, <1>5, <2>1, <2>3
    <3> QED
      BY <1>4, <1>5, <2>1, <2>3, <3>1
  <2> QED
    BY <2>2, <2>3
<1>7. s.ts \in Time /\ s.ts \in Nat /\ m_lastSampleTs[p] \in Nat
  BY <1>2, StatsAssumption DEF SpreadSample, Time
<1>8. m_lastSampleTs[p] = 0 \/ s.ts - m_lastSampleTs[p] >= SampleGap
  BY <1>1, <1>7, StatsAssumption DEF TooSoon
<1>9. m_lastSampleTs'[p] = s.ts /\ \A r \in Pairs : r # p => m_lastSampleTs'[r] = m_lastSampleTs[r]
  BY <1>1, <1>2
\* Whatever is not later than the last time of p is SampleGap before s.
<1>10. ASSUME NEW x \in SpreadSample, x.ts > 0, x.ts <= m_lastSampleTs[p]
       PROVE  Far(x, s) /\ x.ts <= s.ts
  <2>1. x.ts \in Nat
    BY StatsAssumption DEF SpreadSample, Time
  <2> QED
    BY <1>7, <1>8, <1>10, <2>1, StatsAssumption DEF Far
<1>11. QueueInOrder /\ TypeOK /\ \A r \in Pairs : WindowInOrder(r)
  BY DEF SInv
<1>12. ASSUME NEW i \in DOMAIN q
       PROVE  /\ q[i] \in Item /\ q[i].s.ts > 0 /\ q[i].s.ts <= m_lastSampleTs[q[i].pair]
              /\ q[i].pair \in Pairs /\ q[i].s \in SpreadSample
  <2>1. q[i] \in Item
    BY <1>2, ElementOfSeq
  <2> QED
    BY <1>11, <2>1 DEF QueueInOrder, Item, q
<1>13. QueueInOrder'
  <2>1. ASSUME NEW i \in DOMAIN m_sampleQ', NEW j \in DOMAIN m_sampleQ', i < j,
               m_sampleQ'[i].pair = m_sampleQ'[j].pair
        PROVE  Far(m_sampleQ'[i].s, m_sampleQ'[j].s)
    <3>1. i \in DOMAIN q /\ m_sampleQ'[i] = q[i]
      <4>1. j <= Len(q) + 1
        BY <1>2, <1>6
      <4>2. i # Len(q) + 1
        BY <1>2, <1>6, <2>1, <4>1
      <4> QED
        BY <1>6, <4>2
    <3>2. CASE j \in DOMAIN q /\ m_sampleQ'[j] = q[j]
      BY <1>11, <2>1, <3>1, <3>2 DEF QueueInOrder, q
    <3>3. CASE m_sampleQ'[j] = item
      <4>1. q[i].pair = p
        BY <1>3, <2>1, <3>1, <3>3
      <4> QED
        BY <1>3, <1>10, <1>12, <3>1, <3>3, <4>1
    <3> QED
      BY <1>6, <3>2, <3>3
  <2>2. ASSUME NEW i \in DOMAIN m_sampleQ'
        PROVE  /\ m_sampleQ'[i].s.ts > 0
               /\ m_sampleQ'[i].s.ts <= m_lastSampleTs'[m_sampleQ'[i].pair]
    <3>1. CASE i \in DOMAIN q /\ m_sampleQ'[i] = q[i]
      <4>1. CASE q[i].pair = p
        <5>1. q[i].s.ts <= s.ts
          BY <1>10, <1>12, <3>1, <4>1
        <5> QED
          BY <1>9, <1>12, <3>1, <4>1, <5>1
      <4>2. CASE q[i].pair # p
        BY <1>9, <1>12, <3>1, <4>2
      <4> QED
        BY <4>1, <4>2
    <3>2. CASE m_sampleQ'[i] = item
      BY <1>3, <1>7, <1>9, <3>2
    <3> QED
      BY <1>6, <3>1, <3>2
  <2> QED
    BY <2>1, <2>2 DEF QueueInOrder
<1>14. ASSUME NEW r \in Pairs PROVE WindowInOrder(r)'
  <2> DEFINE w == m_spreadWindows[r]
  <2>1. /\ m_spreadWindows'[r] = w /\ Spaced(w) /\ Before(w, q, r, 0)
        /\ NotLater(w, m_lastSampleTs[r]) /\ w \in Seq(SpreadSample)
    BY <1>1, <1>11 DEF WindowInOrder, TypeOK, q
  <2> HIDE DEF w
  <2>2. ASSUME NEW i \in DOMAIN w, r = p PROVE Far(w[i], s) /\ w[i].ts <= s.ts
    <3>1. w[i] \in SpreadSample /\ w[i].ts > 0 /\ w[i].ts <= m_lastSampleTs[p]
      BY <2>1, <2>2, SampleOf DEF NotLater
    <3> QED
      BY <1>10, <3>1
  <2>3. NotLater(w, m_lastSampleTs'[r])
    <3>1. CASE r = p
      BY <1>9, <2>1, <2>2, <3>1 DEF NotLater
    <3>2. CASE r # p
      BY <1>9, <2>1, <3>2
    <3> QED
      BY <3>1, <3>2
  <2>4. Before(w, m_sampleQ', r, 0)
    <3> SUFFICES ASSUME NEW i \in DOMAIN w, NEW j \in DOMAIN m_sampleQ', j > 0,
                        m_sampleQ'[j].pair = r
                 PROVE  Far(w[i], m_sampleQ'[j].s)
      BY DEF Before
    <3>1. CASE j \in DOMAIN q /\ m_sampleQ'[j] = q[j]
      BY <2>1, <3>1 DEF Before
    <3>2. CASE m_sampleQ'[j] = item
      BY <1>3, <2>2, <3>2
    <3> QED
      BY <1>6, <3>1, <3>2
  <2> QED
    BY <2>1, <2>3, <2>4 DEF WindowInOrder
<1>15. TypeOK'
  BY <1>1, <1>5, <1>7, <1>11 DEF TypeOK, Item
<1>seen. AllYoung'
  BY <1>1 DEF SInv, AllYoung
<1> QED
  BY <1>13, <1>14, <1>15, <1>seen DEF SInv

\* Statistics pass from the queue to the pairs as they are.
LEMMA UpdateStep == ASSUME SInv, UpdateLargeStats PROVE SInv'
<1> DEFINE Mine(p) == {i \in DOMAIN m_statsQ : m_statsQ[i].pair = p}
           L(p) == CHOOSE i \in Mine(p) : \A j \in Mine(p) : j <= i
           New(p) == IF Mine(p) = {} THEN largeStats[p] ELSE m_statsQ[L(p)].st
<1>1. /\ largeStats' = [p \in Pairs |-> New(p)] /\ m_statsQ' = <<>>
      /\ UNCHANGED <<now, m_lastSampleTs, m_sampleQ, m_spreadWindows, windowed, lastStatsUpdateUs,
                     disk, starts>>
  BY Zenon DEF UpdateLargeStats
<1>2. /\ TypeOK /\ AllYoung /\ m_statsQ \in Seq(Message)
      /\ Len(m_statsQ) \in Nat /\ DOMAIN m_statsQ = 1..Len(m_statsQ)
  <2>1. TypeOK /\ AllYoung /\ m_statsQ \in Seq(Message)
    BY DEF SInv, TypeOK, Message
  <2> QED
    BY <2>1, LenProperties
<1>3. ASSUME NEW p \in Pairs PROVE New(p) \in Stats /\ Young(New(p))
  <2>1. CASE Mine(p) = {}
    BY <1>2, <2>1 DEF TypeOK, AllYoung
  <2>2. CASE Mine(p) # {}
    <3>1. L(p) \in Mine(p)
      <4> DEFINE Bad == {Len(m_statsQ) - i : i \in Mine(p)}
      <4>1. Bad \in SUBSET (0..Len(m_statsQ)) /\ Bad # {}
        BY <1>2, <2>2
      <4> HIDE DEF Bad
      <4>2. PICK b \in Bad : \A j \in Bad : b <= j
        BY <1>2, <4>1, LeastIndex
      <4>3. PICK i \in Mine(p) : b = Len(m_statsQ) - i
        BY <4>2 DEF Bad
      <4>4. ASSUME NEW j \in Mine(p) PROVE j <= i
        <5>1. Len(m_statsQ) - j \in Bad
          BY DEF Bad
        <5>2. Len(m_statsQ) - i <= Len(m_statsQ) - j
          BY <4>2, <4>3, <5>1
        <5> QED
          BY <1>2, <5>2
      <4> HIDE DEF Mine
      <4> QED
        BY <4>3, <4>4
    <3>2. L(p) \in DOMAIN m_statsQ
      BY <3>1
    <3>3. m_statsQ[L(p)] \in Message
      BY <1>2, <3>2, ElementOfSeq
    <3>4. m_statsQ[L(p)].st \in Stats /\ Young(m_statsQ[L(p)].st)
      BY <1>2, <3>2, <3>3 DEF AllYoung, Message
    <3> QED
      BY <2>2, <3>4
  <2> QED
    BY <2>1, <2>2
<1> HIDE DEF New
<1>4. /\ \A p \in Pairs : Young(largeStats'[p]) /\ Young(disk'[p])
      /\ m_statsQ' \in Seq(Message) /\ Len(m_statsQ') = 0 /\ DOMAIN m_statsQ' = {}
  BY <1>1, <1>2, <1>3, EmptySeq DEF AllYoung
<1>5. largeStats' \in [Pairs -> Stats]
  BY <1>1, <1>3
<1>6. TypeOK'
  BY <1>1, <1>2, <1>4, <1>5, StatsAssumption DEF TypeOK, Message
<1>7. AllYoung'
  BY <1>4 DEF AllYoung
<1>8. QueueInOrder' /\ \A p \in Pairs : WindowInOrder(p)'
  BY <1>1 DEF SInv, QueueInOrder, WindowInOrder
<1> QED
  BY <1>6, <1>7, <1>8 DEF SInv

\* The samples of the queue go into their windows, in the order they came, and
\* what is built is built from pruned windows.
LEMMA SignalStep == ASSUME SInv, RunSignalOnce PROVE SInv'
<1> DEFINE filled == [p \in Pairs |-> Filled(p)]
           due    == now - lastStatsUpdateUs > UpdateGap
           pruned == [p \in Pairs |-> Prune(filled[p])]
           built  == [p \in Pairs |-> Build(pruned[p])]
           Seen   == windowed \union {p \in Pairs : filled[p] # <<>>}
           order  == SetToSeq(Seen)
           items  == [i \in DOMAIN order |-> [pair |-> order[i], st |-> built[order[i]]]]
           rows   == [p \in Pairs |-> IF p \in Seen /\ IsValid(built[p]) THEN built[p] ELSE NoStats]
<1>1. /\ m_sampleQ' = <<>>
      /\ m_spreadWindows' = IF due THEN pruned ELSE filled
      /\ lastStatsUpdateUs' = IF due THEN now ELSE lastStatsUpdateUs
      /\ m_statsQ' = IF ~due THEN m_statsQ ELSE Push(m_statsQ, StatsCapacity, items)
      /\ disk' = IF due THEN WriteSpreadStatsFile(rows) ELSE disk
      /\ windowed' = Seen
      /\ UNCHANGED <<now, m_lastSampleTs, largeStats, starts>>
  BY Zenon DEF RunSignalOnce
<1>2. TypeOK /\ QueueInOrder /\ AllYoung
  BY DEF SInv
<1>seen. Seen \in SUBSET Pairs
  BY <1>2 DEF TypeOK
<1>3. ASSUME NEW p \in Pairs
      PROVE  /\ filled[p] \in Seq(SpreadSample) /\ Spaced(filled[p])
             /\ NotLater(filled[p], m_lastSampleTs[p])
  BY <1>2, FilledDoes DEF SInv
<1> HIDE DEF filled
<1>4. ASSUME NEW p \in Pairs
      PROVE  /\ pruned[p] \in Seq(SpreadSample) /\ Spaced(pruned[p])
             /\ NotLater(pruned[p], m_lastSampleTs[p])
             /\ \A i \in DOMAIN pruned[p] : pruned[p][i].ts >= now - Window
  <2>1. now \in Nat
    BY <1>2, StatsAssumption DEF TypeOK, Time
  <2>2. /\ pruned[p] \in Seq(SpreadSample) /\ Spaced(pruned[p])
        /\ \A i \in DOMAIN pruned[p] : /\ pruned[p][i].ts >= now - Window
                                       /\ \E k \in DOMAIN filled[p] : pruned[p][i] = filled[p][k]
    BY <1>3, <2>1, PruneDoes
  <2> HIDE DEF pruned
  <2>3. NotLater(pruned[p], m_lastSampleTs[p])
    BY <1>3, <2>2 DEF NotLater
  <2> QED
    BY <2>2, <2>3
<1>5. pruned = [p \in Pairs |-> pruned[p]] /\ filled = [p \in Pairs |-> filled[p]]
  BY DEF filled
<1> HIDE DEF pruned
<1>6. ASSUME NEW p \in Pairs PROVE built[p] \in Stats /\ Young(built[p])
  <2>1. now \in Time
    BY <1>2 DEF TypeOK
  <2> QED
    BY <1>4, <2>1, BuildDoes
<1> HIDE DEF built
<1>7. /\ items \in Seq(Message)
      /\ \A i \in DOMAIN items : Young(items[i].st)
  <2>1. order \in Seq(Seen)
    BY <1>seen, OrderOfPairs
  <2> DEFINE n == Len(order)
  <2>2. n \in Nat /\ DOMAIN order = 1..n /\ order \in [1..n -> Seen]
    BY <2>1, LenProperties
  <2> HIDE DEF n, order, Seen
  <2>3. \A i \in 1..n : order[i] \in Pairs
    BY <1>seen, <2>2
  <2>4. items = [i \in 1..n |-> [pair |-> order[i], st |-> built[order[i]]]]
    BY <2>2
  <2>5. items \in [1..n -> Message]
    BY <1>6, <2>3, <2>4 DEF Message
  <2>6. items \in Seq(Message)
    BY <2>2, <2>5, SeqDef
  <2> QED
    BY <1>6, <2>2, <2>3, <2>6
<1> HIDE DEF items
<1>8. /\ m_statsQ' \in Seq(Message) /\ Len(m_statsQ') <= StatsCapacity
      /\ \A i \in DOMAIN m_statsQ' : Young(m_statsQ'[i].st)
  <2>1. /\ m_statsQ \in Seq(Message) /\ Len(m_statsQ) <= StatsCapacity /\ StatsCapacity \in Nat
        /\ \A i \in DOMAIN m_statsQ : Young(m_statsQ[i].st)
    BY <1>2, StatsAssumption DEF TypeOK, AllYoung, Message
  <2> DEFINE r == Push(m_statsQ, StatsCapacity, items)
  <2>2. /\ r \in Seq(Message) /\ Len(r) <= StatsCapacity
        /\ Len(r) \in Len(m_statsQ)..(Len(m_statsQ) + Len(items))
        /\ \A i \in 1..Len(r) :
             r[i] = IF i <= Len(m_statsQ) THEN m_statsQ[i] ELSE items[i - Len(m_statsQ)]
    BY <1>7, <2>1, PushDoes
  <2> HIDE DEF r
  <2>3. ASSUME NEW i \in DOMAIN r PROVE Young(r[i].st)
    <3>1. /\ i \in 1..Len(r) /\ Len(m_statsQ) \in Nat /\ Len(items) \in Nat
          /\ DOMAIN m_statsQ = 1..Len(m_statsQ) /\ DOMAIN items = 1..Len(items)
      BY <1>7, <2>1, <2>2, LenProperties
    <3>2. CASE i <= Len(m_statsQ)
      BY <2>1, <2>2, <3>1, <3>2
    <3>3. CASE ~(i <= Len(m_statsQ))
      <4>1. i - Len(m_statsQ) \in DOMAIN items /\ r[i] = items[i - Len(m_statsQ)]
        BY <2>2, <3>1, <3>3
      <4> QED
        BY <1>7, <4>1
    <3> QED
      BY <3>2, <3>3
  <2>4. m_statsQ' = IF ~due THEN m_statsQ ELSE r
    BY <1>1 DEF r
  <2> HIDE DEF due
  <2> QED
    BY <2>1, <2>2, <2>3, <2>4
<1>9. disk' \in [Pairs -> Stats] /\ \A p \in Pairs : Young(disk'[p])
  <2>1. NoStats \in Stats /\ Young(NoStats)
    BY StatsAssumption DEF NoStats, Stats, Young, Time
  <2>2. rows \in [Pairs -> Stats] /\ \A p \in Pairs : Young(rows[p])
    BY <1>6, <2>1
  <2> HIDE DEF rows, due
  <2>3. disk \in [Pairs -> Stats] /\ \A p \in Pairs : Young(disk[p])
    BY <1>2 DEF TypeOK, AllYoung
  <2>4. disk' = rows \/ disk' = disk
    BY <1>1 DEF WriteSpreadStatsFile
  <2> QED
    BY <2>2, <2>3, <2>4
<1>10. /\ m_spreadWindows' \in [Pairs -> Seq(SpreadSample)]
       /\ \A p \in Pairs : /\ Spaced(m_spreadWindows'[p])
                           /\ NotLater(m_spreadWindows'[p], m_lastSampleTs[p])
  <2> HIDE DEF due
  <2>1. CASE due
    <3>1. m_spreadWindows' = pruned
      BY <1>1, <2>1
    <3> QED
      BY <1>4, <1>5, <3>1
  <2>2. CASE ~due
    <3>1. m_spreadWindows' = filled
      BY <1>1, <2>2
    <3> QED
      BY <1>3, <1>5, <3>1
  <2> QED
    BY <2>1, <2>2
<1>11. m_sampleQ' \in Seq(Item) /\ Len(m_sampleQ') = 0 /\ DOMAIN m_sampleQ' = {}
  BY <1>1, EmptySeq
<1>12. lastStatsUpdateUs' \in Time
  BY <1>1, <1>2 DEF TypeOK
<1>13. TypeOK'
  <2>1. Len(m_sampleQ') <= SampleCapacity
    BY <1>11, StatsAssumption
  <2>2. windowed' \subseteq Pairs
    BY <1>1, <1>seen
  <2> HIDE DEF Seen
  <2> QED
    BY <1>1, <1>2, <1>8, <1>9, <1>10, <1>11, <1>12, <2>1, <2>2 DEF TypeOK, Item, Message
<1>14. QueueInOrder' /\ \A p \in Pairs : WindowInOrder(p)'
  BY <1>1, <1>10, <1>11 DEF QueueInOrder, WindowInOrder, Before
<1>15. AllYoung'
  BY <1>1, <1>2, <1>8, <1>9 DEF AllYoung
<1> QED
  BY <1>13, <1>14, <1>15 DEF SInv

\* A start begins with empty windows and the statistics of the file.
LEMMA RestartStep == ASSUME SInv, Restart PROVE SInv'
<1>1. /\ starts < MaxStarts /\ starts' = starts + 1
      /\ m_lastSampleTs' = [p \in Pairs |-> 0]
      /\ m_sampleQ' = <<>> /\ m_statsQ' = <<>>
      /\ m_spreadWindows' = [p \in Pairs |-> <<>>] /\ windowed' = {}
      /\ lastStatsUpdateUs' = now /\ UNCHANGED <<now, disk>>
      /\ largeStats' = [p \in Pairs |-> IF Fresh(disk[p]) THEN disk[p] ELSE NoStats]
  BY DEF Restart
<1>2. TypeOK /\ AllYoung
  BY DEF SInv
<1>3. NoStats \in Stats /\ Young(NoStats) /\ 0 \in Time
  BY StatsAssumption DEF NoStats, Stats, Young, Time
<1>4. largeStats' \in [Pairs -> Stats] /\ \A p \in Pairs : Young(largeStats'[p])
  BY <1>1, <1>2, <1>3 DEF TypeOK, AllYoung
<1>5. /\ m_sampleQ' \in Seq(Item) /\ Len(m_sampleQ') = 0 /\ DOMAIN m_sampleQ' = {}
      /\ m_statsQ' \in Seq(Message) /\ Len(m_statsQ') = 0 /\ DOMAIN m_statsQ' = {}
  BY <1>1, EmptySeq
<1>6. /\ m_spreadWindows' \in [Pairs -> Seq(SpreadSample)]
      /\ \A p \in Pairs : DOMAIN m_spreadWindows'[p] = {}
  BY <1>1, EmptySeq
<1>7. TypeOK'
  <2>1. starts' \in 0..MaxStarts
    BY <1>1, <1>2, StatsAssumption DEF TypeOK
  <2> QED
    BY <1>1, <1>2, <1>3, <1>4, <1>5, <1>6, <2>1, StatsAssumption DEF TypeOK, Item, Message
<1>8. QueueInOrder' /\ AllYoung' /\ \A p \in Pairs : WindowInOrder(p)'
  BY <1>1, <1>2, <1>4, <1>5, <1>6
  DEF QueueInOrder, AllYoung, WindowInOrder, Spaced, Before, NotLater
<1> QED
  BY <1>7, <1>8 DEF SInv

THEOREM SamplesInOrder == Spec => []SInv
<1>1. Init => SInv
  BY SInit
<1>2. SInv /\ [Next]_vars => SInv'
  <2> SUFFICES ASSUME SInv, [Next]_vars PROVE SInv'
    OBVIOUS
  <2>1. CASE Tick
    <3>1. /\ now < MaxTime /\ now' = now + 1
          /\ UNCHANGED <<m_lastSampleTs, m_sampleQ, m_spreadWindows, windowed,
                         lastStatsUpdateUs, m_statsQ,
                         largeStats, disk, starts>>
      BY <2>1 DEF Tick
    <3>2. now' \in Time
      BY <3>1, StatsAssumption DEF SInv, TypeOK, Time
    <3>3. TypeOK'
      BY <3>1, <3>2 DEF SInv, TypeOK
    <3> QED
      BY <3>1, <3>3, Zenon DEF SInv, QueueInOrder, WindowInOrder, AllYoung
  <2>2. ASSUME NEW p \in Pairs, NEW ts \in {t \in Time : t > 0 /\ now - t \in 0..Lag},
               NEW finite \in BOOLEAN, AccumulateSpreadSample(p, [ts |-> ts, finite |-> finite])
        PROVE  SInv'
    <3> DEFINE s == [ts |-> ts, finite |-> finite]
    <3>1. s \in SpreadSample /\ s.ts > 0
      BY DEF SpreadSample
    <3> HIDE DEF s
    <3>2. AccumulateSpreadSample(p, s)
      BY <2>2 DEF s
    <3> QED
      BY <3>1, <3>2, SampleStep
  <2>3. CASE UpdateLargeStats
    BY <2>3, UpdateStep
  <2>4. CASE RunSignalOnce
    BY <2>4, SignalStep
  <2>5. CASE Restart
    BY <2>5, RestartStep
  <2>6. CASE UNCHANGED vars
    <3>1. TypeOK'
      BY <2>6 DEF SInv, TypeOK, vars
    <3> QED
      BY <2>6, <3>1, Zenon DEF SInv, QueueInOrder, WindowInOrder, AllYoung, vars
  <2> QED
    BY <2>1, <2>2, <2>3, <2>4, <2>5, <2>6 DEF Next
<1> QED
  BY <1>1, <1>2, PTL DEF Spec

\* No statistic, in memory or in the file, is built from a sample older than the
\* window at that time: for any number of pairs, window, spacing, queue lengths
\* and lag of the ticks, over restarts.
THEOREM OnlyYoungSamples == Spec => []BuiltFromWindow
<1>1. SInv => BuiltFromWindow
  BY DEF SInv, AllYoung, Young, BuiltFromWindow
<1> QED
  BY <1>1, SamplesInOrder, PTL

\* The samples of a window are in order and SampleGap apart, with ticks that
\* come late, twice or not at all and samples lost to a full queue.
THEOREM SamplesSpaced == Spec => []WindowSpaced
<1>1. SInv => WindowSpaced
  <2> SUFFICES ASSUME SInv, NEW p \in Pairs, NEW i \in 1..Len(m_spreadWindows[p]) - 1
               PROVE  m_spreadWindows[p][i + 1].ts - m_spreadWindows[p][i].ts >= SampleGap
    BY DEF WindowSpaced
  <2> DEFINE w == m_spreadWindows[p]
  <2>1. w \in Seq(SpreadSample) /\ Spaced(w)
    BY DEF SInv, TypeOK, WindowInOrder
  <2>2. Len(w) \in Nat /\ DOMAIN w = 1..Len(w)
    BY <2>1, LenProperties
  <2>3. i \in DOMAIN w /\ i + 1 \in DOMAIN w /\ i < i + 1
    BY <2>2
  <2> HIDE DEF w
  <2>4. Far(w[i], w[i + 1])
    BY <2>1, <2>3 DEF Spaced
  <2> QED
    BY <2>4 DEF Far, w
<1> QED
  BY <1>1, SamplesInOrder, PTL
=============================================================================
