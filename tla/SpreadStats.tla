----------------------------- MODULE SpreadStats -----------------------------
(* The spread statistics of every pair: the main loop samples the spreads and *)
(* queues the samples, the signal thread keeps them in a sliding window and   *)
(* builds statistics from it now and then, queues them back and writes the    *)
(* valid ones to a file, from which the next start restores those that are    *)
(* not too old.                                                               *)
(*                                                                            *)
(* A sample is its time and whether its spreads are finite; a statistic is    *)
(* its validity, its time and what it was built from: the quantiles           *)
(* themselves are left out.                                                   *)
EXTENDS SequencesExt

CONSTANTS
  Pairs,
  Window,        \* spreadStatsWindowSec
  SampleGap,     \* spreadSampleIntervalSec
  UpdateGap,     \* spreadStatsUpdateIntervalSec
  MinSamples,    \* spreadStatsMinSamples
  MaxStale,      \* spreadStatsMaxStaleSec
  SampleCapacity, StatsCapacity, \* of the two queues
  Lag,           \* a tick says generateTs, at most this long ago
  MaxTime,       \* bound: the clock
  MaxStarts      \* bound: starts after the first

ASSUME StatsAssumption ==
  /\ IsFiniteSet(Pairs)
  /\ Window \in Nat \ {0} /\ SampleGap \in Nat \ {0} /\ UpdateGap \in Nat
  /\ MinSamples \in Nat \ {0} /\ MaxStale \in Nat
  /\ SampleCapacity \in Nat \ {0} /\ StatsCapacity \in Nat \ {0}
  /\ Lag \in Nat /\ MaxTime \in Nat \ {0} /\ MaxStarts \in Nat

VARIABLES
  now,         \* the clock, which starts at 1
  m_lastSampleTs, \* per pair; 0 before the first sample
  m_sampleQ,
  m_spreadWindows, \* the samples of each pair's window
  windowed,    \* the keys of m_spreadWindows: the pairs that have a window
  lastStatsUpdateUs,
  m_statsQ,
  largeStats,  \* PairInfo.largeStats of each pair
  disk,        \* the statistics file: the row of each pair, if it has one
  starts

vars == <<now, m_lastSampleTs, m_sampleQ, m_spreadWindows, windowed, lastStatsUpdateUs,
          m_statsQ, largeStats, disk, starts>>

Time == 0..MaxTime
SpreadSample == [ts : Time, finite : BOOLEAN]
\* count: the finite samples.  since and built: history, the oldest sample of
\* the window and when the statistic was built.
Stats == [valid : BOOLEAN, count : Nat, calcTs : Time, since : Time, built : Time]
NoStats == [valid |-> FALSE, count |-> 0, calcTs |-> 0, since |-> 0, built |-> 0]

IsValid(st) == st.valid /\ st.count > 0

-----------------------------------------------------------------------------
(* SpreadStatsBuilder                                                         *)

\* Faulty variant: nothing leaves the window.
Unpruned(w) == w

\* Prune: samples too old leave at the front, up to the first that is not.
Prune(w) ==
  LET Kept == {i \in DOMAIN w : w[i].ts >= now - Window}
  IN IF Kept = {} THEN <<>> ELSE SubSeq(w, CHOOSE i \in Kept : \A j \in Kept : i <= j, Len(w))

Build(w) ==
  LET n == Cardinality({i \in DOMAIN w : w[i].finite})
  IN [valid  |-> n >= MinSamples,
      count  |-> n,
      calcTs |-> IF w = <<>> THEN 0 ELSE Last(w).ts,
      since  |-> IF w = <<>> THEN 0 ELSE Min({w[i].ts : i \in DOMAIN w}),
      built  |-> now]

-----------------------------------------------------------------------------
(* The main loop.                                                             *)

\* Pushing one element after the other: what does not fit is lost.
Push(q, capacity, elements) ==
  LET n == Len(q) + Len(elements)
  IN SubSeq(q \o elements, 1, IF n < capacity THEN n ELSE capacity)

\* Faulty variant: only a repeated tick is dropped.
TooEarly(p, ts) == ts = m_lastSampleTs[p]

\* A pair is sampled at most once in SampleGap.
TooSoon(p, ts) == m_lastSampleTs[p] > 0 /\ ts - m_lastSampleTs[p] < SampleGap

\* OnSpread: the time of the sample counts, also when the queue is full and the
\* sample is lost.
AccumulateSpreadSample(p, s) ==
  /\ ~TooSoon(p, s.ts)
  /\ m_lastSampleTs' = [m_lastSampleTs EXCEPT ![p] = s.ts]
  /\ m_sampleQ' = Push(m_sampleQ, SampleCapacity, <<[pair |-> p, s |-> s]>>)
  /\ UNCHANGED <<now, m_spreadWindows, windowed, lastStatsUpdateUs, m_statsQ, largeStats,
                 disk, starts>>

\* OnTimer: every statistic replaces the pair's, in the order they were built.
UpdateLargeStats ==
  /\ m_statsQ # <<>>
  /\ largeStats' =
       [p \in Pairs |->
          LET Mine == {i \in DOMAIN m_statsQ : m_statsQ[i].pair = p}
          IN IF Mine = {} THEN largeStats[p]
             ELSE m_statsQ[CHOOSE i \in Mine : \A j \in Mine : j <= i].st]
  /\ m_statsQ' = <<>>
  /\ UNCHANGED <<now, m_lastSampleTs, m_sampleQ, m_spreadWindows, windowed,
                 lastStatsUpdateUs, disk, starts>>

-----------------------------------------------------------------------------
(* The signal thread.                                                         *)

\* The window of p when it has taken its samples from the queue.
Filled(p) ==
  LET taken[i \in 0..Len(m_sampleQ)] ==
        IF i = 0 THEN m_spreadWindows[p]
        ELSE IF m_sampleQ[i].pair = p THEN Append(taken[i - 1], m_sampleQ[i].s)
             ELSE taken[i - 1]
  IN taken[Len(m_sampleQ)]

\* WriteSpreadStatsFile replaces the file, unless nothing is valid.
WriteSpreadStatsFile(rows) == IF \A p \in Pairs : rows[p] = NoStats THEN disk ELSE rows

\* RunSignalOnce: all samples go into their windows; when the time has come the
\* windows are pruned and statistics built, valid or not.  A window is made by
\* the first sample of its pair and stays, also when it is pruned empty.
RunSignalOnce ==
  LET filled == [p \in Pairs |-> Filled(p)]
      due    == now - lastStatsUpdateUs > UpdateGap
      pruned == [p \in Pairs |-> Prune(filled[p])]
      built  == [p \in Pairs |-> Build(pruned[p])]
      Seen   == windowed \union {p \in Pairs : filled[p] # <<>>}
      order  == SetToSeq(Seen)
  IN
  /\ m_sampleQ # <<>> \/ due
  /\ m_sampleQ' = <<>>
  /\ m_spreadWindows' = IF due THEN pruned ELSE filled
  /\ windowed' = Seen
  /\ lastStatsUpdateUs' = IF due THEN now ELSE lastStatsUpdateUs
  /\ m_statsQ' = IF ~due THEN m_statsQ
                 ELSE Push(m_statsQ, StatsCapacity, [i \in DOMAIN order |->
                             [pair |-> order[i], st |-> built[order[i]]]])
  /\ disk' = IF due THEN WriteSpreadStatsFile([p \in Pairs |->
                           IF p \in Seen /\ IsValid(built[p]) THEN built[p] ELSE NoStats])
             ELSE disk
  /\ UNCHANGED <<now, m_lastSampleTs, largeStats, starts>>

-----------------------------------------------------------------------------
Tick ==
  /\ now < MaxTime
  /\ now' = now + 1
  /\ UNCHANGED <<m_lastSampleTs, m_sampleQ, m_spreadWindows, windowed, lastStatsUpdateUs,
                 m_statsQ, largeStats, disk, starts>>

\* LoadSpreadStats: a row is restored when it has a time that is neither too old
\* nor in the future.
Fresh(st) ==
  /\ MaxStale > 0 /\ st.calcTs > 0
  /\ now - st.calcTs \in 0..MaxStale
  /\ IsValid(st)

Restart ==
  /\ starts < MaxStarts
  /\ starts' = starts + 1
  /\ m_lastSampleTs' = [p \in Pairs |-> 0]
  /\ m_sampleQ' = <<>> /\ m_statsQ' = <<>>
  /\ m_spreadWindows' = [p \in Pairs |-> <<>>] /\ windowed' = {}
  /\ lastStatsUpdateUs' = now
  /\ largeStats' = [p \in Pairs |-> IF Fresh(disk[p]) THEN disk[p] ELSE NoStats]
  /\ UNCHANGED <<now, disk>>

Init ==
  /\ now = 1 /\ lastStatsUpdateUs = 1
  /\ m_lastSampleTs = [p \in Pairs |-> 0]
  /\ m_sampleQ = <<>> /\ m_statsQ = <<>>
  /\ m_spreadWindows = [p \in Pairs |-> <<>>] /\ windowed = {}
  /\ largeStats = [p \in Pairs |-> NoStats] /\ disk = [p \in Pairs |-> NoStats]
  /\ starts = 0

Next ==
  \/ Tick
  \/ \E p \in Pairs, ts \in {t \in Time : t > 0 /\ now - t \in 0..Lag}, finite \in BOOLEAN :
       AccumulateSpreadSample(p, [ts |-> ts, finite |-> finite])
  \/ UpdateLargeStats
  \/ RunSignalOnce
  \/ Restart

Spec == Init /\ [][Next]_vars

-----------------------------------------------------------------------------
TypeOK ==
  /\ now \in Time /\ lastStatsUpdateUs \in Time
  /\ m_lastSampleTs \in [Pairs -> Time]
  /\ m_sampleQ \in Seq([pair : Pairs, s : SpreadSample]) /\ Len(m_sampleQ) <= SampleCapacity
  /\ m_statsQ \in Seq([pair : Pairs, st : Stats]) /\ Len(m_statsQ) <= StatsCapacity
  /\ m_spreadWindows \in [Pairs -> Seq(SpreadSample)] /\ windowed \subseteq Pairs
  /\ largeStats \in [Pairs -> Stats] /\ disk \in [Pairs -> Stats]
  /\ starts \in 0..MaxStarts

\* No statistic, in memory or in the file, was built from a sample that was
\* older than the window when it was built.  Prune only looks at the front, so
\* this needs the samples of a pair to arrive in the order of their times,
\* through the queue and whatever the ticks say.
BuiltFromWindow ==
  \A p \in Pairs : \A st \in {largeStats[p], disk[p]} :
    st.count > 0 => st.built - st.since <= Window

\* The samples of a window are in order and at least SampleGap apart, which is
\* what bounds its length, with ticks that arrive late or twice.
WindowSpaced ==
  \A p \in Pairs : \A i \in 1..Len(m_spreadWindows[p]) - 1 :
    m_spreadWindows[p][i + 1].ts - m_spreadWindows[p][i].ts >= SampleGap
=============================================================================
