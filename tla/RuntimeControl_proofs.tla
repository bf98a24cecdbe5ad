----------------------- MODULE RuntimeControl_proofs ------------------------
(* TypeOK and NothingMissed, for all files, capacities and numbers of writes  *)
(* and crashes.  What makes the second hold is the order of stat, read and    *)
(* stamp: the invariant follows one poll through its three steps.  The first  *)
(* rests on what the loop over the commands of a file returns, for a file of  *)
(* any length.                                                                *)
EXTENDS RuntimeControl, FiniteSums, SequenceTheorems

Contents == Files \union {Torn}

Typed ==
  /\ file \in [version : Nat \ {0}, content : Contents]
  /\ pc \in {"stat", "read", "keep"} /\ text \in Contents
  /\ seen \in Nat /\ stamp \in Nat /\ m_cfgQ \in Seq(Files)

\* A version is a moment: fingerprints are never of the future, a poll begins
\* with a file that is not known, and a read after the last write read it all.
PollInOrder ==
  /\ seen <= file.version /\ stamp <= file.version
  /\ pc # "stat" => stamp # file.version
  /\ pc = "keep" /\ seen = file.version => text = file.content

IInv == Typed /\ PollInOrder /\ NothingMissed

\* What push does to a queue: the new element is the last one, or the queue was
\* full.
LEMMA PushLast ==
  ASSUME NEW q \in Seq(Files), NEW c \in Files
  PROVE  /\ Push(q, c) \in Seq(Files)
         /\ Len(q) < Capacity => Push(q, c) # <<>> /\ Last(Push(q, c)) = c
  <1>1. Append(q, c) \in Seq(Files) /\ Append(q, c) # <<>>
    BY AppendProperties
  <1>2. Len(Append(q, c)) = Len(q) + 1 /\ Append(q, c)[Len(q) + 1] = c
    BY AppendProperties
  <1> QED BY <1>1, <1>2 DEF Push, Last

LEMMA InitIInv == Init => IInv
  <1> SUFFICES ASSUME Init PROVE IInv
    OBVIOUS
  <1>1. PICK c \in Files : file = [version |-> 1, content |-> c]
    BY DEF Init
  <1>2. pc = "stat" /\ text = Torn /\ seen = 0 /\ stamp = 0 /\ m_cfgQ = <<>>
    BY DEF Init, NoStamp
  <1>3. m_cfgQ \in Seq(Files)
    BY <1>2
  <1> QED BY <1>1, <1>2, <1>3 DEF IInv, Typed, Contents, PollInOrder, NothingMissed

\* Nobody knows what has just been written.
LEMMA WriteFileStep ==
  ASSUME IInv, NEW content \in Contents, WriteFile(content) PROVE IInv'
  <1>1. /\ file' = [version |-> file.version + 1, content |-> content]
        /\ UNCHANGED <<pc, seen, text, stamp, m_cfgQ>>
    BY DEF WriteFile, signalVars
  <1>2. file.version \in Nat \ {0} /\ file'.version = file.version + 1
    BY <1>1 DEF IInv, Typed
  <1>3. Typed'
    BY <1>1, <1>2 DEF IInv, Typed
  <1>4. stamp' # file'.version /\ seen' # file'.version
    BY <1>1, <1>2 DEF IInv, Typed, PollInOrder
  <1>5. PollInOrder'
    BY <1>1, <1>2, <1>4 DEF IInv, Typed, PollInOrder
  <1> QED BY <1>3, <1>4, <1>5 DEF IInv, NothingMissed

\* The fingerprint is of now, the text not yet of anything.
LEMMA StatStep == ASSUME IInv, Stat PROVE IInv'
  <1>1. /\ pc = "stat" /\ stamp # file.version /\ seen' = file.version /\ pc' = "read"
        /\ UNCHANGED <<file, text, stamp, m_cfgQ, applied, overflow>>
    BY DEF Stat, mainVars
  <1> QED BY <1>1 DEF IInv, Typed, PollInOrder, NothingMissed, Newest

\* The text is of now, the fingerprint perhaps of earlier.
LEMMA ReadStep == ASSUME IInv, ReadRuntimeConfigFile PROVE IInv'
  <1>1. /\ pc = "read" /\ text' = file.content /\ pc' = "keep"
        /\ UNCHANGED <<file, seen, stamp, m_cfgQ, applied, overflow>>
    BY DEF ReadRuntimeConfigFile, mainVars
  <1> QED BY <1>1 DEF IInv, Typed, PollInOrder, NothingMissed, Newest

\* What is kept with the fingerprint of the file as it stands is what it holds,
\* and is then the newest thing queued.
LEMMA KeepStep == ASSUME IInv, Keep PROVE IInv'
  <1>1. /\ pc = "keep" /\ pc' = "stat" /\ text' = Torn
        /\ UNCHANGED <<file, seen, applied>>
    BY DEF Keep, mainVars
  <1>2. CASE text = Torn
    <2>1. UNCHANGED <<stamp, m_cfgQ, overflow>>
      BY <1>2 DEF Keep
    <2> QED BY <1>1, <2>1 DEF IInv, Typed, Contents, PollInOrder, NothingMissed, Newest
  <1>3. CASE text # Torn
    <2>1. /\ stamp' = seen /\ m_cfgQ' = Push(m_cfgQ, text)
          /\ overflow' = (overflow \/ Len(m_cfgQ) >= Capacity)
      BY <1>3 DEF Keep, StampKept
    <2>2. m_cfgQ \in Seq(Files) /\ text \in Files
      BY <1>3 DEF IInv, Typed, Contents
    <2>3. Typed' /\ PollInOrder'
      BY <1>1, <2>1, <2>2, PushLast DEF IInv, Typed, Contents, PollInOrder
    <2>4. NothingMissed'
      <3> SUFFICES ASSUME stamp' = file'.version, ~overflow' PROVE Newest' = file'.content
        BY DEF NothingMissed
      <3>1. text = file.content
        BY <1>1, <2>1 DEF IInv, PollInOrder
      <3>2. Len(m_cfgQ) < Capacity
        <4>1. ~(Len(m_cfgQ) >= Capacity)
          BY <2>1, Zenon
        <4> QED BY <2>2, <4>1, ControlAssumption
      <3>3. m_cfgQ' # <<>> /\ Last(m_cfgQ') = text
        BY <2>1, <2>2, <3>2, PushLast
      <3> QED BY <1>1, <3>1, <3>3 DEF Newest
    <2> QED BY <2>3, <2>4 DEF IInv
  <1> QED BY <1>2, <1>3

\* What was queued last is what is applied.
LEMMA OnTimerStep == ASSUME IInv, OnTimer PROVE IInv'
  <1>1. /\ m_cfgQ' = <<>>
        /\ UNCHANGED <<file, pc, seen, text, stamp, overflow>>
    BY DEF OnTimer, signalVars
  <1>2. applied' = IF m_cfgQ = <<>> THEN applied ELSE Last(m_cfgQ)
    BY DEF OnTimer, LastQueued
  <1>3. Newest' = Newest
    BY <1>1, <1>2 DEF Newest
  <1>4. m_cfgQ' \in Seq(Files)
    BY <1>1
  <1> QED BY <1>1, <1>3, <1>4 DEF IInv, Typed, PollInOrder, NothingMissed

\* A new process knows nothing.
LEMMA RestartStep ==
  ASSUME IInv, NEW orphans \in SUBSET Pairs, Restart(orphans) PROVE IInv'
  <1>1. /\ pc' = "stat" /\ seen' = 0 /\ text' = Torn /\ stamp' = 0
        /\ m_cfgQ' = <<>> /\ file' = file
    BY DEF Restart, NoStamp
  <1>2. m_cfgQ' \in Seq(Files)
    BY <1>1
  <1> QED BY <1>1, <1>2 DEF IInv, Typed, Contents, PollInOrder, NothingMissed

LEMMA OtherSteps ==
  ASSUME IInv,
         \/ \E p \in Pairs : CheckExposureAbnormal(p) \/ RebalanceEnds(p)
         \/ SaveSnapshot
         \/ UNCHANGED vars
  PROVE  IInv'
  <1>1. UNCHANGED <<file, pc, seen, text, stamp, m_cfgQ, applied, overflow>>
    BY DEF CheckExposureAbnormal, RebalanceEnds, SaveSnapshot, vars, signalVars, mainVars
  <1> QED BY <1>1 DEF IInv, Typed, PollInOrder, NothingMissed, Newest

\* While the signal thread believes it knows the file, what was queued or
\* applied last is what the file holds, unless the queue overflowed: however
\* often the file is written, torn and repaired between stat, read and stamp,
\* and the process restarted.
THEOREM FileNotMissed == Spec => []NothingMissed
  <1>1. IInv /\ [Next]_vars => IInv'
    <2> SUFFICES ASSUME IInv, [Next]_vars PROVE IInv'
      OBVIOUS
    <2>1. CASE \E content \in Contents : WriteFile(content)
      BY <2>1, WriteFileStep
    <2>2. CASE Stat
      BY <2>2, StatStep
    <2>3. CASE ReadRuntimeConfigFile
      BY <2>3, ReadStep
    <2>4. CASE Keep
      BY <2>4, KeepStep
    <2>5. CASE OnTimer
      BY <2>5, OnTimerStep
    <2>6. CASE \E orphans \in SUBSET Pairs : Restart(orphans)
      BY <2>6, RestartStep
    <2>7. CASE \/ \E p \in Pairs : CheckExposureAbnormal(p) \/ RebalanceEnds(p)
               \/ SaveSnapshot
               \/ UNCHANGED vars
      BY <2>7, OtherSteps
    <2> QED BY <2>1, <2>2, <2>3, <2>4, <2>5, <2>6, <2>7 DEF Next, Contents
  <1>2. IInv => NothingMissed
    BY DEF IInv
  <1> QED BY InitIInv, <1>1, <1>2, PTL DEF Spec

-----------------------------------------------------------------------------
(* The loop over the commands of a file.                                      *)

Book == [Pairs -> PairFields]
Loop == [ps : Book, returned : BOOLEAN]

\* One command leaves every pair with fields of their types.
LEMMA CommandTyped ==
  ASSUME NEW ps \in Book, NEW cmd \in PairCommand
  PROVE  ApplyPairCommand(ps, cmd) \in Book
  <1>1. cmd.profitPct \in Int /\ cmd.closeRemainVolume \in Nat
    BY DEF PairCommand
  <1>2. ASSUME NEW f \in PairFields
        PROVE  Stopped(f) \in PairFields /\ Resumed(f, cmd) \in PairFields
               /\ CloseOnly(f, cmd) \in PairFields
    <2>1. Stopped(f) \in PairFields /\ Resumed(f, cmd) \in PairFields
      BY <1>1 DEF PairFields, Stopped, Resumed
    <2> DEFINE v == IF 0 < cmd.closeRemainVolume /\ cmd.closeRemainVolume < MinVolume
                    THEN f.closeRemainVolume ELSE cmd.closeRemainVolume
    <2>2. v \in Nat
      BY <1>1 DEF PairFields
    <2> HIDE DEF v
    <2>3. CloseOnly(f, cmd)
            = [f EXCEPT !.closeFlag = TRUE, !.profitPct = cmd.profitPct, !.closeRemainVolume = v]
      BY DEF CloseOnly, PairFields, v
    <2> QED BY <1>1, <2>1, <2>2, <2>3 DEF PairFields
  <1>3. CASE cmd.key \notin Pairs
    BY <1>3, Zenon DEF ApplyPairCommand
  <1>4. CASE cmd.key \in Pairs
    <2>1. ps[cmd.key] \in PairFields
      BY <1>4 DEF Book
    <2> DEFINE key == cmd.key
    <2>2. \/ ApplyPairCommand(ps, cmd) = [ps EXCEPT ![key] = Stopped(ps[key])]
          \/ ApplyPairCommand(ps, cmd) = [ps EXCEPT ![key] = Resumed(ps[key], cmd)]
          \/ ApplyPairCommand(ps, cmd) = [ps EXCEPT ![key] = CloseOnly(ps[key], cmd)]
          \/ ApplyPairCommand(ps, cmd) = ps
      BY <1>4 DEF ApplyPairCommand
    <2>3. Stopped(ps[key]) \in PairFields /\ Resumed(ps[key], cmd) \in PairFields
          /\ CloseOnly(ps[key], cmd) \in PairFields
      BY <1>2, <2>1
    <2> HIDE DEF key
    <2> QED BY <2>2, <2>3 DEF Book
  <1> QED BY <1>3, <1>4

LEMMA TurnTyped ==
  ASSUME NEW r \in Loop, NEW cmd \in PairCommand
  PROVE  Turn(r, cmd) \in Loop
  <1>1. ApplyPairCommand(r.ps, cmd) \in Book
    BY CommandTyped DEF Loop
  <1> DEFINE A == ApplyPairCommand(r.ps, cmd)
  <1>2. Turn(r, cmd) = [r EXCEPT !.returned = TRUE] \/ Turn(r, cmd) = [r EXCEPT !.ps = A]
    BY DEF Turn
  <1> HIDE DEF A
  <1> QED BY <1>1, <1>2 DEF Loop, A

\* g is the table of what the loop has after 0, 1, ..., n commands.
LoopTable(ps, cmds, n, g) ==
  g = [i \in 0..n |-> IF i = 0 THEN [ps |-> ps, returned |-> FALSE] ELSE Turn(g[i - 1], cmds[i])]

LEMMA LoopByTable ==
  ASSUME NEW ps, NEW cmds
  PROVE  ApplyPairCommands(ps, cmds)
           = (CHOOSE g : LoopTable(ps, cmds, Len(cmds), g))[Len(cmds)].ps
  BY DEF ApplyPairCommands, LoopTable

LEMMA LoopTableExists ==
  ASSUME NEW ps, NEW cmds, NEW n \in Nat
  PROVE  \E g : LoopTable(ps, cmds, n, g)
  <1> DEFINE Bad == {k \in 0..n : ~ \E g : LoopTable(ps, cmds, k, g)}
             start == [ps |-> ps, returned |-> FALSE]
  <1>1. Bad = {}
    <2> SUFFICES ASSUME Bad # {} PROVE FALSE
      OBVIOUS
    <2>1. PICK k \in Bad : k > 0 => k - 1 \in 0..n /\ k - 1 \notin Bad
      <3>1. Bad \in SUBSET (0..n)
        OBVIOUS
      <3> HIDE DEF Bad
      <3> QED BY <3>1, LeastIndex
    <2>2. CASE k = 0
      <3> DEFINE g == [i \in 0..0 |-> start]
      <3>1. \A i \in 0..0 : i = 0
        OBVIOUS
      <3>2. LoopTable(ps, cmds, 0, g)
        BY <3>1 DEF LoopTable
      <3> QED BY <2>1, <2>2, <3>2
    <2>3. CASE k > 0
      <3>1. PICK h : LoopTable(ps, cmds, k - 1, h)
        BY <2>1, <2>3
      <3> DEFINE last == Turn(h[k - 1], cmds[k])
                 g == [i \in 0..k |-> IF i = k THEN last ELSE h[i]]
      <3>2. \A i \in 0..(k - 1) : h[i] = IF i = 0 THEN start ELSE Turn(h[i - 1], cmds[i])
        BY <3>1 DEF LoopTable
      <3> HIDE DEF last, start
      <3>3. ASSUME NEW i \in 0..k
            PROVE  g[i] = IF i = 0 THEN start ELSE Turn(g[i - 1], cmds[i])
        <4>1. CASE i = k
          <5>1. g[i] = last /\ g[i - 1] = h[k - 1]
            BY <2>1, <2>3, <4>1
          <5> QED BY <2>3, <4>1, <5>1 DEF last
        <4>2. CASE i # k
          <5>1. i \in 0..(k - 1) /\ g[i] = h[i]
            BY <2>1, <4>2
          <5>2. i # 0 => g[i - 1] = h[i - 1]
            BY <2>1, <4>2
          <5> QED BY <3>2, <5>1, <5>2
        <4> QED BY <4>1, <4>2
      <3>4. g = [i \in 0..k |-> g[i]]
        OBVIOUS
      <3> HIDE DEF g
      <3>5. LoopTable(ps, cmds, k, g)
        BY <3>3, <3>4 DEF LoopTable, start
      <3> QED BY <2>1, <3>5
    <2> QED BY <2>1, <2>2, <2>3
  <1> QED BY <1>1

\* However long the file and whatever it refuses: the pairs keep their types.
LEMMA CommandsTyped ==
  ASSUME NEW ps \in Book, NEW cmds \in Seq(PairCommand)
  PROVE  ApplyPairCommands(ps, cmds) \in Book
  <1> DEFINE n == Len(cmds)
             g == CHOOSE h : LoopTable(ps, cmds, n, h)
             Bad == {k \in 0..n : g[k] \notin Loop}
  <1>1. n \in Nat /\ \A i \in 1..n : cmds[i] \in PairCommand
    BY LenProperties
  <1>2. LoopTable(ps, cmds, n, g)
    BY <1>1, LoopTableExists
  <1> HIDE DEF g, n
  <1>3. \A i \in 0..n : g[i] = IF i = 0 THEN [ps |-> ps, returned |-> FALSE]
                               ELSE Turn(g[i - 1], cmds[i])
    BY <1>2 DEF LoopTable
  <1>4. Bad = {}
    <2> SUFFICES ASSUME Bad # {} PROVE FALSE
      OBVIOUS
    <2>1. PICK k \in Bad : k > 0 => k - 1 \in 0..n /\ k - 1 \notin Bad
      <3>1. Bad \in SUBSET (0..n)
        OBVIOUS
      <3> HIDE DEF Bad
      <3> QED BY <1>1, <3>1, LeastIndex
    <2>2. CASE k = 0
      <3>1. g[k] = [ps |-> ps, returned |-> FALSE]
        BY <1>3, <2>1, <2>2
      <3>2. [ps |-> ps, returned |-> FALSE] \in Loop
        BY DEF Loop
      <3>3. g[k] \notin Loop
        BY <2>1
      <3> QED BY <3>1, <3>2, <3>3
    <2>3. CASE k > 0
      <3>1. g[k - 1] \in Loop /\ cmds[k] \in PairCommand /\ g[k] = Turn(g[k - 1], cmds[k])
        BY <1>1, <1>3, <2>1, <2>3
      <3> QED BY <2>1, <3>1, TurnTyped
    <2> QED BY <1>1, <2>1, <2>2, <2>3
  <1>5. g[n] \in Loop
    BY <1>1, <1>4
  <1> QED BY <1>5, LoopByTable DEF Loop, g, n

-----------------------------------------------------------------------------
(* Types.                                                                     *)

LEMMA FileTyped ==
  ASSUME NEW c \in Files
  PROVE  c.pairCommands \in Seq(PairCommand) /\ Switches(c) \in [closeOnly : BOOLEAN, stopAllAlgo : BOOLEAN]
  <1>1. c \in RuntimeConfig
    BY ControlAssumption, Zenon
  <1> QED BY <1>1 DEF RuntimeConfig, Switches

LEMMA PushTyped ==
  ASSUME NEW q \in Seq(Files), NEW c \in Files, Len(q) <= Capacity
  PROVE  Push(q, c) \in Seq(Files) /\ Len(Push(q, c)) <= Capacity
  <1>1. Append(q, c) \in Seq(Files) /\ Len(Append(q, c)) = Len(q) + 1
    BY AppendProperties
  <1> QED BY <1>1, ControlAssumption DEF Push

LEMMA InitTyped == ASSUME Init PROVE TypeOK
  <1>1. PICK c \in Files : /\ file = [version |-> 1, content |-> c]
                           /\ switches = Switches(c)
    BY DEF Init
  <1>2. switches \in [closeOnly : BOOLEAN, stopAllAlgo : BOOLEAN]
    BY <1>1, FileTyped
  <1>3. PICK stops \in SUBSET Pairs : pairs = [p \in Pairs |-> Fresh(p \in stops)]
    BY DEF Init
  <1>4. pairs \in Book
    <2>1. ASSUME NEW b \in BOOLEAN PROVE Fresh(b) \in PairFields
      BY DEF Fresh, PairFields
    <2>2. ASSUME NEW p \in Pairs PROVE Fresh(p \in stops) \in PairFields
      <3>1. (p \in stops) \in BOOLEAN
        OBVIOUS
      <3> QED BY <2>1, <3>1, Zenon
    <2> QED BY <1>3, <2>2 DEF Book
  <1>5. /\ file.version = 1 /\ file.content = c
        /\ file \in [version : 1..MaxVersion, content : Files \union {Torn}]
    BY <1>1, ControlAssumption
  <1>6. /\ pc = "stat" /\ seen = 0 /\ text = Torn /\ stamp = 0 /\ m_cfgQ = <<>>
        /\ m_phase = "Reconciling" /\ saved = pairs
        /\ applied = None /\ overflow = FALSE /\ crashes = 0 /\ latches = 0
    BY DEF Init, NoStamp
  <1>7. m_cfgQ \in Seq(Files) /\ Len(m_cfgQ) <= Capacity
    BY <1>6, ControlAssumption
  <1>8. 0 \in 0..MaxVersion /\ 0 \in 0..MaxCrashes /\ 0 \in 0..MaxLatches
    BY ControlAssumption
  <1> QED BY <1>2, <1>4, <1>5, <1>6, <1>7, <1>8 DEF TypeOK, Book

\* The main loop applies what was queued last.
LEMMA OnTimerTyped == ASSUME TypeOK, OnTimer PROVE TypeOK'
  <1>1. m_phase' = "Trading" /\ m_cfgQ' = <<>>
        /\ UNCHANGED <<file, pc, seen, text, stamp, saved, overflow, crashes, latches>>
    BY DEF OnTimer, signalVars
  <1>2. m_cfgQ' \in Seq(Files) /\ Len(m_cfgQ') <= Capacity
    BY <1>1, ControlAssumption
  <1>3. /\ switches' \in [closeOnly : BOOLEAN, stopAllAlgo : BOOLEAN]
        /\ pairs' \in Book /\ applied' \in Files \union {None}
    <2>1. CASE m_cfgQ = <<>>
      <3>1. UNCHANGED <<switches, pairs, applied>>
        BY <2>1 DEF OnTimer
      <3> QED BY <3>1 DEF TypeOK, Book
    <2>2. CASE m_cfgQ # <<>>
      <3> DEFINE rc == Last(m_cfgQ)
      <3>1. rc \in Files
        <4>1. m_cfgQ \in Seq(Files)
          BY DEF TypeOK
        <4> QED BY <2>2, <4>1, LenProperties DEF Last
      <3>2. /\ switches' = Switches(rc) /\ applied' = rc
            /\ pairs' = ApplyPairCommands(pairs, rc.pairCommands)
        BY <2>2 DEF OnTimer, LastQueued
      <3> HIDE DEF rc
      <3>3. pairs \in Book /\ rc.pairCommands \in Seq(PairCommand)
        BY <3>1, FileTyped DEF TypeOK, Book
      <3> QED BY <3>1, <3>2, <3>3, FileTyped, CommandsTyped
    <2> QED BY <2>1, <2>2
  <1> QED BY <1>1, <1>2, <1>3 DEF TypeOK, Book

LEMMA RestartTyped ==
  ASSUME TypeOK, NEW orphans \in SUBSET Pairs, Restart(orphans) PROVE TypeOK'
  <1>1. /\ crashes < MaxCrashes /\ crashes' = crashes + 1 /\ file.content # Torn
        /\ pc' = "stat" /\ seen' = 0 /\ text' = Torn /\ stamp' = 0
        /\ m_cfgQ' = <<>> /\ overflow' = FALSE /\ applied' = None
        /\ m_phase' = "Reconciling" /\ switches' = Switches(file.content)
        /\ UNCHANGED <<file, saved, latches>>
    BY DEF Restart, NoStamp
  <1>2. switches' \in [closeOnly : BOOLEAN, stopAllAlgo : BOOLEAN]
    <2>1. file.content \in Files
      BY <1>1 DEF TypeOK
    <2> QED BY <1>1, <2>1, FileTyped
  <1>3. pairs' \in Book
    <2>1. ASSUME NEW f \in PairFields
          PROVE  Restored(f) \in PairFields /\ Stopped(Restored(f)) \in PairFields
      <3>1. Restored(f) \in PairFields
        BY DEF PairFields, Restored
      <3> QED BY <3>1 DEF PairFields, Stopped
    <2>2. pairs' = [p \in Pairs |-> IF p \in orphans THEN Stopped(Restored(saved[p]))
                                    ELSE Restored(saved[p])]
      BY DEF Restart
    <2>3. \A p \in Pairs : saved[p] \in PairFields
      BY DEF TypeOK
    <2> QED BY <2>1, <2>2, <2>3 DEF Book
  <1>4. m_cfgQ' \in Seq(Files) /\ Len(m_cfgQ') <= Capacity
    BY <1>1, ControlAssumption
  <1>5. 0 \in 0..MaxVersion /\ crashes' \in 0..MaxCrashes
    BY <1>1, ControlAssumption DEF TypeOK
  <1> QED BY <1>1, <1>2, <1>3, <1>4, <1>5 DEF TypeOK, Book

\* What is read, queued, applied, saved and restored keeps to its types, for
\* files with any number of commands: in particular the queue stays within its
\* capacity and no command leaves a pair with fields of another kind.
THEOREM TypeCorrect == Spec => []TypeOK
  <1>1. TypeOK /\ [Next]_vars => TypeOK'
    <2> SUFFICES ASSUME TypeOK, [Next]_vars PROVE TypeOK'
      OBVIOUS
    <2>1. ASSUME NEW content \in Files \union {Torn}, WriteFile(content) PROVE TypeOK'
      <3>1. /\ file.version < MaxVersion
            /\ file' = [version |-> file.version + 1, content |-> content]
            /\ UNCHANGED <<pc, seen, text, stamp, m_cfgQ, m_phase, switches, pairs, applied,
                           saved, overflow, crashes, latches>>
        BY <2>1 DEF WriteFile, signalVars, mainVars
      <3>2. file.version \in 1..MaxVersion /\ MaxVersion \in Nat
        BY ControlAssumption DEF TypeOK
      <3>3. file' \in [version : 1..MaxVersion, content : Files \union {Torn}]
        BY <3>1, <3>2
      <3> QED BY <3>1, <3>3 DEF TypeOK
    <2>2. CASE Stat
      <3>1. /\ seen' = file.version /\ pc' = "read"
            /\ UNCHANGED <<file, text, stamp, m_cfgQ, m_phase, switches, pairs, applied,
                           saved, overflow, crashes, latches>>
        BY <2>2 DEF Stat, mainVars
      <3>2. seen' \in 0..MaxVersion
        BY <3>1, ControlAssumption DEF TypeOK
      <3> QED BY <3>1, <3>2 DEF TypeOK
    <2>3. CASE ReadRuntimeConfigFile
      <3>1. /\ text' = file.content /\ pc' = "keep"
            /\ UNCHANGED <<file, seen, stamp, m_cfgQ, m_phase, switches, pairs, applied,
                           saved, overflow, crashes, latches>>
        BY <2>3 DEF ReadRuntimeConfigFile, mainVars
      <3> QED BY <3>1 DEF TypeOK
    <2>4. CASE Keep
      <3>1. /\ pc' = "stat" /\ text' = Torn
            /\ UNCHANGED <<file, seen, m_phase, switches, pairs, applied, saved, crashes, latches>>
        BY <2>4 DEF Keep, mainVars
      <3>2. CASE text = Torn
        <4>1. UNCHANGED <<stamp, m_cfgQ, overflow>>
          BY <2>4, <3>2 DEF Keep
        <4> QED BY <3>1, <4>1 DEF TypeOK
      <3>3. CASE text # Torn
        <4>1. /\ stamp' = seen /\ m_cfgQ' = Push(m_cfgQ, text) /\ overflow' \in BOOLEAN
          BY <2>4, <3>3 DEF Keep, StampKept
        <4>2. m_cfgQ \in Seq(Files) /\ text \in Files /\ Len(m_cfgQ) <= Capacity
          BY <3>3 DEF TypeOK
        <4>3. m_cfgQ' \in Seq(Files) /\ Len(m_cfgQ') <= Capacity
          BY <4>1, <4>2, PushTyped
        <4> QED BY <3>1, <4>1, <4>3 DEF TypeOK
      <3> QED BY <3>2, <3>3
    <2>5. CASE OnTimer
      BY <2>5, OnTimerTyped
    <2>6. ASSUME NEW p \in Pairs, CheckExposureAbnormal(p) \/ RebalanceEnds(p) PROVE TypeOK'
      <3>1. UNCHANGED <<file, pc, seen, text, stamp, m_cfgQ, m_phase, switches, saved, applied,
                        overflow, crashes>>
        BY <2>6 DEF CheckExposureAbnormal, RebalanceEnds, signalVars
      <3>2. pairs' \in [Pairs -> PairFields]
        <4>1. pairs \in [Pairs -> PairFields] /\ pairs[p] \in PairFields
          BY DEF TypeOK
        <4>2. [pairs[p] EXCEPT !.stopFlag = TRUE, !.reBalance = TRUE] \in PairFields
              /\ [pairs[p] EXCEPT !.reBalance = FALSE] \in PairFields
          BY <4>1 DEF PairFields
        <4>3. CASE CheckExposureAbnormal(p)
          BY <4>1, <4>2, <4>3 DEF CheckExposureAbnormal
        <4>4. CASE RebalanceEnds(p)
          BY <4>1, <4>2, <4>4 DEF RebalanceEnds
        <4> QED BY <2>6, <4>3, <4>4
      <3>3. latches' \in 0..MaxLatches
        BY <2>6, ControlAssumption DEF CheckExposureAbnormal, RebalanceEnds, TypeOK
      <3> QED BY <3>1, <3>2, <3>3 DEF TypeOK
    <2>7. CASE SaveSnapshot
      <3>1. saved' = pairs /\ UNCHANGED <<file, pc, seen, text, stamp, m_cfgQ, m_phase, switches,
                                          pairs, applied, overflow, crashes, latches>>
        BY <2>7 DEF SaveSnapshot, signalVars, mainVars
      <3> QED BY <3>1 DEF TypeOK
    <2>8. ASSUME NEW orphans \in SUBSET Pairs, Restart(orphans) PROVE TypeOK'
      BY <2>8, RestartTyped
    <2>9. CASE UNCHANGED vars
      BY <2>9 DEF TypeOK, vars, signalVars, mainVars
    <2> QED BY <2>1, <2>2, <2>3, <2>4, <2>5, <2>6, <2>7, <2>8, <2>9 DEF Next
  <1> QED BY InitTyped, <1>1, PTL DEF Spec
=============================================================================
