--------------------------- MODULE RuntimeControl ----------------------------
(* The runtime configuration on its way from the file to the pairs: an        *)
(* operator rewrites the file, the signal thread polls its fingerprint, reads *)
(* it and queues what it read, and the main loop applies the last of what is  *)
(* queued, once startup reconciliation is over.  The process may crash.       *)
EXTENDS SequencesExt

CONSTANTS
  Pairs,        \* pairs the process trades
  Unknown,      \* a pair key no pair has
  Torn,         \* a content that ReadRuntimeConfigFile refuses: an empty file,
                \* half of one, one that is not JSON, one with more than
                \* kMaxPairCommands commands or a bad number
  None,         \* no configuration
  Files,        \* contents the operator may save
  Capacity,     \* of m_cfgQ
  MinVolume,    \* activeParam.minVolume of every pair
  MaxVersion,   \* bound: writes to the file
  MaxCrashes,   \* bound: crashes
  MaxLatches    \* bound: abnormal exposures

PairCommandType == {"NONE", "STOP", "CLOSE", "RESUME", "MODIFY"}
PairCommand ==
  [key : Pairs \union {Unknown}, cmdType : PairCommandType,
   profitPct : Int, closeRemainVolume : Nat]
RuntimeConfig ==
  [closeOnly : BOOLEAN, stopAllAlgo : BOOLEAN, pairCommands : Seq(PairCommand)]

ASSUME ControlAssumption ==
  /\ Unknown \notin Pairs
  /\ Files \subseteq RuntimeConfig /\ Torn \notin Files /\ None \notin Files
  /\ Capacity \in Nat \ {0} /\ MinVolume \in Nat
  /\ MaxVersion \in Nat \ {0} /\ MaxCrashes \in Nat /\ MaxLatches \in Nat

NoStamp == 0

VARIABLES
  file,      \* [version, content]; version: its inode, mtime and size
  pc,        \* signal thread: "stat", "read" or "keep"
  seen,      \* the fingerprint RunSignalOnce took
  text,      \* what it read of the file
  stamp,     \* m_cfgStamp
  m_cfgQ,    \* configurations read and not yet applied
  m_phase,   \* "Reconciling" or "Trading"
  switches,  \* closeOnly, stopAllAlgo
  pairs,     \* PairInfo of each pair: its command fields
  saved,     \* the fields the last snapshot holds
  applied,   \* history: the last configuration applied since the start
  overflow,  \* history: the queue refused a configuration since the start
  crashes, latches

signalVars == <<pc, seen, text, stamp>>
mainVars   == <<m_phase, switches, pairs, applied>>
vars == <<file, signalVars, m_cfgQ, mainVars, saved, overflow, crashes, latches>>

PairFields == [stopFlag : BOOLEAN, closeFlag : BOOLEAN, reBalance : BOOLEAN,
               profitPct : Int, closeRemainVolume : Nat]
Switches(c) == [closeOnly |-> c.closeOnly, stopAllAlgo |-> c.stopAllAlgo]

-----------------------------------------------------------------------------
(* Applying a configuration.                                                  *)

\* STOP leaves the two numbers alone.
Stopped(p) == [p EXCEPT !.stopFlag = TRUE]
Resumed(p, cmd) ==
  [stopFlag |-> FALSE, closeFlag |-> FALSE, reBalance |-> FALSE,
   profitPct |-> cmd.profitPct, closeRemainVolume |-> cmd.closeRemainVolume]
\* A remainder below the smallest order is refused, the rest is not.
CloseOnly(p, cmd) ==
  [p EXCEPT !.closeFlag = TRUE, !.profitPct = cmd.profitPct,
            !.closeRemainVolume = IF 0 < cmd.closeRemainVolume
                                     /\ cmd.closeRemainVolume < MinVolume
                                  THEN @ ELSE cmd.closeRemainVolume]

\* The branch meant for CLOSE is taken by every type but CLOSE, STOP and RESUME.
TakesCloseBranch(cmd) == cmd.cmdType \in {"NONE", "MODIFY"}

\* Faulty variant: a mistyped key is refused like a wrong command.
RefusesUnknown(ps, cmd) ==
  cmd.key \notin Pairs \/ (TakesCloseBranch(cmd) /\ ps[cmd.key].stopFlag)

\* A refused command returns: the commands behind it are not looked at.
Refuses(ps, cmd) ==
  cmd.key \in Pairs /\ TakesCloseBranch(cmd) /\ ps[cmd.key].stopFlag

ApplyPairCommand(ps, cmd) ==
  CASE cmd.key \notin Pairs    -> ps
    [] cmd.key \in Pairs /\ cmd.cmdType = "STOP" ->
         [ps EXCEPT ![cmd.key] = Stopped(@)]
    [] cmd.key \in Pairs /\ cmd.cmdType = "RESUME" ->
         [ps EXCEPT ![cmd.key] = Resumed(@, cmd)]
    [] cmd.key \in Pairs /\ TakesCloseBranch(cmd) ->
         [ps EXCEPT ![cmd.key] = CloseOnly(@, cmd)]
    [] OTHER -> ps

\* One turn of the loop over the commands.
Turn(r, cmd) ==
  IF r.returned \/ Refuses(r.ps, cmd) THEN [r EXCEPT !.returned = TRUE]
  ELSE [r EXCEPT !.ps = ApplyPairCommand(@, cmd)]

\* after[i]: the pairs after i commands, and whether the loop has returned.
ApplyPairCommands(ps, cmds) ==
  LET after[i \in 0..Len(cmds)] == IF i = 0 THEN [ps |-> ps, returned |-> FALSE]
                                   ELSE Turn(after[i - 1], cmds[i])
  IN after[Len(cmds)].ps

-----------------------------------------------------------------------------
(* The operator.  The file may pass through a torn state, or be replaced.     *)

WriteFile(content) ==
  /\ file.version < MaxVersion
  /\ file.content # content
  /\ file' = [version |-> file.version + 1, content |-> content]
  /\ UNCHANGED <<signalVars, m_cfgQ, mainVars, saved, overflow, crashes, latches>>

(* The signal thread, RunSignalOnce: stat, read, then keep what was read.      *)

Stat ==
  /\ pc = "stat"
  /\ stamp # file.version
  /\ seen' = file.version
  /\ pc' = "read"
  /\ UNCHANGED <<file, text, stamp, m_cfgQ, mainVars, saved, overflow, crashes, latches>>

ReadRuntimeConfigFile ==
  /\ pc = "read"
  /\ text' = file.content
  /\ pc' = "keep"
  /\ UNCHANGED <<file, seen, stamp, m_cfgQ, mainVars, saved, overflow, crashes, latches>>

\* Faulty variant: the fingerprint is taken after the read.
StampNow == file.version

\* The fingerprint kept is that of the stat before the read.
StampKept == seen

\* Faulty variant: the queue is not bounded.
PushAlways(q, c) == Append(q, c)

\* push returns false when the queue is full, and nobody looks.
Push(q, c) == IF Len(q) < Capacity THEN Append(q, c) ELSE q

\* A read that failed leaves the fingerprint alone: the next poll tries again.
Keep ==
  /\ pc = "keep"
  /\ pc' = "stat"
  /\ IF text = Torn THEN UNCHANGED <<stamp, m_cfgQ, overflow>>
     ELSE /\ stamp' = StampKept
          /\ m_cfgQ' = Push(m_cfgQ, text)
          /\ overflow' = (overflow \/ Len(m_cfgQ) >= Capacity)
  /\ text' = Torn
  /\ UNCHANGED <<file, seen, mainVars, saved, crashes, latches>>

(* The main loop.                                                             *)

LastQueued(q) == Last(q)

\* OnTimer, which until reconciliation succeeds returns before it looks at the
\* queue.  Then the queue is drained, and only what was popped last is applied.
OnTimer ==
  /\ m_cfgQ # <<>> \/ m_phase # "Trading"
  /\ m_phase' = "Trading"
  /\ m_cfgQ' = <<>>
  /\ IF m_cfgQ = <<>> THEN UNCHANGED <<switches, pairs, applied>>
     ELSE LET rc == LastQueued(m_cfgQ) IN
          /\ switches' = Switches(rc)
          /\ pairs' = ApplyPairCommands(pairs, rc.pairCommands)
          /\ applied' = rc
  /\ UNCHANGED <<file, signalVars, saved, overflow, crashes, latches>>

\* CheckExposureAbnormal, and the end of the rebalance it asks for.
CheckExposureAbnormal(p) ==
  /\ m_phase = "Trading" /\ latches < MaxLatches
  /\ ~pairs[p].reBalance
  /\ pairs' = [pairs EXCEPT ![p].stopFlag = TRUE, ![p].reBalance = TRUE]
  /\ latches' = latches + 1
  /\ UNCHANGED <<file, signalVars, m_cfgQ, m_phase, switches, saved, applied, overflow, crashes>>

RebalanceEnds(p) ==
  /\ pairs[p].reBalance
  /\ pairs' = [pairs EXCEPT ![p].reBalance = FALSE]
  /\ UNCHANGED <<file, signalVars, m_cfgQ, m_phase, switches, saved, applied, overflow,
                 crashes, latches>>

\* The snapshot has no column for reBalance and closeRemainVolume.
Restored(p) == [p EXCEPT !.reBalance = FALSE, !.closeRemainVolume = 0]

SaveSnapshot ==
  /\ m_phase = "Trading"
  /\ saved' = pairs
  /\ saved' # saved
  /\ UNCHANGED <<file, signalVars, m_cfgQ, mainVars, overflow, crashes, latches>>

\* A crash and the next start: pre_start parses the file itself (it must be
\* whole) for the two switches, the snapshot gives the flags, and an orphan
\* algo order may freeze its pair.
Restart(orphans) ==
  /\ crashes < MaxCrashes
  /\ file.content # Torn
  /\ crashes' = crashes + 1
  /\ pc' = "stat" /\ seen' = NoStamp /\ text' = Torn /\ stamp' = NoStamp
  /\ m_cfgQ' = <<>> /\ overflow' = FALSE /\ applied' = None
  /\ m_phase' = "Reconciling"
  /\ switches' = Switches(file.content)
  /\ pairs' = [p \in Pairs |-> IF p \in orphans THEN Stopped(Restored(saved[p]))
                               ELSE Restored(saved[p])]
  /\ UNCHANGED <<file, saved, latches>>

-----------------------------------------------------------------------------
Fresh(stopFlag) == [stopFlag |-> stopFlag, closeFlag |-> FALSE, reBalance |-> FALSE,
                    profitPct |-> 0, closeRemainVolume |-> 0]

Init ==
  /\ \E c \in Files : /\ file = [version |-> 1, content |-> c]
                      /\ switches = Switches(c)
  /\ pc = "stat" /\ seen = NoStamp /\ text = Torn /\ stamp = NoStamp
  /\ m_cfgQ = <<>> /\ m_phase = "Reconciling"
  /\ \E stops \in SUBSET Pairs : pairs = [p \in Pairs |-> Fresh(p \in stops)]
  /\ saved = pairs
  /\ applied = None /\ overflow = FALSE /\ crashes = 0 /\ latches = 0

Next ==
  \/ \E content \in Files \union {Torn} : WriteFile(content)
  \/ Stat
  \/ ReadRuntimeConfigFile
  \/ Keep
  \/ OnTimer
  \/ \E p \in Pairs : CheckExposureAbnormal(p) \/ RebalanceEnds(p)
  \/ SaveSnapshot
  \/ \E orphans \in SUBSET Pairs : Restart(orphans)

Spec == Init /\ [][Next]_vars

\* The signal thread sleeps a second and polls again; the main loop calls
\* on_timer again and again, and the pushes reconciliation waits for arrive.
Fairness == WF_vars(Stat \/ ReadRuntimeConfigFile \/ Keep) /\ WF_vars(OnTimer)
FairSpec == Spec /\ Fairness

-----------------------------------------------------------------------------
TypeOK ==
  /\ file \in [version : 1..MaxVersion, content : Files \union {Torn}]
  /\ pc \in {"stat", "read", "keep"} /\ text \in Files \union {Torn}
  /\ seen \in 0..MaxVersion /\ stamp \in 0..MaxVersion
  /\ m_cfgQ \in Seq(Files) /\ Len(m_cfgQ) <= Capacity
  /\ m_phase \in {"Reconciling", "Trading"}
  /\ switches \in [closeOnly : BOOLEAN, stopAllAlgo : BOOLEAN]
  /\ pairs \in [Pairs -> PairFields] /\ saved \in [Pairs -> PairFields]
  /\ applied \in Files \union {None}
  /\ overflow \in BOOLEAN
  /\ crashes \in 0..MaxCrashes /\ latches \in 0..MaxLatches

\* What the main loop has applied, or will have when it next drains the queue.
Newest == IF m_cfgQ # <<>> THEN Last(m_cfgQ) ELSE applied

\* Nothing the operator saved is missed: while the signal thread believes it
\* knows the file (the fingerprint is the one it kept), the newest thing queued
\* or applied is what the file holds, unless the queue overflowed.  This is
\* what the order of stat, read and stamp in RunSignalOnce is for.
NothingMissed ==
  stamp = file.version /\ ~overflow => Newest = file.content

\* The index of the last command of configuration c for pair p, or 0.
LastCommand(c, p) ==
  LET Mine == {i \in DOMAIN c.pairCommands : c.pairCommands[i].key = p}
  IN IF Mine = {} THEN 0 ELSE CHOOSE i \in Mine : \A j \in Mine : j <= i
Commanded(c, p, type) ==
  LastCommand(c, p) # 0 /\ c.pairCommands[LastCommand(c, p)].cmdType = type

\* Whether a command in front of the last one for p may be refused.
Exposed(c, p) ==
  \E i \in 1..(LastCommand(c, p) - 1) :
    c.pairCommands[i].key \in Pairs /\ TakesCloseBranch(c.pairCommands[i])

InEffect(c) ==
  /\ switches = Switches(c)
  /\ \A p \in Pairs : Commanded(c, p, "STOP") /\ ~Exposed(c, p) => pairs[p].stopFlag

\* A file the operator leaves alone takes effect in the end, through crashes,
\* torn writes and reconciliation: both switches, and the stop of every pair it
\* names last with STOP.  The exceptions are a queue that was full (what push
\* refused is not read again, since the fingerprint has been kept) and a stop
\* behind a command that ApplyPairCommands may refuse, with which it returns.
LastFileTakesEffect ==
  \A c \in Files : <>[](file.content = c /\ ~overflow) => <>[]InEffect(c)
=============================================================================
