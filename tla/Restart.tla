------------------------------- MODULE Restart -------------------------------
(* The life of one pair's record over restarts of the process: the snapshot   *)
(* that is taken now and then, the algo order whose child orders outlive the  *)
(* process at the exchange, the freeze of a pair whose algo order was lost,   *)
(* the position pushes of the two legs, and the reconciliation of the ledger  *)
(* that has to succeed before anything is traded.                             *)
(*                                                                            *)
(* The volume is that of the active leg, with the sign of a long position     *)
(* taken as positive; what an algo order does between its submission and its  *)
(* end is AlgoHandshake's and PairOrderExec's subject, here it only fills.    *)
EXTENDS SequencesExt

CONSTANTS
  Freeze,      \* freezeOnOrphanAlgoOrder
  Kill,        \* when the process may be killed: "never"; "known", while the
               \* snapshot knows of the algo order that is working; "always"
  MaxPosition, \* bound: the position
  MaxSubmits,  \* bound: algo orders submitted
  MaxStarts,   \* bound: starts after the first
  MaxResumes   \* bound: RESUME commands

ASSUME RestartAssumption ==
  /\ Freeze \in BOOLEAN /\ Kill \in {"never", "known", "always"}
  /\ MaxPosition \in Nat \ {0}
  /\ MaxSubmits \in Nat /\ MaxStarts \in Nat /\ MaxResumes \in Nat

VARIABLES
  phase,     \* "Down", "Reconciling" or "Trading"
  pi,        \* PairInfo of the running process
  real,      \* activeRealPosition, 0 before the first push
  known,     \* legs whose position is known: push arrived, or batch complete
  algo,      \* the algo order's own pairTotalVolume, fills it has not seen
  exchange,  \* position, and child orders of the algo order still open there
  pushes,    \* positions pushed and not yet handled, in order
  m_snapQ,   \* the row on its way to the signal thread, if any
  disk,      \* the row of the snapshot file
  submits, starts, resumes

vars == <<phase, pi, real, known, algo, exchange, pushes, m_snapQ, disk,
          submits, starts, resumes>>

Legs == {"active", "passive"}
Positions == 0..MaxPosition

\* tier: the highest currentTier of the three kinds of risk.
PairInfo == [ledger : Positions, tier : 0..3, hasActiveAlgoOrder : BOOLEAN,
             stopFlag : BOOLEAN]
\* side is 0 when there is no algo order.
Algo     == [volume : Positions, unseen : Nat, side : {-1, 0, 1}]
Exchange == [position : Positions, open : Positions, side : {-1, 0, 1}]
\* A push: of this pair's instrument or of another of the account (own), and
\* whether it ends the account's batch (isLast).
Push == [leg : Legs, own : BOOLEAN, volume : Positions, isLast : BOOLEAN]

NoAlgo == [volume |-> 0, unseen |-> 0, side |-> 0]
Flat   == [ledger |-> 0, tier |-> 0, hasActiveAlgoOrder |-> FALSE, stopFlag |-> FALSE]
Up     == phase # "Down"

-----------------------------------------------------------------------------
(* The algo order and the exchange.                                           *)

\* ProcessPairSignal, ProcessRisk: towards position target.  The algo order
\* starts from the ledger; its child orders follow it.  (Over an orphan no
\* order is followed up: what happens then is not modelled.)
SubmitBuiltAlgoOrder(target) ==
  LET side == IF target > pi.ledger THEN 1 ELSE -1 IN
  /\ phase = "Trading" /\ submits < MaxSubmits
  /\ ~pi.stopFlag /\ ~pi.hasActiveAlgoOrder
  /\ target # pi.ledger /\ exchange.open = 0
  /\ pi' = [pi EXCEPT !.hasActiveAlgoOrder = TRUE]
  /\ algo' = [volume |-> pi.ledger, unseen |-> 0, side |-> side]
  /\ exchange' = [exchange EXCEPT !.open = side * (target - pi.ledger), !.side = side]
  /\ submits' = submits + 1
  /\ UNCHANGED <<phase, real, known, pushes, m_snapQ, disk, starts, resumes>>

\* A child order fills, whether or not anyone listens; the report goes to the
\* algo order, the new position is pushed.
Fill ==
  LET volume == exchange.position + exchange.side IN
  /\ exchange.open > 0 /\ volume \in Positions
  /\ exchange' = [exchange EXCEPT !.position = volume, !.open = @ - 1]
  /\ algo' = IF algo.side # 0 THEN [algo EXCEPT !.unseen = @ + 1] ELSE algo
  /\ pushes' = IF Up THEN Append(pushes, [leg |-> "active", own |-> TRUE,
                                          volume |-> volume, isLast |-> FALSE])
               ELSE pushes
  /\ UNCHANGED <<phase, pi, real, known, m_snapQ, disk, submits, starts, resumes>>

\* OnOrder: a fill is seen; when it finishes its pair order the ledger follows
\* at once (PairOrderTrade tells the strategy).
SeeFill(finished) ==
  LET volume == algo.volume + algo.side IN
  /\ Up /\ algo.unseen > 0
  /\ algo' = [algo EXCEPT !.volume = volume, !.unseen = @ - 1]
  /\ pi' = IF finished THEN [pi EXCEPT !.ledger = volume] ELSE pi
  /\ UNCHANGED <<phase, real, known, exchange, pushes, m_snapQ, disk, submits,
                 starts, resumes>>

\* The rest of the child orders is cancelled or expires: for a running process
\* because it asked, for an orphan because someone did at the exchange.
Withdraw ==
  /\ exchange.open > 0
  /\ exchange' = [exchange EXCEPT !.open = 0]
  /\ UNCHANGED <<phase, pi, real, known, algo, pushes, m_snapQ, disk, submits,
                 starts, resumes>>

\* OnAlgoOrderUpdate with a terminal state: the ledger takes the volume over,
\* a flat pair forgets its tiers.
OnAlgoOrderUpdate ==
  /\ Up /\ algo.side # 0 /\ algo.unseen = 0 /\ exchange.open = 0
  /\ pi' = [pi EXCEPT !.ledger = algo.volume, !.hasActiveAlgoOrder = FALSE,
                      !.tier = IF algo.volume = 0 THEN 0 ELSE @]
  /\ algo' = NoAlgo
  /\ UNCHANGED <<phase, real, known, exchange, pushes, m_snapQ, disk, submits,
                 starts, resumes>>

\* ScanFinishedAlgoOrders: a mark whose algo order does not exist is cleared.
ScanFinishedAlgoOrders ==
  /\ Up /\ pi.hasActiveAlgoOrder /\ algo.side = 0
  /\ pi' = [pi EXCEPT !.hasActiveAlgoOrder = FALSE]
  /\ UNCHANGED <<phase, real, known, algo, exchange, pushes, m_snapQ, disk, submits,
                 starts, resumes>>

\* Faulty variant: a fourth tier.
AdvanceAnyTier ==
  /\ phase = "Trading" /\ pi.ledger > 0
  /\ pi' = [pi EXCEPT !.tier = @ + 1]
  /\ UNCHANGED <<phase, real, known, algo, exchange, pushes, m_snapQ, disk, submits,
                 starts, resumes>>

\* CheckRisk: the tier of a position goes up while a risk lasts.
AdvanceTier ==
  /\ phase = "Trading" /\ pi.ledger > 0 /\ pi.tier < 3
  /\ pi' = [pi EXCEPT !.tier = @ + 1]
  /\ UNCHANGED <<phase, real, known, algo, exchange, pushes, m_snapQ, disk, submits,
                 starts, resumes>>

\* RESUME, which the operator sends once the exchange is clean.
Resume ==
  /\ phase = "Trading" /\ resumes < MaxResumes
  /\ pi.stopFlag /\ exchange.open = 0
  /\ pi' = [pi EXCEPT !.stopFlag = FALSE]
  /\ resumes' = resumes + 1
  /\ UNCHANGED <<phase, real, known, algo, exchange, pushes, m_snapQ, disk, submits, starts>>

-----------------------------------------------------------------------------
(* The snapshot.  None is queued, or one row and the sentinel behind it.      *)

Queued == m_snapQ # <<>>

\* Faulty variant: the flags stay out of the row.
RowWithoutFlags(p) == [p EXCEPT !.stopFlag = FALSE]

MakePairInfoRecord(p) == p

\* OnTimer, every csvSaveIntervalSec once trading.
CollectSnapshotRows ==
  /\ phase = "Trading" /\ ~Queued
  /\ m_snapQ' = <<MakePairInfoRecord(pi)>>
  /\ UNCHANGED <<phase, pi, real, known, algo, exchange, pushes, disk, submits,
                 starts, resumes>>

\* RunSignalOnce: a new file replaces the old one in one rename.
WritePairInfoRecordFile ==
  /\ Up /\ Queued
  /\ disk' = Head(m_snapQ)
  /\ m_snapQ' = <<>>
  /\ UNCHANGED <<phase, pi, real, known, algo, exchange, pushes, submits, starts, resumes>>

Halt == /\ phase' = "Down"
        /\ pi' = Flat /\ real' = 0 /\ known' = {} /\ algo' = NoAlgo
        /\ pushes' = <<>> /\ m_snapQ' = <<>>
        /\ UNCHANGED <<exchange, submits, starts, resumes>>

\* pre_stop joins the signal thread and then saves: its row is the last.
Saved(row) == row

pre_stop ==
  /\ Up
  /\ Halt
  /\ disk' = Saved(MakePairInfoRecord(pi))

Killed ==
  /\ Up
  /\ \/ Kill = "always"
     \/ Kill = "known" /\ (pi.hasActiveAlgoOrder => disk.hasActiveAlgoOrder)
  /\ Halt
  /\ UNCHANGED disk

-----------------------------------------------------------------------------
(* The start.                                                                 *)

\* HandleOrphanAlgoOrders
HandleOrphanAlgoOrders(p) ==
  IF p.hasActiveAlgoOrder /\ Freeze THEN [p EXCEPT !.stopFlag = TRUE] ELSE p

\* Each account answers the subscription with its positions, the last marked
\* as such.  A position that is flat may be missing from them.
Replies(volume) ==
  {<<[leg |-> "active", own |-> own, volume |-> volume, isLast |-> TRUE],
     [leg |-> "passive", own |-> FALSE, volume |-> 0, isLast |-> TRUE]>> :
     own \in IF volume = 0 THEN BOOLEAN ELSE {TRUE}}

Start ==
  /\ phase = "Down" /\ starts < MaxStarts
  /\ phase' = "Reconciling"
  /\ pi' = HandleOrphanAlgoOrders(disk)
  /\ real' = 0 /\ known' = {}
  /\ pushes' \in Replies(exchange.position)
  /\ starts' = starts + 1
  /\ UNCHANGED <<algo, exchange, m_snapQ, disk, submits, resumes>>

\* Faulty variant: only a push of the leg itself makes it known.
KnownByPush(push) == IF push.own THEN {push.leg} ELSE {}

\* activePushArrived, passivePushArrived, BatchDoneAfterStart
KnownBy(push) == IF push.own \/ push.isLast THEN {push.leg} ELSE {}

OnPosition ==
  /\ Up /\ pushes # <<>>
  /\ LET push == Head(pushes) IN
     /\ known' = known \union KnownBy(push)
     /\ real' = IF push.own /\ push.leg = "active" THEN push.volume ELSE real
  /\ pushes' = Tail(pushes)
  /\ UNCHANGED <<phase, pi, algo, exchange, m_snapQ, disk, submits, starts, resumes>>

\* Faulty variant: the gate opens without the positions.
NoGate == TRUE

\* What TryReconcile waits for, however long it takes.
PositionsKnown == known = Legs

\* ReconcilePair: the exchange is right.  A flat pair forgets its tiers, one
\* that still has a position keeps them.
ReconcilePair(p) ==
  IF p.ledger = real THEN p
  ELSE [p EXCEPT !.ledger = real, !.tier = IF real = 0 THEN 0 ELSE @]

TryReconcile ==
  /\ phase = "Reconciling"
  /\ PositionsKnown
  /\ pi' = ReconcilePair(pi)
  /\ phase' = "Trading"
  /\ UNCHANGED <<real, known, algo, exchange, pushes, m_snapQ, disk, submits, starts, resumes>>

-----------------------------------------------------------------------------
Init ==
  /\ phase = "Trading" /\ pi = Flat /\ real = 0 /\ known = Legs
  /\ algo = NoAlgo /\ exchange = [position |-> 0, open |-> 0, side |-> 0]
  /\ pushes = <<>> /\ m_snapQ = <<>> /\ disk = Flat
  /\ submits = 0 /\ starts = 0 /\ resumes = 0

Next ==
  \/ \E target \in Positions : SubmitBuiltAlgoOrder(target)
  \/ Fill \/ Withdraw
  \/ \E finished \in BOOLEAN : SeeFill(finished)
  \/ OnAlgoOrderUpdate \/ ScanFinishedAlgoOrders
  \/ AdvanceTier \/ Resume
  \/ CollectSnapshotRows \/ WritePairInfoRecordFile
  \/ pre_stop \/ Killed
  \/ Start \/ OnPosition \/ TryReconcile

Spec == Init /\ [][Next]_vars

\* Pushes are handled and on_timer runs again and again.
Fairness == WF_vars(OnPosition) /\ WF_vars(TryReconcile)
FairSpec == Spec /\ Fairness

-----------------------------------------------------------------------------
TypeOK ==
  /\ phase \in {"Down", "Reconciling", "Trading"}
  /\ pi \in PairInfo /\ disk \in PairInfo
  /\ real \in Positions /\ known \subseteq Legs
  /\ algo \in Algo /\ exchange \in Exchange
  /\ pushes \in Seq(Push)
  /\ m_snapQ \in Seq(PairInfo) /\ Len(m_snapQ) <= 1
  /\ submits \in 0..MaxSubmits /\ starts \in 0..MaxStarts /\ resumes \in 0..MaxResumes

\* A pair that is free to trade has no child orders at the exchange that its
\* process does not know of, over any number of restarts: the mark of a working
\* algo order is in the snapshot, it becomes a stop at the start, the stop is in
\* the next snapshot, and only RESUME ends it.
NoTradeOverOrphans ==
  phase = "Trading" /\ ~pi.stopFlag /\ exchange.open > 0 => algo.side # 0

\* A pair that is free to trade and has no algo order working has the position
\* in its ledger that the exchange has (the comment above ReconcilePair: the
\* ledger is the active leg's position).  A frozen pair was reconciled while its
\* orphan could still fill, and RESUME does not reconcile again: after one the
\* ledger may stay wrong.
LedgerTrue ==
  phase = "Trading" /\ ~pi.stopFlag /\ algo.side = 0 /\ resumes = 0
    => pi.ledger = exchange.position

\* A process that stays up gets to trade, also when a leg is flat and its
\* exchange pushes nothing for it.
StartsTrading == phase = "Reconciling" ~> phase # "Reconciling"
=============================================================================
