--------------------------- MODULE Restart_proofs ----------------------------
(* Proofs about Restart, for all bounds: types, that no pair trades over the  *)
(* child orders of an algo order that was lost (NoTradeOverOrphans), and that *)
(* the ledger of a free pair is true (LedgerTrue).  They hold for a process   *)
(* that freezes orphans and is killed at most when its snapshot knows of the  *)
(* algo order at work; TLC finds the counterexamples for the other values.    *)
(*                                                                            *)
(* NoTradeOverOrphans speaks of the running process only; what carries it     *)
(* over a restart is that every copy of the record (running, queued, on disk) *)
(* is marked while there is an orphan.  LedgerTrue needs in addition that an  *)
(* algo order at work and the fills it has not seen make up the exchange's    *)
(* position, and what the pushes of a start hold.                             *)
EXTENDS Restart, SequenceTheorems, TLAPS

Careful == Freeze = TRUE /\ Kill # "always"

Orphaned    == exchange.open > 0 /\ algo.side = 0
Marked(row) == row.stopFlag \/ row.hasActiveAlgoOrder

\* A process that is down has nothing but what is on disk.
DownIsEmpty == ~Up => algo = NoAlgo /\ m_snapQ = <<>>

WorkingIsMarked == algo.side # 0 => pi.hasActiveAlgoOrder

OrphansMarked ==
  Orphaned => /\ Up => pi.stopFlag
              /\ Marked(disk)
              /\ m_snapQ # <<>> => Marked(Head(m_snapQ))

\* Where an algo order is going to, if all of it fills.
Destination ==
  /\ algo.side = 1  => algo.volume + algo.unseen + exchange.open \in Positions
  /\ algo.side = -1 => algo.volume - algo.unseen - exchange.open \in Positions
  /\ algo.side = 0  => algo.unseen = 0
  /\ algo.side # 0  => exchange.side = algo.side

\* The ledger of a free pair, with or without an algo order at work.
LedgerKept ==
  phase = "Trading" /\ ~pi.stopFlag /\ resumes = 0 =>
    /\ algo.side = 0  => pi.ledger = exchange.position
    /\ algo.side = 1  => exchange.position = algo.volume + algo.unseen
    /\ algo.side = -1 => exchange.position = algo.volume - algo.unseen

\* What a start hears of the exchange, unless an orphan is filling.
PushesTrue ==
  phase = "Reconciling" /\ ~pi.stopFlag =>
    /\ algo.side = 0
    /\ real = IF "active" \in known THEN exchange.position ELSE 0
    /\ \A i \in 1..Len(pushes) : pushes[i].leg = "active" =>
         /\ pushes[i].volume = exchange.position
         /\ pushes[i].own \/ exchange.position = 0

\* An algo order is at work only while the process trades.
WorkingIsTrading == algo.side # 0 => phase = "Trading" /\ ~pi.stopFlag

IInv ==
  /\ TypeOK /\ DownIsEmpty /\ WorkingIsMarked /\ OrphansMarked
  /\ Destination /\ LedgerKept /\ PushesTrue /\ WorkingIsTrading

-----------------------------------------------------------------------------
\* The fields, each with its type.
LEMMA Typed ==
  ASSUME TypeOK
  PROVE  /\ MaxPosition \in Nat /\ MaxPosition > 0
         /\ pi.ledger \in Nat /\ pi.ledger <= MaxPosition /\ pi.tier \in 0..3
         /\ pi.hasActiveAlgoOrder \in BOOLEAN /\ pi.stopFlag \in BOOLEAN
         /\ algo.volume \in Nat /\ algo.volume <= MaxPosition
         /\ algo.unseen \in Nat /\ algo.side \in {-1, 0, 1}
         /\ exchange.position \in Nat /\ exchange.position <= MaxPosition
         /\ exchange.open \in Nat /\ exchange.open <= MaxPosition
         /\ exchange.side \in {-1, 0, 1}
  BY RestartAssumption DEF TypeOK, PairInfo, Algo, Exchange, Positions

LEMMA InitIInv == Init => IInv
  <1> SUFFICES ASSUME Init PROVE IInv
    OBVIOUS
  <1> USE RestartAssumption DEF Init, Flat, NoAlgo, Legs, Positions
  <1>1. pushes \in Seq(Push) /\ m_snapQ \in Seq(PairInfo) /\ Len(m_snapQ) = 0
    OBVIOUS
  <1>2. TypeOK
    BY <1>1 DEF TypeOK, PairInfo, Algo, Exchange
  <1>3. DownIsEmpty /\ WorkingIsMarked /\ OrphansMarked /\ WorkingIsTrading
    BY DEF DownIsEmpty, WorkingIsMarked, OrphansMarked, WorkingIsTrading, Orphaned, Up
  <1>4. Destination /\ LedgerKept /\ PushesTrue
    BY DEF Destination, LedgerKept, PushesTrue
  <1> QED BY <1>2, <1>3, <1>4 DEF IInv

\* The new algo order starts from the ledger, and there is no orphan.
LEMMA SubmitStep ==
  ASSUME IInv, NEW target \in Positions, SubmitBuiltAlgoOrder(target) PROVE IInv'
  <1> DEFINE side == IF target > pi.ledger THEN 1 ELSE -1
  <1>1. /\ phase = "Trading" /\ ~pi.stopFlag /\ ~pi.hasActiveAlgoOrder
        /\ exchange.open = 0 /\ target # pi.ledger
        /\ submits < MaxSubmits /\ submits' = submits + 1
        /\ pi' = [pi EXCEPT !.hasActiveAlgoOrder = TRUE]
        /\ algo' = [volume |-> pi.ledger, unseen |-> 0, side |-> side]
        /\ exchange' = [exchange EXCEPT !.open = side * (target - pi.ledger), !.side = side]
        /\ UNCHANGED <<phase, real, known, pushes, m_snapQ, disk, starts, resumes>>
    BY DEF SubmitBuiltAlgoOrder
  <1>2. TypeOK /\ algo.side = 0
    BY <1>1 DEF IInv, WorkingIsMarked
  <1>3. target \in Nat /\ target <= MaxPosition
    BY RestartAssumption DEF Positions
  <1>4. \/ side = 1 /\ side * (target - pi.ledger) = target - pi.ledger /\ target > pi.ledger
        \/ side = -1 /\ side * (target - pi.ledger) = pi.ledger - target /\ target < pi.ledger
    <2>1. CASE target > pi.ledger
      BY <1>2, <1>3, <2>1, Typed
    <2>2. CASE target < pi.ledger
      BY <1>2, <1>3, <2>2, Typed
    <2> QED BY <1>1, <1>2, <1>3, <2>1, <2>2, Typed
  <1> HIDE DEF side
  <1>5. /\ algo'.volume = pi.ledger /\ algo'.unseen = 0 /\ algo'.side = side
        /\ pi'.ledger = pi.ledger /\ pi'.stopFlag = pi.stopFlag /\ pi'.hasActiveAlgoOrder
        /\ pi' \in PairInfo
    BY <1>1, <1>2 DEF TypeOK, PairInfo
  <1>6. /\ exchange'.position = exchange.position /\ exchange'.side = side
        /\ exchange'.open = side * (target - pi.ledger)
    BY <1>1, <1>2 DEF TypeOK, Exchange
  <1>7. TypeOK'
    <2>1. side * (target - pi.ledger) \in Positions /\ side \in {-1, 0, 1}
      BY <1>2, <1>3, <1>4, Typed DEF Positions
    <2>2. exchange' \in Exchange
      BY <1>1, <1>2, <2>1 DEF TypeOK, Exchange
    <2>3. algo' \in Algo
      BY <1>1, <1>2, <2>1 DEF TypeOK, PairInfo, Algo
    <2>4. submits' \in 0..MaxSubmits
      BY <1>1, <1>2, RestartAssumption DEF TypeOK
    <2> QED BY <1>1, <1>2, <1>5, <2>2, <2>3, <2>4 DEF TypeOK
  <1>8. DownIsEmpty' /\ WorkingIsMarked' /\ WorkingIsTrading' /\ OrphansMarked'
    BY <1>1, <1>4, <1>5 DEF DownIsEmpty, Up, WorkingIsMarked, WorkingIsTrading,
                            OrphansMarked, Orphaned
  <1>9. Destination'
    BY <1>2, <1>3, <1>4, <1>5, <1>6, Typed DEF Destination, Positions
  <1>10. LedgerKept'
    BY <1>1, <1>2, <1>4, <1>5, <1>6, Typed DEF IInv, LedgerKept
  <1>11. PushesTrue'
    BY <1>1 DEF PushesTrue
  <1> QED BY <1>7, <1>8, <1>9, <1>10, <1>11 DEF IInv

\* A fill moves the position, and with it what the algo order has not seen; a
\* fill of an orphan finds the pair frozen.
LEMMA FillStep == ASSUME IInv, Fill PROVE IInv'
  <1> DEFINE volume == exchange.position + exchange.side
             push   == [leg |-> "active", own |-> TRUE, volume |-> volume, isLast |-> FALSE]
  <1>1. /\ exchange.open > 0 /\ volume \in Positions
        /\ exchange' = [exchange EXCEPT !.position = volume, !.open = exchange.open - 1]
        /\ algo' = IF algo.side # 0 THEN [algo EXCEPT !.unseen = algo.unseen + 1] ELSE algo
        /\ pushes' = IF Up THEN Append(pushes, push) ELSE pushes
        /\ UNCHANGED <<phase, pi, real, known, m_snapQ, disk, submits, starts, resumes>>
    BY DEF Fill
  <1>2. TypeOK
    BY DEF IInv
  <1>3. /\ exchange'.position = volume /\ exchange'.open = exchange.open - 1
        /\ exchange'.side = exchange.side
    BY <1>1, <1>2 DEF TypeOK, Exchange
  <1>4. /\ algo'.side = algo.side /\ algo'.volume = algo.volume
        /\ algo.side # 0 => algo'.unseen = algo.unseen + 1
        /\ algo.side = 0 => algo' = algo
    BY <1>1, <1>2 DEF TypeOK, Algo
  <1>5. TypeOK'
    <2>1. pushes' \in Seq(Push)
      <3>1. push \in Push
        BY <1>1 DEF Push, Legs
      <3> HIDE DEF push
      <3> QED BY <1>1, <1>2, <3>1, AppendProperties DEF TypeOK
    <2>2. exchange' \in Exchange
      <3>1. exchange.open - 1 \in Positions
        BY <1>1, <1>2, Typed DEF Positions
      <3> QED BY <1>1, <1>2, <3>1 DEF TypeOK, Exchange
    <2>3. algo' \in Algo
      <3>1. algo.unseen + 1 \in Nat
        BY <1>2, Typed
      <3> QED BY <1>1, <1>2, <3>1 DEF TypeOK, Algo
    <2> QED BY <1>1, <1>2, <2>1, <2>2, <2>3 DEF TypeOK
  <1> HIDE DEF push
  <1>6. DownIsEmpty' /\ WorkingIsMarked' /\ WorkingIsTrading'
    BY <1>1, <1>4 DEF IInv, DownIsEmpty, Up, WorkingIsMarked, WorkingIsTrading, NoAlgo
  <1>7. OrphansMarked'
    BY <1>1, <1>4 DEF IInv, OrphansMarked, Orphaned, Up, Marked
  <1>8. Destination'
    <2>1. Destination
      BY DEF IInv
    <2>2. CASE algo.side = 0
      BY <1>4, <2>1, <2>2 DEF Destination
    <2>3. CASE algo.side = 1
      <3>1. algo.volume + algo.unseen + exchange.open \in Positions
        BY <2>1, <2>3 DEF Destination
      <3>2. algo.volume + (algo.unseen + 1) + (exchange.open - 1)
              = algo.volume + algo.unseen + exchange.open
        BY <1>2, Typed
      <3>3. algo'.volume + algo'.unseen + exchange'.open \in Positions
        BY <1>3, <1>4, <2>3, <3>1, <3>2
      <3> QED BY <1>3, <1>4, <2>1, <2>3, <3>3 DEF Destination
    <2>4. CASE algo.side = -1
      <3>1. algo.volume - algo.unseen - exchange.open \in Positions
        BY <2>1, <2>4 DEF Destination
      <3>2. algo.volume - (algo.unseen + 1) - (exchange.open - 1)
              = algo.volume - algo.unseen - exchange.open
        BY <1>2, Typed
      <3>3. algo'.volume - algo'.unseen - exchange'.open \in Positions
        BY <1>3, <1>4, <2>4, <3>1, <3>2
      <3> QED BY <1>3, <1>4, <2>1, <2>4, <3>3 DEF Destination
    <2> QED BY <1>2, <2>2, <2>3, <2>4, Typed
  <1>9. LedgerKept'
    <2> SUFFICES ASSUME phase = "Trading", ~pi.stopFlag, resumes = 0
                 PROVE  /\ algo.side = 0  => pi.ledger = volume
                        /\ algo.side = 1  => volume = algo.volume + algo'.unseen
                        /\ algo.side = -1 => volume = algo.volume - algo'.unseen
      BY <1>1, <1>3, <1>4 DEF LedgerKept
    <2>1. algo.side # 0
      BY <1>1 DEF IInv, OrphansMarked, Orphaned, Up
    <2>2. exchange.side = algo.side
      BY <2>1 DEF IInv, Destination
    <2>3. /\ algo.side = 1  => exchange.position = algo.volume + algo.unseen
          /\ algo.side = -1 => exchange.position = algo.volume - algo.unseen
      BY DEF IInv, LedgerKept
    <2> QED BY <1>2, <1>4, <2>1, <2>2, <2>3, Typed
  <1>10. PushesTrue'
    <2> SUFFICES ASSUME phase = "Reconciling", ~pi.stopFlag PROVE FALSE
      BY <1>1 DEF PushesTrue
    <2>1. algo.side = 0
      BY DEF IInv, PushesTrue
    <2> QED BY <1>1, <2>1 DEF IInv, OrphansMarked, Orphaned, Up
  <1> QED BY <1>5, <1>6, <1>7, <1>8, <1>9, <1>10 DEF IInv

\* A fill that is seen is one less to come.
LEMMA SeeFillStep ==
  ASSUME IInv, NEW finished \in BOOLEAN, SeeFill(finished) PROVE IInv'
  <1> DEFINE volume == algo.volume + algo.side
  <1>1. /\ algo.unseen > 0
        /\ algo' = [algo EXCEPT !.volume = volume, !.unseen = algo.unseen - 1]
        /\ pi' = IF finished THEN [pi EXCEPT !.ledger = volume] ELSE pi
        /\ UNCHANGED <<phase, real, known, exchange, pushes, m_snapQ, disk, submits,
                       starts, resumes>>
    BY DEF SeeFill
  <1>2. TypeOK
    BY DEF IInv
  <1>3. /\ algo'.volume = volume /\ algo'.unseen = algo.unseen - 1 /\ algo'.side = algo.side
    BY <1>1, <1>2 DEF TypeOK, Algo
  <1>4. /\ pi'.stopFlag = pi.stopFlag /\ pi'.hasActiveAlgoOrder = pi.hasActiveAlgoOrder
    BY <1>1, <1>2 DEF TypeOK, PairInfo
  <1>5. algo.side \in {-1, 1} /\ volume \in Positions
    <2>1. Destination
      BY DEF IInv
    <2> QED BY <1>1, <1>2, <2>1, Typed DEF Destination, Positions
  <1>6. TypeOK'
    <2>1. pi' \in PairInfo
      BY <1>1, <1>2, <1>5 DEF TypeOK, PairInfo
    <2>2. algo' \in Algo
      <3>1. algo.unseen - 1 \in Nat
        BY <1>1, <1>2, Typed
      <3> QED BY <1>1, <1>2, <1>5, <3>1 DEF TypeOK, Algo
    <2> QED BY <1>1, <1>2, <2>1, <2>2 DEF TypeOK
  <1>7. DownIsEmpty' /\ WorkingIsMarked' /\ WorkingIsTrading' /\ OrphansMarked'
    BY <1>1, <1>3, <1>4, <1>5 DEF IInv, DownIsEmpty, Up, WorkingIsMarked, WorkingIsTrading,
                                  OrphansMarked, Orphaned, NoAlgo
  <1>8. Destination'
    <2>1. Destination
      BY DEF IInv
    <2>2. exchange' = exchange
      BY <1>1
    <2> QED BY <1>1, <1>2, <1>3, <1>5, <2>1, <2>2, Typed DEF Destination, Positions
  <1>9. LedgerKept'
    <2>1. LedgerKept
      BY DEF IInv
    <2>2. exchange' = exchange /\ phase' = phase /\ resumes' = resumes
      BY <1>1
    <2> QED BY <1>1, <1>2, <1>3, <1>4, <1>5, <2>1, <2>2, Typed DEF LedgerKept
  <1>10. PushesTrue'
    BY <1>1, <1>4, <1>5 DEF IInv, PushesTrue
  <1> QED BY <1>6, <1>7, <1>8, <1>9, <1>10 DEF IInv

\* What is withdrawn will not fill.
LEMMA WithdrawStep == ASSUME IInv, Withdraw PROVE IInv'
  <1>1. /\ exchange' = [exchange EXCEPT !.open = 0]
        /\ UNCHANGED <<phase, pi, real, known, algo, pushes, m_snapQ, disk, submits,
                       starts, resumes>>
    BY DEF Withdraw
  <1>2. TypeOK
    BY DEF IInv
  <1>3. /\ exchange'.open = 0 /\ exchange'.position = exchange.position
        /\ exchange'.side = exchange.side
    BY <1>1, <1>2 DEF TypeOK, Exchange
  <1>4. TypeOK'
    <2>1. exchange' \in Exchange
      BY <1>1, <1>2, RestartAssumption DEF TypeOK, Exchange, Positions
    <2> QED BY <1>1, <1>2, <2>1 DEF TypeOK
  <1>5. DownIsEmpty' /\ WorkingIsMarked' /\ WorkingIsTrading' /\ OrphansMarked'
    BY <1>1, <1>3 DEF IInv, DownIsEmpty, Up, WorkingIsMarked, WorkingIsTrading,
                      OrphansMarked, Orphaned
  <1>6. Destination'
    <2>1. Destination
      BY DEF IInv
    <2>2. algo' = algo
      BY <1>1
    <2> QED BY <1>2, <1>3, <2>1, <2>2, Typed DEF Destination, Positions
  <1>7. LedgerKept' /\ PushesTrue'
    BY <1>1, <1>3 DEF IInv, LedgerKept, PushesTrue
  <1> QED BY <1>4, <1>5, <1>6, <1>7 DEF IInv

\* The end of an algo order: nothing is open, all fills are seen.
LEMMA OnAlgoOrderUpdateStep == ASSUME IInv, OnAlgoOrderUpdate PROVE IInv'
  <1> USE DEF IInv, TypeOK, PairInfo, Algo, Exchange, Positions
  <1>1. /\ Up /\ algo.side # 0 /\ algo.unseen = 0 /\ exchange.open = 0
        /\ pi' = [pi EXCEPT !.ledger = algo.volume, !.hasActiveAlgoOrder = FALSE,
                            !.tier = IF algo.volume = 0 THEN 0 ELSE pi.tier]
        /\ algo' = [volume |-> 0, unseen |-> 0, side |-> 0]
        /\ UNCHANGED <<phase, real, known, exchange, pushes, m_snapQ, disk, submits,
                       starts, resumes>>
    BY DEF OnAlgoOrderUpdate, NoAlgo
  <1>2. TypeOK'
    <2>1. /\ pi'.ledger = algo.volume /\ pi'.tier \in {0, pi.tier}
          /\ pi'.hasActiveAlgoOrder = FALSE /\ pi'.stopFlag = pi.stopFlag
          /\ pi' = [ledger |-> pi'.ledger, tier |-> pi'.tier,
                    hasActiveAlgoOrder |-> FALSE, stopFlag |-> pi.stopFlag]
      BY <1>1
    <2>2. pi' \in PairInfo
      <3>1. pi'.ledger \in Positions /\ pi'.tier \in 0..3 /\ pi.stopFlag \in BOOLEAN
        BY <2>1, Typed
      <3> QED BY <2>1, <3>1
    <2>3. algo' \in Algo
      BY <1>1, RestartAssumption
    <2> QED BY <1>1, <2>2, <2>3
  <1>3. DownIsEmpty' /\ WorkingIsMarked' /\ WorkingIsTrading' /\ OrphansMarked'
    BY <1>1 DEF DownIsEmpty, Up, WorkingIsMarked, WorkingIsTrading, OrphansMarked, Orphaned
  <1>4. Destination' /\ LedgerKept' /\ PushesTrue'
    BY <1>1 DEF Destination, LedgerKept, PushesTrue, WorkingIsTrading
  <1> QED BY <1>2, <1>3, <1>4

\* A mark without an algo order, a tier, a RESUME: the books stay.
LEMMA RecordSteps ==
  ASSUME IInv, ScanFinishedAlgoOrders \/ AdvanceTier \/ Resume PROVE IInv'
  <1> USE DEF IInv, TypeOK, PairInfo, Algo, Exchange, Positions
  <1>1. CASE ScanFinishedAlgoOrders
    <2>1. /\ algo.side = 0
          /\ pi' = [pi EXCEPT !.hasActiveAlgoOrder = FALSE]
          /\ UNCHANGED <<phase, real, known, algo, exchange, pushes, m_snapQ, disk, submits,
                         starts, resumes>>
      BY <1>1 DEF ScanFinishedAlgoOrders
    <2> QED BY <2>1 DEF DownIsEmpty, Up, WorkingIsMarked, WorkingIsTrading, OrphansMarked,
                        Orphaned, Marked, Destination, LedgerKept, PushesTrue
  <1>2. CASE AdvanceTier
    <2>1. /\ pi.tier < 3 /\ pi' = [pi EXCEPT !.tier = pi.tier + 1]
          /\ UNCHANGED <<phase, real, known, algo, exchange, pushes, m_snapQ, disk, submits,
                         starts, resumes>>
      BY <1>2 DEF AdvanceTier
    <2>2. pi.tier + 1 \in 0..3
      BY <2>1, Typed
    <2>3. /\ pi' \in PairInfo /\ pi'.ledger = pi.ledger /\ pi'.stopFlag = pi.stopFlag
          /\ pi'.hasActiveAlgoOrder = pi.hasActiveAlgoOrder
      BY <2>1, <2>2
    <2>4. TypeOK'
      BY <2>1, <2>3
    <2> QED BY <2>1, <2>3, <2>4
            DEF DownIsEmpty, Up, WorkingIsMarked, WorkingIsTrading, OrphansMarked,
                Orphaned, Marked, Destination, LedgerKept, PushesTrue
  <1>3. CASE Resume
    <2>1. /\ phase = "Trading" /\ pi.stopFlag /\ exchange.open = 0
          /\ resumes < MaxResumes /\ resumes' = resumes + 1
          /\ pi' = [pi EXCEPT !.stopFlag = FALSE]
          /\ UNCHANGED <<phase, real, known, algo, exchange, pushes, m_snapQ, disk, submits,
                         starts>>
      BY <1>3 DEF Resume
    <2>2. /\ pi' \in PairInfo /\ pi'.ledger = pi.ledger
          /\ pi'.hasActiveAlgoOrder = pi.hasActiveAlgoOrder
      BY <2>1
    <2>3. resumes' \in 0..MaxResumes /\ resumes' # 0
      BY <2>1, RestartAssumption
    <2>4. TypeOK'
      BY <2>1, <2>2, <2>3
    <2> QED BY <2>1, <2>2, <2>3, <2>4
            DEF DownIsEmpty, Up, WorkingIsMarked, WorkingIsTrading, OrphansMarked,
                Orphaned, Marked, Destination, LedgerKept, PushesTrue
  <1> QED BY <1>1, <1>2, <1>3

\* A row of a frozen pair is marked.
LEMMA SnapshotSteps ==
  ASSUME IInv, CollectSnapshotRows \/ WritePairInfoRecordFile PROVE IInv'
  <1> USE DEF IInv, TypeOK, PairInfo
  <1>1. CASE CollectSnapshotRows
    <2>1. /\ phase = "Trading" /\ m_snapQ' = <<pi>>
          /\ UNCHANGED <<phase, pi, real, known, algo, exchange, pushes, disk, submits,
                         starts, resumes>>
      BY <1>1 DEF CollectSnapshotRows, MakePairInfoRecord
    <2>2. m_snapQ' \in Seq(PairInfo) /\ Len(m_snapQ') = 1 /\ Head(m_snapQ') = pi
      BY <2>1
    <2>3. TypeOK'
      BY <2>1, <2>2
    <2> QED BY <2>1, <2>2, <2>3
            DEF DownIsEmpty, Up, WorkingIsMarked, WorkingIsTrading, OrphansMarked,
                Orphaned, Marked, Destination, LedgerKept, PushesTrue
  <1>2. CASE WritePairInfoRecordFile
    <2>1. /\ m_snapQ # <<>> /\ disk' = Head(m_snapQ) /\ m_snapQ' = <<>>
          /\ UNCHANGED <<phase, pi, real, known, algo, exchange, pushes, submits, starts,
                         resumes>>
      BY <1>2 DEF WritePairInfoRecordFile, Queued
    <2>2. m_snapQ' \in Seq(PairInfo) /\ Len(m_snapQ') = 0
      BY <2>1
    <2>3. disk' \in PairInfo
      <3> HIDE DEF PairInfo
      <3> QED BY <2>1, HeadTailProperties
    <2>4. TypeOK'
      BY <2>1, <2>2, <2>3
    <2> QED BY <2>1, <2>2, <2>4
            DEF DownIsEmpty, Up, WorkingIsMarked, WorkingIsTrading, OrphansMarked,
                Orphaned, Marked, Destination, LedgerKept, PushesTrue
  <1> QED BY <1>1, <1>2

\* What is on disk when the process ends is marked if it leaves an orphan: it is
\* the record itself, or the snapshot knew of the algo order.
LEMMA HaltStep ==
  ASSUME Careful, IInv, pre_stop \/ Killed PROVE IInv'
  <1> USE DEF IInv, TypeOK
  <1>1. /\ phase # "Down" /\ phase' = "Down"
        /\ pi' = Flat /\ real' = 0 /\ known' = {} /\ algo' = NoAlgo
        /\ pushes' = <<>> /\ m_snapQ' = <<>>
        /\ UNCHANGED <<exchange, submits, starts, resumes>>
    BY DEF pre_stop, Killed, Halt, Up
  <1>2. disk' \in PairInfo /\ (exchange.open > 0 => Marked(disk'))
    <2>1. CASE pre_stop
      <3>1. disk' = pi
        BY <2>1 DEF pre_stop, Saved, MakePairInfoRecord
      <3> QED BY <1>1, <3>1 DEF OrphansMarked, Orphaned, Marked, WorkingIsMarked, Up
    <2>2. CASE Killed
      <3>1. disk' = disk /\ (pi.hasActiveAlgoOrder => disk.hasActiveAlgoOrder)
        BY <2>2 DEF Killed, Careful
      <3> QED BY <1>1, <3>1 DEF OrphansMarked, Orphaned, Marked, WorkingIsMarked, Up
    <2> QED BY <2>1, <2>2
  <1>3. TypeOK'
    <2>1. /\ pi' \in PairInfo /\ algo' \in Algo /\ real' \in Positions /\ known' \subseteq Legs
      BY <1>1, RestartAssumption DEF Flat, NoAlgo, PairInfo, Algo, Positions
    <2>2. pushes' \in Seq(Push) /\ m_snapQ' \in Seq(PairInfo) /\ Len(m_snapQ') = 0
      BY <1>1
    <2> QED BY <1>1, <1>2, <2>1, <2>2
  <1>4. algo'.side = 0 /\ algo'.unseen = 0
    BY <1>1 DEF NoAlgo
  <1> QED BY <1>1, <1>2, <1>3, <1>4
          DEF DownIsEmpty, Up, WorkingIsMarked, WorkingIsTrading, OrphansMarked,
              Orphaned, Destination, LedgerKept, PushesTrue

\* A row that is marked comes up frozen.
LEMMA StartStep == ASSUME Careful, IInv, Start PROVE IInv'
  <1> USE DEF IInv, TypeOK
  <1>1. /\ phase = "Down" /\ phase' = "Reconciling"
        /\ starts < MaxStarts /\ starts' = starts + 1
        /\ pi' = HandleOrphanAlgoOrders(disk) /\ real' = 0 /\ known' = {}
        /\ pushes' \in Replies(exchange.position)
        /\ UNCHANGED <<algo, exchange, m_snapQ, disk, submits, resumes>>
    BY DEF Start
  <1>2. pi' \in PairInfo /\ (Marked(disk) => pi'.stopFlag)
    BY <1>1 DEF HandleOrphanAlgoOrders, PairInfo, Marked, Careful
  <1>3. algo = NoAlgo /\ algo.side = 0 /\ algo.unseen = 0 /\ m_snapQ = <<>>
    BY <1>1 DEF DownIsEmpty, Up, NoAlgo
  <1>4. PICK own \in BOOLEAN :
          /\ own \/ exchange.position = 0
          /\ pushes' = <<[leg |-> "active", own |-> own, volume |-> exchange.position,
                          isLast |-> TRUE],
                         [leg |-> "passive", own |-> FALSE, volume |-> 0, isLast |-> TRUE]>>
    BY <1>1 DEF Replies
  <1>5. pushes' \in Seq(Push)
    <2>1. exchange.position \in Positions /\ 0 \in Positions
      BY RestartAssumption DEF Exchange, Positions
    <2> QED BY <1>4, <2>1 DEF Push, Legs
  <1>6. TypeOK'
    BY <1>1, <1>2, <1>5, RestartAssumption DEF Positions
  <1>7. \A i \in 1..Len(pushes') : pushes'[i].leg = "active" =>
          pushes'[i].volume = exchange.position /\ (pushes'[i].own \/ exchange.position = 0)
    BY <1>4
  <1>8. PushesTrue'
    BY <1>1, <1>3, <1>7 DEF PushesTrue
  <1> QED BY <1>1, <1>2, <1>3, <1>6, <1>8
          DEF DownIsEmpty, Up, WorkingIsMarked, WorkingIsTrading, OrphansMarked,
              Orphaned, Destination, LedgerKept

LEMMA OnPositionStep == ASSUME IInv, OnPosition PROVE IInv'
  <1> USE DEF IInv, TypeOK
  <1> DEFINE push == Head(pushes)
  <1>1. /\ pushes # <<>> /\ pushes' = Tail(pushes)
        /\ known' = known \union KnownBy(push)
        /\ real' = IF push.own /\ push.leg = "active" THEN push.volume ELSE real
        /\ UNCHANGED <<phase, pi, algo, exchange, m_snapQ, disk, submits, starts, resumes>>
    BY DEF OnPosition
  <1>2. /\ push \in Push /\ push = pushes[1] /\ 1 \in 1..Len(pushes)
        /\ pushes' \in Seq(Push) /\ Len(pushes') = Len(pushes) - 1
        /\ \A i \in 1..Len(pushes') : pushes'[i] = pushes[i + 1] /\ i + 1 \in 1..Len(pushes)
    BY <1>1, HeadTailProperties
  <1> HIDE DEF push
  <1>3. TypeOK'
    BY <1>1, <1>2 DEF KnownBy, Push
  <1>4. PushesTrue'
    <2> SUFFICES ASSUME phase = "Reconciling", ~pi.stopFlag
                 PROVE  /\ algo.side = 0
                        /\ real' = IF "active" \in known' THEN exchange.position ELSE 0
                        /\ \A i \in 1..Len(pushes') : pushes'[i].leg = "active" =>
                             /\ pushes'[i].volume = exchange.position
                             /\ pushes'[i].own \/ exchange.position = 0
      BY <1>1 DEF PushesTrue
    <2>1. /\ real = IF "active" \in known THEN exchange.position ELSE 0
          /\ algo.side = 0
          /\ push.leg = "active" => /\ push.volume = exchange.position
                                    /\ push.own \/ exchange.position = 0
      BY <1>2 DEF PushesTrue
    <2>2. real' = IF "active" \in known' THEN exchange.position ELSE 0
      <3>1. CASE push.leg = "active" /\ push.own
        BY <1>1, <2>1, <3>1 DEF KnownBy
      <3>2. CASE push.leg = "active" /\ ~push.own
        BY <1>1, <2>1, <3>2 DEF KnownBy
      <3>3. CASE push.leg # "active"
        BY <1>1, <2>1, <3>3 DEF KnownBy
      <3> QED BY <3>1, <3>2, <3>3
    <2> QED BY <1>2, <2>1, <2>2 DEF PushesTrue
  <1> QED BY <1>1, <1>3, <1>4
          DEF DownIsEmpty, Up, WorkingIsMarked, WorkingIsTrading, OrphansMarked,
              Orphaned, Destination, LedgerKept

\* The positions are known, and what is known is the exchange's.
LEMMA TryReconcileStep == ASSUME IInv, TryReconcile PROVE IInv'
  <1> USE DEF IInv, TypeOK, PairInfo
  <1>1. /\ phase = "Reconciling" /\ phase' = "Trading" /\ known = Legs
        /\ pi' = ReconcilePair(pi)
        /\ UNCHANGED <<real, known, algo, exchange, pushes, m_snapQ, disk, submits, starts,
                       resumes>>
    BY DEF TryReconcile, PositionsKnown
  <1>2. /\ pi' \in PairInfo /\ pi'.ledger = real
        /\ pi'.stopFlag = pi.stopFlag /\ pi'.hasActiveAlgoOrder = pi.hasActiveAlgoOrder
    <2>1. CASE pi.ledger = real
      BY <1>1, <2>1 DEF ReconcilePair
    <2>2. CASE pi.ledger # real
      <3> DEFINE tier == IF real = 0 THEN 0 ELSE pi.tier
      <3>1. pi' = [pi EXCEPT !.ledger = real, !.tier = tier]
        BY <1>1, <2>2 DEF ReconcilePair
      <3>2. tier \in 0..3
        BY Typed
      <3> HIDE DEF tier
      <3> QED BY <3>1, <3>2
    <2> QED BY <2>1, <2>2
  <1>3. ~pi.stopFlag => real = exchange.position /\ algo.side = 0
    BY <1>1 DEF PushesTrue, Legs
  <1>4. TypeOK'
    BY <1>1, <1>2
  <1> QED BY <1>1, <1>2, <1>3, <1>4
          DEF DownIsEmpty, Up, WorkingIsMarked, WorkingIsTrading, OrphansMarked,
              Orphaned, Marked, Destination, LedgerKept, PushesTrue

LEMMA StutterStep == ASSUME IInv, UNCHANGED vars PROVE IInv'
  <1> USE DEF vars, IInv
  <1>1. TypeOK'
    BY DEF TypeOK
  <1>2. DownIsEmpty' /\ WorkingIsMarked' /\ OrphansMarked' /\ WorkingIsTrading'
    BY DEF DownIsEmpty, Up, WorkingIsMarked, WorkingIsTrading, OrphansMarked, Orphaned
  <1>3. Destination' /\ LedgerKept' /\ PushesTrue'
    BY DEF Destination, LedgerKept, PushesTrue
  <1> QED BY <1>1, <1>2, <1>3

THEOREM Invariance == ASSUME Careful PROVE Spec => []IInv
  <1>1. IInv /\ [Next]_vars => IInv'
    <2> SUFFICES ASSUME IInv, [Next]_vars PROVE IInv'
      OBVIOUS
    <2>1. CASE \E target \in Positions : SubmitBuiltAlgoOrder(target)
      BY <2>1, SubmitStep
    <2>2. CASE Fill \/ Withdraw
      BY <2>2, FillStep, WithdrawStep
    <2>3. CASE \E finished \in BOOLEAN : SeeFill(finished)
      BY <2>3, SeeFillStep
    <2>4. CASE OnAlgoOrderUpdate
      BY <2>4, OnAlgoOrderUpdateStep
    <2>5. CASE ScanFinishedAlgoOrders \/ AdvanceTier \/ Resume
      BY <2>5, RecordSteps
    <2>6. CASE CollectSnapshotRows \/ WritePairInfoRecordFile
      BY <2>6, SnapshotSteps
    <2>7. CASE pre_stop \/ Killed
      BY <2>7, HaltStep
    <2>8. CASE Start \/ OnPosition \/ TryReconcile
      BY <2>8, StartStep, OnPositionStep, TryReconcileStep
    <2>9. CASE UNCHANGED vars
      BY <2>9, StutterStep
    <2> QED BY <2>1, <2>2, <2>3, <2>4, <2>5, <2>6, <2>7, <2>8, <2>9 DEF Next
  <1> QED BY InitIInv, <1>1, PTL DEF Spec

\* The record keeps to its types, over any number of restarts.
THEOREM TypeCorrect == ASSUME Careful PROVE Spec => []TypeOK
  <1>1. IInv => TypeOK
    BY DEF IInv
  <1> QED BY Invariance, <1>1, PTL

\* No pair that is free to trade has child orders at the exchange its process
\* does not know of, after any number of stops, kills and starts.
THEOREM OrphansFreeze == ASSUME Careful PROVE Spec => []NoTradeOverOrphans
  <1>1. IInv => NoTradeOverOrphans
    BY DEF IInv, OrphansMarked, Orphaned, NoTradeOverOrphans, Up
  <1> QED BY Invariance, <1>1, PTL

\* The ledger of a free pair without an algo order is the exchange's position,
\* as long as nobody resumed it by hand.
THEOREM LedgerIsTrue == ASSUME Careful PROVE Spec => []LedgerTrue
  <1>1. IInv => LedgerTrue
    BY DEF IInv, LedgerKept, LedgerTrue
  <1> QED BY Invariance, <1>1, PTL
=============================================================================
