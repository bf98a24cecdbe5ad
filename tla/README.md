# utrade_hft: a TLA+ model of the pair trading engine

utrade_hft trades the price spread between two instruments (the *legs* of a
pair). A strategy decides per pair whether to open, close or cut a position and
submits an *algo order*; the execution side turns the algo order into *pair
orders*, each of them an order on the active leg and the orders on the passive
leg that hedge its fills. This directory holds TLA+ modules of the two sides,
of the contract between them and of what surrounds them (configuration, restart,
statistics, signals, rebalancing, limits), TLC configurations, and proofs for TLAPS.
Paths below are relative to the repository's root unless they say otherwise;
`PROJECT.json` maps every definition to the lines it models.

## 1. The system

### 1.1 Threads and events

| thread | what it runs | shares |
|---|---|---|
| `heavy_work` (include/base/base_strategy.h) | one loop: one report from the gateway (`on_ordertrade`, `on_position`, ...), one sweep over market data (`on_dbpdata`), and once a second `on_timer`. Everything that trades runs here, one handler after the other | three queues with the signal thread |
| signal thread (`PairTradingContext::SignalWork`) | once a second: re-reads the runtime configuration file, builds spread statistics, writes snapshots | the queues |
| signal handler (src/main.cpp) | `pre_stop`, i.e. stop the signal thread and save the snapshot | all records, without synchronisation |

The gateway and the exchange are other processes; requests and reports travel
through queues that may delay, repeat or lose them.

### 1.2 Components

| component | state | operations | what makes it correct |
|---|---|---|---|
| Algo order execution: `AlgoContext`, `BaseAlgoOrder`, `AlgoPairOrder` | algo orders: status, switches, target ladder, position | submit, modify, cancel, `OnSpread`, `OnOrder`, `OnTimer`, deletion | no order past the end of the ladder; no new exposure after a cancel; a cancel completes; no end while orders are open |
| Pair orders and child orders: `PairManager`, `OrderManager`, `QuantOrder` | filled and frozen volume of each leg, status and filled volume of each child order | create, update by report, hedge, finish | each fill hedged once and only once; frozen volume = what the orders have left; the books account for all fills |
| `PositionManager` | frozen volumes per instrument | insert, report, end of an order | as above |
| Strategy: `PairTradingContext` | nothing but its configuration; works on the pair's record | `OnSpread`, `OnTimer`, `OnAlgoOrderUpdate`, runtime commands | one algo order per pair; the flags of the pair reach the running order; nothing new while stopped |
| Pair record: `PairInfoManager` | ledger, active algo order, flags, statistics, positions, snapshot | update from algo order, push, statistics; save and load | the ledger is the position the algo orders made |
| `RiskManager` | tier, attempts and start time per kind of risk | check, advance, count an end | dearer tiers only after cheaper ones; a risk is closed in the end |
| `SignalGenerator` | order parameters | recalculate, `CanOpen`, `CanClose` | no opening switch while a gate forbids opening |
| `SpreadStatsBuilder` | window of samples | add, prune, build | quantiles of the window |
| Runtime configuration | last file seen; queue to the main loop | read, push, apply | commands apply to their pair, and all of them |
| `LimitBoard`, `LimitManager` | times of recent requests | check, record | at most N requests per window |
| Accounts, market data, alarms, files | data | update | (data and output) |
| Startup: reconciliation, orphans, snapshot | phase | gate, reconcile, freeze | no trading on a ledger that is not the exchange's |

### 1.3 What is hard here

A report may be late, repeated, reordered or lost, and is told from a stale one
only by its filled volume. Volumes of new orders are computed from four numbers
that change at different moments: the finished position, the fills of live pair
orders, and two frozen volumes. Hedging is done both from reports and from the
timer. An algo order ends asynchronously: the strategy asks, keeps the pair
busy, and takes the pair back in a notification that may come from several
places. Flags that forbid opening (configuration, command, abnormal exposure,
risk) are set in one call and reach the running order in another. Risk tiers
advance with the ends of orders. The configuration file is polled while it is
being rewritten and reaches the pairs through a queue that is drained only once
the start is over. A crash leaves orders at the exchange that no process follows.
An abnormal exposure is repaired from positions that are pushed late, with an
order that is written in the ledger. `PROJECT.json` lists each hazard at its line
with the property that would catch it, or why none does.

## 2. Modules

| module | models | role |
|---|---|---|
| `PairOrderExec` | execution of one algo order | detailed specification |
| `MCPairOrderExec` | - | switch settings for the runs |
| `PairOrderExec_proofs` | - | theorems about the execution and the refinement |
| `FiniteSums` | - | lemmas: sums of finite functions, least counterexamples for recursive functions |
| `AlgoOrderSteps` | what an algo order does, child orders left out | relations between two states of an algo order |
| `AlgoOrder` | the same as a state machine | abstract specification |
| `PairOrderRefinement` | - | `PairOrderExec` implements `AlgoOrder` |
| `AlgoHandshake` | strategy, risk control and the algo orders of one pair | composes the strategy with algo orders that take the steps of `AlgoOrderSteps` |
| `RuntimeControl` | the runtime configuration from the file to the pairs | component |
| `Restart` | one pair's record over stops, kills and starts | component |
| `Rebalance` | the repair of an abnormal exposure | component: strategy, `AlgoRebalanceOrder` and exchange |
| `Signals` | thresholds, gates, signals | component |
| `SpreadStats` | samples, window, statistics | component |
| `RateLimit` | the request limiter of one account | component |
| `MCAlgoHandshake`, `MCRuntimeControl`, `MCRebalance`, `MCSignals` | - | files, starts, statistics and ticks for the runs |
| `MCWindows` | - | runs `SpreadStats` or `RateLimit`, which share nothing |
| `AlgoHandshake_proofs`, `RuntimeControl_proofs`, `Restart_proofs`, `Rebalance_proofs`, `Signals_proofs` | - | theorems about the module they are named after |
| `Windows_proofs` | - | theorems about `SpreadStats` and `RateLimit` |

    AlgoOrderSteps <- AlgoOrder <=implements= PairOrderRefinement -> PairOrderExec
          ^                                          ^                   ^
    AlgoHandshake                          PairOrderExec_proofs    MCPairOrderExec

    AlgoHandshake        <- MCAlgoHandshake,  AlgoHandshake_proofs
    RuntimeControl       <- MCRuntimeControl, RuntimeControl_proofs
    Restart              <-                   Restart_proofs
    Rebalance            <- MCRebalance,      Rebalance_proofs
    Signals              <- MCSignals,        Signals_proofs
    SpreadStats, RateLimit <- MCWindows,      Windows_proofs
    FiniteSums           <- PairOrderExec_proofs, RuntimeControl_proofs, Windows_proofs

`AlgoHandshake` leaves out what these say in detail: there a runtime
configuration, a rebalance order, a signal or a statistic is an input.

### 2.1 PairOrderExec

One algo order of type `AlgoType_PairTrading` in TAKER_TAKER mode, rebalancing
off, on the long side (`OPEN_SHORT` buys the active leg, `CLOSE_SHORT` sells
it; the other two actions mirror them and are switched off).

| in the module | in the code |
|---|---|
| `algoStatus`, `mayOpen`, `mayClose`, `position` | `algoOrderStatus`, `ttOSSwitch`, `ttCSSwitch`, `pairTotalVolume` |
| `pairs`, `orders` | `pairOrderMgr`, `orderMgr` |
| `frozenLong`, `frozenShort` | the two frozen positions of the active instrument in `posMgrTakerTaker` |
| `exch` | the exchange's orders (external) |
| `OpenOnSpread`, `CloseOnSpread`, `CancelOrderOnSpread` | a market data tick: cancel, then create a pair order; open is tried before close |
| `Deliver` / `OnOrder` | a report: filter, update pair, positions and order, hedge or finish the pair |
| `Timer` / `OnTimer` | query stuck orders, hedge or finish pairs, end the algo order |
| `DeleteAlgoOrder`, `SubmitCancel`, `Modify` | deletion after the grace period; `SubmitAlgoOrder(id, cmd, modify)` |
| `ExchFill`, `ExchClose`, `Age` | the exchange and time |

Volumes are integers in the finer lot. Prices, the rate limiter and the fund
check only decide whether a step happens: they are nondeterministic. A report
may carry any state its order has been in, so reports may be late, repeated,
reordered or lost; the end of an order (`FILLED`, `CANCELED`, `REJECTED`)
carries its final volume and is called `DONE`. `old` says that the last update
of an order is older than the threshold its status is tested with (10 ms for
`NEW` while cancelling, 5 s for `PEND` and `CANCEL`, 15 s for `UNKNOWN`). `ActMin` and
`PasMin`, below which nothing is sent, are the larger of the exchange's minimum
size and minimum amount; an algo order ends with less than the minimum size left
(`ActSize`, AlgoContext.cpp:1443), so what is left may be too little to be sent
and too much to end by. Left out:
`PARTFILLED`, which no code assigns, and `ERRORCANCELLING`, which no code
reaches.

### 2.2 AlgoOrder and the refinement

`AlgoOrderSteps` states what an algo order does as relations: it starts a pair
order only while `NEW` and only in a direction that is switched on; its
position moves only when a pair order ends, and in its direction; it ends
`FILLED` or `CANCELED` only when no pair order was live, and `ERRORCANCELED` at
any time. `PairOrderRefinement` maps the detailed state (pair orders to their
id and direction, child orders to nothing) and TLC checks that every step maps
to a step or a stutter.

### 2.3 AlgoHandshake

| in the module | in the code |
|---|---|
| `pi` | the fields of `PairInfo` the decisions use (`current = None` is `hasActiveAlgoOrder = false`; the four open switches are one; `modifyTime` is `algoModifyTime`) |
| `risk` | `AbnormalCloseState` per kind; `age` counts which waits are over |
| `algos`, `nextAlgo` | `alogOrderManager` and the id generator |
| `config` | `closeOnly`, `stopAllAlgo` |
| `phase` | where `on_timer` is; the handlers in it run without interleaving |
| `ExecOnTimer`, `DrainConfig`, `CheckRisks`, `CheckOrders` | `on_timer`: execution side, then configuration, `ProcessRisk`, and timeout / exposure / modification / fallback scan |
| `ExecOnOrder`, `ExecOnSpread`, `StrategyOnSpread` | a report; the two halves of a tick |
| `attempts` | history: tiers at which a risk close was submitted since the position was last flat |

Handlers that are sequences of calls are written as operators from the world
they find to the world they leave, so that the order of the calls is the code's.
The execution side takes any step `AlgoOrderSteps` allows. Prices, ADL rank,
funding and liquidity are inputs. A command sent as `CLOSE` changes nothing and
an unsupported one sets `closeFlag`, as `ApplyPairCommands` is written.

### 2.4 RuntimeControl

| in the module | in the code |
|---|---|
| `file` (`version`, `content`) | the file; `version` stands for inode, mtime and size |
| `pc`, `seen`, `text`, `stamp` | where `RunSignalOnce` is, the fingerprint it took, what it read, `m_cfgStamp` |
| `m_cfgQ`, `switches`, `pairs` | the queue; `closeOnly`, `stopAllAlgo`; the command fields of `PairInfo` |
| `Stat`, `ReadRuntimeConfigFile`, `Keep` | stat; read and parse; keep the fingerprint and push |
| `OnTimer` / `ApplyPairCommands` | drain the queue, take the last, apply it command by command |
| `WriteFile`, `Restart` | the operator; a crash and what the snapshot restores |

A content is a record or `Torn`, which is everything the reader refuses. The
commands are applied as written: the branch of CLOSE is taken by every other
type, and a refused command ends the whole call.

### 2.5 Restart

| in the module | in the code |
|---|---|
| `phase` | down, `Reconciling` or `Trading` (`m_phase`) |
| `pi`, `m_snapQ`, `disk` | the record in memory, on its way to the signal thread, in the snapshot file |
| `real`, `known` | `activeRealPosition`; which legs' push arrived or whose account's batch is complete |
| `algo`, `exchange`, `pushes` | the algo order, what fills at the exchange, pushes not yet handled |
| `CollectSnapshotRows`, `WritePairInfoRecordFile`, `pre_stop`, `Killed` | snapshot; orderly and abrupt end |
| `Start`, `OnPosition`, `TryReconcile` | `LoadSnapshot` and `HandleOrphanAlgoOrders`; push; the gate and `ReconcilePair` |

`Kill` says when an abrupt end may happen. With `"known"` the process dies only
while the snapshot knows of the algo order at work; with `"always"`
`NoTradeOverOrphans` does not hold, since an algo order submitted after the last
snapshot leaves no mark.

### 2.6 Rebalance

| in the module | in the code |
|---|---|
| `pi.ledger`, `pi.real` | `pairTotalVolume`; the pushed positions of both legs |
| `algo`, `pair` | the rebalance order (`total`, `residual`, direction) and its one pair order |
| `CloseAmount`, `EndVolume` | how much is closed, and the target in the ledger's coordinates |
| `OpenOnSpread`, `RefusedOnSpread`, `CancelOrderOnSpread`, `OnOrder` | the execution side: a clip, a clip that was not sent, a cancel, a report |
| `OnTimer(idle)` and its two variants | the execution side's timer, then `CheckExposureAbnormal` and `ProcessExposureRebalance`, with a RESUME or a give-up |
| `blind`, `drift`, `givenUp` | history: a decision over positions not yet pushed; ledger minus position at the start; a give-up |

### 2.7 Signals, SpreadStats, RateLimit

`Signals` has `RecalcOrderParams` with each of its early returns, the gates, the
volume limits, `CheckSignal`, and `CloseSpreadReached` of risk control with its
own copy of the comparisons, as in the code. `activeMarginStatus` and
`passiveMarginStatus`, which the code tests but nothing writes, are left out. Spreads
are integers in units of the ramp of 5e-6, so that rounding and the ratio
`spreadAdjPct` stay exact. `SpreadStats` has the sampling of the main loop, both
queues, the windows (one that is pruned empty is kept and still queues an invalid
statistic), the file and its restoration; a sample is its time, a
statistic what it was built from (the interpolation of a quantile is left out).
`RateLimit` has the list of one account, `CheckPersec` and `CheckCancelPersec`
and the recording of a request; check and send are two steps with time between.

## 3. Runs

| run | question | states | bounds and why they suffice |
|---|---|---|---|
| `exec_hedge` | is each fill hedged once, is a finished pair flat, are the books the exchange's, do a cancel and a hedge complete? | 48k | one pair order of up to 3 units, at least 2 to be sent and 1 to go on, passive lot 3, two hedges, one of them ended unfilled: rounding up, rounding down and a repeated hedge all occur |
| `exec_parallel` | frozen volumes, orders within the target, no order lost with two pair orders alive; `AlgoOrder` is implemented | 356k | two pair orders, both directions, UNKNOWN reports |
| `exec_spot` | (violation) frozen volumes on a SPOT leg | - | two sell orders |
| `handshake_stop` | one order at a time, ledger, nothing while stopped, the stop drains | 205k | two algo orders: the second is the one a late event could hit |
| `handshake_flags` | flags reach the running order; rebalancing pair stopped | 607k | every command with closeOnly on and off, abnormal exposure |
| `handshake_risk` | risk closes wait for the pair and their flags follow | 569k | spread risk and tiny positions, all tiers reachable |
| `handshake_tiers` | (violation) tiers in order | - | one risk, three algo orders |
| `control_file` | is a saved file missed, does the last one take effect? | 703k | two pairs, four writes (torn, replaced between stat and read, restored), a queue of 2 (16 in the code) that can overflow, one crash |
| `restart` | ledger, orphans, and does a start get to trade? | 349k | two units, two algo orders, three starts: an orphan of one start can outlive the next |
| `rebalance` | neither too much closed, nor a fill lost, nor a pair left unrepaired; does it end? | 149k | eight starts, each a case of its own (`MCRebalance`); lot 2 with an odd excess; one upset (a RESUME, a trade by hand or a give-up) |
| `signals` | are the signals consistent with each other, the gates and risk control? | 501k | six statistics (wide, shifted, crossed, near zero, below the span, none) and thirteen ticks beyond, at and between all thresholds, with no width, a wide active book and a wide passive one, each tried on risk control and on the signals in every state; one pair, position up to 2, profit targets 0 and 2 |
| `stats_window` | do the two windows keep what they promise? | 116k | `SpreadStats`: 9 units of time, 3 windows, queues of 2; `RateLimit`: 8 requests, limits 2 and 3, four windows |

Bounds: `PairBound`, `HedgeBound`, `KillBound` (pair orders, passive orders per
pair, passive orders ended unfilled), `MaxQueries` (5 in the code), `MaxAlgos`,
`MaxPosition`, `MaxVersion`, `MaxCrashes`, `MaxLatches`, `MaxSubmits`,
`MaxStarts`, `MaxResumes`, `MaxUpsets`, `MaxTime`, `MaxClock`, `MaxSent`. A bound
sits in the guard of the action it stops. Deadlock is checked in `rebalance` and
`signals`; the others stop at a bound (the last algo order, write, start or
moment), and say so.

What some properties leave out, because the code does not promise it:
`OpensWithheld` is stated between handlers (`phase = "idle"`), since within
`on_timer` a flag is set before the running order hears of it. `LedgerSettled`
leaves out orders given up as `ERRORCANCELED`: their later fills do not reach
the ledger, because the pair no longer names them. `LastFileTakesEffect` leaves
out a full queue and a STOP behind a command that may be refused; `LedgerTrue`
a pair that was resumed by hand; `NotOverclosed` and `Repaired` a decision taken
over a position not yet pushed. `OrdersWithinTarget` is about the moment an order
is sent: a sell that waits for an answer to its cancel or its query is counted
as filled (`GetExpectActiveVolume`), and when it ends unfilled the holding is
above what the orders sent behind it were sized for. `OneSideOnly` and
`OpensToKeep` hold for books that are not too wide: a taker crosses the book of
the active leg, and a maker sees the other side of it, so that the thresholds of
the two modes can only be told apart when the book is narrower than what keeps
them apart. No code checks that. `MCSignals` assumes it of its ticks (checked by
TLC), section 4 gives the widths. `OpensToKeep` is about one mode: opening as a
maker and closing as a taker may well coincide.

### 3.1 Fairness

`exec_hedge` assumes: the timer runs and, the limiter's window sliding, lets a
trade or query pass (WF); a resting active order of a cancelled algo order is
cancelled when market data keeps coming (SF, since a late repeat of an older
report may make it cancellable again and again); the gateway delivers the state
of an order or answers a query (WF); time passes (WF); the exchange acts on a
cancel request (WF); and a passive order, priced to cross the spread, fills
(WF). The last one is a real assumption: the code never cancels a resting
passive order of a cancelled algo order, and without it a cancel can wait for ever.

`handshake_stop` assumes the four parts of `on_timer` run (WF) and that a pair
order of a cancelled algo order ends (SF), which is what `CancelCompletes` of
`exec_hedge` shows.

`control_file` assumes that the signal thread polls and the main loop calls
`on_timer` (WF of both). The operator need not write and the process need not
crash.

`restart` assumes that pushes are handled and `TryReconcile`, a part of
`on_timer`, runs (WF). That the pushes of a start arrive is part of `Start`: the
gateway answers a subscription.

`rebalance` assumes the main loop's handlers (WF of `OnTimer`, `OnOrder`, the
cancel on a tick), that the exchange pushes each leg's position (WF), and that
orders that keep being sent and cancelled by age are filled sooner or later (SF
of `OpenOnSpread` and `Fill`). With a market that never trades the cycle of
cancelling and building anew does not end, and the code has no other way out.

### 3.2 What the violations show

* `exec_spot`: `PositionManager::OnDeleteOrder` compares the rest of a SPOT sell
  order with the frozen *buy* volume (PositionManager.cpp:117); when they are
  equal the frozen volume of every other sell order is released, too. With
  `PairBound` 3 in that configuration TLC also finds `OrdersWithinTarget` violated:
  the third order sells what an open one is selling already.
* `handshake_tiers`: the end of any algo order counts as an attempt of the
  current risk tier (RiskManager.cpp:347). A normal order that is cancelled to
  make room for a risk close uses up tier 1, and the first risk close goes out
  at tier 2, though RiskManager.h:8 says tier 1 is tried at once.

### 3.3 Behaviour worth a second look

Modelling the code met the following, which no run is kept for. Each is modelled
as written where a module covers it.

* Commands: a CLOSE does nothing and an unsupported command closes
  (PairTradingContext.cpp:1589); a refused command drops the commands behind it,
  a STOP among them (1556, 1595); a file read while the queue is full is never
  read again (197); RESUME frees a frozen pair without reconciling it (1571).
* Restart: a kill between a submission and the next snapshot leaves an orphan
  nothing marks; a flat pair keeps the tier of its last round when the snapshot
  was taken before the end of its last order (1807, against the comment at 1816).
* Statistics: a file written while some pair has too few samples loses the row of
  that pair (234), and restored statistics are replaced by invalid ones.
* Rebalancing: a heavier passive leg is never worked, though
  docs/AlgoType_Rebalance-敞口再平衡.md:113-118 describes it, since nothing
  writes `pairPassiveTotalVolume`; a pair with a naked leg is not abnormal; an
  order that ends before its position push is built a second time (670); the mark
  is taken away without a cancel (672); an order whose target lies beyond zero is
  FILLED at once (AlgoContext.cpp:1424, against the comment at
  PairTradingContext.cpp:1276).
* Signals: the liquidation state of the passive leg is written over that of the
  active one (PairInfoManager.cpp:753); the position limit found in `OnTimer`
  waits for the next recalculation (PairTradingContext.cpp:1667); with a span
  below `minSpreadSpan` from the start on, the close switches keep their defaults,
  off (SignalGenerator.cpp:77), while the statistics are valid and the thresholds
  still 0: `CloseSpreadReached` then compares with 0 and says that a spread has
  come back which no signal closes. RiskManager.cpp:196 calls that meaningless, but
  tests the statistics, not the thresholds; `RegressionMeansClose` therefore speaks
  of calculated thresholds.
* Execution: what is hedged is converted with `activeInfo.calcType` where the
  passive leg's is meant (PairManager.cpp:777). The branch is taken only when the
  legs' *base* asset is the one amounts are counted in; the strategy always
  counts in USDT.

## 4. Proofs

Every safety invariant and action property a passing run checks is also a
theorem, for all values of the constants that satisfy the ASSUME of their module
and, where the table says so, a further hypothesis. The star marks the one that
is needed because of an error in the code (`exec_spot`).

| module | theorem | property | hypothesis |
|---|---|---|---|
| `PairOrderExec_proofs` | `TypeCorrect`, `NeverHedgedTwice` | `TypeOK`, `HedgeBounded` | |
| | `CancelStopsTrading` | `NoNewExposureAfterCancel` | |
| | `Accounts`, `Tracks`, `Hedges` | `BooksMatchExchange`, `OpenOrdersTracked`, `FinishedPairsHedged` | |
| | `Freezes`, `Targets` | `FrozenMatchesOrders`, `OrdersWithinTarget` | `Careful` * |
| | `Implements` | `ImplementsAlgoOrder` | |
| `AlgoHandshake_proofs` | `Types`, `Busy`, `LedgerTrue` | `TypeOK`, `BusyWithTheWorkingOrder`, `LedgerSettled` | |
| | `Marks`, `Rebalancing`, `Withholding`, `Stopped` | `FlagsMatchOrder`, `RebalanceFrozen`, `OpensWithheld`, `NothingSubmittedWhileStopped` | |
| `RuntimeControl_proofs` | `TypeCorrect`, `FileNotMissed` | `TypeOK`, `NothingMissed` | |
| `Restart_proofs` | `TypeCorrect`, `OrphansFreeze`, `LedgerIsTrue` | `TypeOK`, `NoTradeOverOrphans`, `LedgerTrue` | `Careful` |
| `Rebalance_proofs` | `TypeCorrect`, `Booking`, `LeavesThreshold` | `TypeOK`, `FillsReachLedger`, `NotOverclosed` | |
| | `Repair` | `Repaired` | `Modest` |
| `Signals_proofs` | `CloseOnly`, `Regression` | `CloseOnlyOpensNothing`, `RegressionMeansClose` | |
| | `OneSided`, `Keeps` | `OneSideOnly`, `OpensToKeep` | narrow books |
| `Windows_proofs` | `RequestsBounded` | `WindowBounded` | `Limits` |
| | `OnlyYoungSamples`, `SamplesSpaced` | `BuiltFromWindow`, `WindowSpaced` | |

### 4.1 PairOrderExec

The proof is in four parts, each on top of the one before.

*Types and hedges.* `TypeOK` and `HedgeBounded` are not inductive alone: a
report moves volume from frozen to filled, and would break both if it could carry
less than the pair already counts or more than its order's volume. `IInv`
therefore adds that the exchange never fills more than the order's volume, that
the strategy and the exchange agree on that volume, and that a pair counts on its
active leg exactly what its active order reported. A hedge is then bounded by the
gap left after everything filled and frozen, up to half a lot (`RoundLotBound`),
and reports only move volume from frozen to filled or release it.
`CancelStopsTrading` is an action property: one step per action, over the orders
each of them sends.

*The ledger* (`JInv`). The frozen volumes of a pair are what its tracked orders
have left; its totals are the known fills of all its orders; position and pairs
together are the known fills of all orders; an open order is tracked; a finished
pair is flat. None of these is inductive alone: that a pair with nothing frozen
tracks no order, so that it may be finished, needs the first; that its gap is
what it seems to be needs the second; that a late fill at the exchange leaves
finished pairs flat needs the tracking. The sums of the properties run over sets
that change; the proof sums over the fixed set of ids, with 0 for what is not
there, so that a step changes the terms of one order or one pair (`FiniteSums`).

*The sides.* The position manager's two frozen volumes are those of the active
orders on each side, so that `GetExpectActiveVolume`, from which a new order is
sized, is the holding to which everything sent leads. `Careful` says that the
active leg is a swap or that the strategy never closes: with SPOT sells the code
releases the wrong side's volume, and both properties are false (section 3.2).

*The refinement.* Initial states map to initial states, and each action maps to
a step of `AlgoOrder` or to a stutter. A trade is a start of a pair order, the
finish of a pair an end that moves the position, and what changes no pair is a
stutter; this needs `JInv` (an `ERRORCANCELED` order is deleted with its pairs,
any other only when none is live).

### 4.2 AlgoHandshake

Handlers are operators on worlds, and so is the invariant: `Sound` holds between
any two calls of a handler, `Good` after the last one. `Sound` says that no algo
order works but the pair's, that it is the last one submitted, that one which
ended in order has no live pair order left to move its position, that the ledger
is the position of the last one once the pair is free, and that the risk-close
marks, the freeze of a rebalance and the withheld openings are consistent. There
is one lemma per call (submit, cancel, `OnAlgoOrderUpdate`, `RecalcOrderParams`,
`OnAlgoFinished`, ...) and one per handler, which applies them in the code's
order. `OpensWithheld` is about `phase = "idle"`; in the phases before, the
invariant says that an opening not yet withheld is about to be (`Pending`: the
order's modification time was reset, so that the last part of `on_timer`
modifies it).

### 4.3 RuntimeControl

`NothingMissed` follows one poll through its three steps: a fingerprint is never
of the future, a poll begins with a file that is not known, and if nobody has
written since the stat, what was read is what the file holds. `TypeOK` needs what
the loop over the commands of a file returns, for a file of any length. The loop
is a recursive function; its table is shown to exist, and its values to be well
typed, by the least index at which either fails (`LeastIndex`).

### 4.4 Restart

`Careful` says that the process freezes orphans (`freezeOnOrphanAlgoOrder`) and is
killed at most while its snapshot knows of the algo order at work; TLC finds the
counterexamples otherwise. `NoTradeOverOrphans` speaks of the running process, and
a restart would lose it; the invariant says of every copy of the record, in
memory, queued and on disk, that it is marked while an orphan is open. For
`LedgerTrue` it adds that an algo order's own volume and the fills it has not
seen make up the exchange's position, where the order is going to (so that
volumes stay in range), and what the pushes of a start hold.

### 4.5 Rebalance

Three views of the position (ledger or running total, fills still to be
reported, the exchange) meet in two equations. `Booked`: their difference is what
it was at the start, so a fill is in exactly one of them. `Aimed`: what is left of
the exposure and what is left of the order keep their distance, which is at least
the threshold when the order is built, since each fill takes the same from both.
`Settled` adds what the exposure may be when the mark is gone.

A clip may be rounded up by `Slack`, and the last clip of an order therefore
overshoots. `Repaired` needs that this does not turn one excess into one of the
other sign: `Modest`, `Slack <= 2 * Threshold`. The code justifies it, as the
threshold is four clips (PairTradingContext.cpp:598). The hypothesis was found by
the proof that failed: with a lot of 6, a threshold of 1 and a position of 3
against 1, TLC finds the overshoot.

### 4.6 Signals

`CloseOnlyOpensNothing` and `RegressionMeansClose` hold for all ticks. The
invariant is about the parameters, on every path of `RecalcOrderParams` with its
early returns: while a gate is set the opening switches are off (`Gated`), while
one is on its threshold is beyond the floor `minSpreadTarget` (`Deep`), and where
thresholds have been calculated the closing switches are on (`Closing`).

`Regression` compares what the code writes twice. `SameComparisons` takes the four
comparisons of `CloseSpreadReached` one by one to those of `CheckSignal` (axis,
side of each book, cost, threshold). The ticks
of the run are chosen such that another sign, side, cost or threshold in any one
comparison violates `RegressionMeansClose`. `ClosesFirst` says that of all signals a tick
satisfies a close is submitted if there is one, since closes come first in
`ProcessPairSignal`, and only in the direction of the position. `Closing` excludes
that a switch stands between the two. Outside the statement are thresholds not
yet calculated (section 3.3), a position that has nothing left to close at its
tier (`Room`) and a pair that is being stopped or repaired (`CanClose`).

`OneSided` assumes that the floor is on (`minSpreadTarget > 0`) and that the active
leg's book is wider than the passive one's, if at all, by at most `OneSidedWidth`,
twice the floor and twice the maker's cost; `Keeps` that it is by at most
`KeptWidth`, twice that cost and the profit target. The shipped configuration
(`minSpreadTarget` 0.0012, `minProfitTarget` 0.0005, costs of 7 basis points) makes
these 38 and 19 basis points, where the books of the instruments it trades are about one wide. It is an
assumption about the market, not about the code: with ticks of far wider
books (40 and 80 units) TLC finds both properties violated.

### 4.7 SpreadStats and RateLimit

`WindowBounded` is about requests the list has long forgotten, so the invariant
says what the list is: the end of the history, everything in front of it being out
of the window for good. It assumes natural limits and a clock that is not set back.

`BuiltFromWindow` is about the oldest sample of a window, but only the front of
the window is pruned; the invariant follows a sample from the tick through the
queue into the window and says that samples are in order on the whole way,
`SampleGap` apart, whatever is late, repeated, dropped at a full queue or restored
from the file.

### 4.8 Model-checked only

Liveness under fairness is out of the prover's reach: `CancelCompletes`,
`FillsGetHedged`, `StopDrains`, `LastFileTakesEffect`, `StartsTrading`,
`RebalanceEnds`. So are the two violations, which are counterexamples.


## 5. Not modelled

* Order pricing, the order-moving path of `BaseAlgoOrder` and the totals of
  MAKER_TAKER, whose control is that of TAKER_TAKER with another set of switches
  (AlgoContext.cpp:483-569, BaseAlgoOrder.cpp:463-543); rebalancing inside a
  pair order; fishing orders, which the strategy does not submit.
* Balances and margin (`AccountManager`): arithmetic on data of the account. Its
  verdict, `FundVerify`, is a nondeterministic refusal in `PairOrderExec`.
* MARGIN legs of `PositionManager` and legs counted in different units.
* Several pairs that contend for one account in one `OnTimer`.
* Exceptions: `base_strategy.h:167` catches what a handler throws and goes on
  with the handler half done. The signal handler's `pre_stop` runs in `Restart`
  between two handlers, not inside one.
* The interpolation of quantiles, average prices, the parsing of files, logs,
  alarms, the reporting scripts.
* Stub headers and tests, and the vendored JSON library, which are not part of
  the system. The library is 25,533 of the 42,912 lines the source counts, so the
  share of lines that is mapped (13 %) says little about the rest: of
  PairTradingContext, PairInfoManager, AlgoContext, BaseAlgoOrder, RiskManager and
  SignalGenerator what is left is mostly logging, formatting and pricing.

## 6. Plan

Done: the execution core, its contract, the handshake with the strategy, runtime
configuration, restart, rebalancing, signals, statistics and limits, and theorems
for every safety property of their runs. Next:

1. Proofs: `LedgerTrue` and `NoTradeOverOrphans` of `Restart` for a pair that is
   killed at any time, with the weaker conclusion that still holds; stronger
   contracts in `AlgoOrderSteps` (a bound on the position of an algo order) and
   their use in `AlgoHandshake`.
2. `RiskTiers`: several kinds of risk, conditions that lapse, manual mode.
3. `HedgeVolumes`: the two legs in their own units, as operators against a
   definition.
4. Accounts: what `FundVerify` promises when several pairs share a balance.
