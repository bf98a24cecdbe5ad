---------------------------- MODULE AlgoHandshake ----------------------------
(* The strategy (PairTradingContext, PairTradingStrategy, RiskManager and the *)
(* pair's record in PairInfoManager) and the algo orders it submits, for one  *)
(* pair; pairs share only the runtime configuration.  Algo orders take the    *)
(* steps of AlgoOrderSteps, which PairOrderExec implements.                   *)
(*                                                                            *)
(* Everything runs on the thread of the main loop; a handler is one action,   *)
(* except on_timer, which is four in a row, in phases: the execution side's   *)
(* OnTimer, then of the strategy's the configuration, the risks, and the      *)
(* checks with ScanFinishedAlgoOrders.  Prices, funding rates, ADL    *)
(* ranks, liquidity and the clock decide whether a step happens and are       *)
(* nondeterministic choices.  The position is taken on one side and as a      *)
(* small number; startup reconciliation is over.                              *)
EXTENDS AlgoOrderSteps

CONSTANTS
  Kinds,       \* risks watched, a subset of {"ADL", "SNR", "FUNDING"}
  Configs,     \* runtime configurations that may arrive:
               \* records [closeOnly, stopAllAlgo, cmd]
  Watched,     \* whether the net exposure of the legs may become abnormal
  AutoFlag,    \* autoFlag of the pair: FALSE in manual mode
  MaxPosition, \* bound: the position
  MaxAlgos     \* bound: algo orders submitted

Commands == {"NONE", "STOP", "CLOSE", "RESUME", "MODIFY"}
AllKinds == {"ADL", "SNR", "FUNDING"}

ASSUME HandshakeAssumption ==
  /\ Kinds \subseteq AllKinds
  /\ Configs \subseteq [closeOnly : BOOLEAN, stopAllAlgo : BOOLEAN, cmd : Commands]
  /\ Watched \in BOOLEAN /\ AutoFlag \in BOOLEAN
  /\ MaxPosition \in Nat \ {0} /\ MaxAlgos \in Nat \ {0}

VARIABLES
  pi,        \* PairInfo: the strategy's record of the pair
  risk,      \* AbnormalCloseState of each kind of risk
  algos,     \* alogOrderManager: algo order id -> its state
  nextAlgo,  \* next id of GenerateStrategyAlgoPairId
  config,    \* closeOnly, stopAllAlgo
  phase,     \* what on_timer does next: "config", "risk", "checks"; "idle" outside
  attempts   \* history: the tiers risk closes were submitted at since last flat

vars == <<pi, risk, algos, nextAlgo, config, phase, attempts>>

AlgoId == 1..MaxAlgos
None   == 0
Roles  == {"OPEN_SIGNAL", "CLOSE_SIGNAL", "RISK_CLOSE"}

\* current = None stands for hasActiveAlgoOrder = false: both are written
\* together.  openSwitch: the four open switches of orderParams.  modifyTime:
\* algoModifyTime, which is 0, or the time of this on_timer, or earlier.
PairInfo == [current : AlgoId \union {None}, ledger : 0..MaxPosition,
             riskCloseOrderInFlight : BOOLEAN, activeAlgoIsRiskClose : BOOLEAN,
             stopFlag : BOOLEAN, closeFlag : BOOLEAN, reBalance : BOOLEAN,
             openSwitch : BOOLEAN, modifyTime : {"zero", "now", "past"}]
\* tried: the tiers whose tierNTimes is positive.  age: 1 once tier1WaitUs, 2
\* once tier1WaitUs + tier2WaitUs have passed since startTime.
RiskState == [tier : 0..3, tried : SUBSET (1..3), age : 0..2]
\* tier: of the forgone profit a risk close was submitted with, else 0.
Algo == [status : Working \union Terminal, role : Roles,
         position : 0..MaxPosition, live : SUBSET ({1} \X {1, -1}),
         mayOpen : BOOLEAN, mayClose : BOOLEAN,
         type : {"PairTrading", "Rebalance"}, tier : 0..3]

Untriggered == [tier |-> 0, tried |-> {}, age |-> 0]
Active      == pi.current # None

-----------------------------------------------------------------------------
(* The strategy's handlers are sequences of calls.  Each call is an operator  *)
(* from the world w it finds to the world it leaves.                          *)

World == [pi |-> pi, risk |-> risk, algos |-> algos, nextAlgo |-> nextAlgo,
          config |-> config, attempts |-> attempts]
Becomes(w) ==
  /\ pi' = w.pi /\ risk' = w.risk /\ algos' = w.algos /\ nextAlgo' = w.nextAlgo
  /\ config' = w.config /\ attempts' = w.attempts

\* RecalcOrderParams: the spreads may allow opening, the gates may forbid it.
\* spreadsAllow also stands for its two early returns: statistics not yet valid
\* (the switch keeps its value) and a span too narrow (the switch goes off).
RecalcOrderParams(w, spreadsAllow) ==
  [w EXCEPT !.pi.openSwitch = spreadsAllow /\ ~w.config.closeOnly /\ ~w.pi.closeFlag]

\* Faulty variant: the mark of a risk close in flight stays.
ClearedInFlight(p) == [p EXCEPT !.current = None, !.activeAlgoIsRiskClose = FALSE]

\* ClearActiveAlgoOrder
Cleared(p) == [p EXCEPT !.current = None, !.riskCloseOrderInFlight = FALSE,
                        !.activeAlgoIsRiskClose = FALSE]

\* Faulty variant: risks that are not triggered count the attempt, too.
OnAlgoFinishedUntriggered(rs, flat) ==
  [k \in DOMAIN rs |->
     IF flat THEN Untriggered ELSE [rs[k] EXCEPT !.tried = @ \union {rs[k].tier}]]

\* RiskManager::OnAlgoFinished: flat resets the tiers, otherwise every triggered
\* risk counts the end of the algo order, whichever it was, as an attempt.
OnAlgoFinished(rs, flat) ==
  [k \in DOMAIN rs |->
     IF flat THEN Untriggered
     ELSE IF rs[k].tier > 0 THEN [rs[k] EXCEPT !.tried = @ \union {rs[k].tier}]
     ELSE rs[k]]

\* Faulty variants: the id of the reporting algo order is not compared with the
\* current one; the pair is released before the last volume is taken over.
OnAlgoOrderUpdateAnyId(w, id, spreadsAllow) ==
  LET a == w.algos[id]
      taken == [w EXCEPT !.pi.ledger = a.position]
  IN  IF a.status \notin Terminal THEN taken
      ELSE RecalcOrderParams(
             [taken EXCEPT !.risk = OnAlgoFinished(w.risk, a.position = 0),
                           !.pi = Cleared(taken.pi),
                           !.attempts = IF a.position = 0 THEN {} ELSE @], spreadsAllow)
OnAlgoOrderUpdateNoVolume(w, id, spreadsAllow) ==
  LET a == w.algos[id]
      taken == [w EXCEPT !.pi.ledger = a.position]
  IN  IF id # w.pi.current THEN w
      ELSE IF a.status \notin Terminal THEN taken
      ELSE RecalcOrderParams(
             [w EXCEPT !.risk = OnAlgoFinished(w.risk, a.position = 0),
                       !.pi = Cleared(w.pi),
                       !.attempts = IF a.position = 0 THEN {} ELSE @], spreadsAllow)

\* OnAlgoOrderUpdate: only the current algo order of the pair is listened to.
OnAlgoOrderUpdate(w, id, spreadsAllow) ==
  LET a == w.algos[id]
      taken == [w EXCEPT !.pi.ledger = a.position]
  IN  IF id # w.pi.current THEN w
      ELSE IF a.status \notin Terminal THEN taken
      ELSE RecalcOrderParams(
             [taken EXCEPT !.risk = OnAlgoFinished(w.risk, a.position = 0),
                           !.pi = Cleared(taken.pi),
                           !.attempts = IF a.position = 0 THEN {} ELSE @], spreadsAllow)

\* SubmitAlgoOrder and SubmitBuiltAlgoOrder.  The new algo order starts from the
\* ledger.
Submit(w, role, type, mayOpen, mayClose, tier) ==
  LET id == w.nextAlgo
      a  == [status |-> "NEW", role |-> role, position |-> w.pi.ledger, live |-> {},
             mayOpen |-> mayOpen, mayClose |-> mayClose, type |-> type, tier |-> tier]
  IN  [w EXCEPT !.algos = [i \in DOMAIN @ \union {id} |-> IF i = id THEN a ELSE @[i]],
                !.nextAlgo = @ + 1,
                !.attempts = IF tier = 0 THEN @ ELSE @ \union {tier},
                !.pi.current = id, !.pi.modifyTime = "now",
                !.pi.activeAlgoIsRiskClose = (role = "RISK_CLOSE")]

\* RequestCancelAlgoOrder and SubmitAlgoOrder(id, CANCEL).
RequestCancel(w) ==
  IF w.pi.current # None /\ w.algos[w.pi.current].status = "NEW"
  THEN [w EXCEPT !.algos[w.pi.current].status = "CANCELLING"]
  ELSE w

-----------------------------------------------------------------------------
(* Risk tiers *)

AdvanceTier(s) ==
  IF s.tier = 0 THEN [Untriggered EXCEPT !.tier = 1]
  ELSE IF s.tier < 3 /\ s.tier \in s.tried /\ s.age >= s.tier
       THEN [s EXCEPT !.tier = @ + 1] ELSE s

\* GetCurrentTier: whether to close now, tier s.tier being the one to close with.
ShouldAttempt(s) == s.tier = 3 \/ (s.tier > 0 /\ s.tier \notin s.tried)

Rank == [ADL |-> 1, SNR |-> 2, FUNDING |-> 3]

\* CheckRisk: the kinds in turn, up to the first that asks for a close; a tiny
\* position comes before all.  bad: the kinds whose condition holds; regressed:
\* the spread has reached the level of a normal close.
CheckRisk(rs, in) ==
  LET seen   == [k \in DOMAIN rs |-> IF k \in in.bad THEN AdvanceTier(rs[k])
                                     ELSE IF k = "SNR" /\ in.regressed THEN Untriggered
                                     ELSE rs[k]]
      asking == {k \in in.bad : ShouldAttempt(seen[k])}
      first  == CHOOSE k \in asking : \A j \in asking : Rank[k] <= Rank[j]
      forced == in.tiny \/ asking # {}
  IN  [risk   |-> [k \in DOMAIN rs |->
                     IF in.tiny \/ (asking # {} /\ Rank[k] > Rank[first])
                     THEN rs[k] ELSE seen[k]],
       forced |-> forced,
       tier   |-> IF in.tiny \/ asking = {} THEN 0 ELSE seen[first].tier]

\* ProcessExposureRebalance: close the excess, or give up rebalancing.
ProcessExposureRebalance(w, in) ==
  IF ~w.pi.reBalance THEN w
  ELSE IF ~in.excess THEN [w EXCEPT !.pi.reBalance = FALSE]
  ELSE IF w.pi.current # None THEN w
  ELSE IF ~in.repairable THEN [w EXCEPT !.pi.reBalance = FALSE]
  ELSE Submit(w, "CLOSE_SIGNAL", "Rebalance", FALSE, TRUE, 0)

\* Faulty variants: stopAllAlgo does not hold back a risk close; a pair that is
\* busy is not waited for; the order in flight is not remembered.
ProcessRiskUnstoppable(w, in) ==
  LET r == CheckRisk(w.risk, in)
      c == [w EXCEPT !.risk = r.risk]
  IN  IF ~r.forced THEN IF c.config.stopAllAlgo THEN c ELSE ProcessExposureRebalance(c, in)
      ELSE IF c.pi.current # None
           THEN IF c.pi.riskCloseOrderInFlight THEN c ELSE RequestCancel(c)
      ELSE [Submit(c, "RISK_CLOSE", "PairTrading", FALSE, TRUE, r.tier)
              EXCEPT !.pi.riskCloseOrderInFlight = TRUE]
ProcessRiskNotWaiting(w, in) ==
  LET r == CheckRisk(w.risk, in)
      c == [w EXCEPT !.risk = r.risk]
  IN  IF c.config.stopAllAlgo THEN c
      ELSE IF ~r.forced THEN ProcessExposureRebalance(c, in)
      ELSE IF c.pi.current # None /\ c.pi.riskCloseOrderInFlight THEN c
      ELSE [Submit(RequestCancel(c), "RISK_CLOSE", "PairTrading", FALSE, TRUE, r.tier)
              EXCEPT !.pi.riskCloseOrderInFlight = TRUE]

\* ProcessRisk: without a need to close, the exposure is looked at; a busy pair is
\* cancelled first, unless it is the risk close itself.  A risk close that cannot
\* be built (no target volume) is not submitted.
ProcessRisk(w, in) ==
  LET r == CheckRisk(w.risk, in)
      c == [w EXCEPT !.risk = r.risk]
  IN  IF c.config.stopAllAlgo THEN c
      ELSE IF ~r.forced THEN ProcessExposureRebalance(c, in)
      ELSE IF c.pi.current # None
           THEN IF c.pi.riskCloseOrderInFlight THEN c ELSE RequestCancel(c)
      ELSE IF ~in.buildable THEN c
      ELSE [Submit(c, "RISK_CLOSE", "PairTrading", FALSE, TRUE, r.tier)
              EXCEPT !.pi.riskCloseOrderInFlight = TRUE]

-----------------------------------------------------------------------------
(* The other parts of PairTradingContext::OnTimer *)

\* Faulty variant: RESUME leaves the pair to be rebalanced.
ApplyPairCommandKeepRebalance(w, cmd) ==
  CASE cmd = "STOP"   -> [w EXCEPT !.pi.stopFlag = TRUE]
    [] cmd = "RESUME" -> [w EXCEPT !.pi.stopFlag = FALSE, !.pi.closeFlag = FALSE]
    [] cmd = "MODIFY" -> IF w.pi.stopFlag THEN w ELSE [w EXCEPT !.pi.closeFlag = TRUE]
    [] OTHER -> w

\* ApplyPairCommands for this pair.  A CLOSE is not applied: the branch that sets
\* closeFlag is taken by every other command.
ApplyPairCommand(w, cmd) ==
  CASE cmd = "STOP"   -> [w EXCEPT !.pi.stopFlag = TRUE]
    [] cmd = "RESUME" -> [w EXCEPT !.pi.stopFlag = FALSE, !.pi.closeFlag = FALSE,
                                   !.pi.reBalance = FALSE]
    [] cmd = "MODIFY" -> IF w.pi.stopFlag THEN w ELSE [w EXCEPT !.pi.closeFlag = TRUE]
    [] OTHER -> w

\* A new runtime configuration: commands, order parameters, and a modification of
\* the active algo order in the same call.
ApplyConfig(w, c, spreadsAllow) ==
  RecalcOrderParams(
    ApplyPairCommand([w EXCEPT !.config = [closeOnly |-> c.closeOnly,
                                           stopAllAlgo |-> c.stopAllAlgo],
                               !.pi.modifyTime = "zero"], c.cmd),
    spreadsAllow)

\* CheckAlgoOrderTimeout: the signal behind the algo order has been gone too long.
CheckAlgoOrderTimeout(w, expired) ==
  IF expired /\ w.pi.modifyTime # "now" /\ (w.pi.reBalance \/ AutoFlag) THEN RequestCancel(w) ELSE w

CheckExposureAbnormal(w, in) ==
  IF w.pi.stopFlag \/ ~in.excess THEN w
  ELSE RequestCancel([w EXCEPT !.pi.stopFlag = TRUE, !.pi.reBalance = TRUE])

\* The algo order takes a modification, and the time of this one has come.
Modifiable(a) == a.status = "NEW" /\ a.type = "PairTrading"
ModifyDue(w, in) ==
  /\ w.pi.current # None /\ ~w.config.stopAllAlgo
  /\ w.pi.modifyTime = "zero" \/ (w.pi.modifyTime = "past" /\ in.due)

\* Faulty variant: the flags of the pair do not mask the switches.
OpensAfterModifyUnmasked(p, illiquid) ==
  p.openSwitch /\ ~p.activeAlgoIsRiskClose /\ ~illiquid

\* BuildNormalModify, BuildCloseModify and the masks of ProcessModify.  illiquid: a
\* leg is in liquidity state 2, so that the parameters only close.
OpensAfterModify(p, illiquid) ==
  /\ p.openSwitch /\ ~p.activeAlgoIsRiskClose /\ ~illiquid
  /\ ~p.stopFlag /\ ~p.closeFlag

\* ProcessModify and SubmitAlgoOrder(id, MODIFY), which may refuse it.
ProcessModify(w, in) ==
  LET id  == w.pi.current
      opens == OpensAfterModify(w.pi, in.illiquid)
  IN  IF ~ModifyDue(w, in) THEN w
      ELSE [w EXCEPT !.pi.modifyTime = "now",
                     !.algos[id] = IF Modifiable(@)
                                   THEN [@ EXCEPT !.mayOpen = opens, !.mayClose = TRUE]
                                   ELSE @]

\* ScanFinishedAlgoOrders: the fallback that releases a pair whose algo order has
\* ended or is gone.
ScanFinished(w, spreadsAllow) ==
  LET id == w.pi.current IN
  IF id = None THEN w
  ELSE IF id \notin DOMAIN w.algos THEN [w EXCEPT !.pi = Cleared(@)]
  ELSE IF w.algos[id].status \in Terminal THEN OnAlgoOrderUpdate(w, id, spreadsAllow)
  ELSE w

-----------------------------------------------------------------------------
(* Actions *)

\* What ProcessRisk may find.  Nothing is at risk without a position.
RiskInputs ==
  {in \in [bad : SUBSET Kinds, regressed : BOOLEAN, tiny : BOOLEAN,
           excess : BOOLEAN, repairable : BOOLEAN, buildable : BOOLEAN] :
     /\ in.regressed => "SNR" \in Kinds \ in.bad
     /\ in.tiny => in.bad = {} /\ ~in.regressed
     /\ in.excess => Watched
     /\ in.repairable => in.excess
     /\ in.buildable \/ in.tiny \/ in.bad # {}}
CheckInputs == [excess : IF Watched THEN BOOLEAN ELSE {FALSE},
                expired : BOOLEAN, due : BOOLEAN, illiquid : BOOLEAN]

\* Faulty variant: stopAllAlgo does not cancel what is active.
DrainConfigNotCancelling ==
  /\ phase = "config" /\ phase' = "risk"
  /\ \E spreadsAllow \in BOOLEAN :
       \E w \in {RecalcOrderParams(World, spreadsAllow)}
                 \union {ApplyConfig(World, c, spreadsAllow) : c \in Configs} :
         Becomes(w)

\* PairTradingContext::OnTimer: the runtime configuration, stopAllAlgo, and the
\* periodic recalculation of the order parameters.
DrainConfig ==
  /\ phase = "config" /\ phase' = "risk"
  /\ \E spreadsAllow \in BOOLEAN :
       \E w \in {RecalcOrderParams(World, spreadsAllow)}
                 \union {ApplyConfig(World, c, spreadsAllow) : c \in Configs} :
         Becomes(IF w.config.stopAllAlgo THEN RequestCancel(w) ELSE w)

\* PairTradingContext::OnTimer: the risks.
CheckRisks ==
  /\ phase = "risk" /\ phase' = "checks"
  /\ \E in \in RiskInputs :
       LET w == ProcessRisk(World, in)
       IN  /\ pi.ledger = 0 => in.bad = {} /\ ~in.tiny /\ ~in.regressed
           /\ w.nextAlgo <= MaxAlgos + 1
           /\ Becomes(w)

\* PairTradingContext::OnTimer: what cancels and modifies the active algo order;
\* then ScanFinishedAlgoOrders.
CheckOrders ==
  /\ phase = "checks" /\ phase' = "idle"
  /\ \E in \in CheckInputs, spreadsAllow \in BOOLEAN :
       LET w1 == CheckAlgoOrderTimeout(World, in.expired)
           w2 == CheckExposureAbnormal(w1, in)
           w3 == ProcessModify(w2, in)
       IN  Becomes(ScanFinished(w3, spreadsAllow))

Outcome == [status : Working \union Terminal, position : 0..MaxPosition,
            live : SUBSET ({1} \X {1, -1})]
After(a, out) == [a EXCEPT !.status = out.status, !.position = out.position,
                           !.live = out.live]
WorkingIds  == {id \in DOMAIN algos : algos[id].status \in Working}
TerminalIds == {id \in DOMAIN algos : algos[id].status \in Terminal}

\* AlgoContext::OnTimer: every working algo order ticks, terminal ones whose grace
\* period is over are deleted.  The strategy hears of an algo order that ended and
\* (told) of a pair order that ended with a passive fill.
ExecOnTimer ==
  /\ phase = "idle"
  /\ phase' = "config"
  /\ \E out \in [WorkingIds -> Outcome], gone \in SUBSET TerminalIds,
        told \in BOOLEAN, spreadsAllow \in BOOLEAN :
       LET after == [id \in DOMAIN algos \ gone |->
                       IF id \in WorkingIds THEN After(algos[id], out[id]) ELSE algos[id]]
           w  == [World EXCEPT !.algos = after,
                               !.pi.modifyTime = IF @ = "now" THEN "past" ELSE @]
           id == pi.current
       IN  /\ \A i \in WorkingIds : Ticks(algos[i], after[i])
           /\ told => \E i \in WorkingIds : after[i].live # algos[i].live
           /\ \/ /\ Active /\ id \in WorkingIds
                 /\ after[id].status \in Terminal \/ told
                 /\ Becomes(OnAlgoOrderUpdate(w, id, spreadsAllow))
              \/ /\ ~(Active /\ id \in WorkingIds
                        /\ (after[id].status \in Terminal \/ told))
                 /\ Becomes(w)

\* AlgoContext::OnOrder of algo order id, with the notification that goes with the
\* end of a pair order.
ExecOnOrder(id) ==
  /\ phase = "idle"
  /\ \E pos \in 0..MaxPosition, live \in SUBSET algos[id].live,
        told \in BOOLEAN, spreadsAllow \in BOOLEAN :
       LET b == [algos[id] EXCEPT !.position = pos, !.live = live]
           w == [World EXCEPT !.algos[id] = b]
       IN  /\ TakesReport(algos[id], b) /\ b # algos[id]
           /\ Becomes(IF told THEN OnAlgoOrderUpdate(w, id, spreadsAllow) ELSE w)
  /\ UNCHANGED phase

\* AlgoContext::OnSpread of algo order id: it starts a pair order.
ExecOnSpread(id) ==
  /\ phase = "idle"
  /\ algos[id].live = {}
  /\ \E dir \in {1, -1} :
       LET b == [algos[id] EXCEPT !.live = {<<1, dir>>}]
       IN  /\ dir = -1 => algos[id].position > 0
           /\ Creates(algos[id], b)
           /\ algos' = [algos EXCEPT ![id] = b]
  /\ UNCHANGED <<pi, risk, nextAlgo, config, phase, attempts>>

\* ProcessPairSignal on a tick: closing is tried before opening, and a signal needs
\* the switch of its side in the order parameters.
CanOpen  == ~config.closeOnly /\ ~pi.stopFlag /\ ~pi.closeFlag
CanClose == pi.ledger > 0 /\ ~pi.stopFlag
StrategyOnSpread ==
  /\ phase = "idle"
  /\ ~config.stopAllAlgo
  /\ ~Active
  /\ nextAlgo <= MaxAlgos
  /\ \/ CanClose /\ Becomes(Submit(World, "CLOSE_SIGNAL", "PairTrading",
                                   pi.openSwitch, TRUE, 0))
     \/ /\ CanOpen /\ pi.openSwitch
        /\ Becomes(Submit(World, "OPEN_SIGNAL", "PairTrading", TRUE, TRUE, 0))
  /\ UNCHANGED phase

\* External: time passes for a triggered risk.
Wait(k) ==
  /\ phase = "idle"
  /\ risk[k].tier > 0 /\ risk[k].age < 2
  /\ risk' = [risk EXCEPT ![k].age = @ + 1]
  /\ UNCHANGED <<pi, algos, nextAlgo, config, phase, attempts>>

Init ==
  /\ pi \in [current : {None}, ledger : 0..MaxPosition,
             riskCloseOrderInFlight : {FALSE}, activeAlgoIsRiskClose : {FALSE},
             stopFlag : BOOLEAN, closeFlag : BOOLEAN, reBalance : {FALSE},
             openSwitch : {FALSE}, modifyTime : {"zero"}]
  /\ risk = [k \in Kinds |-> Untriggered]
  /\ algos = <<>> /\ nextAlgo = 1 /\ attempts = {}
  /\ config = [closeOnly |-> FALSE, stopAllAlgo |-> FALSE]
  /\ phase = "idle"

Next ==
  \/ ExecOnTimer
  \/ DrainConfig
  \/ CheckRisks
  \/ CheckOrders
  \/ StrategyOnSpread
  \/ \E id \in DOMAIN algos : ExecOnOrder(id) \/ ExecOnSpread(id)
  \/ \E k \in Kinds : Wait(k)

Spec == Init /\ [][Next]_vars

(* Fairness.  The main loop calls on_timer every second; that a pair order    *)
(* worked while its algo order is CANCELLING ends is what CancelCompletes     *)
(* shows of PairOrderExec (strongly, since a running on_timer holds reports   *)
(* back).                                                                     *)
EndsPairOrder(id) ==
  /\ id \in DOMAIN algos
  /\ algos[id].status = "CANCELLING"
  /\ ExecOnOrder(id)

FairSpec ==
  /\ Spec
  /\ WF_vars(ExecOnTimer) /\ WF_vars(DrainConfig)
  /\ WF_vars(CheckRisks) /\ WF_vars(CheckOrders)
  /\ \A id \in AlgoId : SF_vars(EndsPairOrder(id))

-----------------------------------------------------------------------------
(* Properties *)

\* The variables have their types.
TypeOK ==
  /\ pi \in PairInfo
  /\ risk \in [Kinds -> RiskState]
  /\ DOMAIN algos \subseteq AlgoId /\ algos \in [DOMAIN algos -> Algo]
  /\ nextAlgo \in 1..(MaxAlgos + 1) /\ attempts \subseteq 1..3
  /\ config \in [closeOnly : BOOLEAN, stopAllAlgo : BOOLEAN]
  /\ phase \in {"idle", "config", "risk", "checks"}

\* The pair is busy exactly while an algo order works, and with that order: neither
\* a late notification of an earlier one nor a risk close that finds the pair busy
\* lets two trade at once, and an order that has ended blocks the pair no longer.
BusyWithTheWorkingOrder ==
  \A id \in DOMAIN algos : algos[id].status \in Working <=> pi.current = id

\* While no algo order is active, the ledger is the position the last one ended
\* with, so that the next starts where it stopped.  (A given-up order may move on.)
LedgerSettled ==
  LET last == nextAlgo - 1 IN
  ~Active /\ last \in DOMAIN algos =>
    (algos[last].status \in {"FILLED", "CANCELED"} => pi.ledger = algos[last].position)

\* No working algo order may open under closeOnly, closeFlag or stopFlag, nor a risk
\* close at any time, once on_timer has returned: the switches were computed before
\* the flag was set and reach the order by another call.  (An order being cancelled
\* keeps its switches and creates nothing.)
OpensWithheld ==
  phase = "idle" => \A id \in DOMAIN algos :
    (/\ algos[id].status = "NEW"
     /\ config.closeOnly \/ pi.closeFlag \/ pi.stopFlag \/ algos[id].role = "RISK_CLOSE")
      => ~algos[id].mayOpen

\* PairInfo.h: a pair being rebalanced is stopped, so that its signals neither open
\* nor close and the rebalance order's age is measured from its submission.
RebalanceFrozen == pi.reBalance => pi.stopFlag

\* The two flags that exempt and restrict a risk close are up exactly while one is
\* the active algo order.
FlagsMatchOrder ==
  LET isRisk == Active /\ algos[pi.current].role = "RISK_CLOSE" IN
  /\ pi.riskCloseOrderInFlight = isRisk
  /\ pi.activeAlgoIsRiskClose = isRisk

\* Under stopAllAlgo no algo order is submitted, not even a risk close, from the
\* very call that takes the setting over.
NothingSubmittedWhileStopped ==
  [][config'.stopAllAlgo => nextAlgo' = nextAlgo]_vars

\* stopAllAlgo drains the pair: its algo order ends and is settled.
StopDrains == config.stopAllAlgo ~> (~Active \/ ~config.stopAllAlgo)

\* RiskManager.h: a risk is answered with tier 1 at once, and only then with the
\* dearer tiers: no close of tier 2 or 3 without one of the tier before it.
TiersInOrder == \A t \in attempts : t > 1 => t - 1 \in attempts
=============================================================================
