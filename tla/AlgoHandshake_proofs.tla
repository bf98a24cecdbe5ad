------------------------ MODULE AlgoHandshake_proofs -------------------------
(* Proofs about AlgoHandshake, for any kinds of risk, configurations and      *)
(* bounds: types, that the pair is busy with its working algo order and no    *)
(* other, that the ledger of a free pair is true, that the flags of a risk    *)
(* close and of a rebalance match what is at work, that openings are          *)
(* withheld, and that stopAllAlgo submits nothing.                            *)
(*                                                                            *)
(* The handlers are operators on worlds, so the invariant is a predicate of   *)
(* worlds, too: Sound holds between any two calls of a handler, Good after    *)
(* the last one.  What the phases of on_timer add is whether an opening that  *)
(* must be withheld already is (Withheld), or is about to be (Pending).       *)
EXTENDS AlgoHandshake, TLAPS

Worlds == [pi : PairInfo, risk : [Kinds -> RiskState],
           algos : UNION {[S -> Algo] : S \in SUBSET AlgoId},
           nextAlgo : 1..(MaxAlgos + 1),
           config : [closeOnly : BOOLEAN, stopAllAlgo : BOOLEAN],
           attempts : SUBSET (1..3)]

\* The active algo order is the last one submitted, and is known.
Numbered(w) ==
  /\ \A id \in DOMAIN w.algos : id < w.nextAlgo
  /\ w.pi.current # None => w.pi.current \in DOMAIN w.algos /\ w.pi.current = w.nextAlgo - 1

OneWorks(w) == \A id \in DOMAIN w.algos : w.algos[id].status \in Working => w.pi.current = id
Works(w)    == w.pi.current # None => w.algos[w.pi.current].status \in Working

\* An algo order that ended in order has nothing left that could move its position.
EndedRests(w) ==
  \A id \in DOMAIN w.algos : w.algos[id].status \in {"FILLED", "CANCELED"} => w.algos[id].live = {}

Settled(w) ==
  \A id \in DOMAIN w.algos :
    (/\ w.pi.current = None /\ id = w.nextAlgo - 1
     /\ w.algos[id].status \in {"FILLED", "CANCELED"})
      => w.pi.ledger = w.algos[id].position

IsRiskClose(w) == w.pi.current # None /\ w.algos[w.pi.current].role = "RISK_CLOSE"

Frozen(w) == w.pi.reBalance => w.pi.stopFlag

\* The switches were computed after the last change of what forbids opening.
Masked(w) == w.pi.openSwitch => ~w.config.closeOnly /\ ~w.pi.closeFlag

\* Risk closes and rebalance orders are submitted closing, and stay so.
ClosesOnly(w) ==
  \A id \in DOMAIN w.algos :
    w.algos[id].role = "RISK_CLOSE" \/ w.algos[id].type = "Rebalance" => ~w.algos[id].mayOpen

Sound(w) ==
  /\ w \in Worlds
  /\ Numbered(w) /\ OneWorks(w) /\ EndedRests(w) /\ Settled(w)
  /\ w.pi.activeAlgoIsRiskClose = IsRiskClose(w)
  /\ Frozen(w) /\ Masked(w) /\ ClosesOnly(w)

Good(w) ==
  Sound(w) /\ Works(w) /\ w.pi.riskCloseOrderInFlight = IsRiskClose(w)

Restricted(w, id) ==
  /\ w.algos[id].status = "NEW"
  /\ w.config.closeOnly \/ w.pi.closeFlag \/ w.pi.stopFlag \/ w.algos[id].role = "RISK_CLOSE"
Withheld(w) == \A id \in DOMAIN w.algos : Restricted(w, id) => ~w.algos[id].mayOpen
\* An order with an opening to withhold is modified before on_timer returns.
Pending(w) ==
  Withheld(w) \/ (w.pi.modifyTime = "zero" /\ ~w.config.stopAllAlgo)

IInv ==
  /\ Good(World)
  /\ phase \in {"idle", "config", "risk", "checks"}
  /\ phase \in {"idle", "config"} => Withheld(World)
  /\ Pending(World)

-----------------------------------------------------------------------------
\* The fields of a world, each with its type.
LEMMA Fields ==
  ASSUME NEW w \in Worlds
  PROVE  /\ w.pi \in PairInfo /\ w.risk \in [Kinds -> RiskState]
         /\ DOMAIN w.algos \subseteq AlgoId /\ w.algos \in [DOMAIN w.algos -> Algo]
         /\ w.nextAlgo \in 1..(MaxAlgos + 1)
         /\ w.config \in [closeOnly : BOOLEAN, stopAllAlgo : BOOLEAN]
         /\ w.config.closeOnly \in BOOLEAN /\ w.config.stopAllAlgo \in BOOLEAN
         /\ w.attempts \in SUBSET (1..3)
  BY DEF Worlds

LEMMA PairFields ==
  ASSUME NEW p \in PairInfo
  PROVE  /\ p.current \in AlgoId \union {None} /\ p.ledger \in 0..MaxPosition
         /\ p.riskCloseOrderInFlight \in BOOLEAN /\ p.activeAlgoIsRiskClose \in BOOLEAN
         /\ p.stopFlag \in BOOLEAN /\ p.closeFlag \in BOOLEAN /\ p.reBalance \in BOOLEAN
         /\ p.openSwitch \in BOOLEAN /\ p.modifyTime \in {"zero", "now", "past"}
  BY DEF PairInfo

LEMMA AlgoFields ==
  ASSUME NEW a \in Algo
  PROVE  /\ a.status \in Working \union Terminal /\ a.role \in Roles
         /\ a.position \in 0..MaxPosition /\ a.live \in SUBSET ({1} \X {1, -1})
         /\ a.mayOpen \in BOOLEAN /\ a.mayClose \in BOOLEAN
         /\ a.type \in {"PairTrading", "Rebalance"} /\ a.tier \in 0..3
  BY DEF Algo

LEMMA Replaced ==
  ASSUME NEW w \in Worlds
  PROVE  /\ \A p \in PairInfo :
              LET v == [w EXCEPT !.pi = p] IN
              /\ v \in Worlds /\ v.pi = p /\ v.risk = w.risk /\ v.algos = w.algos
              /\ v.nextAlgo = w.nextAlgo /\ v.config = w.config /\ v.attempts = w.attempts
         /\ \A r \in [Kinds -> RiskState] :
              LET v == [w EXCEPT !.risk = r] IN
              /\ v \in Worlds /\ v.risk = r /\ v.pi = w.pi /\ v.algos = w.algos
              /\ v.nextAlgo = w.nextAlgo /\ v.config = w.config /\ v.attempts = w.attempts
  BY DEF Worlds

\* A handler that ends in a good world makes it the next state.
LEMMA NextWorld ==
  ASSUME NEW w \in Worlds, Becomes(w)
  PROVE  /\ Good(w) => Good(World)'
         /\ Withheld(w) => Withheld(World)'
         /\ Pending(w) => Pending(World)'
  <1>1. World' = w
    BY DEF World, Becomes, Worlds
  <1> QED BY <1>1

-----------------------------------------------------------------------------
(* What a change of the pair's record, and what a change of the algo orders,  *)
(* leaves sound.                                                              *)

Same(v, w) ==
  /\ v.algos = w.algos /\ v.nextAlgo = w.nextAlgo
  /\ v.pi.current = w.pi.current /\ v.pi.ledger = w.pi.ledger
  /\ v.pi.activeAlgoIsRiskClose = w.pi.activeAlgoIsRiskClose
  /\ v.pi.riskCloseOrderInFlight = w.pi.riskCloseOrderInFlight

LEMMA FlagsStep ==
  ASSUME NEW w, NEW v \in Worlds, Sound(w), Same(v, w), Frozen(v), Masked(v)
  PROVE  Sound(v) /\ (Good(w) => Good(v))
  BY DEF Sound, Good, Same, Numbered, OneWorks, Works, EndedRests, Settled, IsRiskClose,
         ClosesOnly

\* The state b of an algo order after a step that found a.
Follows(b, a, free) ==
  /\ b.role = a.role /\ b.type = a.type
  /\ b.status \in Working => a.status \in Working
  /\ b.status \in {"FILLED", "CANCELED"} =>
       b.live = {} /\ (free => a.status = b.status /\ b.position = a.position)
  /\ (b.role = "RISK_CLOSE" \/ b.type = "Rebalance") => (b.mayOpen => a.mayOpen)

LEMMA AlgosStep ==
  ASSUME NEW w, NEW v \in Worlds, Sound(w),
         v.nextAlgo = w.nextAlgo, v.config = w.config,
         v.pi.current = w.pi.current, v.pi.ledger = w.pi.ledger,
         v.pi.activeAlgoIsRiskClose = w.pi.activeAlgoIsRiskClose,
         Frozen(v), Masked(v),
         DOMAIN v.algos \subseteq DOMAIN w.algos,
         w.pi.current # None => w.pi.current \in DOMAIN v.algos,
         \A id \in DOMAIN v.algos : Follows(v.algos[id], w.algos[id], w.pi.current = None)
  PROVE  Sound(v) /\ IsRiskClose(v) = IsRiskClose(w)
  <1>1. Numbered(v) /\ OneWorks(v)
    BY DEF Sound, Numbered, OneWorks, Follows
  <1>2. EndedRests(v) /\ Settled(v)
    BY DEF Sound, EndedRests, Settled, Follows
  <1>3. ClosesOnly(v)
    BY DEF Sound, ClosesOnly, Follows
  <1>4. IsRiskClose(v) = IsRiskClose(w)
    BY DEF IsRiskClose, Follows
  <1> QED BY <1>1, <1>2, <1>3, <1>4 DEF Sound

-----------------------------------------------------------------------------
(* The calls, one lemma each.                                                 *)

LEMMA RecalcFields ==
  ASSUME NEW w \in Worlds, NEW spreadsAllow \in BOOLEAN
  PROVE  LET v == RecalcOrderParams(w, spreadsAllow) IN
         /\ v \in Worlds /\ Same(v, w) /\ Masked(v)
         /\ v.risk = w.risk /\ v.config = w.config /\ v.attempts = w.attempts
         /\ v.pi.stopFlag = w.pi.stopFlag /\ v.pi.closeFlag = w.pi.closeFlag
         /\ v.pi.reBalance = w.pi.reBalance /\ v.pi.modifyTime = w.pi.modifyTime
  <1> DEFINE on == spreadsAllow /\ ~w.config.closeOnly /\ ~w.pi.closeFlag
             p  == [w.pi EXCEPT !.openSwitch = on]
  <1>1. /\ p \in PairInfo /\ p.openSwitch = on /\ p.closeFlag = w.pi.closeFlag
        /\ p.stopFlag = w.pi.stopFlag /\ p.reBalance = w.pi.reBalance
        /\ p.modifyTime = w.pi.modifyTime /\ p.current = w.pi.current
        /\ p.ledger = w.pi.ledger
        /\ p.activeAlgoIsRiskClose = w.pi.activeAlgoIsRiskClose
        /\ p.riskCloseOrderInFlight = w.pi.riskCloseOrderInFlight
    BY Fields, PairFields DEF PairInfo
  <1>2. RecalcOrderParams(w, spreadsAllow) = [w EXCEPT !.pi = p]
    BY DEF RecalcOrderParams
  <1>3. on => ~w.config.closeOnly /\ ~w.pi.closeFlag
    OBVIOUS
  <1> HIDE DEF on, p
  <1> QED BY <1>1, <1>2, <1>3, Replaced DEF Same, Masked

LEMMA RecalcGood ==
  ASSUME NEW w, NEW spreadsAllow \in BOOLEAN, Sound(w)
  PROVE  LET v == RecalcOrderParams(w, spreadsAllow) IN
         /\ Sound(v) /\ (Good(w) => Good(v))
         /\ Withheld(w) => Withheld(v)
         /\ Pending(w) => Pending(v)
  <1> DEFINE v == RecalcOrderParams(w, spreadsAllow)
  <1>1. w \in Worlds
    BY DEF Sound
  <1>2. /\ v \in Worlds /\ Same(v, w) /\ Masked(v)
        /\ v.config = w.config /\ v.pi.stopFlag = w.pi.stopFlag
        /\ v.pi.closeFlag = w.pi.closeFlag
        /\ v.pi.reBalance = w.pi.reBalance /\ v.pi.modifyTime = w.pi.modifyTime
    BY <1>1, RecalcFields
  <1> HIDE DEF v
  <1>3. Frozen(v)
    BY <1>2 DEF Sound, Frozen
  <1>4. Withheld(w) => Withheld(v)
    BY <1>2 DEF Withheld, Restricted, Same
  <1>5. Pending(w) => Pending(v)
    BY <1>2, <1>4 DEF Pending
  <1>6. Sound(v) /\ (Good(w) => Good(v))
    BY <1>2, <1>3, FlagsStep
  <1> QED BY <1>4, <1>5, <1>6 DEF v

\* Everything but the algo orders stays.
Aside(v, w) ==
  /\ v.pi = w.pi /\ v.risk = w.risk /\ v.nextAlgo = w.nextAlgo
  /\ v.config = w.config /\ v.attempts = w.attempts

LEMMA AlgosReplaced ==
  ASSUME NEW w \in Worlds, NEW S \in SUBSET AlgoId, NEW f \in [S -> Algo]
  PROVE  LET v == [w EXCEPT !.algos = f] IN
         v \in Worlds /\ v.algos = f /\ Aside(v, w)
  BY DEF Worlds, Aside

LEMMA RequestCancelFields ==
  ASSUME NEW w, Sound(w)
  PROVE  LET v == RequestCancel(w) IN
         /\ v \in Worlds /\ Aside(v, w) /\ DOMAIN v.algos = DOMAIN w.algos
         /\ \A id \in DOMAIN w.algos :
              \/ v.algos[id] = w.algos[id] /\ (id # w.pi.current \/ w.algos[id].status # "NEW")
              \/ /\ v.algos[id] = [w.algos[id] EXCEPT !.status = "CANCELLING"]
                 /\ w.algos[id].status = "NEW"
  <1> DEFINE c == w.pi.current
             b == [w.algos[c] EXCEPT !.status = "CANCELLING"]
             f == [w.algos EXCEPT ![c] = b]
  <1>1. w \in Worlds
    BY DEF Sound
  <1>2. CASE ~(c # None /\ w.algos[c].status = "NEW")
    <2>1. RequestCancel(w) = w
      BY <1>2 DEF RequestCancel
    <2>2. \A id \in DOMAIN w.algos : id # c \/ w.algos[id].status # "NEW"
      BY <1>1, <1>2, Fields DEF AlgoId, None
    <2> QED BY <1>1, <2>1, <2>2 DEF Aside
  <1>3. CASE c # None /\ w.algos[c].status = "NEW"
    <2>1. RequestCancel(w) = [w EXCEPT !.algos = f]
      BY <1>3 DEF RequestCancel
    <2>2. c \in DOMAIN w.algos /\ w.algos[c] \in Algo
      BY <1>1, <1>3, Fields DEF Sound, Numbered
    <2>3. b \in Algo
      BY <2>2 DEF Algo, Working
    <2>4. DOMAIN w.algos \in SUBSET AlgoId /\ f \in [DOMAIN w.algos -> Algo]
      BY <1>1, <2>3, Fields
    <2>5. /\ DOMAIN f = DOMAIN w.algos /\ f[c] = b
          /\ \A id \in DOMAIN w.algos : id # c => f[id] = w.algos[id]
      BY <1>1, <2>2, Fields
    <2> HIDE DEF f
    <2> QED BY <1>1, <1>3, <2>1, <2>4, <2>5, AlgosReplaced
  <1> QED BY <1>2, <1>3

\* Afterwards no algo order is left that may create.
LEMMA RequestCancelGood ==
  ASSUME NEW w, Sound(w)
  PROVE  LET v == RequestCancel(w) IN
         /\ Sound(v) /\ (Good(w) => Good(v)) /\ v.nextAlgo = w.nextAlgo
         /\ v.pi = w.pi /\ v.config = w.config
         /\ Withheld(v)
  <1> DEFINE v == RequestCancel(w)
  <1>1. w \in Worlds
    BY DEF Sound
  <1>2. /\ v \in Worlds /\ Aside(v, w) /\ DOMAIN v.algos = DOMAIN w.algos
        /\ \A id \in DOMAIN w.algos :
             \/ v.algos[id] = w.algos[id] /\ (id # w.pi.current \/ w.algos[id].status # "NEW")
             \/ /\ v.algos[id] = [w.algos[id] EXCEPT !.status = "CANCELLING"]
                /\ w.algos[id].status = "NEW"
    BY RequestCancelFields
  <1> HIDE DEF v
  <1>3. ASSUME NEW id \in DOMAIN w.algos
        PROVE  /\ Follows(v.algos[id], w.algos[id], w.pi.current = None)
               /\ v.algos[id].status # "NEW"
               /\ w.algos[id].status \in Working => v.algos[id].status \in Working
    <2>1. w.algos[id] \in Algo
      BY <1>1, Fields
    <2>2. w.algos[id].status = "NEW" => id = w.pi.current
      BY DEF Sound, OneWorks, Working
    <2>3. CASE v.algos[id] = w.algos[id] /\ w.algos[id].status # "NEW"
      BY <2>3 DEF Follows, Sound, EndedRests
    <2>4. CASE /\ v.algos[id] = [w.algos[id] EXCEPT !.status = "CANCELLING"]
               /\ w.algos[id].status = "NEW"
      <3>1. /\ v.algos[id].status = "CANCELLING" /\ v.algos[id].role = w.algos[id].role
            /\ v.algos[id].type = w.algos[id].type
            /\ v.algos[id].mayOpen = w.algos[id].mayOpen
        BY <2>1, <2>4 DEF Algo
      <3> QED BY <2>4, <3>1 DEF Follows, Working
    <2> QED BY <1>2, <2>2, <2>3, <2>4
  <1>4. /\ v.pi = w.pi /\ v.nextAlgo = w.nextAlgo /\ v.config = w.config
        /\ Frozen(v) /\ Masked(v)
    BY <1>2 DEF Aside, Sound, Frozen, Masked
  <1>5. w.pi.current # None => w.pi.current \in DOMAIN v.algos
    BY <1>2 DEF Sound, Numbered
  <1>6. Sound(v) /\ IsRiskClose(v) = IsRiskClose(w)
    BY <1>2, <1>3, <1>4, <1>5, AlgosStep
  <1>7. Good(w) => Good(v)
    BY <1>2, <1>3, <1>4, <1>5, <1>6 DEF Good, Works
  <1>8. Withheld(v)
    BY <1>2, <1>3 DEF Withheld, Restricted
  <1> QED BY <1>4, <1>6, <1>7, <1>8 DEF v

\* The end of the active algo order releases the pair, with the last volume.
LEMMA UpdateGood ==
  ASSUME NEW w, NEW id \in DOMAIN w.algos, NEW spreadsAllow \in BOOLEAN,
         Sound(w), id = w.pi.current \/ Good(w),
         w.pi.riskCloseOrderInFlight = IsRiskClose(w)
  PROVE  LET v == OnAlgoOrderUpdate(w, id, spreadsAllow) IN
         /\ Good(v) /\ v.nextAlgo = w.nextAlgo /\ v.config = w.config
         /\ Withheld(w) => Withheld(v)
  <1> DEFINE a     == w.algos[id]
             taken == [w EXCEPT !.pi.ledger = a.position]
  <1>1. w \in Worlds /\ a \in Algo /\ w.pi \in PairInfo
    BY Fields DEF Sound
  <1>2. CASE id # w.pi.current
    BY <1>2 DEF OnAlgoOrderUpdate
  <1>3. CASE id = w.pi.current /\ a.status \notin Terminal
    <2>1. OnAlgoOrderUpdate(w, id, spreadsAllow) = taken
      BY <1>3 DEF OnAlgoOrderUpdate
    <2> DEFINE p == [w.pi EXCEPT !.ledger = a.position]
    <2>2. /\ p \in PairInfo /\ p.ledger = a.position /\ p.current = w.pi.current
          /\ p.activeAlgoIsRiskClose = w.pi.activeAlgoIsRiskClose
          /\ p.riskCloseOrderInFlight = w.pi.riskCloseOrderInFlight
          /\ p.reBalance = w.pi.reBalance /\ p.stopFlag = w.pi.stopFlag
          /\ p.openSwitch = w.pi.openSwitch /\ p.closeFlag = w.pi.closeFlag
      BY <1>1 DEF PairInfo, Algo
    <2>3. taken = [w EXCEPT !.pi = p]
      OBVIOUS
    <2>4. /\ taken \in Worlds /\ taken.pi = p /\ taken.algos = w.algos
          /\ taken.nextAlgo = w.nextAlgo /\ taken.config = w.config
      BY <1>1, <2>2, <2>3, Replaced
    <2>5. id \in AlgoId /\ id # None /\ a.status \in Working
      BY <1>1, <1>3, Fields, AlgoFields DEF AlgoId, None
    <2> HIDE DEF p, taken
    <2>6. IsRiskClose(taken) = IsRiskClose(w)
      BY <2>2, <2>4 DEF IsRiskClose
    <2>7. Sound(taken)
      BY <1>3, <2>2, <2>4, <2>5, <2>6
         DEF Sound, Numbered, OneWorks, EndedRests, Settled, Frozen, Masked, ClosesOnly
    <2>8. Good(taken)
      BY <1>3, <2>2, <2>4, <2>5, <2>6, <2>7 DEF Good, Works
    <2>9. Withheld(w) => Withheld(taken)
      BY <2>2, <2>4 DEF Withheld, Restricted
    <2> QED BY <2>1, <2>4, <2>8, <2>9
  <1>4. CASE id = w.pi.current /\ a.status \in Terminal
    <2> DEFINE risk1 == OnAlgoFinished(w.risk, a.position = 0)
               p     == Cleared([w.pi EXCEPT !.ledger = a.position])
               tries == IF a.position = 0 THEN {} ELSE w.attempts
               u     == [w EXCEPT !.pi = p, !.risk = risk1, !.attempts = tries]
    <2>1. OnAlgoOrderUpdate(w, id, spreadsAllow) = RecalcOrderParams(u, spreadsAllow)
      <3>1. taken.pi = [w.pi EXCEPT !.ledger = a.position] /\ taken.attempts = w.attempts
        BY <1>1 DEF Worlds
      <3>2. [taken EXCEPT !.risk = risk1, !.pi = Cleared(taken.pi),
                          !.attempts = IF a.position = 0 THEN {} ELSE @] = u
        BY <1>1, <3>1 DEF Worlds
      <3> QED BY <1>4, <3>2 DEF OnAlgoOrderUpdate
    <2>2. /\ p \in PairInfo /\ p.ledger = a.position /\ p.current = None
          /\ p.activeAlgoIsRiskClose = FALSE /\ p.riskCloseOrderInFlight = FALSE
          /\ p.reBalance = w.pi.reBalance /\ p.stopFlag = w.pi.stopFlag
          /\ p.openSwitch = w.pi.openSwitch /\ p.closeFlag = w.pi.closeFlag
      BY <1>1 DEF PairInfo, Algo, Cleared
    <2>3. risk1 \in [Kinds -> RiskState]
      <3>1. \A k \in Kinds : w.risk[k] \in RiskState
        BY <1>1, Fields
      <3>2. \A k \in Kinds : w.risk[k].tier > 0 =>
              [w.risk[k] EXCEPT !.tried = @ \union {w.risk[k].tier}] \in RiskState
        BY <3>1 DEF RiskState
      <3>3. Untriggered \in RiskState
        BY DEF Untriggered, RiskState
      <3> QED BY <1>1, <3>1, <3>2, <3>3, Fields DEF OnAlgoFinished
    <2>4. tries \in SUBSET (1..3)
      BY <1>1, Fields
    <2> HIDE DEF p, risk1, tries
    <2>5. /\ u \in Worlds /\ u.pi = p /\ u.algos = w.algos
          /\ u.nextAlgo = w.nextAlgo /\ u.config = w.config
      BY <1>1, <2>2, <2>3, <2>4 DEF Worlds
    <2> HIDE DEF u
    <2>6. w.pi.current # None /\ w.pi.current = w.nextAlgo - 1
      BY <1>1, <1>4, Fields DEF Sound, Numbered, AlgoId, None
    <2>7. IsRiskClose(u) = FALSE
      BY <2>2, <2>5 DEF IsRiskClose
    <2>8. OneWorks(u)
      <3> SUFFICES ASSUME NEW i \in DOMAIN w.algos PROVE w.algos[i].status \notin Working
        BY <2>5 DEF OneWorks
      <3> QED BY <1>4 DEF Sound, OneWorks, Working, Terminal
    <2>9. Sound(u)
      BY <1>4, <2>2, <2>5, <2>6, <2>7, <2>8
         DEF Sound, Numbered, EndedRests, Settled, Frozen, Masked, ClosesOnly
    <2>10. Good(u)
      BY <2>2, <2>5, <2>7, <2>9 DEF Good, Works
    <2>11. Withheld(w) => Withheld(u)
      BY <2>2, <2>5 DEF Withheld, Restricted
    <2>12. LET v == RecalcOrderParams(u, spreadsAllow) IN
           v.nextAlgo = u.nextAlgo /\ v.config = u.config
      BY <2>5, RecalcFields DEF Same
    <2> QED BY <2>1, <2>5, <2>9, <2>10, <2>11, <2>12, RecalcGood
  <1> QED BY <1>2, <1>3, <1>4

\* A free pair becomes busy with the new algo order.
LEMMA SubmitGood ==
  ASSUME NEW w, Good(w), w.pi.current = None, w.nextAlgo <= MaxAlgos,
         NEW role \in Roles, NEW type \in {"PairTrading", "Rebalance"},
         NEW mayOpen \in BOOLEAN, NEW tier \in 0..3,
         role = "RISK_CLOSE" \/ type = "Rebalance" => ~mayOpen,
         mayOpen => ~w.config.closeOnly /\ ~w.pi.closeFlag /\ ~w.pi.stopFlag
  PROVE  LET v == Submit(w, role, type, mayOpen, TRUE, tier) IN
         /\ Sound(v) /\ Works(v) /\ Withheld(v)
         /\ IsRiskClose(v) = (role = "RISK_CLOSE")
         /\ v.pi.riskCloseOrderInFlight = FALSE
         /\ v.config = w.config
  <1> DEFINE id == w.nextAlgo
             a  == [status |-> "NEW", role |-> role, position |-> w.pi.ledger, live |-> {},
                    mayOpen |-> mayOpen, mayClose |-> TRUE, type |-> type, tier |-> tier]
             p  == [w.pi EXCEPT !.current = id, !.modifyTime = "now",
                                !.activeAlgoIsRiskClose = (role = "RISK_CLOSE")]
             f  == [i \in DOMAIN w.algos \union {id} |-> IF i = id THEN a ELSE w.algos[i]]
             t  == IF tier = 0 THEN w.attempts ELSE w.attempts \union {tier}
             v  == Submit(w, role, type, mayOpen, TRUE, tier)
  <1>1. w \in Worlds /\ w.pi \in PairInfo /\ MaxAlgos \in Nat
    BY HandshakeAssumption, Fields DEF Good, Sound
  <1>2. id \in AlgoId /\ id \notin DOMAIN w.algos /\ id # None /\ id + 1 \in 1..(MaxAlgos + 1)
    BY <1>1, Fields DEF Good, Sound, Numbered, AlgoId, None
  <1>3. v = [w EXCEPT !.algos = f, !.nextAlgo = id + 1, !.attempts = t, !.pi = p]
    BY <1>1 DEF Submit, Worlds
  <1>4. /\ a \in Algo /\ a.status = "NEW" /\ a.role = role /\ a.type = type
        /\ a.mayOpen = mayOpen
    BY <1>1, PairFields DEF Algo, Working
  <1>5. /\ p \in PairInfo /\ p.current = id
        /\ p.activeAlgoIsRiskClose = (role = "RISK_CLOSE")
        /\ p.riskCloseOrderInFlight = w.pi.riskCloseOrderInFlight
        /\ p.reBalance = w.pi.reBalance /\ p.stopFlag = w.pi.stopFlag
        /\ p.openSwitch = w.pi.openSwitch /\ p.closeFlag = w.pi.closeFlag
    BY <1>1, <1>2 DEF PairInfo
  <1>6. t \in SUBSET (1..3)
    BY <1>1, Fields
  <1> HIDE DEF a, p, t
  <1>7. /\ DOMAIN f = DOMAIN w.algos \union {id} /\ f[id] = a
        /\ \A i \in DOMAIN w.algos : f[i] = w.algos[i]
        /\ f \in [DOMAIN f -> Algo] /\ DOMAIN f \in SUBSET AlgoId
    BY <1>1, <1>2, <1>4, Fields
  <1> HIDE DEF f
  <1> HIDE DEF v
  <1>8. v \in Worlds /\ v.algos = f /\ v.nextAlgo = id + 1 /\ v.pi = p /\ v.config = w.config
    <2> DEFINE n == id + 1
               F == UNION {[S -> Algo] : S \in SUBSET AlgoId}
    <2>1. f \in F
      BY <1>7
    <2>2. n \in 1..(MaxAlgos + 1) /\ v = [w EXCEPT !.algos = f, !.nextAlgo = n,
                                                   !.attempts = t, !.pi = p]
      BY <1>2, <1>3
    <2> HIDE DEF n
    <2>3. v.algos = f /\ v.nextAlgo = n /\ v.pi = p /\ v.config = w.config
      BY <1>1, <2>2 DEF Worlds
    <2>4. v \in Worlds
      <3>1. w \in [pi : PairInfo, risk : [Kinds -> RiskState], algos : F,
                   nextAlgo : 1..(MaxAlgos + 1),
                   config : [closeOnly : BOOLEAN, stopAllAlgo : BOOLEAN],
                   attempts : SUBSET (1..3)]
        BY <1>1 DEF Worlds
      <3> HIDE DEF F
      <3>2. v \in [pi : PairInfo, risk : [Kinds -> RiskState], algos : F,
                   nextAlgo : 1..(MaxAlgos + 1),
                   config : [closeOnly : BOOLEAN, stopAllAlgo : BOOLEAN],
                   attempts : SUBSET (1..3)]
        BY <1>5, <1>6, <2>1, <2>2, <3>1
      <3> QED BY <3>2 DEF Worlds, F
    <2> QED BY <2>3, <2>4 DEF n
  <1>9. \A i \in DOMAIN w.algos : w.algos[i].status \notin Working /\ i < id
    BY <1>1, <1>2, Fields DEF Good, Sound, OneWorks, Numbered, AlgoId, None
  <1>10. IsRiskClose(v) = (role = "RISK_CLOSE")
    BY <1>2, <1>4, <1>5, <1>7, <1>8 DEF IsRiskClose
  <1>11. Numbered(v)
    <2> DEFINE n == id + 1
    <2>1. id \in Int /\ n \in Int /\ id < n /\ id = n - 1
      BY <1>1, Fields
    <2>2. \A i \in DOMAIN w.algos : i < n
      BY <1>1, <1>9, <2>1, Fields DEF AlgoId
    <2> HIDE DEF n, id
    <2> QED BY <1>2, <1>5, <1>7, <1>8, <2>1, <2>2 DEF Numbered, n
  <1>12. OneWorks(v) /\ Works(v)
    BY <1>4, <1>5, <1>7, <1>8, <1>9 DEF OneWorks, Works, Working
  <1>13. EndedRests(v) /\ Settled(v)
    BY <1>2, <1>4, <1>5, <1>7, <1>8 DEF EndedRests, Settled, Good, Sound
  <1>14. Frozen(v) /\ Masked(v)
    BY <1>5, <1>8 DEF Frozen, Masked, Good, Sound
  <1>15. ClosesOnly(v)
    BY <1>4, <1>7, <1>8 DEF ClosesOnly, Good, Sound
  <1>16. Withheld(v)
    BY <1>4, <1>5, <1>7, <1>8, <1>9 DEF Withheld, Restricted, Working
  <1>17. v.pi.riskCloseOrderInFlight = FALSE
    BY <1>5, <1>8 DEF Good, IsRiskClose
  <1> QED BY <1>5, <1>8, <1>10, <1>11, <1>12, <1>13, <1>14, <1>15, <1>16, <1>17 DEF Sound, v

LEMMA AdvanceTierTyped ==
  ASSUME NEW s \in RiskState PROVE AdvanceTier(s) \in RiskState
  BY DEF AdvanceTier, RiskState, Untriggered

LEMMA CheckRiskTyped ==
  ASSUME NEW rs \in [Kinds -> RiskState], NEW in \in RiskInputs
  PROVE  LET r == CheckRisk(rs, in) IN
         /\ r.risk \in [Kinds -> RiskState] /\ r.tier \in 0..3
  <1> DEFINE seen   == [k \in DOMAIN rs |-> IF k \in in.bad THEN AdvanceTier(rs[k])
                                           ELSE IF k = "SNR" /\ in.regressed THEN Untriggered
                                           ELSE rs[k]]
             asking == {k \in in.bad : ShouldAttempt(seen[k])}
             least(k) == \A j \in asking : Rank[k] <= Rank[j]
             first  == CHOOSE k \in asking : least(k)
  <1>1. in.bad \subseteq Kinds /\ asking \subseteq Kinds
    BY DEF RiskInputs
  <1>2. Untriggered \in RiskState
    BY DEF Untriggered, RiskState
  <1>3. seen \in [Kinds -> RiskState]
    BY <1>1, <1>2, AdvanceTierTyped
  <1> HIDE DEF seen
  <1>4. asking # {} => first \in asking
    <2> SUFFICES ASSUME asking # {} PROVE \E k \in asking : least(k)
      OBVIOUS
    <2>1. asking \subseteq {"ADL", "SNR", "FUNDING"}
      BY <1>1, HandshakeAssumption DEF AllKinds
    <2> HIDE DEF asking
    <2>2. Rank["ADL"] = 1 /\ Rank["SNR"] = 2 /\ Rank["FUNDING"] = 3
      BY DEF Rank
    <2>3. CASE "ADL" \in asking
      <3>1. least("ADL")
        BY <2>1, <2>2
      <3> QED BY <2>3, <3>1
    <2>4. CASE "ADL" \notin asking /\ "SNR" \in asking
      <3>1. least("SNR")
        BY <2>1, <2>2, <2>4
      <3> QED BY <2>4, <3>1
    <2>5. CASE asking = {"FUNDING"}
      <3>1. least("FUNDING")
        BY <2>2, <2>5
      <3> QED BY <2>5, <3>1
    <2>6. \/ "ADL" \in asking
          \/ "ADL" \notin asking /\ "SNR" \in asking
          \/ asking = {"FUNDING"}
      BY <2>1
    <2> QED BY <2>3, <2>4, <2>5, <2>6
  <1> HIDE DEF asking, least, first
  <1>5. CheckRisk(rs, in) =
          [risk   |-> [k \in DOMAIN rs |->
                         IF in.tiny \/ (asking # {} /\ Rank[k] > Rank[first])
                         THEN rs[k] ELSE seen[k]],
           forced |-> in.tiny \/ asking # {},
           tier   |-> IF in.tiny \/ asking = {} THEN 0 ELSE seen[first].tier]
    BY DEF CheckRisk, seen, asking, least, first
  <1>6. asking # {} => seen[first].tier \in 0..3
    BY <1>1, <1>3, <1>4 DEF RiskState
  <1> QED BY <1>3, <1>5, <1>6

-----------------------------------------------------------------------------
(* The handlers                                                               *)

\* What a handler promises: a good world, the same configuration, and openings
\* no less withheld.
Keeps(v, w) == Good(v) /\ v.config = w.config /\ (Pending(w) => Pending(v))

\* A new record with the same ids: only flags have changed.
LEMMA PiStep ==
  ASSUME NEW w, Good(w), NEW p \in PairInfo,
         p.current = w.pi.current, p.ledger = w.pi.ledger,
         p.activeAlgoIsRiskClose = w.pi.activeAlgoIsRiskClose,
         p.riskCloseOrderInFlight = w.pi.riskCloseOrderInFlight,
         p.openSwitch = w.pi.openSwitch, p.closeFlag = w.pi.closeFlag,
         p.reBalance => p.stopFlag
  PROVE  LET v == [w EXCEPT !.pi = p] IN
         Good(v) /\ v.pi = p /\ v.algos = w.algos /\ v.nextAlgo = w.nextAlgo
         /\ v.config = w.config
  <1> DEFINE v == [w EXCEPT !.pi = p]
  <1>1. /\ v \in Worlds /\ v.pi = p /\ v.algos = w.algos
        /\ v.nextAlgo = w.nextAlgo /\ v.config = w.config
    BY Replaced DEF Good, Sound
  <1> HIDE DEF v
  <1>2. Same(v, w) /\ Frozen(v) /\ Masked(v)
    BY <1>1 DEF Same, Frozen, Masked, Good, Sound
  <1>3. Good(v)
    BY <1>1, <1>2, FlagsStep DEF Good
  <1> QED BY <1>1, <1>3 DEF v

\* A rebalance order only closes, and is not marked.
LEMMA RebalanceSubmitGood ==
  ASSUME NEW w, Good(w), w.pi.current = None, w.nextAlgo <= MaxAlgos
  PROVE  Keeps(Submit(w, "CLOSE_SIGNAL", "Rebalance", FALSE, TRUE, 0), w)
  <1> DEFINE x == Submit(w, "CLOSE_SIGNAL", "Rebalance", FALSE, TRUE, 0)
  <1>1. /\ Sound(x) /\ Works(x) /\ Withheld(x) /\ IsRiskClose(x) = FALSE
        /\ x.pi.riskCloseOrderInFlight = FALSE /\ x.config = w.config
    <2> DEFINE P(tier) == LET y == Submit(w, "CLOSE_SIGNAL", "Rebalance", FALSE, TRUE, tier) IN
                 /\ Sound(y) /\ Works(y) /\ Withheld(y) /\ IsRiskClose(y) = FALSE
                 /\ y.pi.riskCloseOrderInFlight = FALSE /\ y.config = w.config
    <2>1. \A tier \in 0..3 : P(tier)
      BY SubmitGood DEF Roles
    <2> HIDE DEF P
    <2>2. P(0)
      BY <2>1
    <2> QED BY <2>2 DEF P
  <1> HIDE DEF x
  <1>2. Keeps(x, w)
    BY <1>1 DEF Keeps, Good, Pending
  <1> QED BY <1>2 DEF x

LEMMA RebalanceGood ==
  ASSUME NEW w, Good(w), NEW in \in RiskInputs,
         ProcessExposureRebalance(w, in).nextAlgo <= MaxAlgos + 1
  PROVE  Keeps(ProcessExposureRebalance(w, in), w)
  <1> DEFINE v == ProcessExposureRebalance(w, in)
             u == [w EXCEPT !.pi.reBalance = FALSE]
             x == Submit(w, "CLOSE_SIGNAL", "Rebalance", FALSE, TRUE, 0)
  <1>1. w \in Worlds /\ w.nextAlgo \in Nat /\ MaxAlgos \in Nat
    BY HandshakeAssumption, Fields DEF Good, Sound
  <1>2. \/ v = w
        \/ v = u
        \/ v = x /\ w.pi.current = None
    BY DEF ProcessExposureRebalance
  <1>3. Keeps(u, w)
    <2> DEFINE p == [w.pi EXCEPT !.reBalance = FALSE]
    <2>1. w.pi \in PairInfo
      BY <1>1, Fields
    <2>2. /\ p \in PairInfo /\ p.current = w.pi.current /\ p.ledger = w.pi.ledger
          /\ p.activeAlgoIsRiskClose = w.pi.activeAlgoIsRiskClose
          /\ p.riskCloseOrderInFlight = w.pi.riskCloseOrderInFlight
          /\ p.openSwitch = w.pi.openSwitch /\ p.closeFlag = w.pi.closeFlag
          /\ p.stopFlag = w.pi.stopFlag /\ p.modifyTime = w.pi.modifyTime
          /\ p.reBalance = FALSE
      BY <2>1 DEF PairInfo
    <2>3. u = [w EXCEPT !.pi = p]
      OBVIOUS
    <2> HIDE DEF p, u
    <2>4. Good(u) /\ u.pi = p /\ u.algos = w.algos /\ u.config = w.config
      BY <2>2, <2>3, PiStep
    <2> QED BY <2>2, <2>4 DEF Keeps, Pending, Withheld, Restricted
  <1>4. CASE v = x /\ w.pi.current = None
    <2>1. x.nextAlgo = w.nextAlgo + 1
      BY <1>1 DEF Submit, Worlds
    <2>2. w.nextAlgo <= MaxAlgos
      <3> HIDE DEF x
      <3> QED BY <1>1, <1>4, <2>1
    <2>3. Keeps(x, w)
      BY <1>4, <2>2, RebalanceSubmitGood
    <2> QED BY <1>4, <2>3
  <1> HIDE DEF v
  <1> QED BY <1>2, <1>3, <1>4 DEF Keeps, v

\* A risk close is submitted when the pair is free, and marked in the same call.
LEMMA RiskSubmitGood ==
  ASSUME NEW c, Good(c), NEW tier \in 0..3, c.pi.current = None, c.nextAlgo <= MaxAlgos
  PROVE  LET x == Submit(c, "RISK_CLOSE", "PairTrading", FALSE, TRUE, tier)
             v == [x EXCEPT !.pi.riskCloseOrderInFlight = TRUE]
         IN  Keeps(v, c)
  <1> DEFINE x == Submit(c, "RISK_CLOSE", "PairTrading", FALSE, TRUE, tier)
             p == [x.pi EXCEPT !.riskCloseOrderInFlight = TRUE]
             v == [x EXCEPT !.pi.riskCloseOrderInFlight = TRUE]
  <1>1. /\ Sound(x) /\ Works(x) /\ Withheld(x) /\ IsRiskClose(x) = TRUE
        /\ x.config = c.config
    BY SubmitGood DEF Roles
  <1> HIDE DEF x
  <1>2. x \in Worlds /\ x.pi \in PairInfo
    BY <1>1, Fields DEF Sound
  <1>3. /\ p \in PairInfo /\ p.current = x.pi.current /\ p.ledger = x.pi.ledger
        /\ p.activeAlgoIsRiskClose = x.pi.activeAlgoIsRiskClose
        /\ p.riskCloseOrderInFlight = TRUE
        /\ p.openSwitch = x.pi.openSwitch /\ p.closeFlag = x.pi.closeFlag
        /\ p.stopFlag = x.pi.stopFlag /\ p.reBalance = x.pi.reBalance
    BY <1>2 DEF PairInfo
  <1>4. v = [x EXCEPT !.pi = p]
    OBVIOUS
  <1> HIDE DEF p, v
  <1>5. /\ v \in Worlds /\ v.pi = p /\ v.algos = x.algos
        /\ v.nextAlgo = x.nextAlgo /\ v.config = x.config
    BY <1>2, <1>3, <1>4, Replaced
  <1>6. IsRiskClose(v) = IsRiskClose(x)
    BY <1>3, <1>5 DEF IsRiskClose
  <1>7. Sound(v)
    <2>1. Numbered(v) /\ OneWorks(v)
      BY <1>1, <1>3, <1>5 DEF Sound, Numbered, OneWorks
    <2>2. EndedRests(v) /\ Settled(v)
      BY <1>1, <1>3, <1>5 DEF Sound, EndedRests, Settled
    <2>3. Frozen(v) /\ Masked(v) /\ ClosesOnly(v)
      BY <1>1, <1>3, <1>5 DEF Sound, Frozen, Masked, ClosesOnly
    <2>4. v.pi.activeAlgoIsRiskClose = IsRiskClose(v)
      BY <1>1, <1>3, <1>5, <1>6 DEF Sound
    <2> QED BY <1>5, <2>1, <2>2, <2>3, <2>4 DEF Sound
  <1>8. Good(v) /\ Withheld(v)
    BY <1>1, <1>3, <1>5, <1>6, <1>7 DEF Good, Works, Withheld, Restricted
  <1> QED BY <1>1, <1>5, <1>8 DEF Keeps, Pending, v, x

LEMMA ProcessRiskGood ==
  ASSUME NEW w, Good(w), NEW in \in RiskInputs, ProcessRisk(w, in).nextAlgo <= MaxAlgos + 1
  PROVE  LET v == ProcessRisk(w, in) IN
         /\ Keeps(v, w)
         /\ w.config.stopAllAlgo => v.nextAlgo = w.nextAlgo
  <1> DEFINE v == ProcessRisk(w, in)
             r == CheckRisk(w.risk, in)
             c == [w EXCEPT !.risk = r.risk]
             x == Submit(c, "RISK_CLOSE", "PairTrading", FALSE, TRUE, r.tier)
             y == [x EXCEPT !.pi.riskCloseOrderInFlight = TRUE]
  <1>1. w \in Worlds /\ MaxAlgos \in Nat
    BY HandshakeAssumption DEF Good, Sound
  <1>2. \/ v = c
        \/ v = ProcessExposureRebalance(c, in) /\ ~c.config.stopAllAlgo
        \/ v = RequestCancel(c) /\ ~c.config.stopAllAlgo
        \/ v = y /\ c.pi.current = None /\ ~c.config.stopAllAlgo
    BY DEF ProcessRisk
  <1>3. r.risk \in [Kinds -> RiskState] /\ r.tier \in 0..3
    BY <1>1, Fields, CheckRiskTyped
  <1> HIDE DEF r
  <1>4. /\ c \in Worlds /\ c.pi = w.pi /\ c.algos = w.algos
        /\ c.nextAlgo = w.nextAlgo /\ c.config = w.config
    BY <1>1, <1>3, Replaced
  <1> HIDE DEF c, x, y
  <1>5. Good(c) /\ (Pending(w) => Pending(c))
    <2>1. Same(c, w) /\ Frozen(c) /\ Masked(c)
      BY <1>4 DEF Same, Frozen, Masked, Good, Sound
    <2>2. Good(c)
      BY <1>4, <2>1, FlagsStep DEF Good
    <2> QED BY <1>4, <2>2 DEF Pending, Withheld, Restricted
  <1>6. Keeps(c, w)
    BY <1>4, <1>5 DEF Keeps
  <1>7. CASE v = c
    BY <1>4, <1>6, <1>7
  <1>8. CASE v = ProcessExposureRebalance(c, in) /\ ~c.config.stopAllAlgo
    <2>1. Keeps(ProcessExposureRebalance(c, in), c)
      BY <1>5, <1>8, RebalanceGood
    <2> QED BY <1>4, <1>5, <1>8, <2>1 DEF Keeps
  <1>9. CASE v = RequestCancel(c) /\ ~c.config.stopAllAlgo
    <2> DEFINE u == RequestCancel(c)
    <2>1. Good(u) /\ u.config = c.config /\ Withheld(u)
      BY <1>5, RequestCancelGood DEF Good
    <2> HIDE DEF u
    <2>2. Keeps(u, w)
      BY <1>4, <2>1 DEF Keeps, Pending
    <2> QED BY <1>4, <1>9, <2>2 DEF u
  <1>10. CASE v = y /\ c.pi.current = None /\ ~c.config.stopAllAlgo
    <2>1. x.nextAlgo = c.nextAlgo + 1 /\ c.nextAlgo \in Nat
      BY <1>4, Fields DEF x, Submit, Worlds
    <2>2. y.nextAlgo = x.nextAlgo
      BY <1>4 DEF y, x, Submit, Worlds
    <2>3. c.nextAlgo <= MaxAlgos
      BY <1>1, <1>10, <2>1, <2>2
    <2>4. Keeps(y, c)
      BY <1>3, <1>5, <1>10, <2>3, RiskSubmitGood DEF x, y
    <2> QED BY <1>4, <1>5, <1>10, <2>4 DEF Keeps
  <1> QED BY <1>2, <1>7, <1>8, <1>9, <1>10

\* A configuration with an opening to withhold asks for the modification itself.
LEMMA ApplyConfigGood ==
  ASSUME NEW w, Good(w), NEW c \in Configs, NEW spreadsAllow \in BOOLEAN
  PROVE  LET v == ApplyConfig(w, c, spreadsAllow) IN
         /\ Good(v) /\ v.nextAlgo = w.nextAlgo
         /\ v.pi.modifyTime = "zero"
  <1> DEFINE cfg  == [closeOnly |-> c.closeOnly, stopAllAlgo |-> c.stopAllAlgo]
             w1   == [w EXCEPT !.config = cfg, !.pi.modifyTime = "zero"]
             w2   == ApplyPairCommand(w1, c.cmd)
             p1   == [w.pi EXCEPT !.modifyTime = "zero"]
             v    == RecalcOrderParams(w2, spreadsAllow)
  <1>1. w \in Worlds /\ w.pi \in PairInfo
    BY Fields DEF Good, Sound
  <1>2. cfg \in [closeOnly : BOOLEAN, stopAllAlgo : BOOLEAN]
    BY HandshakeAssumption
  <1>3. w1 = [w EXCEPT !.config = cfg, !.pi = p1]
    BY <1>1 DEF Worlds
  <1>4. /\ p1 \in PairInfo /\ p1.current = w.pi.current /\ p1.ledger = w.pi.ledger
        /\ p1.activeAlgoIsRiskClose = w.pi.activeAlgoIsRiskClose
        /\ p1.riskCloseOrderInFlight = w.pi.riskCloseOrderInFlight
        /\ p1.stopFlag = w.pi.stopFlag /\ p1.closeFlag = w.pi.closeFlag
        /\ p1.reBalance = w.pi.reBalance /\ p1.modifyTime = "zero"
    BY <1>1 DEF PairInfo
  <1> HIDE DEF cfg, p1
  <1>5. /\ w1 \in Worlds /\ w1.pi = p1 /\ w1.algos = w.algos /\ w1.nextAlgo = w.nextAlgo
        /\ w1.config = cfg
    BY <1>1, <1>2, <1>3, <1>4 DEF Worlds
  <1> HIDE DEF w1
  <1> DEFINE p2 == CASE c.cmd = "STOP"   -> [p1 EXCEPT !.stopFlag = TRUE]
                     [] c.cmd = "RESUME" -> [p1 EXCEPT !.stopFlag = FALSE, !.closeFlag = FALSE,
                                                       !.reBalance = FALSE]
                     [] c.cmd = "MODIFY" -> IF p1.stopFlag THEN p1
                                            ELSE [p1 EXCEPT !.closeFlag = TRUE]
                     [] OTHER -> p1
  <1>6. w2 = [w1 EXCEPT !.pi = p2]
    <2>1. w1 = [w1 EXCEPT !.pi = p1]
      BY <1>5 DEF Worlds
    <2> QED BY <1>5, <2>1 DEF ApplyPairCommand
  <1>7. /\ p2 \in PairInfo /\ p2.current = w.pi.current /\ p2.ledger = w.pi.ledger
        /\ p2.activeAlgoIsRiskClose = w.pi.activeAlgoIsRiskClose
        /\ p2.riskCloseOrderInFlight = w.pi.riskCloseOrderInFlight
        /\ (w.pi.reBalance => w.pi.stopFlag) => (p2.reBalance => p2.stopFlag)
        /\ p2.modifyTime = "zero"
    <2>1. CASE c.cmd = "STOP"
      <3>1. p2 = [p1 EXCEPT !.stopFlag = TRUE]
        BY <2>1
      <3> QED BY <1>4, <3>1 DEF PairInfo
    <2>2. CASE c.cmd = "RESUME"
      <3>1. p2 = [p1 EXCEPT !.stopFlag = FALSE, !.closeFlag = FALSE, !.reBalance = FALSE]
        BY <2>2
      <3> QED BY <1>4, <3>1 DEF PairInfo
    <2>3. CASE c.cmd = "MODIFY" /\ ~p1.stopFlag
      <3>1. p2 = [p1 EXCEPT !.closeFlag = TRUE]
        BY <2>3
      <3> QED BY <1>4, <3>1 DEF PairInfo
    <2>4. CASE ~(c.cmd = "STOP" \/ c.cmd = "RESUME" \/ (c.cmd = "MODIFY" /\ ~p1.stopFlag))
      <3>1. p2 = p1
        BY <2>4
      <3> QED BY <1>4, <3>1
    <2> QED BY <2>1, <2>2, <2>3, <2>4
  <1> HIDE DEF p2
  <1>8. /\ w2 \in Worlds /\ w2.pi = p2 /\ w2.algos = w.algos /\ w2.nextAlgo = w.nextAlgo
    BY <1>5, <1>6, <1>7, Replaced
  <1> HIDE DEF w2
  <1>9. /\ v \in Worlds /\ Same(v, w2) /\ Masked(v)
        /\ v.pi.stopFlag = w2.pi.stopFlag /\ v.pi.reBalance = w2.pi.reBalance
        /\ v.pi.modifyTime = w2.pi.modifyTime
    BY <1>8, RecalcFields
  <1>10. v = ApplyConfig(w, c, spreadsAllow)
    BY DEF ApplyConfig, w2, w1, cfg
  <1> HIDE DEF v
  <1>11. Same(v, w)
    BY <1>7, <1>8, <1>9 DEF Same
  <1>12. Frozen(v)
    BY <1>7, <1>8, <1>9 DEF Frozen, Good, Sound
  <1>13. Good(v)
    BY <1>9, <1>11, <1>12, FlagsStep DEF Good
  <1> QED BY <1>7, <1>8, <1>9, <1>10, <1>11, <1>13 DEF Same

\* The exposure check freezes the pair and cancels in the same call.
LEMMA ExposureGood ==
  ASSUME NEW w, Good(w), NEW in \in CheckInputs
  PROVE  LET v == CheckExposureAbnormal(w, in) IN
         Keeps(v, w) /\ v.nextAlgo = w.nextAlgo
  <1> DEFINE p == [w.pi EXCEPT !.stopFlag = TRUE, !.reBalance = TRUE]
             u == [w EXCEPT !.pi = p]
             v == CheckExposureAbnormal(w, in)
  <1>1. w \in Worlds /\ w.pi \in PairInfo
    BY Fields DEF Good, Sound
  <1>2. CASE w.pi.stopFlag \/ ~in.excess
    BY <1>2 DEF CheckExposureAbnormal, Keeps
  <1>3. CASE ~(w.pi.stopFlag \/ ~in.excess)
    <2>1. v = RequestCancel(u)
      <3>1. [w EXCEPT !.pi.stopFlag = TRUE, !.pi.reBalance = TRUE] = u
        BY <1>1 DEF Worlds
      <3> QED BY <1>3, <3>1 DEF CheckExposureAbnormal
    <2>2. /\ p \in PairInfo /\ p.current = w.pi.current /\ p.ledger = w.pi.ledger
          /\ p.activeAlgoIsRiskClose = w.pi.activeAlgoIsRiskClose
          /\ p.riskCloseOrderInFlight = w.pi.riskCloseOrderInFlight
          /\ p.openSwitch = w.pi.openSwitch /\ p.closeFlag = w.pi.closeFlag
          /\ p.stopFlag = TRUE
      BY <1>1 DEF PairInfo
    <2> HIDE DEF p, v
    <2>3. Good(u) /\ u.nextAlgo = w.nextAlgo /\ u.config = w.config
      BY <2>2, PiStep
    <2> HIDE DEF u
    <2>4. Good(v) /\ v.nextAlgo = w.nextAlgo /\ v.config = w.config /\ Withheld(v)
      BY <2>1, <2>3, RequestCancelGood DEF Good
    <2> QED BY <2>4 DEF Keeps, Pending, v
  <1> QED BY <1>2, <1>3

LEMMA TimeoutGood ==
  ASSUME NEW w, Good(w), NEW expired
  PROVE  LET v == CheckAlgoOrderTimeout(w, expired) IN
         Keeps(v, w) /\ v.nextAlgo = w.nextAlgo
  <1>1. Good(RequestCancel(w)) /\ RequestCancel(w).nextAlgo = w.nextAlgo
        /\ RequestCancel(w).config = w.config /\ Withheld(RequestCancel(w))
    BY RequestCancelGood DEF Good
  <1>2. CheckAlgoOrderTimeout(w, expired) \in {w, RequestCancel(w)}
    BY DEF CheckAlgoOrderTimeout
  <1> QED BY <1>1, <1>2 DEF Keeps, Pending

\* What was pending is withheld, unless the order never opens.
LEMMA ModifyGood ==
  ASSUME NEW w, Good(w), NEW in \in CheckInputs
  PROVE  LET v == ProcessModify(w, in) IN
         /\ Good(v) /\ v.nextAlgo = w.nextAlgo /\ v.config = w.config
         /\ Pending(w) => Withheld(v)
  <1> DEFINE id    == w.pi.current
             opens == OpensAfterModify(w.pi, in.illiquid)
             a     == w.algos[id]
             b     == IF Modifiable(a) THEN [a EXCEPT !.mayOpen = opens, !.mayClose = TRUE] ELSE a
             f     == [w.algos EXCEPT ![id] = b]
             p     == [w.pi EXCEPT !.modifyTime = "now"]
             v     == ProcessModify(w, in)
  <1>1. w \in Worlds /\ w.pi \in PairInfo
    BY Fields DEF Good, Sound
  <1>2. CASE ~ModifyDue(w, in)
    <2>1. v = w
      BY <1>2 DEF ProcessModify
    <2>2. ASSUME Pending(w), ~Withheld(w) PROVE FALSE
      <3>1. w.pi.current = None
        BY <1>2, <2>2 DEF Pending, ModifyDue
      <3> QED BY <1>1, <2>2, <3>1, Fields
              DEF Withheld, Restricted, Good, Sound, OneWorks, Working, AlgoId, None
    <2> QED BY <2>1, <2>2
  <1>3. CASE ModifyDue(w, in)
    <2>1. id # None /\ id \in DOMAIN w.algos /\ a \in Algo
      BY <1>1, <1>3, Fields DEF ModifyDue, Good, Sound, Numbered
    <2>2. v = [w EXCEPT !.pi = p, !.algos = f]
      BY <1>1, <1>3 DEF ProcessModify, Worlds
    <2>3. /\ p \in PairInfo /\ p.current = id /\ p.ledger = w.pi.ledger
          /\ p.activeAlgoIsRiskClose = w.pi.activeAlgoIsRiskClose
          /\ p.riskCloseOrderInFlight = w.pi.riskCloseOrderInFlight
          /\ p.openSwitch = w.pi.openSwitch /\ p.closeFlag = w.pi.closeFlag
          /\ p.stopFlag = w.pi.stopFlag /\ p.reBalance = w.pi.reBalance
      BY <1>1 DEF PairInfo
    <2>4. opens => /\ w.pi.openSwitch /\ ~w.pi.activeAlgoIsRiskClose
                   /\ ~w.pi.stopFlag /\ ~w.pi.closeFlag
      BY DEF OpensAfterModify
    <2>5. opens \in BOOLEAN
      BY DEF OpensAfterModify
    <2> HIDE DEF opens
    <2>7. /\ b \in Algo /\ b.status = a.status /\ b.role = a.role /\ b.type = a.type
          /\ b.position = a.position /\ b.live = a.live
          /\ (Modifiable(a) /\ b.mayOpen = opens /\ b.type = "PairTrading")
               \/ (~Modifiable(a) /\ b = a)
      <3>1. CASE Modifiable(a)
        <4>1. b = [a EXCEPT !.mayOpen = opens, !.mayClose = TRUE]
          BY <3>1
        <4> HIDE DEF b, a
        <4> QED BY <2>1, <2>5, <3>1, <4>1 DEF Algo, Modifiable
      <3> QED BY <2>1, <3>1
    <2> HIDE DEF p, b
    <2>8. /\ DOMAIN f = DOMAIN w.algos /\ f[id] = b
          /\ \A i \in DOMAIN w.algos : i # id => f[i] = w.algos[i]
          /\ f \in [DOMAIN w.algos -> Algo] /\ DOMAIN w.algos \in SUBSET AlgoId
      BY <1>1, <2>1, <2>7, Fields
    <2> HIDE DEF f, v
    <2>9. /\ v \in Worlds /\ v.pi = p /\ v.algos = f
          /\ v.nextAlgo = w.nextAlgo /\ v.config = w.config
      BY <1>1, <2>2, <2>3, <2>8 DEF Worlds
    <2>10. w.pi.activeAlgoIsRiskClose = (a.role = "RISK_CLOSE")
      BY <2>1 DEF Good, Sound, IsRiskClose
    <2>11. \A i \in DOMAIN v.algos : Follows(v.algos[i], w.algos[i], w.pi.current = None)
      <3> TAKE i \in DOMAIN v.algos
      <3>1. i \in DOMAIN w.algos
        BY <2>8, <2>9
      <3>2. CASE i # id
        <4>1. v.algos[i] = w.algos[i]
          BY <2>8, <2>9, <3>1, <3>2
        <4> QED BY <3>1, <4>1 DEF Follows, Good, Sound, EndedRests
      <3>3. CASE i = id
        <4>1. v.algos[i] = b
          BY <2>8, <2>9, <3>3
        <4>2. b.status \in {"FILLED", "CANCELED"} => b.live = {}
          BY <2>1, <2>7 DEF Good, Sound, EndedRests
        <4>3. (b.role = "RISK_CLOSE" \/ b.type = "Rebalance") => (b.mayOpen => a.mayOpen)
          BY <2>4, <2>7, <2>10
        <4> QED BY <2>1, <2>7, <3>3, <4>1, <4>2, <4>3 DEF Follows
      <3> QED BY <3>2, <3>3
    <2>12. Frozen(v) /\ Masked(v)
      BY <2>3, <2>9 DEF Good, Sound, Frozen, Masked
    <2>13. Sound(v) /\ IsRiskClose(v) = IsRiskClose(w)
      BY <2>1, <2>3, <2>8, <2>9, <2>11, <2>12, AlgosStep DEF Good
    <2>14. Good(v)
      BY <2>1, <2>3, <2>7, <2>8, <2>9, <2>13 DEF Good, Works
    <2>15. Withheld(v)
      <3> SUFFICES ASSUME NEW i \in DOMAIN v.algos, Restricted(v, i)
                   PROVE  ~v.algos[i].mayOpen
        BY DEF Withheld
      <3>1. v.algos[i].status = "NEW"
        BY DEF Restricted
      <3>2. i = id /\ v.algos[i] = b
        BY <2>3, <2>8, <2>9, <2>13, <3>1 DEF Sound, OneWorks, Working
      <3>3. CASE Modifiable(a)
        <4>1. b.mayOpen = opens
          BY <2>7, <3>3
        <4>2. opens => ~w.config.closeOnly
          BY <2>4 DEF Good, Sound, Masked
        <4> QED BY <2>3, <2>4, <2>7, <2>9, <2>10, <3>2, <4>1, <4>2 DEF Restricted
      <3>4. CASE ~Modifiable(a)
        <4>1. b = a /\ a.status = "NEW"
          BY <2>7, <3>1, <3>2, <3>4
        <4>2. a.type = "Rebalance"
          BY <2>1, <3>4, <4>1, AlgoFields DEF Modifiable
        <4> QED BY <2>1, <3>2, <4>1, <4>2 DEF Good, Sound, ClosesOnly
      <3> QED BY <3>3, <3>4
    <2> QED BY <2>9, <2>14, <2>15 DEF v
  <1> QED BY <1>2, <1>3

\* A pair that is busy with a working order gives the fallback nothing to do.
LEMMA ScanIdle ==
  ASSUME NEW w, Good(w), NEW spreadsAllow PROVE ScanFinished(w, spreadsAllow) = w
  BY DEF ScanFinished, Good, Sound, Numbered, Works, Working, Terminal

-----------------------------------------------------------------------------
(* The actions.  A step keeps the invariant, and under stopAllAlgo submits    *)
(* nothing.                                                                   *)

StoppedSubmitsNothing == config'.stopAllAlgo => nextAlgo' = nextAlgo
StepIsGood == IInv' /\ StoppedSubmitsNothing

LEMMA WorldFields ==
  /\ World.pi = pi /\ World.risk = risk /\ World.algos = algos
  /\ World.nextAlgo = nextAlgo /\ World.config = config /\ World.attempts = attempts
  BY DEF World

LEMMA DrainConfigStep == ASSUME IInv, DrainConfig PROVE StepIsGood
  <1>1. /\ phase' = "risk"
        /\ Good(World)
    BY DEF DrainConfig, IInv
  <1>2. PICK spreadsAllow \in BOOLEAN :
          \E w \in {RecalcOrderParams(World, spreadsAllow)}
                   \union {ApplyConfig(World, c, spreadsAllow) : c \in Configs} :
            Becomes(IF w.config.stopAllAlgo THEN RequestCancel(w) ELSE w)
    BY DEF DrainConfig
  <1>3. PICK w : /\ \/ w = RecalcOrderParams(World, spreadsAllow)
                    \/ \E c \in Configs : w = ApplyConfig(World, c, spreadsAllow)
                 /\ Becomes(IF w.config.stopAllAlgo THEN RequestCancel(w) ELSE w)
    BY <1>2
  <1>4. /\ Good(w) /\ w.nextAlgo = nextAlgo
        /\ Pending(w) \/ w.config.stopAllAlgo
    <2>1. CASE w = RecalcOrderParams(World, spreadsAllow)
      <3>1. Good(w) /\ Pending(w)
        BY <1>1, <2>1, RecalcGood DEF Good, IInv
      <3>2. w.nextAlgo = World.nextAlgo
        BY <1>1, <2>1, RecalcFields DEF Good, Sound, Same
      <3> QED BY <3>1, <3>2, WorldFields
    <2>2. ASSUME NEW c \in Configs, w = ApplyConfig(World, c, spreadsAllow)
          PROVE  Good(w) /\ w.nextAlgo = nextAlgo /\ w.pi.modifyTime = "zero"
      BY <1>1, <2>2, ApplyConfigGood, WorldFields
    <2> QED BY <1>3, <2>1, <2>2 DEF Pending
  <1> DEFINE v == IF w.config.stopAllAlgo THEN RequestCancel(w) ELSE w
  <1>5. Good(v) /\ Pending(v) /\ v.nextAlgo = nextAlgo
    BY <1>4, RequestCancelGood DEF Good, Pending
  <1>6. Becomes(v)
    BY <1>3
  <1> HIDE DEF v
  <1>7. Good(World)' /\ Pending(World)'
    BY <1>5, <1>6, NextWorld DEF Good, Sound
  <1>8. nextAlgo' = nextAlgo
    BY <1>5, <1>6 DEF Becomes
  <1> QED BY <1>1, <1>7, <1>8 DEF StepIsGood, IInv, StoppedSubmitsNothing

LEMMA CheckRisksStep == ASSUME IInv, CheckRisks PROVE StepIsGood
  <1>1. PICK in \in RiskInputs :
          /\ ProcessRisk(World, in).nextAlgo <= MaxAlgos + 1
          /\ Becomes(ProcessRisk(World, in))
    BY DEF CheckRisks
  <1> DEFINE v == ProcessRisk(World, in)
  <1>2. Good(World) /\ Pending(World) /\ phase' = "checks"
    BY DEF IInv, CheckRisks
  <1>3. Keeps(v, World) /\ (config.stopAllAlgo => v.nextAlgo = nextAlgo)
    BY <1>1, <1>2, ProcessRiskGood, WorldFields
  <1>4. Becomes(v)
    BY <1>1
  <1> HIDE DEF v
  <1>5. Good(World)' /\ Pending(World)'
    BY <1>2, <1>3, <1>4, NextWorld DEF Keeps, Good, Sound
  <1>6. config' = config /\ (config.stopAllAlgo => nextAlgo' = nextAlgo)
    BY <1>3, <1>4, WorldFields DEF Keeps, Becomes
  <1> QED BY <1>2, <1>5, <1>6 DEF StepIsGood, IInv, StoppedSubmitsNothing

LEMMA CheckOrdersStep == ASSUME IInv, CheckOrders PROVE StepIsGood
  <1>1. PICK in \in CheckInputs, spreadsAllow \in BOOLEAN :
          LET w1 == CheckAlgoOrderTimeout(World, in.expired)
              w2 == CheckExposureAbnormal(w1, in)
              w3 == ProcessModify(w2, in)
          IN  Becomes(ScanFinished(w3, spreadsAllow))
    BY DEF CheckOrders
  <1> DEFINE w1 == CheckAlgoOrderTimeout(World, in.expired)
             w2 == CheckExposureAbnormal(w1, in)
             w3 == ProcessModify(w2, in)
  <1>2. Good(World) /\ Pending(World) /\ phase' = "idle"
    BY DEF IInv, CheckOrders
  <1>3. Becomes(ScanFinished(w3, spreadsAllow))
    BY <1>1
  <1>4. Keeps(w1, World) /\ w1.nextAlgo = World.nextAlgo
    BY <1>2, TimeoutGood
  <1> HIDE DEF w1
  <1>5. Keeps(w2, w1) /\ w2.nextAlgo = w1.nextAlgo
    BY <1>4, ExposureGood DEF Keeps
  <1> HIDE DEF w2
  <1>6. Good(w3) /\ w3.nextAlgo = w2.nextAlgo /\ w3.config = w2.config /\ Withheld(w3)
    BY <1>2, <1>4, <1>5, ModifyGood DEF Keeps
  <1> HIDE DEF w3
  <1>7. Becomes(w3)
    BY <1>3, <1>6, ScanIdle
  <1>8. Good(World)' /\ Withheld(World)'
    BY <1>6, <1>7, NextWorld DEF Good, Sound
  <1>9. nextAlgo' = nextAlgo
    BY <1>4, <1>5, <1>6, <1>7, WorldFields DEF Becomes
  <1>10. Pending(World)'
    BY <1>8 DEF Pending
  <1> QED BY <1>2, <1>8, <1>9, <1>10 DEF StepIsGood, IInv, StoppedSubmitsNothing

LEMMA StrategyOnSpreadStep == ASSUME IInv, StrategyOnSpread PROVE StepIsGood
  <1>1. /\ phase = "idle" /\ phase' = phase /\ ~config.stopAllAlgo
        /\ pi.current = None /\ nextAlgo <= MaxAlgos
        /\ Good(World) /\ Withheld(World)
    BY DEF StrategyOnSpread, IInv, Active
  <1>2. PICK role \in {"CLOSE_SIGNAL", "OPEN_SIGNAL"}, mayOpen \in BOOLEAN :
          /\ Becomes(Submit(World, role, "PairTrading", mayOpen, TRUE, 0))
          /\ mayOpen => pi.openSwitch /\ ~pi.stopFlag
    <2>1. pi \in PairInfo
      BY <1>1, WorldFields, Fields DEF Good, Sound
    <2>2. pi.openSwitch \in BOOLEAN
      BY <2>1, PairFields
    <2> QED BY <2>2 DEF StrategyOnSpread, CanClose, CanOpen
  <1> DEFINE Result(tier) == LET y == Submit(World, role, "PairTrading", mayOpen, TRUE, tier) IN
                /\ Sound(y) /\ Works(y) /\ Withheld(y) /\ IsRiskClose(y) = FALSE
                /\ y.pi.riskCloseOrderInFlight = FALSE /\ y.config = World.config
             v == Submit(World, role, "PairTrading", mayOpen, TRUE, 0)
  <1>3. mayOpen => ~World.config.closeOnly /\ ~World.pi.closeFlag /\ ~World.pi.stopFlag
    BY <1>1, <1>2, WorldFields DEF Good, Sound, Masked
  <1>4. \A tier \in 0..3 : Result(tier)
    <2>1. World.pi.current = None /\ World.nextAlgo <= MaxAlgos
      BY <1>1, WorldFields
    <2>2. role \in Roles /\ role # "RISK_CLOSE"
      BY DEF Roles
    <2> TAKE tier \in 0..3
    <2> DEFINE y == Submit(World, role, "PairTrading", mayOpen, TRUE, tier)
    <2>3. /\ Sound(y) /\ Works(y) /\ Withheld(y)
          /\ IsRiskClose(y) = (role = "RISK_CLOSE")
          /\ y.pi.riskCloseOrderInFlight = FALSE /\ y.config = World.config
      <3>1. /\ role = "RISK_CLOSE" \/ "PairTrading" = "Rebalance" => ~mayOpen
            /\ "PairTrading" \in {"PairTrading", "Rebalance"}
        BY <2>2
      <3> QED BY <1>1, <1>3, <2>1, <2>2, <3>1, SubmitGood
    <2> HIDE DEF y
    <2> QED BY <2>2, <2>3 DEF y
  <1> HIDE DEF Result
  <1>5. Result(0)
    BY <1>4
  <1>6. Good(v) /\ Withheld(v) /\ v.config = config
    BY <1>5, WorldFields DEF Result, Good
  <1>7. Becomes(v)
    BY <1>2
  <1> HIDE DEF v
  <1>8. Good(World)' /\ Withheld(World)' /\ config' = config
    BY <1>6, <1>7, NextWorld DEF Good, Sound, Becomes
  <1>9. Pending(World)'
    BY <1>8 DEF Pending
  <1> QED BY <1>1, <1>8, <1>9 DEF StepIsGood, IInv, StoppedSubmitsNothing

LEMMA WaitStep == ASSUME IInv, NEW k \in Kinds, Wait(k) PROVE StepIsGood
  <1> DEFINE r == [risk EXCEPT ![k].age = @ + 1]
             v == [World EXCEPT !.risk = r]
  <1>1. /\ risk[k].age < 2 /\ risk' = r
        /\ UNCHANGED <<pi, algos, nextAlgo, config, phase, attempts>>
        /\ Good(World)
    BY DEF Wait, IInv
  <1>2. World \in Worlds /\ risk \in [Kinds -> RiskState]
    BY <1>1, WorldFields, Fields DEF Good, Sound
  <1>3. r \in [Kinds -> RiskState]
    <2>1. [risk[k] EXCEPT !.age = risk[k].age + 1] \in RiskState
      BY <1>1, <1>2 DEF RiskState
    <2> QED BY <1>2, <2>1
  <1> HIDE DEF r
  <1>4. /\ v \in Worlds /\ v.pi = pi /\ v.algos = algos /\ v.risk = r
        /\ v.nextAlgo = nextAlgo /\ v.config = config /\ v.attempts = attempts
    BY <1>2, <1>3, Replaced, WorldFields
  <1> HIDE DEF v
  <1>5. Becomes(v)
    BY <1>1, <1>4 DEF Becomes
  <1>6. Same(v, World) /\ Frozen(v) /\ Masked(v)
    BY <1>1, <1>4, WorldFields DEF Same, Frozen, Masked, Good, Sound
  <1>7. Good(v)
    BY <1>1, <1>4, <1>6, FlagsStep DEF Good
  <1>8. /\ Withheld(World) => Withheld(v)
        /\ Pending(World) => Pending(v)
    BY <1>4, WorldFields DEF Withheld, Pending, Restricted
  <1>9. Good(World)' /\ (Withheld(World) => Withheld(World)') /\ Pending(World)'
    BY <1>4, <1>5, <1>7, <1>8, NextWorld DEF IInv
  <1> QED BY <1>1, <1>9 DEF StepIsGood, IInv, StoppedSubmitsNothing

\* The execution side moves algo orders on, and the strategy hears of it at once.
LEMMA ExecOnTimerStep == ASSUME IInv, ExecOnTimer PROVE StepIsGood
  <1>1. /\ phase = "idle" /\ phase' = "config" /\ Good(World) /\ Withheld(World)
    BY DEF IInv, ExecOnTimer
  <1> DEFINE Moved(out, gone) ==
               [i \in DOMAIN algos \ gone |->
                  IF i \in WorkingIds THEN After(algos[i], out[i]) ELSE algos[i]]
             Later(f) == [World EXCEPT !.algos = f,
                                       !.pi.modifyTime = IF @ = "now" THEN "past" ELSE @]
             Told(f, told) == Active /\ pi.current \in WorkingIds
                                /\ (f[pi.current].status \in Terminal \/ told)
  <1>2. PICK out \in [WorkingIds -> Outcome], gone \in SUBSET TerminalIds,
             told \in BOOLEAN, spreadsAllow \in BOOLEAN :
          /\ \A i \in WorkingIds : Ticks(algos[i], Moved(out, gone)[i])
          /\ \/ /\ Told(Moved(out, gone), told)
                /\ Becomes(OnAlgoOrderUpdate(Later(Moved(out, gone)), pi.current, spreadsAllow))
             \/ /\ ~Told(Moved(out, gone), told)
                /\ Becomes(Later(Moved(out, gone)))
    BY DEF ExecOnTimer
  <1> DEFINE after == Moved(out, gone)
             w     == Later(after)
             p     == [pi EXCEPT !.modifyTime = IF pi.modifyTime = "now" THEN "past"
                                                ELSE pi.modifyTime]
  <1>3. /\ World \in Worlds /\ pi \in PairInfo
        /\ DOMAIN algos \in SUBSET AlgoId /\ algos \in [DOMAIN algos -> Algo]
        /\ nextAlgo \in Nat
    BY <1>1, WorldFields, Fields DEF Good, Sound
  <1>4. w = [World EXCEPT !.algos = after, !.pi = p]
    BY <1>3, WorldFields DEF Worlds
  <1>5. /\ p \in PairInfo /\ p.current = pi.current /\ p.ledger = pi.ledger
        /\ p.activeAlgoIsRiskClose = pi.activeAlgoIsRiskClose
        /\ p.riskCloseOrderInFlight = pi.riskCloseOrderInFlight
        /\ p.openSwitch = pi.openSwitch /\ p.closeFlag = pi.closeFlag
        /\ p.stopFlag = pi.stopFlag /\ p.reBalance = pi.reBalance
    BY <1>3 DEF PairInfo
  <1>6. ASSUME NEW i \in WorkingIds
        PROVE  /\ i \in DOMAIN algos /\ i \in DOMAIN after /\ after[i] = After(algos[i], out[i])
               /\ after[i] \in Algo
               /\ Ticks(algos[i], after[i])
    <2>1. i \in DOMAIN algos /\ i \notin gone
      BY DEF WorkingIds, TerminalIds, Working, Terminal
    <2>2. algos[i] \in Algo /\ out[i] \in Outcome
      BY <1>3, <2>1
    <2>3. After(algos[i], out[i]) \in Algo
      BY <2>2 DEF After, Outcome, Algo
    <2> QED BY <1>2, <2>1, <2>3
  <1>7. ASSUME NEW i \in DOMAIN after, i \notin WorkingIds
        PROVE  i \in DOMAIN algos /\ after[i] = algos[i]
    BY <1>7
  <1>8. DOMAIN after = DOMAIN algos \ gone
    OBVIOUS
  <1>9. after \in [DOMAIN after -> Algo] /\ DOMAIN after \in SUBSET AlgoId
    <2>1. \A i \in DOMAIN after : after[i] \in Algo
      BY <1>3, <1>6, <1>7
    <2> QED BY <1>3, <1>8, <2>1
  <1>10. \/ Becomes(OnAlgoOrderUpdate(w, pi.current, spreadsAllow)) /\ Told(after, told)
         \/ Becomes(w) /\ ~Told(after, told)
    <2> HIDE DEF Moved, Later, Told
    <2> QED BY <1>2
  <1> HIDE DEF p, w, after
  <1>11. /\ w \in Worlds /\ w.pi = p /\ w.algos = after
         /\ w.nextAlgo = nextAlgo /\ w.config = config
    BY <1>3, <1>4, <1>5, <1>9, WorldFields DEF Worlds
  <1>12. \A i \in DOMAIN w.algos : Follows(w.algos[i], World.algos[i], World.pi.current = None)
    <2> TAKE i \in DOMAIN w.algos
    <2>1. CASE i \in WorkingIds
      <3> DEFINE a == algos[i]  b == after[i]
      <3>1. i \in DOMAIN algos /\ a \in Algo /\ b \in Algo /\ Ticks(a, b)
        BY <1>3, <1>6, <2>1
      <3>2. pi.current # None
        BY <1>1, <1>3, <2>1, WorldFields DEF Good, Sound, OneWorks, WorkingIds, AlgoId, None
      <3> HIDE DEF a, b
      <3>3. /\ b.role = a.role /\ b.type = a.type /\ b.mayOpen = a.mayOpen
            /\ a.status \in Working
            /\ b.status \in {"FILLED", "CANCELED"} => b.live = {}
        BY <3>1 DEF Ticks, Finishes, Algo
      <3>4. Follows(b, a, FALSE)
        BY <3>3 DEF Follows
      <3>5. w.algos[i] = b /\ World.algos[i] = a /\ (World.pi.current = None) = FALSE
        BY <1>11, <3>2, WorldFields DEF a, b
      <3> QED BY <3>4, <3>5
    <2>2. CASE i \notin WorkingIds
      <3>1. i \in DOMAIN algos /\ w.algos[i] = algos[i]
        BY <1>7, <1>11, <2>2
      <3> QED BY <1>1, <3>1, WorldFields DEF Follows, Good, Sound, EndedRests
    <2> QED BY <2>1, <2>2
  <1>13. /\ DOMAIN w.algos \subseteq DOMAIN World.algos
         /\ World.pi.current # None => /\ World.pi.current \in DOMAIN w.algos
                                       /\ World.pi.current \in WorkingIds
    BY <1>1, <1>6, <1>8, <1>11, WorldFields DEF Good, Sound, Numbered, Works, WorkingIds
  <1>14. /\ w.nextAlgo = World.nextAlgo /\ w.config = World.config
         /\ w.pi.current = World.pi.current /\ w.pi.ledger = World.pi.ledger
         /\ w.pi.activeAlgoIsRiskClose = World.pi.activeAlgoIsRiskClose
         /\ Frozen(w) /\ Masked(w)
    BY <1>1, <1>5, <1>11, WorldFields DEF Frozen, Masked, Good, Sound
  <1>15. Sound(w) /\ IsRiskClose(w) = IsRiskClose(World)
    BY <1>1, <1>11, <1>12, <1>13, <1>14, AlgosStep DEF Good
  <1>16. w.pi.riskCloseOrderInFlight = IsRiskClose(w)
    BY <1>1, <1>5, <1>11, <1>15, WorldFields DEF Good
  <1>17. Withheld(w)
    <2> SUFFICES ASSUME NEW i \in DOMAIN w.algos, Restricted(w, i) PROVE ~w.algos[i].mayOpen
      BY DEF Withheld
    <2>1. CASE i \in WorkingIds
      <3> DEFINE a == algos[i]  b == after[i]
      <3>1. i \in DOMAIN algos /\ a \in Algo /\ b \in Algo /\ Ticks(a, b)
        BY <1>3, <1>6, <2>1
      <3> HIDE DEF a, b
      <3>2. b.role = a.role /\ b.mayOpen = a.mayOpen /\ (b.status = "NEW" => a.status = "NEW")
        BY <3>1 DEF Ticks, Algo, Terminal
      <3>3. w.algos[i] = b /\ World.algos[i] = a
        BY <1>11, WorldFields DEF a, b
      <3>4. Restricted(World, i)
        BY <1>5, <1>11, <3>2, <3>3, WorldFields DEF Restricted
      <3> QED BY <1>1, <3>1, <3>2, <3>3, <3>4, WorldFields DEF Withheld
    <2>2. CASE i \notin WorkingIds
      <3>1. i \in DOMAIN algos /\ w.algos[i] = World.algos[i]
        BY <1>7, <1>11, <2>2, WorldFields
      <3>2. Restricted(World, i)
        BY <1>5, <1>11, <3>1, WorldFields DEF Restricted
      <3> QED BY <1>1, <3>1, <3>2, WorldFields DEF Withheld
    <2> QED BY <2>1, <2>2
  <1>18. CASE Becomes(OnAlgoOrderUpdate(w, pi.current, spreadsAllow)) /\ Told(after, told)
    <2> DEFINE v == OnAlgoOrderUpdate(w, pi.current, spreadsAllow)
    <2>1. pi.current \in DOMAIN w.algos /\ pi.current = w.pi.current
      BY <1>5, <1>11, <1>13, <1>18, WorldFields DEF Active
    <2>2. Good(v) /\ v.nextAlgo = nextAlgo /\ Withheld(v)
      BY <1>11, <1>15, <1>16, <1>17, <2>1, UpdateGood
    <2>3. Becomes(v)
      BY <1>18
    <2> HIDE DEF v
    <2>4. Good(World)' /\ Withheld(World)' /\ nextAlgo' = nextAlgo
      BY <2>2, <2>3, NextWorld DEF Good, Sound, Becomes
    <2>5. Pending(World)'
      BY <2>4 DEF Pending
    <2> QED BY <1>1, <2>4, <2>5 DEF StepIsGood, IInv, StoppedSubmitsNothing
  <1>19. CASE Becomes(w) /\ ~Told(after, told)
    <2>1. Works(w)
      <3> SUFFICES ASSUME pi.current # None PROVE after[pi.current].status \in Working
        BY <1>5, <1>11 DEF Works
      <3>1. pi.current \in WorkingIds /\ after[pi.current].status \notin Terminal
        BY <1>13, <1>19, WorldFields DEF Active
      <3>2. after[pi.current] \in Algo
        BY <1>6, <3>1
      <3> QED BY <3>1, <3>2, AlgoFields
    <2>2. Good(w)
      BY <1>15, <1>16, <2>1 DEF Good
    <2>3. Good(World)' /\ Withheld(World)' /\ nextAlgo' = nextAlgo
      BY <1>11, <1>17, <1>19, <2>2, NextWorld DEF Becomes
    <2>4. Pending(World)'
      BY <2>3 DEF Pending
    <2> QED BY <1>1, <2>3, <2>4 DEF StepIsGood, IInv, StoppedSubmitsNothing
  <1> QED BY <1>10, <1>18, <1>19

\* One algo order takes a step that ends nothing and keeps what it may open.
LEMMA OneAlgoStep ==
  ASSUME NEW w, Good(w), Withheld(w), NEW id \in DOMAIN w.algos, NEW b \in Algo,
         Follows(b, w.algos[id], w.pi.current = None),
         b.status = w.algos[id].status, b.mayOpen = w.algos[id].mayOpen
  PROVE  LET v == [w EXCEPT !.algos[id] = b] IN
         Good(v) /\ Withheld(v) /\ Aside(v, w) /\ DOMAIN v.algos = DOMAIN w.algos
  <1> DEFINE f == [w.algos EXCEPT ![id] = b]
             v == [w EXCEPT !.algos = f]
  <1>1. w \in Worlds
    BY DEF Good, Sound
  <1>2. /\ DOMAIN f = DOMAIN w.algos /\ f[id] = b
        /\ \A i \in DOMAIN w.algos : i # id => f[i] = w.algos[i]
        /\ f \in [DOMAIN w.algos -> Algo] /\ DOMAIN w.algos \in SUBSET AlgoId
    BY <1>1, Fields
  <1> HIDE DEF f
  <1>3. v \in Worlds /\ v.algos = f /\ Aside(v, w)
    BY <1>1, <1>2, AlgosReplaced
  <1> HIDE DEF v
  <1>4. \A i \in DOMAIN v.algos : Follows(v.algos[i], w.algos[i], w.pi.current = None)
    <2> TAKE i \in DOMAIN v.algos
    <2>1. CASE i = id
      BY <1>2, <1>3, <2>1
    <2>2. CASE i # id
      <3>1. i \in DOMAIN w.algos /\ v.algos[i] = w.algos[i]
        BY <1>2, <1>3, <2>2
      <3> QED BY <3>1 DEF Follows, Good, Sound, EndedRests
    <2> QED BY <2>1, <2>2
  <1>5. Frozen(v) /\ Masked(v)
    BY <1>3 DEF Aside, Frozen, Masked, Good, Sound
  <1>6. Sound(v) /\ IsRiskClose(v) = IsRiskClose(w)
    BY <1>2, <1>3, <1>4, <1>5, AlgosStep DEF Aside, Good, Sound, Numbered
  <1>7. Good(v)
    <2>1. Works(v)
      BY <1>2, <1>3 DEF Aside, Good, Works, Sound, Numbered
    <2> QED BY <1>3, <1>6, <2>1 DEF Aside, Good
  <1>8. Withheld(v)
    <2> SUFFICES ASSUME NEW i \in DOMAIN v.algos, Restricted(v, i) PROVE ~v.algos[i].mayOpen
      BY DEF Withheld
    <2>1. /\ i \in DOMAIN w.algos /\ v.algos[i].status = w.algos[i].status
          /\ v.algos[i].role = w.algos[i].role /\ v.algos[i].mayOpen = w.algos[i].mayOpen
      BY <1>2, <1>3 DEF Follows
    <2>2. Restricted(w, i)
      BY <1>3, <2>1 DEF Restricted, Aside
    <2> QED BY <2>1, <2>2 DEF Withheld
  <1> QED BY <1>2, <1>3, <1>7, <1>8 DEF v, f

\* An algo order that ended has no pair order left that could end.
LEMMA ExecOnOrderStep ==
  ASSUME IInv, NEW id \in DOMAIN algos, ExecOnOrder(id) PROVE StepIsGood
  <1>1. phase = "idle" /\ phase' = phase /\ Good(World) /\ Withheld(World)
    BY DEF IInv, ExecOnOrder
  <1> DEFINE Reported(pos, live) == [algos[id] EXCEPT !.position = pos, !.live = live]
             Later(b) == [World EXCEPT !.algos[id] = b]
  <1>2. PICK pos \in 0..MaxPosition, live \in SUBSET algos[id].live,
             told \in BOOLEAN, spreadsAllow \in BOOLEAN :
          /\ TakesReport(algos[id], Reported(pos, live))
          /\ Becomes(IF told THEN OnAlgoOrderUpdate(Later(Reported(pos, live)), id, spreadsAllow)
                     ELSE Later(Reported(pos, live)))
    BY DEF ExecOnOrder
  <1> DEFINE a == algos[id]
             b == Reported(pos, live)
             w == Later(b)
             v == OnAlgoOrderUpdate(w, id, spreadsAllow)
  <1>3. a \in Algo
    BY <1>1, WorldFields, Fields DEF Good, Sound
  <1>4. Becomes(w) \/ Becomes(v)
    <2> HIDE DEF Reported, Later
    <2> QED BY <1>2
  <1>5. /\ b \in Algo /\ b.status = a.status /\ b.role = a.role /\ b.type = a.type
        /\ b.mayOpen = a.mayOpen /\ b.live \subseteq a.live
        /\ b.position = pos /\ b.live = live
    <2> HIDE DEF a
    <2>1. b = [a EXCEPT !.position = pos, !.live = live]
      BY DEF a
    <2>2. live \subseteq a.live
      BY DEF a
    <2> HIDE DEF b
    <2> QED BY <1>3, <2>1, <2>2 DEF Algo
  <1>6. a.live = {} => b.live = {} /\ b.position = a.position
    <2>1. Finishes(a, b)
      BY <1>2 DEF TakesReport
    <2>2. MaxPosition \in Nat
      BY HandshakeAssumption
    <2> HIDE DEF a, b
    <2>3. a.position \in Int /\ b.position \in Int
      BY <1>3, <1>5, <2>2, AlgoFields
    <2> QED BY <2>1, <2>3 DEF Finishes
  <1> HIDE DEF b, v
  <1>7. Follows(b, World.algos[id], World.pi.current = None)
    <2>1. a.status \in {"FILLED", "CANCELED"} => a.live = {}
      BY <1>1, WorldFields DEF Good, Sound, EndedRests
    <2>2. World.algos[id] = a
      BY WorldFields
    <2> HIDE DEF a
    <2> QED BY <1>5, <1>6, <2>1, <2>2 DEF Follows
  <1>8. Good(w) /\ Withheld(w) /\ Aside(w, World) /\ DOMAIN w.algos = DOMAIN algos
    BY <1>1, <1>5, <1>7, OneAlgoStep, WorldFields
  <1> HIDE DEF w
  <1>9. Good(v) /\ Withheld(v) /\ v.nextAlgo = nextAlgo
    BY <1>8, UpdateGood, WorldFields DEF v, Good, Aside
  <1>10. Good(World)' /\ Withheld(World)' /\ nextAlgo' = nextAlgo
    BY <1>4, <1>8, <1>9, NextWorld, WorldFields DEF Good, Sound, Becomes, Aside
  <1>11. Pending(World)'
    BY <1>10 DEF Pending
  <1> QED BY <1>1, <1>10, <1>11 DEF StepIsGood, IInv, StoppedSubmitsNothing

LEMMA ExecOnSpreadStep ==
  ASSUME IInv, NEW id \in DOMAIN algos, ExecOnSpread(id) PROVE StepIsGood
  <1> DEFINE a == algos[id]
  <1>1. phase = "idle" /\ phase' = phase /\ Good(World) /\ Withheld(World)
    BY DEF IInv, ExecOnSpread
  <1>2. PICK dir \in {1, -1} :
          LET b == [a EXCEPT !.live = {<<1, dir>>}] IN
          Creates(a, b) /\ algos' = [algos EXCEPT ![id] = b]
    BY DEF ExecOnSpread
  <1>3. UNCHANGED <<pi, risk, nextAlgo, config, attempts>>
    BY DEF ExecOnSpread
  <1> DEFINE b == [a EXCEPT !.live = {<<1, dir>>}]
             w == [World EXCEPT !.algos[id] = b]
  <1>4. a \in Algo
    BY <1>1, WorldFields, Fields DEF Good, Sound
  <1>5. a.status = "NEW" /\ algos' = [algos EXCEPT ![id] = b]
    BY <1>2 DEF Creates
  <1>6. /\ b \in Algo /\ b.status = a.status /\ b.role = a.role /\ b.type = a.type
        /\ b.mayOpen = a.mayOpen
    BY <1>4 DEF Algo
  <1> HIDE DEF b
  <1>7. Follows(b, World.algos[id], World.pi.current = None)
    BY <1>5, <1>6, WorldFields DEF Follows
  <1>8. Good(w) /\ Withheld(w) /\ Aside(w, World)
    BY <1>1, <1>6, <1>7, OneAlgoStep, WorldFields
  <1>9. Becomes(w)
    <2>1. w.algos = [algos EXCEPT ![id] = b]
      BY DEF World
    <2> HIDE DEF w
    <2> QED BY <1>3, <1>5, <1>8, <2>1, WorldFields DEF Becomes, Aside
  <1> HIDE DEF w
  <1>10. Good(World)' /\ Withheld(World)'
    BY <1>8, <1>9, NextWorld DEF Good, Sound
  <1>11. Pending(World)'
    BY <1>10 DEF Pending
  <1> QED BY <1>1, <1>3, <1>10, <1>11 DEF StepIsGood, IInv, StoppedSubmitsNothing

-----------------------------------------------------------------------------
LEMMA InitIInv == Init => IInv
  <1> SUFFICES ASSUME Init PROVE IInv
    OBVIOUS
  <1>1. MaxAlgos \in Nat /\ MaxAlgos > 0 /\ MaxPosition \in Nat
    BY HandshakeAssumption
  <1>2. pi \in PairInfo /\ pi.current = None /\ ~pi.reBalance /\ ~pi.openSwitch
        /\ pi.riskCloseOrderInFlight = FALSE /\ pi.activeAlgoIsRiskClose = FALSE
    BY DEF Init, PairInfo
  <1>3. DOMAIN algos = {} /\ algos \in UNION {[S -> Algo] : S \in SUBSET AlgoId}
    <2>1. algos = <<>> /\ DOMAIN algos = {}
      BY DEF Init
    <2>2. algos \in [{} -> Algo]
      BY <2>1
    <2> QED BY <2>1, <2>2
  <1>4. risk \in [Kinds -> RiskState]
    <2>1. Untriggered \in RiskState
      BY DEF Untriggered, RiskState
    <2> QED BY <2>1 DEF Init
  <1>5. World \in Worlds
    <2>1. /\ nextAlgo \in 1..(MaxAlgos + 1) /\ attempts \in SUBSET (1..3)
          /\ config \in [closeOnly : BOOLEAN, stopAllAlgo : BOOLEAN]
      BY <1>1 DEF Init
    <2> QED BY <1>2, <1>3, <1>4, <2>1 DEF World, Worlds
  <1>6. Good(World)
    BY <1>2, <1>3, <1>5, WorldFields
       DEF Good, Sound, Numbered, OneWorks, Works, EndedRests, Settled, IsRiskClose,
           Frozen, Masked, ClosesOnly
  <1>7. Withheld(World)
    BY <1>3, WorldFields DEF Withheld
  <1> QED BY <1>6, <1>7 DEF IInv, Pending, Init

LEMMA NextIsGood == IInv /\ [Next]_vars => IInv' /\ (StoppedSubmitsNothing \/ UNCHANGED vars)
  <1> SUFFICES ASSUME IInv, [Next]_vars PROVE IInv' /\ (StoppedSubmitsNothing \/ UNCHANGED vars)
    OBVIOUS
  <1>1. CASE Next
    <2>1. StepIsGood
      BY <1>1, ExecOnTimerStep, DrainConfigStep, CheckRisksStep, CheckOrdersStep,
         StrategyOnSpreadStep, ExecOnOrderStep, ExecOnSpreadStep, WaitStep DEF Next
    <2> QED BY <2>1 DEF StepIsGood
  <1>2. CASE UNCHANGED vars
    BY <1>2 DEF vars, IInv, World, Good, Sound, Worlds, Numbered, OneWorks, Works, EndedRests,
                Settled, IsRiskClose, Frozen, Masked, ClosesOnly, Pending, Withheld, Restricted
  <1> QED BY <1>1, <1>2

THEOREM Invariance == Spec => []IInv
  <1>1. IInv /\ [Next]_vars => IInv'
    BY NextIsGood
  <1> QED BY InitIInv, <1>1, PTL DEF Spec

\* The variables have their types, the risk tiers and the modification times included.
THEOREM Types == Spec => []TypeOK
  <1>1. IInv => TypeOK
    BY WorldFields, Fields DEF IInv, Good, Sound, TypeOK
  <1> QED BY Invariance, <1>1, PTL

\* The pair is busy with its working algo order, with no other and never without.
THEOREM Busy == Spec => []BusyWithTheWorkingOrder
  <1>1. IInv => BusyWithTheWorkingOrder
    <2> SUFFICES ASSUME IInv, NEW id \in DOMAIN algos
                 PROVE  algos[id].status \in Working <=> pi.current = id
      BY DEF BusyWithTheWorkingOrder
    <2>1. DOMAIN algos \subseteq AlgoId /\ id # None
      BY WorldFields, Fields DEF IInv, Good, Sound, AlgoId, None
    <2> QED BY <2>1, WorldFields DEF IInv, Good, Sound, OneWorks, Works
  <1> QED BY Invariance, <1>1, PTL

\* The ledger of a free pair is the position its last algo order ended with.
THEOREM LedgerTrue == Spec => []LedgerSettled
  <1>1. IInv => LedgerSettled
    BY WorldFields DEF IInv, Good, Sound, Settled, LedgerSettled, Active
  <1> QED BY Invariance, <1>1, PTL

\* The marks of a risk close are those of the active algo order.
THEOREM Marks == Spec => []FlagsMatchOrder
  <1>1. IInv => FlagsMatchOrder
    BY WorldFields DEF IInv, Good, Sound, IsRiskClose, FlagsMatchOrder, Active
  <1> QED BY Invariance, <1>1, PTL

\* A pair being rebalanced is stopped.
THEOREM Rebalancing == Spec => []RebalanceFrozen
  <1>1. IInv => RebalanceFrozen
    BY WorldFields DEF IInv, Good, Sound, Frozen, RebalanceFrozen
  <1> QED BY Invariance, <1>1, PTL

\* No order opens against the flags once on_timer has returned.
THEOREM Withholding == Spec => []OpensWithheld
  <1>1. IInv => OpensWithheld
    BY WorldFields DEF IInv, Withheld, Restricted, OpensWithheld
  <1> QED BY Invariance, <1>1, PTL

\* Under stopAllAlgo no algo order is submitted.
THEOREM Stopped == Spec => NothingSubmittedWhileStopped
  <1>1. IInv /\ [Next]_vars => [config'.stopAllAlgo => nextAlgo' = nextAlgo]_vars
    BY NextIsGood DEF StoppedSubmitsNothing
  <1> QED BY Invariance, <1>1, PTL DEF Spec, NothingSubmittedWhileStopped
=============================================================================
