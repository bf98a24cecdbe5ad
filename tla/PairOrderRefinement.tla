------------------------- MODULE PairOrderRefinement -------------------------
(* PairOrderExec implements AlgoOrder: the refinement mapping keeps of the    *)
(* pair orders their ids and directions, and of the child orders nothing.     *)
EXTENDS PairOrderExec

Contract == INSTANCE AlgoOrder WITH
  algo <- [status   |-> algoStatus,
           role     |-> Role,
           position |-> position,
           live     |-> {<<p, pairs[p].dir>> : p \in DOMAIN pairs},
           mayOpen  |-> mayOpen,
           mayClose |-> mayClose]

\* Whatever the child orders, the exchange and the gateway do, the strategy sees
\* an algo order that keeps its contract: no pair order in a direction it did not
\* allow or after a cancel, a position that only moves when a pair order ends and
\* in its direction, and no end while something is being worked, except giving up.
ImplementsAlgoOrder == Contract!Spec
=============================================================================
