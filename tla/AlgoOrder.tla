------------------------------ MODULE AlgoOrder ------------------------------
(* One algo order as the strategy sees it: the abstract specification that    *)
(* PairOrderExec implements and AlgoHandshake builds on.                      *)
EXTENDS AlgoOrderSteps

VARIABLE algo   \* the state of the algo order, a record of AlgoOrderSteps

Init == algo.status = "NEW" /\ algo.live = {}

Next ==
  \/ Creates(algo, algo')
  \/ TakesReport(algo, algo')
  \/ Ticks(algo, algo')
  \/ Cancels(algo, algo')
  \/ Modifies(algo, algo')
  \/ Deletes(algo, algo')

Spec == Init /\ [][Next]_algo
=============================================================================
