--------------------------- MODULE MCPairOrderExec ---------------------------
(* Values the configurations of PairOrderExec give to its constant Switches:  *)
(* the settings <<ttOSSwitch, ttCSSwitch>> the strategy submits and modifies. *)
EXTENDS PairOrderRefinement

OpenOnly     == {<<TRUE, FALSE>>}
CloseOnly    == {<<FALSE, TRUE>>}
OpenOrClose  == {<<TRUE, FALSE>>, <<FALSE, TRUE>>}
=============================================================================
