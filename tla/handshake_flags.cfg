SPECIFICATION Spec
CONSTANTS
  Kinds = {}
  Configs <- FlagConfigs
  Watched = TRUE
  AutoFlag = TRUE
  MaxPosition = 1
  MaxAlgos = 2
INVARIANTS OpensWithheld RebalanceFrozen
CHECK_DEADLOCK FALSE
