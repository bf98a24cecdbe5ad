SPECIFICATION Spec
CONSTANTS
  Kinds = {"FUNDING"}
  Configs <- NoConfigs
  Watched = FALSE
  AutoFlag = TRUE
  MaxPosition = 1
  MaxAlgos = 3
INVARIANTS TiersInOrder
CHECK_DEADLOCK FALSE
