SPECIFICATION Spec
CONSTANTS
  Kinds = {"SNR"}
  Configs <- NoConfigs
  Watched = FALSE
  AutoFlag = TRUE
  MaxPosition = 1
  MaxAlgos = 2
INVARIANTS TypeOK FlagsMatchOrder BusyWithTheWorkingOrder
CHECK_DEADLOCK FALSE
