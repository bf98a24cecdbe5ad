SPECIFICATION FairSpec
CONSTANTS
  Kinds = {}
  Configs <- StopConfigs
  Watched = FALSE
  AutoFlag = TRUE
  MaxPosition = 1
  MaxAlgos = 2
INVARIANTS BusyWithTheWorkingOrder LedgerSettled
PROPERTIES NothingSubmittedWhileStopped StopDrains
CHECK_DEADLOCK FALSE
