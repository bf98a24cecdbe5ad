SPECIFICATION FairSpec
CONSTANTS
  Freeze = TRUE
  Kill = "known"
  MaxPosition = 2
  MaxSubmits = 2
  MaxStarts = 3
  MaxResumes = 1
INVARIANTS TypeOK LedgerTrue NoTradeOverOrphans
PROPERTIES StartsTrading
CHECK_DEADLOCK FALSE
