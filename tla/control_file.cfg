SPECIFICATION FairSpec
CONSTANTS
  a = a
  b = b
  typo = typo
  Torn = Torn
  None = None
  Pairs = {a, b}
  Unknown = typo
  Files <- AllFiles
  Capacity = 2
  MinVolume = 2
  MaxVersion = 4
  MaxCrashes = 1
  MaxLatches = 1
INVARIANTS TypeOK NothingMissed
PROPERTIES LastFileTakesEffect
CHECK_DEADLOCK FALSE
