SPECIFICATION FairSpec
CONSTANTS
  MaxTarget = 3
  ClipVolume = 3
  MinVolume = 1
  ActLot = 1
  ActSize = 1
  ActMin = 2
  PasLot = 3
  PasMin = 3
  MaxTTOrderSize = 1
  StartVolume = 0
  Role = "OPEN_SIGNAL"
  InstType = "SWAP"
  MaxQueries = 0
  PairBound = 1
  HedgeBound = 2
  KillBound = 1
  Switches <- OpenOnly
  Reports = {"NEW"}
INVARIANTS TypeOK HedgeBounded FinishedPairsHedged BooksMatchExchange
PROPERTIES NoNewExposureAfterCancel CancelCompletes FillsGetHedged
CHECK_DEADLOCK FALSE
