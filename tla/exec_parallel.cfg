SPECIFICATION Spec
CONSTANTS
  MaxTarget = 2
  ClipVolume = 1
  MinVolume = 1
  ActLot = 1
  ActSize = 1
  ActMin = 1
  PasLot = 1
  PasMin = 1
  MaxTTOrderSize = 2
  StartVolume = 1
  Role = "OPEN_SIGNAL"
  InstType = "SWAP"
  MaxQueries = 0
  PairBound = 2
  HedgeBound = 1
  KillBound = 0
  Switches <- OpenOrClose
  Reports = {"NEW","UNKNOWN"}
INVARIANTS OpenOrdersTracked FrozenMatchesOrders BooksMatchExchange
PROPERTIES OrdersWithinTarget ImplementsAlgoOrder
CHECK_DEADLOCK FALSE
