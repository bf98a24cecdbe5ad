SPECIFICATION Spec
CONSTANTS
  MaxTarget = 2
  ClipVolume = 1
  MinVolume = 1
  ActLot = 1
  ActSize = 1
  ActMin = 1
  PasLot = 1
  PasMin = 1
  MaxTTOrderSize = 2
  StartVolume = 2
  Role = "CLOSE_SIGNAL"
  InstType = "SPOT"
  MaxQueries = 0
  PairBound = 2
  HedgeBound = 1
  KillBound = 0
  Switches <- CloseOnly
  Reports = {"NEW"}
INVARIANTS FrozenMatchesOrders
CHECK_DEADLOCK FALSE
