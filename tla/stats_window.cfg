SPECIFICATION WindowSpec
CONSTANTS
  a = a
  b = b
  Pairs = {a}
  Window = 3
  SampleGap = 2
  UpdateGap = 2
  MinSamples = 2
  MaxStale = 3
  SampleCapacity = 2
  StatsCapacity = 2
  Lag = 1
  MaxTime = 9
  MaxStarts = 1
  maxPersec = 2
  maxCancelPersec = 3
  Second = 2
  MaxClock = 8
  MaxSent = 8
INVARIANTS BuiltFromWindow WindowSpaced WindowBounded
CHECK_DEADLOCK FALSE
