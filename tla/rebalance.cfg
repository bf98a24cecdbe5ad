SPECIFICATION FairSpec
CONSTANTS
  Lot = 2
  MinSize = 2
  MinOrder = 1
  MinVolume = 2
  Target = 2
  Threshold = 2
  Starts <- AllStarts
  MaxUpsets = 1
INVARIANTS TypeOK NotOverclosed FillsReachLedger Repaired
PROPERTIES RebalanceEnds
