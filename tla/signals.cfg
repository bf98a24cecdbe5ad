SPECIFICATION Spec
CONSTANTS
  a = a
  b = b
  Cost <- Costs
  ttAddPercent = 1
  AdjNum = 4
  AdjDen = 5
  minSpreadSpan = 1
  minSpreadTarget = 3
  ProfitTargets = {0, 2}
  profitPct = 1
  MinVolume = 1
  Pairs = {a}
  maxPositionValue = 1
  MaxAmount = 1
  Statistics <- AllStatistics
  Quotes <- AllQuotes
  Remains = {1}
  AbnormalSpread = 17
  MaxPosition = 2
INVARIANTS OneSideOnly OpensToKeep CloseOnlyOpensNothing RegressionMeansClose
