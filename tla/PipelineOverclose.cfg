SPECIFICATION Spec
CONSTANTS
  btc = btc
  eth = eth
  Symbols = {btc, eth}
  InitialCapital = 1000
  Strategies <- MCStrategies
  FeedEvents <- MCFeed
  MaxFeed = 2
  RiskDivisor = 2
  ModelLoaded = TRUE
  Confidences = {50, 100}
  MinQuantity = 2
  MinOrderValue = 400
  SlippageDivisor = 10
  CommissionDivisor = 10
INVARIANT
  PositionsMatchFills
CHECK_DEADLOCK FALSE
