SPECIFICATION Spec
CONSTANTS
  btc = btc
  eth = eth
  Symbols = {btc, eth}
  InitialCapital = 1000
  Strategies <- MCStrategies
  FeedEvents <- MCFeed
  MaxFeed = 3
  RiskDivisor = 2
  ModelLoaded = TRUE
  Confidences = {50, 100}
  MinQuantity = 2
  MinOrderValue = 400
  SlippageDivisor = 10
  CommissionDivisor = 10
INVARIANT
  NoOverdraft
CHECK_DEADLOCK FALSE
