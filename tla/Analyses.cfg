SPECIFICATION AnalysesSpec
CONSTANTS
  Files <- MCFiles
  SharpeRatios <- MCSharpeRatios
  Shown <- MCShown
  Garbage <- MCGarbage
  NoDate <- MCNoDate
  MaxPeriods = 7
  TradeLogs <- MCTradeLogs
  Simulations = {0, 1, 19, 20, 21, 40}
  InitialEquity = 4
  Timed = {on_fill}
  Durations = {1, 2}
  MaxSamples = 101
  Prices = {16, 20, 24, 25}
  Unit = 1200
  Periods <- MCPeriods
  MaxPrices = 6
  MaxStarts = 2
INVARIANTS
  AnalysesTypeOK
  NothingUnset
  PeriodsTile
  BestIsBest
  OutcomesRank
  LatenciesRank
  RegimeKnown
PROPERTIES
  WalkEnds
CHECK_DEADLOCK FALSE
