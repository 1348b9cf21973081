SPECIFICATION ReportsSpec
CONSTANTS
  Symbols = {btc, eth}
  InitialCapital = 100
  Fills <- MCFills
  MaxFills = 4
INVARIANTS
  TypeOK
  UnitsExplained
  FlowExplained
  ReportAddsUp
  DrawdownIsWorstLoss
CHECK_DEADLOCK FALSE
