SPECIFICATION ApiFairSpec
CONSTANTS
  RunModes = {"BACKTEST", "LIVE", "OPTIMIZATION"}
  Rows = 3
  BadRows = {2}
  Commands = {"run", "stop", "run_backtest", "destroy"}
  ThreadsFail = TRUE
  MaxRuns = 2
INVARIANTS
  ApiTypeOK
  QuietOnReturn
  BacktestComplete
  StoppedIsQuiet
PROPERTIES
  AtRestUndisturbed
  RunEnds
  StopCompletes
  ServerEnds
CHECK_DEADLOCK FALSE
