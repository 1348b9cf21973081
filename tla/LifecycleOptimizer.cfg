SPECIFICATION Spec
CONSTANTS
  RunModes = {"OPTIMIZATION"}
  Rows = 3
  BadRows = {2}
  Commands = {"run_backtest"}
  ThreadsFail = FALSE
  MaxRuns = 1
INVARIANT
  ReportComplete
CHECK_DEADLOCK FALSE
