SPECIFICATION Spec
CONSTANTS
  RunModes = {"BACKTEST"}
  Rows = 3
  BadRows = {2}
  Commands = {"run", "stop"}
  ThreadsFail = FALSE
  MaxRuns = 2
INVARIANT
  ProcessSurvives
CHECK_DEADLOCK FALSE
