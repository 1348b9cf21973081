SPECIFICATION FairSpec
CONSTANTS
  MaxMessages = 1
  MaxStarts = 1
PROPERTY
  StopReturns
CHECK_DEADLOCK FALSE
