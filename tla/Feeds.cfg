SPECIFICATION FeedsSpec
CONSTANTS
  MaxMessages = 3
  MaxStarts = 2
  ArticleLists <- MCArticleLists
INVARIANTS
  FeedsTypeOK
  FeedsInOrder
PROPERTIES
  StopReturnsUnlessRefused
  IsConnection
CHECK_DEADLOCK FALSE
