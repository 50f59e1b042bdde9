SPECIFICATION FairSpec
CONSTANTS
  QueueSize = 1
  MaxLines = 3
  WithLog = FALSE
  CanFail = TRUE
  CanBlock = FALSE
PROPERTY
  RunReturns
CHECK_DEADLOCK FALSE
