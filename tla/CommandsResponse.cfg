SPECIFICATION Spec
CONSTANTS
  MaxSlaves = 2
  MaxSeq = 3
  NCommands = 2
  MaxNoise = 0
  MaxLost = 0
  MaxRestarts = 0
  SlowMaster = FALSE
INVARIANT
  ResponsesAreWritten
CHECK_DEADLOCK FALSE
