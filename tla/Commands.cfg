SPECIFICATION FairSpec
CONSTANTS
  MaxSlaves = 2
  MaxSeq = 2
  NCommands = 2
  MaxNoise = 1
  MaxLost = 1
  MaxRestarts = 1
  SlowMaster = FALSE
INVARIANTS
  SystemTypeOK
  RepliesHaveDevice
  Increasing
  OutputIsLine
  ResponseOfCommand
PROPERTY
  CommandsEnd
CHECK_DEADLOCK FALSE
