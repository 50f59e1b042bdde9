SPECIFICATION FairSpec
CONSTANTS
  QueueSize = 1
  MaxLines = 3
  WithLog = TRUE
  CanFail = TRUE
  CanBlock = TRUE
INVARIANTS
  TypeOK
  WriterInOrder
  LogKeepsAll
  LeftBehind
PROPERTIES
  EndsAtEof
  BufferIsRead
CHECK_DEADLOCK FALSE
