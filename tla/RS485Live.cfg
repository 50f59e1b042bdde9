SPECIFICATION FairSpec
CONSTANTS
  N = 2
  MaxSeq = 1
  MaxRx = 2
  MaxLate = 1
  SlaveKinds <- RaisingKind
  Lossy = FALSE
  Echo = TRUE
  SlowMaster = FALSE
  XError = TRUE
  CanFail = TRUE
PROPERTIES
  ImplementsArbiter
  EverySlavePolled
  LockIsReturned
INVARIANT
  WaitIsBounded
