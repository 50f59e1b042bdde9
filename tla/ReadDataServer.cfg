SPECIFICATION FairSpec
CONSTANTS
  MaxSeq = 1
  InverterKinds <- ServerKinds
  MaxConn = 3
  MaxSend = 2
  Window = 2
  Flaky = TRUE
  OutputFails = TRUE
  XError = FALSE
INVARIANTS
  IndInv
  InOrder
  AckedIsWritten
  OutputInOrder
PROPERTIES
  HandledEventually
  ListensAgain
CHECK_DEADLOCK FALSE
