SPECIFICATION Spec
CONSTANTS
  MaxSeq = 1
  InverterKinds <- DataKinds
  MaxConn = 1
  MaxSend = 2
  Window = 2
  Flaky = TRUE
  OutputFails = FALSE
  XError = FALSE
INVARIANT
  ServerContinues
CHECK_DEADLOCK FALSE
