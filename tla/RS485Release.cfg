SPECIFICATION Spec
CONSTANTS
  N = 2
  MaxSeq = 1
  MaxRx = 2
  MaxLate = 1
  SlaveKinds <- OneKind
  Lossy = FALSE
  Echo = FALSE
  SlowMaster = FALSE
  XError = FALSE
  CanFail = FALSE
PROPERTY
  SlaveReleasedBus
