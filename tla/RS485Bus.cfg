SPECIFICATION Spec
CONSTANTS
  N = 2
  MaxSeq = 1
  MaxRx = 2
  MaxLate = 1
  SlaveKinds <- ThreeKinds
  Lossy = TRUE
  Echo = TRUE
  SlowMaster = TRUE
  XError = FALSE
  CanFail = TRUE
INVARIANTS
  IndInv
  BusExclusion
  ReplyWhileOthersSilent
