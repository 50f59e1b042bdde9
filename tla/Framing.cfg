SPECIFICATION Spec
CONSTANTS
  calcCrc <- Checksum
  Magic <- TwoBytes
  Payloads <- ThreePayloads
  Stray = {2}
  MaxItems = 3
  MaxDamage = 2
  MaxSends = 1
INVARIANTS
  IndInv
  ReadsAll
  ActiveInStep
  ReplayLosesFew
CHECK_DEADLOCK FALSE
