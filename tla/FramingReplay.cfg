SPECIFICATION Spec
CONSTANTS
  calcCrc <- Checksum
  Magic <- TwoBytes
  Payloads <- TwoPayloads
  Stray = {}
  MaxItems = 2
  MaxDamage = 0
  MaxSends = 0
INVARIANT
  RecordingReplays
CHECK_DEADLOCK FALSE
