SPECIFICATION SystemSpec
CONSTANTS
  Need <- Needs
  Messages <- AllMessages
  NotText <- NotUtf8
  MaxMsgs = 3
  MaxRestarts = 1
  MaxStarts = 2
  BaseNames <- Sorted
INVARIANTS
  SystemTypeOK
  DefinitionIsLongest
  LineReports
  NotMixed
  TotalsAgree
  EdayIsHighest
  LastReading
  ShownWasReported
  CsvKeepsReports
PROPERTY
  RefusedAfterLonger
CHECK_DEADLOCK FALSE
