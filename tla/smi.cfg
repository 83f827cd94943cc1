SPECIFICATION FairSpec
CONSTANTS
  Records <- MCRecords
  Src <- MCSrc
  Value <- MCValue
  Period <- MCPeriod
  Interval <- MCInterval
  MaxEvents = 3
  MaxCalls = 3
  Relatch = TRUE
INVARIANTS TypeOK BitsStay NoFreedRecord NotEarly
PROPERTIES CalledBeforeClear Served
CHECK_DEADLOCK FALSE
