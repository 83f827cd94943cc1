SPECIFICATION Spec
CONSTANTS
  Unit = 2
  MaxData = 4
  Page = 8
  Small = 8
  Large = 16
  Word = 64
  FlashSize = 48
  BiosBase = 8
  BiosSize = 40
  Component1Start = 32
  Erases64K = {0}
  Platforms <- MCPlatforms
  Requests <- MCRequests
  MaxCalls = 3
INVARIANTS TypeOK Covered Restored LockedOut
CHECK_DEADLOCK FALSE
