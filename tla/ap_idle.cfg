SPECIFICATION FairSpec
CONSTANTS
  N = 3
  IdleManners = {"Hlt", "Mwait", "Run"}
  HandoffManners = {"Hlt", "Mwait32"}
  Hasty = FALSE
INVARIANTS TypeOK OwnStack NoneLeftBehind RightSleep
PROPERTIES WokenRuns BspGoesOn HandedOff
CHECK_DEADLOCK FALSE
