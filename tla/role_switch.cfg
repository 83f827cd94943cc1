SPECIFICATION FairSpec
CONSTANTS
  N = 3
  Timeouts = TRUE
  Manner = "Hlt"
INVARIANTS
  TypeOK
  StackSafe
  InterruptSafe
  BootThread
PROPERTIES
  SwitchEnds
