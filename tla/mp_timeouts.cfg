SPECIFICATION BspFairSpec
CONSTANTS
  N = 3
  MaxCalls = 2
  Manner = "Run"
  CallKinds <- MCTimed
  Usage = {"poolFull"}
INVARIANTS
  NoGhostRun
  FailedListHonest
  SignalledOnce
  TimerSuppressed
PROPERTIES
  JobsSpec
  Answered
