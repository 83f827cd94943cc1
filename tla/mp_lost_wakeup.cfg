SPECIFICATION FairSpec
CONSTANTS
  N = 3
  MaxCalls = 2
  Manner = "Run"
  CallKinds <- MCForever
  Usage = {}
PROPERTIES
  WokenRuns
