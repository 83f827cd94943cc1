SPECIFICATION FairSpec
CONSTANTS
  N = 3
  MaxCalls = 2
  Manner = "Hlt"
  CallKinds <- MCForever
  Usage = {}
PROPERTY EventSignalled
