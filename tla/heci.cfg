SPECIFICATION FairSpec
CONSTANTS
  CBD = 3
  MaxTry = 2
  ReqLens = {4, 12}
  RecLength = 2
  Shapes <- MCShapes
  Kinds = {"ackRetry", "ack", "send", "receive", "poll", "reset", "reinit"}
  MaxCalls = 2
  MaxResets = 1
INVARIANTS TypeOK NothingLeft OwnAnswer WholeRequests
PROPERTY Returns
