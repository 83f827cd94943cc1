SPECIFICATION Spec
CONSTANTS
  CBD = 3
  MaxTry = 2
  ReqLens = {4}
  RecLength = 2
  Shapes <- MCShapes
  Kinds = {"ack", "reset"}
  MaxCalls = 1
  MaxResets = 0
INVARIANT CorrespondingAck
