SPECIFICATION Spec
CONSTANTS
  N = 3
  Timeouts = FALSE
  Manner = "Run"
INVARIANT StackSafe
