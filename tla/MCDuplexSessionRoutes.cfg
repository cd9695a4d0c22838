CONSTANTS
  Sessions = {"X", "Y"}
  Chunks = 1
  MaxTurns = 1
  MaxClock = 0
  MaxErrors = 0
  Overlap = FALSE
  Prompt = FALSE
SPECIFICATION Spec
CHECK_DEADLOCK FALSE
INVARIANT PendingRouted
