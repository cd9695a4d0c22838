CONSTANTS
  MaxTurn = 2
  MaxSub = 3
  NumBlocks = 2
  MaxRunning = 1
  PrefillLen = 2
  Overlap = TRUE
SPECIFICATION Spec
CHECK_DEADLOCK FALSE
INVARIANTS
  ContextIntact
