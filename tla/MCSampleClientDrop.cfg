CONSTANTS
  Chunks = 2
  MaxTurns = 1
  SlowNetwork = FALSE
SPECIFICATION Spec
CHECK_DEADLOCK FALSE
INVARIANT DroppedOnlyAfterBargeIn
