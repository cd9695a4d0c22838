CONSTANTS
  Sessions = {"X"}
  Chunks = 2
  MaxTurns = 2
  MaxClock = 1
  MaxErrors = 1
  Overlap = FALSE
  Prompt = FALSE
SPECIFICATION Spec
CHECK_DEADLOCK FALSE
INVARIANTS
  TypeOK
  PendingRouted
  NoRouteLeak
PROPERTY SilentAfterBargeIn
