CONSTANTS
  Sessions = {"X"}
  Chunks = 2
  MaxTurns = 2
  MaxClock = 1
  MaxErrors = 0
  Overlap = FALSE
  Prompt = TRUE
SPECIFICATION FairSpec
CHECK_DEADLOCK FALSE
PROPERTY TurnAnswered
INVARIANT EndOfResponseOnce
