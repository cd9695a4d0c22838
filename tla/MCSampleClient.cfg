CONSTANTS
  Chunks = 3
  MaxTurns = 3
  SlowNetwork = FALSE
SPECIFICATION FairSpec
CHECK_DEADLOCK FALSE
INVARIANTS OneSpeaker OnlyCurrentPlayed
PROPERTY FloorReturned
