CONSTANTS
  MaxTurn = 2
  MaxSub = 3
  NumBlocks = 2
  MaxRunning = 1
  PrefillLen = 2
  Overlap = FALSE
SPECIFICATION FairSpec
CHECK_DEADLOCK FALSE
INVARIANTS
  TypeOK
  ContextIntact
  RelayIntact
  HistoryIntact
PROPERTIES FrozenAfterStop RequestsServed
