CONSTANTS
  Sessions = {"X"}
  MaxTurn = 2
  MaxReq = 3
  MaxTotal = 3
  MaxOut = 1
  MaxAborts = 1
  MaxErrors = 1
  Overlap = FALSE
  WarmedUp = TRUE
SPECIFICATION FairSpec
CHECK_DEADLOCK FALSE
INVARIANTS
  TypeOK
  OnlyAbortedDiscarded
  NewTurnNotSkipped
  StartedInOrder
PROPERTY RequestsAnswered
