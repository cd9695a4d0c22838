CONSTANTS
  Sessions = {"X", "Y"}
  MaxTurn = 1
  MaxReq = 1
  MaxTotal = 4
  MaxOut = 1
  MaxAborts = 1
  MaxErrors = 1
  Overlap = FALSE
  WarmedUp = TRUE
SPECIFICATION Spec
CHECK_DEADLOCK FALSE
INVARIANT OnlyAbortedDiscarded
