CONSTANTS
  N = 4
  NumStages = 3
  MaxBatch = 2
  TextOnly = {2}
  Large = {1, 3, 4}
  Late = {2}
  MaxFaults = 2
SPECIFICATION FairSpec
CHECK_DEADLOCK FALSE
INVARIANTS
  TypeOK
  OwnOutputs
  PromptOrder
  AllReturnedOnce
  NoSegmentLeft
PROPERTY GenerateEnds
