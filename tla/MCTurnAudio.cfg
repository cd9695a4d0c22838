CONSTANTS
  CHUNK_UNIT = 4
  OVERLAP_SIZE = 2
  MaxRequests = 7
  MaxLost = 1
SPECIFICATION FairSpec
CHECK_DEADLOCK FALSE
INVARIANTS
  TypeOK
  CompleteAtFinish
  ChunkerSurvives
  ExpectedByFormula
  OneFinalChunk
PROPERTIES
  GaplessDelivery
  TurnCompletes
  StreamImplemented
