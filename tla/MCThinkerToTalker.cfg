CONSTANTS
  MaxGen = 7
  BURST = 3
SPECIFICATION FairSpec
CHECK_DEADLOCK FALSE
INVARIANTS
  TypeOK
  FeedInOrder
  RowAvailable
  WholeAnswerSpoken
  NoRouteAfterClose
PROPERTY SpeechEnds
