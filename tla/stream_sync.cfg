SPECIFICATION Spec
CONSTANTS
  Times <- MCTimes
  FrameOf <- MCFrameOf
  NumTopics = 3
  BufferSize = 2
  Threshold = 1
  MinMessages = 2
  Period = 3
INVARIANT TypeOK
INVARIANT NextIsFront
PROPERTY OnlyUnmatchedDropped
PROPERTY MatchesFrames
PROPERTY CallbackTimesIncrease
CHECK_DEADLOCK FALSE
