SPECIFICATION FairSpec
CONSTANTS
  v1 = v1
  v2 = v2
  Viewers <- TwoViewers
  RingChunks = 1
  ClientChunks = 1
  MaxRuns = 2
  MaxChunks = 2
INVARIANTS LiveEdge LiveStreamRegistered
CHECK_DEADLOCK FALSE
PROPERTIES NeverBackward StreamsEnd ThreadsEnd
