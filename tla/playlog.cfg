SPECIFICATION FairSpec
CONSTANTS
  r1 = r1
  Readers <- OneReader
  DayBlocks = 2
  LastDay = 2
  Lag = 1
  HorizonDays = 1
  Threshold = 3
  MinDepth = 2
  Retain = 2
  QueueDepth = 2
  MaxFaults = 1
INVARIANT DepthKept
PROPERTIES NoDaySkipped CatchesUp
