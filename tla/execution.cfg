SPECIFICATION FairSpec
CONSTANTS
  DayBlocks = 2
  LastBlock = 4
  MinEpgDays = 2
  MinDepth = 1
  LockedWindows <- WithAndWithout
  Watermarks <- Watermark
  MaxGeneration = 2
  MaxFailures = 4
  MaxPublishes = 1
INVARIANTS WindowKept
PROPERTIES LockedStands GenerationsAdvance DepthReturns
