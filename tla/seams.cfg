SPECIFICATION FairSpec
CONSTANTS
  Plan <- MCPlan
  Slow <- MCSlow
  Depth = 3
  Lead = 2
  MaxFailures = 1
INVARIANT RightSegment
PROPERTIES NoBleedOnSwap ShownIsCommitted FullDwell EveryBlockEnds
CHECK_DEADLOCK FALSE
