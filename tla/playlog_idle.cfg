SPECIFICATION FairSpec
CONSTANTS
  r1 = r1
  Readers <- OneReader
  DayBlocks = 2
  LastDay = 4
  Lag = 0
  HorizonDays = 2
  Threshold = 3
  MinDepth = 2
  Retain = 2
  QueueDepth = 2
  MaxFaults = 0
PROPERTY HorizonRolls
