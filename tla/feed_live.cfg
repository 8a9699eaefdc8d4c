SPECIFICATION FairSpec
CONSTANTS
  QueueDepth = 3
  BackoffBase = 1
  BackoffMax = 2
  MaxErrors = 2
  MaxBlock = 4
  MaxMissed = 1
  MaxFaults = 1
  MaxLostReplies = 1
  MaxAirLoss = 1
  MaxRepeats = 0
  Pacing <- PacedOrNot
  AirFailures <- BothFailures
PROPERTY EveryBlockAirs
