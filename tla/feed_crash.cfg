SPECIFICATION FairSpec
CONSTANTS
  QueueDepth = 3
  BackoffBase = 1
  BackoffMax = 2
  MaxErrors = 2
  MaxBlock = 4
  MaxMissed = 1
  MaxFaults = 0
  MaxLostReplies = 0
  MaxAirLoss = 0
  MaxRepeats = 0
  Pacing <- OnlyPaced
  AirFailures <- OnlyCrash
PROPERTY CrashSignalled
