SPECIFICATION Spec
CONSTANTS
  QueueDepth = 3
  BackoffBase = 1
  BackoffMax = 2
  MaxErrors = 2
  MaxBlock = 4
  MaxMissed = 4
  MaxFaults = 1
  MaxLostReplies = 1
  MaxAirLoss = 1
  MaxRepeats = 1
  Pacing <- PacedOrNot
  AirFailures <- BothFailures
INVARIANTS CreditsFitQueue DeliveredGapFree CompletionsRecognised NoCreditStarvation
PROPERTY ImplementsDelivery
