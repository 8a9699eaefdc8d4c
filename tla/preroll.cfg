SPECIFICATION FairSpec
CONSTANTS
  QueueDepth = 2
  MaxBlock = 5
  PadFirst <- ThirdIsPad
  MaxFailures = 2
INVARIANTS NoSilentLoss InOrderUnlessOvertaken AirsAtMostTwice DegradedHasWork
PROPERTY FedBlocksSettle
