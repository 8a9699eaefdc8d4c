SPECIFICATION ProgramSpec
CONSTANTS
  Grid = 6
  DayLen = 24
  DayStart = 6
  FinalDay = 2
  PoolOf <- AllPools
  Duration <- Lengths
  ShortMovie = 8
  Dsls <- Channels
  ChaptersOf <- Chapters
  NumBreaks = 3
  Spots <- SomeSpots
  Filler = "filler"
  ChannelTypes <- BothTypes
INVARIANTS DayWellFormed DaysAdvance SlotFilled OnAirAsScheduled
