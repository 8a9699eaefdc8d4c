SPECIFICATION FairSpec
CONSTANTS
  SpoolCaps <- NoCapOrTwo
  Workers = 2
  BusyWorkers <- SomeBusy
  MaxSequence = 4
  MaxFaults = 1
INVARIANTS TypeOK AckedIsLogged AirBehindCore AsRunFaithful
PROPERTY EvidenceSettles
CHECK_DEADLOCK FALSE
