SPECIFICATION Spec
CONSTANTS
  v1 = v1
  v2 = v2
  Viewers <- TwoViewers
  MaxRecovery = 1
  MaxJoins = 2
  MaxEnds = 1
  MaxStartFailures = 1
SYMMETRY Swap
INVARIANTS ViewersServed NoOrphanAir IdleStopped
