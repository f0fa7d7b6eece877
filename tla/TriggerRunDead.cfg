SPECIFICATION Spec
CONSTANTS
  Kinds <- MCKinds
  Sites <- MCSites
  FeedLengths = {0, 1, 3}
  CapTtl = 2
  FeedTtl = 2
  MaxRuns = 1
  Repeated <- MCRepeated
  MaxFlips = 2
INVARIANT NoFalseBlock
CHECK_DEADLOCK FALSE
