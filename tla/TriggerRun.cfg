SPECIFICATION FairSpec
CONSTANTS
  Kinds <- MCKinds
  Sites <- MCSites
  FeedLengths = {0, 1, 3}
  CapTtl = 2
  FeedTtl = 2
  MaxRuns = 3
  Repeated <- MCRepeated
  MaxFlips = 2
INVARIANTS HonestVerdict CapabilityHonest
PROPERTY RunsEnd
CHECK_DEADLOCK FALSE
