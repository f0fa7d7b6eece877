SPECIFICATION FairSpec
CONSTANTS
  Lanes = {l1}
  Pulse = pulse
  Pills = {p1}
  States <- MCStates
  Counts = {0, 4}
  MaxDots = 3
  Gap = 1
  Flight = 2
  Leave = 1
  Fade = 1
  Flash = 1
  Trail = 1
  Glow = 1
  MaxStep = 2
  MaxGestures = 2
INVARIANTS JobsAreOwned OffTheClockAtRest DrawsWhatWasSeen
PROPERTIES LanesLive VerdictPlaysOut ClockStops
CHECK_DEADLOCK FALSE
