SPECIFICATION Spec
CONSTANTS
  Threads = {w1, w2}
  NoThread = NoThread
  Ids = {beacon, feed, gated, bogus}
  Triggers = {beacon, feed, gated}
  Unavailable = {gated}
  CurlTriggers = {beacon}
  FeedTriggers = {feed}
  Wire <- MCWire
  Outcomes <- MCOutcomes
  MinInterval = 2
  SleepCap = 1
  KeepLog = TRUE
  MaxCalls = 2
INVARIANT EveryOutcomeRecorded
CHECK_DEADLOCK FALSE
