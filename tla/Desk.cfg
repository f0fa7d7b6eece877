SPECIFICATION FairSpec
CONSTANTS
  beacon = beacon
  feed = feed
  eastwest = eastwest
  Threads = {t1, t2}
  NoThread = NoThread
  Catalog <- MCCatalog
  Unavailable = {eastwest}
  Gated = {}
  Profiles <- MCProfiles
  Declined = {eastwest}
  Feeds = {feed}
  Outcomes <- MCOutcomes
  MaxGestures = 3
INVARIANTS CardIsItsRecord TallyIsTrue StopHonoured ScoreboardIsTrue
PROPERTY FireComesBack
CHECK_DEADLOCK FALSE
