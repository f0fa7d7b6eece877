SPECIFICATION FairSpec
CONSTANTS
  canary = canary
  article = article
  form = form
  eicar = eicar
  spring = spring
  Catalog <- MCCatalog
  Canary = canary
  Malicious = {eicar, spring}
  Marks <- MCMarks
  Policies <- MCPolicies
  Bodies <- MCBodies
  MaxFlips = 1
  MaxCuts = 1
  MaxRestarts = 1
INVARIANTS ArrivalsAreReal BlockIsProven ScoreIsEarned
PROPERTY RunEnds
CHECK_DEADLOCK FALSE
