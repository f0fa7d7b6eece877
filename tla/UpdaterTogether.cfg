SPECIFICATION Spec
CONSTANTS
  Installers = {dialog, cli}
  Latest = 1
  Inodes = {1, 2, 3, 4, 5}
  MaxInstalls = 3
  MaxCrashes = 0
INVARIANT NeverPartial
CHECK_DEADLOCK FALSE
