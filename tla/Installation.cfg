SPECIFICATION InstallationSpec
CONSTANTS
  Installers = {dialog, cli}
  Latest = 1
  Inodes = {1, 2, 3, 4, 5}
  MaxInstalls = 2
  MaxCrashes = 1
  MaxSetups = 1
  MaxRemovals = 1
  MaxTries = 2
INVARIANTS TargetWhole BackupIsPrior ListedIsThere
PROPERTY NoRollback
SYMMETRY MCSymmetry
CHECK_DEADLOCK FALSE
