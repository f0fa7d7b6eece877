SPECIFICATION Spec
CONSTANTS
  window = window
  headless = headless
  firing = firing
  running = running
  Procs = {window, headless}
  Threads = {firing, running}
  ProcOf <- MCProcOf
  MaxLines = 2
  Limit = 2
  MaxAppends = 5
INVARIANTS RotatedWhenFull DamageContained SessionGenuine
CHECK_DEADLOCK FALSE
