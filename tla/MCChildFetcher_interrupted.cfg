SPECIFICATION Spec
CONSTANTS
  Threads = {}
  Horses = {h1}
  Permits = 1
  MaxFaults = 1
  MaxLines = 1
CHECK_DEADLOCK FALSE
INVARIANTS
  NothingOutlives
