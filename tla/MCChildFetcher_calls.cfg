SPECIFICATION FairSpec
CONSTANTS
  Threads = {r1}
  Horses = {h1}
  Permits = 1
  MaxFaults = 1
  MaxLines = 1
CHECK_DEADLOCK FALSE
INVARIANTS
  PermitsKept
  EndedWithoutChild
  AnswerTold
PROPERTIES
  CallEnds
  NoOrphan
