SPECIFICATION FairSpec
CONSTANTS
  Sources = {"mix", "guitar"}
  Length = 3
  Cut <- MCCut
  None = None
  MAX_FAILURES = 3
  RECOVERED_AFTER = 2
  MaxActs = 4
  MaxBreaks = 1
CHECK_DEADLOCK FALSE
INVARIANTS
  PlayingAgrees
  ViewsShowTime
  LoopHolds
PROPERTIES
  PlaybackKept
  ReloadsEnd
