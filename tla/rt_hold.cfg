SPECIFICATION FairSpec
CONSTANTS
  Commands <- HoldSignals
  Lines <- HoldLines
  MaxCommands = 3
  MaxLines = 3
  BlockSegments = 2
  BlockBuffer = 1
  SegmentBuffer = 2
  RaceWindows = TRUE
  Underrun = TRUE
INVARIANTS
  AtRest
PROPERTIES
  NoAutoResume
  ResetServed
  HoldCompletes
  QueuedMotionLeaves
