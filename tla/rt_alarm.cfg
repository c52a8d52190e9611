SPECIFICATION Spec
CONSTANTS
  Commands <- AlarmSignals
  Lines <- AlarmLines
  MaxCommands = 4
  MaxLines = 3
  BlockSegments = 1
  BlockBuffer = 2
  SegmentBuffer = 1
  RaceWindows = FALSE
  Underrun = TRUE
INVARIANTS
  TypeOK
  RetractedSpindleOff
  PositionSafe
PROPERTIES
  LocksHold
  DoorLeftWhenAsked
  JogCancelFlushes
CHECK_DEADLOCK FALSE
