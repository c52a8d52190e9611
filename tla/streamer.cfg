SPECIFICATION StreamFairSpec
CONSTANTS
  Drawing <- MCDrawing
  Window = 4
  Capacity = 4
  CommandLength = 2
  SprayAfter = 0
  HomeAfter = 1
  ReportFreq = 1
  Buttons = {"start", "pause", "home"}
  MaxPresses = 3
  MaxAnswers = 3
INVARIANT WindowCovers
PROPERTIES StreamFits StreamEnds
CHECK_DEADLOCK FALSE
