SPECIFICATION Spec
CONSTANTS
  Starts <- Lowered
  MotionRequests = {"-10", "-1"}
  AccessoryRequests = {"-10", "flood"}
  LineKinds = {"M8", "M9", "S", "motion", "M30", "$C"}
  OvrIdle = 2
  OvrBusy = 3
  WcoIdle = 2
  WcoBusy = 3
  MaxBlocks = 1
  MaxCommands = 2
  MaxLines = 2
PROPERTIES LowerIsLower
CHECK_DEADLOCK FALSE
