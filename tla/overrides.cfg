SPECIFICATION Spec
CONSTANTS
  Starts <- MCStarts
  MotionRequests = {"-1", "low"}
  AccessoryRequests = {"-10", "flood"}
  LineKinds = {"M8", "S", "motion", "M30", "$C"}
  OvrIdle = 2
  OvrBusy = 3
  WcoIdle = 2
  WcoBusy = 3
  MaxBlocks = 1
  MaxCommands = 4
  MaxLines = 2
INVARIANTS ReportedSoon PlanFollows CoolantAgrees
CHECK_DEADLOCK FALSE
