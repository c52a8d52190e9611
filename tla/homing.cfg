SPECIFICATION FairSpec
CONSTANTS
  CoreXY = TRUE
  Cycles <- AsBuilt
  Travel = 3
  SearchTravel = 4
  PullOff = 2
  LocateScalar = 2
  SeekSteps = 3
  Hard = TRUE
  Soft = TRUE
  Starts <- MCStarts
  Targets <- MCTargets
  ClearFirst = TRUE
  BackToBack = FALSE
  MaxCommands = 4
INVARIANTS HomedIsTrue HomedOrLifted HandedBack
PROPERTIES HomingEnds
CHECK_DEADLOCK FALSE
