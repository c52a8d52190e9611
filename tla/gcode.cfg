SPECIFICATION Spec
CONSTANTS
  Axes <- MCAxes
  Lines <- AllLines
  Systems = {"G54", "G55"}
  Stored <- MCStored
  Stops <- MCStops
  MmPerInch = 2
  MaxLines = 3
  Damaged = Damaged
  NoLine = NoLine
  NoMotion = NoMotion
INVARIANTS PositionAgrees WcsAgrees OutputsAgree
PROPERTIES WorkPositionMeansWord
