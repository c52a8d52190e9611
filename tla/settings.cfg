SPECIFICATION Spec
CONSTANTS
  Byte = 4
  Size = 25
  ParametersAt = 4
  StartupAt = 16
  BuildAt = 22
  CoordSize = 2
  LineSize = 2
  NSystems = 2
  NStartup = 2
  Version = 2
  Defaults <- MCDefaults
  Images <- MCImages
  Coords <- MCCoords
  Lines <- MCLines
  StartupIndexes = {0, 1}
  NoData = NoData
  MaxCommands = 3
  MaxLosses = 1
INVARIANTS TypeOK RecordsKept RamIsSaved SoftNeedsHoming
CHECK_DEADLOCK FALSE
