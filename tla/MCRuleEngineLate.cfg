\* int64 is 4 bits wide and a step may start at any of its values.
CONSTANTS
  Ids <- MCIds
  DeviceCodes = {"d1", "d2", "d3", "d4"}
  Zones = {"main", "fly"}
  Interlocks <- MCInterlocks
  Capabilities <- MCCapabilities
  MaxMotionSteps = 3
  MaxDurationMS = 3
  Int64Limit = 8
  Plans <- LatePlans
  TextLess <- MCTextLess
SPECIFICATION Spec
INVARIANT StepsEndInTime
CHECK_DEADLOCK FALSE
