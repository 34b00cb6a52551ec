\* One plan of four steps whose ids contain colons.
CONSTANTS
  Ids <- ColonIds
  DeviceCodes = {"d1", "d2", "d3", "d4"}
  Zones = {"main", "fly"}
  Interlocks <- MCInterlocks
  Capabilities <- MCCapabilities
  MaxMotionSteps = 4
  MaxDurationMS = 3
  Int64Limit = 8
  Plans <- ColonPlans
  TextLess <- MCTextLess
SPECIFICATION Spec
INVARIANT RiskIdsAreDistinct
CHECK_DEADLOCK FALSE
