\* Three steps, so that the sweep passes over one pair and reports another, and
\* a late step hides behind a short one; two devices for every zone, one for a
\* single zone and one the engine does not know; plans on both sides of every
\* limit of validation. An evaluation ends, hence no deadlock check.
CONSTANTS
  Ids <- MCIds
  DeviceCodes = {"d1", "d2", "d3", "d4"}
  Zones = {"main", "fly"}
  Interlocks <- MCInterlocks
  Capabilities <- MCCapabilities
  MaxMotionSteps = 3
  MaxDurationMS = 3
  Int64Limit = 8
  Plans <- MCPlans
  TextLess <- MCTextLess
SPECIFICATION FairSpec
INVARIANTS FindsEveryRisk UnknownIsNotSafe AnswerIsDetermined RiskIdsAreDistinct StepsEndInTime
PROPERTY EvaluationEnds
CHECK_DEADLOCK FALSE
