SPECIFICATION Spec
CONSTANTS
  Cpr = 6
  Positions <- OneTurnAndAHalf
  MaxMove = 2
  Offered <- TwoJoints
  Tolerance = 0
  DwellTicks = 3
  MissTicks = 2
  MaxLapses = 1
  Unknown = Unknown
INVARIANTS
  TrackerIsExact
  HeldIsRecorded
  SavedLimitsDecode
PROPERTIES
  ZeroIsLive
CHECK_DEADLOCK FALSE
