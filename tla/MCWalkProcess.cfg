SPECIFICATION FairSpec
CONSTANTS
  NoPhase = NoPhase
  Style <- PhasedStyle
  GraceMargin = 0
  CrouchTicks = 1
  SettleTicks = 0
  WalkTicks = 4
  RecoverTicks = 1
  CmdRampTicks = 1
  MaxStopWait = 1
  PhasePeriod = 2
CHECK_DEADLOCK FALSE
INVARIANTS
  ReportIsCurrentOrComing
  GraceCoversHandBack
PROPERTIES
  NoWalkAfterCtrlC
  CtrlCEnds
