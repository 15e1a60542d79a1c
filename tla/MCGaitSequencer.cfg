SPECIFICATION SeqSpec
CONSTANTS
  NoPhase = NoPhase
  Offered <- AllConfigs
  CrouchTicks = 3
  SettleTicks = 2
  WalkTicks = 7
  RecoverTicks = 5
  CmdRampTicks = 2
  MaxStopWait = 4
  PhasePeriod = 6
INVARIANTS
  StopsInTime
  WalkIsBounded
  StandstillByDefault
PROPERTIES
  FirstReasonKept
  ColdStart
  HandOversAreGradual
