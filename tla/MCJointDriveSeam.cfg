SPECIFICATION Spec
CONSTANTS
  Cpr = 13
  Sub = 2
  PolicyNames = {"hip_joint", "knee"}
  Stem <- MCStem
  Aliases <- NoAliases
  Model <- MCModel
  ActionScale = 1
  LimitMargin = 1
  NominalTolerance = 1
  SeamMargin = 1
  Files <- MCFiles
  Commands <- MCCommands
  HandRange = 5
  NoTarget = NoTarget
  ArmTolerance = 6
  RampTicks = 2
  RampStep = 2
  RunStep = 3
  FallPersist = 1
  FreefallPersist = 1
  MaxReadFailures = 1
  CommandTimeout = 1
  StallError = 4
  StallPersist = 2
PROPERTY RampPullsInward
