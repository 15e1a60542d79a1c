SPECIFICATION SupSpec
CONSTANTS
  knee = knee
  hip = hip
  NoTarget = NoTarget
  Joints <- MCJoints
  Lower <- MCLower
  Upper <- MCUpper
  Arguments <- MCArguments
  ArmTolerance = 2
  RampTicks = 3
  RampStep = 1
  RunStep = 2
  FallPersist = 2
  FreefallPersist = 2
  MaxReadFailures = 2
  CommandTimeout = 1
  StallError = 1
  StallPersist = 2
INVARIANTS
  CommandInEnvelope
  RunningIsRamped
  RampIsGradual
  MonitorsBite
PROPERTIES
  SlewBounded
