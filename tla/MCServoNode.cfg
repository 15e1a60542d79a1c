SPECIFICATION Spec
CONSTANTS
  knee = knee
  NoTarget = NoTarget
  NoSample = NoSample
  Joints <- MCJoints
  Lower <- MCLower
  Upper <- MCUpper
  Poses <- MCPoses
  ImuSamples <- SamplesAndErrors
  WriteOutcomes = {"ok", "lost", "raise", "reject"}
  HealthResults = {"fine"}
  PollTicks = 1
  ShutdownOnFault = FALSE
  Rearms = TRUE
  MaxBoots = 2
  ArmTolerance = 2
  RampTicks = 2
  RampStep = 1
  RunStep = 2
  FallPersist = 1
  FreefallPersist = 1
  MaxReadFailures = 2
  CommandTimeout = 2
  StallError = 2
  StallPersist = 1
INVARIANTS
  OrderFollowsState
PROPERTIES
  DryRunWritesNothing
  GoalsAreSafe
  RunningOnFreshCommands
  ImplementsAuthority
