SPECIFICATION FairSpec
CONSTANTS
  knee = knee
  NoTarget = NoTarget
  NoSample = NoSample
  Joints <- MCJoints
  Lower <- MCLower
  Upper <- MCUpper
  Poses <- MCPoses
  ImuSamples <- SamplesAndErrors
  WriteOutcomes = {"ok", "raise"}
  HealthResults = {"fine"}
  PollTicks = 1
  ShutdownOnFault = FALSE
  Rearms = FALSE
  MaxBoots = 1
  ArmTolerance = 2
  RampTicks = 2
  RampStep = 1
  RunStep = 2
  FallPersist = 2
  FreefallPersist = 1
  MaxReadFailures = 2
  CommandTimeout = 1
  StallError = 5
  StallPersist = 1
PROPERTIES
  FallIsAnswered
  RunningPolicyLossFaults
  NoGoalJumps
