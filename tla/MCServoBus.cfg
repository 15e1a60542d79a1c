\* Cross-talk, glitches and the telemetry rotation on the servo bus.
SPECIFICATION FairSpec
CONSTANTS
  NumServos = 2
  Retries = 1
  Period = 2
  Divisor = 2
  MaxFaults = 3
  MaxHeat = 1
INVARIANTS
  AnswersAreOwn
  GlitchesAreDiscarded
PROPERTIES
  HotIsReported
