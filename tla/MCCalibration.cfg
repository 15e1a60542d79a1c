SPECIFICATION Spec
CONSTANTS
  Joints = {"hip", "knee"}
  Settings = {"a", "b"}
  Configs <- ThreeConfigs
  Sessions = {t1, t2}
  t1 = t1
  t2 = t2
  MaxTakes = 2
  MaxEdits = 1
  MaxCuts = 1
SYMMETRY Terminals
INVARIANTS
  FileIsWhole
  WorkSurvives
  AcceptedIsCalibrated
  ReadyMeansReady
CHECK_DEADLOCK FALSE
