SPECIFICATION Spec
CONSTANTS
  Times <- SmallTimes
  Closures = {1, 2, 3, 4}
  Full = 4
  CloseThreshold = 3
  OpenThreshold = 1
  MinDuration = 2
  MaxDuration = 3
  MaxFaceGap = 1
INVARIANT NoEventAcrossGap
CHECK_DEADLOCK FALSE
