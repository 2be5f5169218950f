SPECIFICATION NamingFairSpec
CONSTANTS
  Pid = {1, 2, 3, 4}
  Target = {}
  WorkerNum = 1
  StopSignal = {"kill"}
  MaxLosses = 1
  SpacedReloads = TRUE
  MaxReloads = 2
  MaxForkFails = 1
  MaxCrashes = 1
  MaxLeaseLosses = 1
CHECK_DEADLOCK FALSE
INVARIANT KeySettled
PROPERTY KeyGoes
