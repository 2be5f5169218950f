SPECIFICATION Spec
CONSTANTS
  Pid = {1, 2, 3}
  Target = {"config"}
  WorkerNum = 1
  StopSignal = {}
  MaxLosses = 0
  SpacedReloads = FALSE
  MaxReloads = 2
  MaxForkFails = 0
  MaxCrashes = 0
CHECK_DEADLOCK FALSE
INVARIANT StatusCount
