SPECIFICATION NamingSpec
CONSTANTS
  Pid = {1, 2, 3, 4, 5, 6}
  Target = {}
  WorkerNum = 2
  StopSignal = {}
  MaxLosses = 1
  SpacedReloads = TRUE
  MaxReloads = 2
  MaxForkFails = 1
  MaxCrashes = 0
  MaxLeaseLosses = 0
CHECK_DEADLOCK FALSE
INVARIANTS Continuity StatusCount NoStaleEntry NamingTypeOK KeyKept
