SPECIFICATION Spec
CONSTANTS
  Pid = {1, 2, 3, 4}
  Target = {"config"}
  WorkerNum = 1
  StopSignal = {}
  MaxLosses = 2
  SpacedReloads = FALSE
  MaxReloads = 2
  MaxForkFails = 1
  MaxCrashes = 1
CHECK_DEADLOCK FALSE
INVARIANTS NeverShort PoolBounded IInv
