SPECIFICATION Spec
CONSTANTS
  MaxPid = 6
  WorkerNumOpt = 3
  NumCPU = 2
  Size <- MCSize
  SpacedChanges = TRUE
  MaxChanges = 2
  MaxForkFails = 1
  MaxLosses = 1
INVARIANTS ServesWhole Fresh NoStale
PROPERTY ImplementsPool
CHECK_DEADLOCK FALSE
