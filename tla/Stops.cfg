SPECIFICATION FairSpec
CONSTANTS
  Pid = {1, 2, 3}
  Target = {"config"}
  WorkerNum = 1
  StopSignal = {"quit", "term", "kill"}
  MaxLosses = 0
  SpacedReloads = FALSE
  MaxReloads = 1
  MaxForkFails = 0
  MaxCrashes = 1
CHECK_DEADLOCK FALSE
INVARIANTS TableTracksRunning AliveNotTold AliveIsWaited
PROPERTIES ImplementsPool NoOrphans DeadForgotten ReloadEnds
