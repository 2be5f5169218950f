SPECIFICATION FairSpec
CONSTANTS
  Http2 = TRUE
  ChanCap = 1
  MaxConns = 1
  MaxRequests = 1
  BufSize = 3
  SockCap = 5
  StatsSize = 2
  TakeoverSize = 1
  Reason = "reload"
PROPERTIES WorkerEnds ReaderInSync
CHECK_DEADLOCK FALSE
