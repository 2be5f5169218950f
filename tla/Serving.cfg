SPECIFICATION Spec
CONSTANTS
  Http2 = FALSE
  ChanCap = 1
  MaxConns = 2
  MaxRequests = 2
  BufSize = 3
  SockCap = 5
  StatsSize = 2
  TakeoverSize = 1
  Reason = "reload"
INVARIANTS TypeOK Drained NeverOverReported
PROPERTY ImplementsWorker
CHECK_DEADLOCK FALSE
