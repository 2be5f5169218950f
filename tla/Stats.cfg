SPECIFICATION Spec
CONSTANTS
  Worker = {p1, p2}
  Endpoint = {e1, e2}
  MaxQPS = 1
  NoEntry = NoEntry
INVARIANTS TypeOK PageAddsUp
PROPERTY NoEarlyPanic
SYMMETRY MCSymmetry
CHECK_DEADLOCK FALSE
