SPECIFICATION Spec
CONSTANTS
  N = 3
  Modulus = 8
  MaxPicks = 150
INVARIANTS EvenSpread
CHECK_DEADLOCK FALSE
