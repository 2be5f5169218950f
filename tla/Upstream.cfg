SPECIFICATION FairSpec
CONSTANTS
  Caller = {c1, c2, c3}
  N = 2
  Modulus = 4
  Rings <- MCRings
  Breaker <- MCBreaker
  ReadTimeout = TRUE
  MaxUnbuildable = 1
  MaxCount = 3
INVARIANTS TypeOK HalfOpenWaits
PROPERTIES Recovers NoFlapping
