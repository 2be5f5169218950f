SPECIFICATION FairSpec
CONSTANTS
  Master = {m1, m2, m3}
  Worker = {w1, w2}
  NoMaster = NoMaster
  MaxKills = 1
INVARIANTS OneMaster CleanStop IInv
PROPERTIES NoFratricide OrphansEnd
CHECK_DEADLOCK FALSE
