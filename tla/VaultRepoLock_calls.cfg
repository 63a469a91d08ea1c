SPECIFICATION Spec
CONSTANTS
  Procs = {p1, p2}
  None = None
  MaxTries = 1
  MaxUpdates = 2
  MaxCrashes = 1
  MaxAges = 1
INVARIANTS TypeOK OnlyTheftBreaksExclusion OnlyTheftLosesUpdates
PROPERTY EveryCallEnds
CHECK_DEADLOCK FALSE
