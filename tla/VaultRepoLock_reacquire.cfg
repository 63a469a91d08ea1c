SPECIFICATION Spec
CONSTANTS
  Procs = {p1, p2}
  None = None
  MaxTries = 1
  MaxUpdates = 2
  MaxCrashes = 0
  MaxAges = 0
INVARIANT MutualExclusion
CHECK_DEADLOCK FALSE
