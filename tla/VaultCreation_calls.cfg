SPECIFICATION Spec
CONSTANTS
  p1 = p1  p2 = p2  s1 = s1  s2 = s2  None = None
  Procs = {p1, p2}  Homes <- SharedOrApart
  Modes = {"project", "name"}  Resolutions = {"objects", "genesis"}
  MaxAttempts = 2  MaxFaults = 2  MaxReclaims = 1  MaxPolls = 1
INVARIANTS HeldKeyIsCanonical ActiveIsHeld
PROPERTIES CreationEnds PushToCreateKeepsPin
CHECK_DEADLOCK FALSE
