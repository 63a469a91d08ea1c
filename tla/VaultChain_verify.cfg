SPECIFICATION Spec
CONSTANTS
  c = c  u = u  r = r  p1 = p1  p2 = p2  p3 = p3  None = None
  Keys = {c, u, r}  Creator = c  MaxWriters = 2
  Procs = {p1, p2, p3}  StoreOf <- OwnStores  Keyless = {}  Plans <- OnePlan
CHECK_DEADLOCK FALSE
INVARIANTS NoSilentGap
