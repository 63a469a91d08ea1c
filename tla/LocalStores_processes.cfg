SPECIFICATION Spec
CONSTANTS
  p1 = p1  p2 = p2  x1 = x1  y1 = y1  k = k  m = m  None = None
  Procs = {p1, p2}  WalletOf <- Wallet
  Projects = {x1, y1}  Legacy = {y1}  Approvals = {k, m}
  Calls <- AllCalls  Retries = 2  MaxCalls = 3  MaxCrashes = 1
INVARIANTS OnlyImportLosesKeys ReadsOwnChoice OnlyOverlapLosesApprovals
PROPERTIES EveryCallEnds
CHECK_DEADLOCK FALSE
