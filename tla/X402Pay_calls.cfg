SPECIFICATION Spec
CONSTANTS
  c1 = c1  c2 = c2  c3 = c3  c4 = c4  n1 = n1  n2 = n2  id = id  None = None
  Calls = {c1, c2, c3, c4}  Workloads <- Both  Instances = {n1, n2}  InstanceOf <- TwoProcesses  Supplied <- SharedId
  GatewayUnsure = FALSE  MaxActive = 2
CHECK_DEADLOCK FALSE
INVARIANTS TypeOK AttemptPaysOnce JournalHonest SafeMeansUnpaid RetriesPayOnce
PROPERTIES LedgerSpec
