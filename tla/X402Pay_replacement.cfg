SPECIFICATION Spec
CONSTANTS
  c1 = c1  c2 = c2  c3 = c3  c4 = c4  n1 = n1  n2 = n2  id = id  None = None
  Calls = {c1, c2, c3}  Workloads <- NoFaults  Instances = {n1}  InstanceOf <- OneInstance  Supplied <- Generated
  GatewayUnsure = FALSE  MaxActive = 2
CHECK_DEADLOCK FALSE
INVARIANTS NoReplacement
