SPECIFICATION Spec
CONSTANTS
  d1 = d1  d2 = d2  x1 = x1  x2 = x2  t1 = t1  t2 = t2  None = None
  Deploys = {d1, d2}  Drains = {x1, x2}  Trees = {t1, t2}
  Workloads <- AllLoads
CHECK_DEADLOCK FALSE
INVARIANTS ActivatedIsAccounted OutcomeTrue OnlyRacesEscape CompletedIsCleared
PROPERTIES DrainCompletes
