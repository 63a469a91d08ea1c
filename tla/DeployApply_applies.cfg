SPECIFICATION Spec
CONSTANTS
  p1 = p1  p2 = p2  f = f  m = m  n = n  None = None
  Calls = {p1, p2}  Files = {f}  Migrations = {m, n}  Specs <- SomeSpecs
  MaxRetries = 2  Sends = 2  MaxFaults = 2  MaxPromotes = 1
INVARIANTS AppliedOnce ReportIsTrue RehearsedOrFirst ContentBeforeCommit ConflictsAreOthers
PROPERTIES EveryApplyEnds
CHECK_DEADLOCK FALSE
