SPECIFICATION Spec
CONSTANTS
  a = a  ab = ab  x = x  main = main  tag = tag  None = None
  Commits = {a, ab, x}  History <- Histories
  Refs = {main, tag}  Tags = {tag}
  Writers = {w1, w2}  Plans <- RepairPlan
  Retention = 1  Retries = 0
SYMMETRY Symmetry
CHECK_DEADLOCK FALSE
INVARIANTS DroppedTipsRetained
