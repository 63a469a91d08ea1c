SPECIFICATION Spec
CONSTANTS
  a = a  ab = ab  x = x  main = main  tag = tag  None = None
  Commits = {a, ab, x}  History <- Histories
  Refs = {main, tag}  Tags = {tag}
  Writers = {w1, w2}  Plans <- AllPlans
  Retention = 1  Retries = 1
SYMMETRY Symmetry
CHECK_DEADLOCK FALSE
INVARIANTS SoleWriterKeepsTips PushedTipsRetained Restorable
PROPERTIES NoClobber
