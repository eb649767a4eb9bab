SPECIFICATION Spec
CONSTANTS
  Procs = {p1, p2, p3}
  KeyRange = 3
  NumBuckets = 1
  Spare = {s1, s2, s3}
  Nil = Nil
  Drivers = {"list"}
  EarlyBuilds = {TRUE}
  Alternate = FALSE
  OnlyUpdates = TRUE
  Initial = 0
  MaxOps = 2
SYMMETRY Symmetry
CHECK_DEADLOCK FALSE
INVARIANTS
  SizeKept
