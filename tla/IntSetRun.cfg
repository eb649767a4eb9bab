SPECIFICATION Spec
CONSTANTS
  Procs = {p1, p2}
  KeyRange = 3
  NumBuckets = 2
  Spare = {s1, s2, s3}
  Nil = Nil
  Drivers = {"list", "hash", "api", "listpgas", "hashpgas"}
  EarlyBuilds = {FALSE}
  Alternate = FALSE
  OnlyUpdates = FALSE
  Initial = 1
  MaxOps = 3
SYMMETRY Symmetry
CHECK_DEADLOCK FALSE
INVARIANTS
  TypeOK ListsIntact BlocksAccounted LooksAtLinked SizeKept
PROPERTIES
  ImplementsSet
