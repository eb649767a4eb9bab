CONSTANTS
  NumNodes = 4
  DslPerNode = 2
  Builds <- MCBuilds
  Leftovers <- MCLeftovers
  MaxRequests = 2
SPECIFICATION Spec
INVARIANTS TypeOK FlagsUsable NothingAfterFree ServiceDrained StatsComplete
PROPERTIES InTurn Ends
CHECK_DEADLOCK FALSE
