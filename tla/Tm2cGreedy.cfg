SPECIFICATION Spec
CONSTANTS
  Apps = {1, 2}
  Dsls = {0, 1}
  Addrs = {1, 2}
  Responsible <- Spread
  CM = "GREEDY"
  Bodies <- MixedBodies
  Durations = {1}
  MaxTx = 2
  InitVal = InitVal
  NoNode = NoNode
INVARIANTS
  PriorityCurrent Snapshot NoLostLock
