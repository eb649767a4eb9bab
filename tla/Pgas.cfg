SPECIFICATION Spec
CONSTANTS
  Apps = {1, 2, 3}
  Dsls = {0, 1}
  Size = 2
  Responsible <- Spread
  Builds <- MCBuilds
  Bodies <- MCBodies
  MaxTx = 1
  NoNode = NoNode
INVARIANTS TypeOK ReadsCurrent TotalRight
PROPERTIES CommitsAtOnce
