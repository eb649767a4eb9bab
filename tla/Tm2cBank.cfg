SPECIFICATION FairSpec
CONSTANTS
  Apps = {1, 2}
  Dsls = {0, 1}
  Addrs = {1, 2}
  Responsible <- Spread
  CM = "FAIRCM"
  Bodies <- BankBodies
  Durations = {1, 2}
  MaxTx = 1
  InitVal = InitVal
  NoNode = NoNode
INVARIANTS
  Isolated IInv
PROPERTIES
  Terminates
