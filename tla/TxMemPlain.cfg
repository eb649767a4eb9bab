SPECIFICATION Spec
CONSTANTS
  Nodes = {1, 2}
  Region = 3
  RingMod = 256
  Reserve = 2
  MaxOps = 2
  PlainMem = TRUE
INVARIANTS
  OneOwner
