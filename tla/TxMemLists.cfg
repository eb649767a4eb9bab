SPECIFICATION Spec
CONSTANTS
  Nodes = {1, 2}
  Region = 3
  RingMod = 4
  Reserve = 2
  MaxOps = 2
  PlainMem = FALSE
INVARIANTS
  TypeOK OneOwner
PROPERTIES
  LostByWrap
