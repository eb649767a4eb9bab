SPECIFICATION Spec
CONSTANTS
  NUM_UES = 4
  DslPerNode = 4
  Progs <- AllProgs
  Size = 3
  REPS = 1
  NbAccounts = 2
  File <- ThreeBytes
  ChunkSize = 2
  MaxReps <- Twice
CHECK_DEADLOCK FALSE
INVARIANTS
  TypeOK SeenWhole BytesOnce BarriersMatch
