SPECIFICATION Spec
CONSTANTS
  Nodes = {0, 1, 2}
  Addrs = {1, 2}
  Buckets = {0}
  Bucket <- OneBucket
  PerLine = 1
  NrMod = 256
  NoWriter = NoWriter
  NumUes = 3
  Restores = FALSE
  Early = {2}
  BitOpts = {TRUE, FALSE}
  MaxLog = 2
INVARIANTS
  TypeOK CountsReaders WriterAlone LogsMatch SlotsReclaimed
PROPERTIES
  ImplementsLockTable
