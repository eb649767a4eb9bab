SPECIFICATION Spec
CONSTANTS
  Nodes = {0, 1, 2}
  Addrs = {1, 2}
  Buckets = {0}
  Bucket <- OneBucket
  PerLine = 3
  NrMod = 256
  NoWriter = NoWriter
  NumUes = 3
  Restores = TRUE
  Early = {}
  BitOpts = {FALSE}
  MaxLog = 2
INVARIANTS
  WriterAlone
