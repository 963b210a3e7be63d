CONSTANTS
  b = b
  x = x
  y = y
  Edges = {b, x, y}
  Beacon = b
  MaxVersion = 1
  Readers = {x}
  Writers = {x}
  MultiWorker = {x}
  MayFail = FALSE
  Seqs = {0}
SPECIFICATION Spec
INVARIANT LocalCachedIsGlobalCached
