CONSTANTS
  b = b
  x = x
  y = y
  Edges = {b, x, y}
  Beacon = b
  MaxVersion = 1
  Readers = {x}
  Writers = {y}
  MultiWorker = {}
  MayFail = FALSE
  Seqs = {0}
SPECIFICATION Spec
INVARIANT NoStaleCopy
