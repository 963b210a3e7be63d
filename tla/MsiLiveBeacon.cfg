CONSTANTS
  b = b
  x = x
  y = y
  Edges = {b, x}
  Beacon = b
  MaxVersion = 3
  Readers = {b}
  Writers = {b, x}
  MultiWorker = {}
  MayFail = FALSE
  Seqs = {0}
SPECIFICATION FairSpec
INVARIANT LocalCachedIsGlobalCached
INVARIANT TargetsServe
PROPERTY EveryRequestEnds
