CONSTANTS
  b = b
  x = x
  y = y
  Edges = {b, x, y}
  Beacon = b
  MaxVersion = 2
  Readers = {x}
  Writers = {x, y}
  MultiWorker = {}
  MayFail = TRUE
  Seqs = {0, 1}
  Lossy <- RepeatableCalls
  MaxLost = 1
  Impatient = {"put"}
  MaxEarly = 1
SPECIFICATION TSpec
INVARIANT NoAssertFails
INVARIANT FlagMeansHeld
INVARIANT NoLostWakeup
INVARIANT LocalCachedIsGlobalCached
