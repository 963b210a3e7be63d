CONSTANTS
  b = b
  x = x
  y = y
  Edges = {b, x, y}
  Beacon = b
  MaxVersion = 2
  Readers = {x}
  Writers = {b, x, y}
  MultiWorker = {}
  MayFail = FALSE
  Seqs = {0}
SPECIFICATION Spec
INVARIANT TypeOK
INVARIANT BeaconConsistent
INVARIANT NoAssertFails
INVARIANT FlagMeansHeld
INVARIANT NoLostWakeup
INVARIANT InvalidatedBeforeWrite
INVARIANT LocalCachedIsGlobalCached
INVARIANT TargetsServe
PROPERTY ImplementsWriteLock
PROPERTY WritesTakeEffectInTime
