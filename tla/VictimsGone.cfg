SPECIFICATION Spec
CONSTANTS
  b = b
  x = x
  k1 = k1
  k2 = k2
  k3 = k3
  beacon_server = beacon_server
  worker = worker
  Edges = {b, x}
  Keys = {k1, k2, k3}
  Self = b
  Beacon <- MCBeacon
  Threads = {beacon_server, worker}
  Serves <- MCServes
  TopK = 1
  CapacityBytes = 5
  EntryBytes = 1
  PairBytes = 1
  PreservedBytes = 2
  MaxRequests = 3
  MaxSyncs = 2
  MaxLost = 1
SYMMETRY KeySymmetry
CHECK_DEADLOCK FALSE
INVARIANT VictimHasDirinfo
