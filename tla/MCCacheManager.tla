--------------------------- MODULE MCCacheManager ---------------------------
(* The cache manager of edge b, the beacon of k1 and k2, with one neighbor  *)
(* x, the beacon of k3; the beacon server and one cache server worker.       *)
EXTENDS CacheManager, TLC

CONSTANTS b, x, k1, k2, k3, beacon_server, worker

MCBeacon == [k \in Keys |-> IF k = k3 THEN x ELSE b]
MCServes ==
  [t \in Threads |-> IF t = beacon_server THEN {x} ELSE {b}]

KeySymmetry == Permutations({k1, k2})
=============================================================================
