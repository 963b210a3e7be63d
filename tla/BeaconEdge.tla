----------------------------- MODULE BeaconEdge -----------------------------
(* What the components of one edge's cache manager have in common: the edges, *)
(* the keys and which edge is the beacon of a key.                            *)
EXTENDS Naturals, FiniteSets

CONSTANTS
  Edges,
  Keys,
  Self,     \* the edge of this cache manager
  Beacon    \* key -> its beacon edge

ASSUME EdgesAssumption == IsFiniteSet(Edges)
ASSUME SelfAssumption == Self \in Edges
ASSUME BeaconAssumption == Beacon \in [Keys -> Edges]

LocalBeaconed == {k \in Keys : Beacon[k] = Self}

Bit(cond) == IF cond THEN 1 ELSE 0
=============================================================================
