------------------------ MODULE PopularityAggregator ------------------------
(* The popularity aggregator of a beacon edge: which edges have reported an  *)
(* uncached popularity for a key, and which edges are preserved because a    *)
(* placement of the key is being deployed to them.  Every operation runs     *)
(* under rwlock_for_popularity_aggregator_ and is one action here.           *)
(* Popularities and benefits are left out: the top-k edges that a report     *)
(* displaces, and the keys that are discarded first, are any.                *)
EXTENDS BeaconEdge, FiniteSetsExt

CONSTANTS
  TopK,             \* topk_edgecnt
  CapacityBytes,    \* popularity_aggregation_capacity_bytes
  EntryBytes,       \* benefit, key, popularity and lookup entry of a key
  PairBytes,        \* one pair of the top-k list
  PreservedBytes    \* key and bitmap of a preserved edgeset

ASSUME TopKAssumption == TopK \in Nat \ {0}
ASSUME KeysAssumption == IsFiniteSet(Keys)
ASSUME BytesAssumption ==
  {CapacityBytes, EntryBytes, PairBytes, PreservedBytes} \subseteq Nat

VARIABLES
  bitmap,      \* key -> the edges with a popularity; {} if there is no entry
  topk,        \* key -> the edges of its top-k list
  preserved,   \* key -> the preserved edges; {} if there is no entry
  size_bytes

aggregator == <<bitmap, topk, preserved, size_bytes>>

AInit ==
  /\ bitmap = [k \in Keys |-> {}]
  /\ topk = [k \in Keys |-> {}]
  /\ preserved = [k \in Keys |-> {}]
  /\ size_bytes = 0

\* What an entry of a key counts for, given its edges and top-k edges.
PopularityBytes(edges, top) ==
  IF edges = {} THEN 0 ELSE EntryBytes + PairBytes * Cardinality(top)

\* What the entries of a set of keys count for.
EntriesBytes(edges, top, keys) ==
  MapThenSumSet(LAMBDA k : PopularityBytes(edges[k], top[k]), keys)

-----------------------------------------------------------------------------
\* AggregatedUncachedPopularity::update(): the edge enters a top-k list with
\* room, and may displace the least popular edge of a full one.
TopkWith(k, e) ==
  LET others == topk[k] \ {e} IN
  IF Cardinality(others) < TopK
  THEN {others \cup {e}}
  ELSE {others} \cup {(others \ {min}) \cup {e} : min \in others}

\* The keys discardGlobalLessPopularObjects_() may remove: one at a time, only
\* while the size is above the capacity, and all if that is not enough.
Discards(edges, top, size) ==
  LET entries == {k \in Keys : edges[k] # {}}
      SizeWithout(D) == size - EntriesBytes(edges, top, D)
  IN {D \in SUBSET entries :
        /\ D = entries \/ SizeWithout(D) <= CapacityBytes
        /\ D # {} => \E k \in D : SizeWithout(D \ {k}) > CapacityBytes}

\* Writes back the entry of a key; `added' are the bytes of a new preserved
\* edgeset.
WriteEntry(k, edges, top, added) ==
  /\ bitmap' = [bitmap EXCEPT ![k] = edges]
  /\ topk' = [topk EXCEPT ![k] = top]
  /\ size_bytes' = (size_bytes + added + PopularityBytes(edges, top))
                     - PopularityBytes(bitmap[k], topk[k])

WriteEntryAndDiscard(k, edges, top, added) ==
  LET newEdges == [bitmap EXCEPT ![k] = edges]
      newTop == [topk EXCEPT ![k] = top]
      size == (size_bytes + added + PopularityBytes(edges, top))
                - PopularityBytes(bitmap[k], topk[k])
  IN \E D \in Discards(newEdges, newTop, size) :
       /\ bitmap' = [i \in Keys |-> IF i \in D THEN {} ELSE newEdges[i]]
       /\ topk' = [i \in Keys |-> IF i \in D THEN {} ELSE newTop[i]]
       /\ size_bytes' = size - EntriesBytes(newEdges, newTop, D)

-----------------------------------------------------------------------------
\* Mutant: a report of a preserved edge counts.
UpdateAggregatedUncachedPopularity_All(k, e, is_tracked, is_source_cached) ==
  /\ IF is_tracked /\ ~is_source_cached
     THEN \E top \in TopkWith(k, e) :
            WriteEntryAndDiscard(k, bitmap[k] \cup {e}, top, 0)
     ELSE WriteEntry(k, bitmap[k] \ {e}, topk[k] \ {e}, 0)
  /\ UNCHANGED preserved

\* updateAggregatedUncachedPopularity(): a report counts unless its edge has
\* the key in its cache or is preserved; then an earlier report is removed.
UpdateAggregatedUncachedPopularity(k, e, is_tracked, is_source_cached) ==
  /\ IF is_tracked /\ ~is_source_cached /\ e \notin preserved[k]
     THEN \E top \in TopkWith(k, e) :
            WriteEntryAndDiscard(k, bitmap[k] \cup {e}, top, 0)
     ELSE WriteEntry(k, bitmap[k] \ {e}, topk[k] \ {e}, 0)
  /\ UNCHANGED preserved

\* Mutant: nothing is discarded for the new preserved edgeset.
UpdatePreservedEdgesetForPlacement_NoDiscard(k, placement) ==
  /\ preserved' = [preserved EXCEPT ![k] = @ \cup placement]
  /\ WriteEntry(k, bitmap[k] \ placement, topk[k] \ placement,
       IF preserved[k] = {} THEN PreservedBytes ELSE 0)

\* updatePreservedEdgesetForPlacement(): preserves the edges and removes their
\* popularities, so that they are not placed on again.
UpdatePreservedEdgesetForPlacement(k, placement) ==
  /\ preserved' = [preserved EXCEPT ![k] = @ \cup placement]
  /\ WriteEntryAndDiscard(k, bitmap[k] \ placement, topk[k] \ placement,
       IF preserved[k] = {} THEN PreservedBytes ELSE 0)

\* Mutant: only the last preserved edge is ever cleared.
ClearPreservedEdgesetAfterAdmission_OnlyLast(k, e) ==
  /\ preserved' = [preserved EXCEPT ![k] = IF @ = {e} THEN {} ELSE @]
  /\ size_bytes' = IF preserved[k] = {e} THEN size_bytes - PreservedBytes
                   ELSE size_bytes
  /\ UNCHANGED <<bitmap, topk>>

\* clearPreservedEdgesetAfterAdmission(): the directory admission of an edge
\* acknowledges its placement.
ClearPreservedEdgesetAfterAdmission(k, e) ==
  /\ preserved' = [preserved EXCEPT ![k] = @ \ {e}]
  /\ size_bytes' = IF preserved[k] # {} /\ preserved[k] \ {e} = {}
                   THEN size_bytes - PreservedBytes ELSE size_bytes
  /\ UNCHANGED <<bitmap, topk>>

-----------------------------------------------------------------------------
(* Properties *)

\* While a placement of a key is being deployed to an edge, the edge has no
\* popularity for the key, so no second placement can choose it
\* (popularity_aggregator.c:112 and :238); top-k edges have a popularity.
PreservedNotCounted ==
  \A k \in Keys : /\ preserved[k] \cap bitmap[k] = {}
                  /\ topk[k] \subseteq bitmap[k]
                  /\ Cardinality(topk[k]) <= TopK

\* The keys that have a preserved edgeset.
PreservedKeys == {k \in Keys : preserved[k] # {}}

\* size_bytes_ is the size of the entries and of the preserved edgesets.
SizeMatches ==
  size_bytes = EntriesBytes(bitmap, topk, Keys)
                 + PreservedBytes * Cardinality(PreservedKeys)

\* size_bytes_ is what it counts, and after every operation it keeps the
\* capacity: discardGlobalLessPopularObjects_() never finds the table empty
\* with the size still above it (popularity_aggregator.c:537).
WithinCapacity ==
  /\ SizeMatches
  /\ size_bytes <= CapacityBytes
=============================================================================
