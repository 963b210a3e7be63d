------------------------- MODULE CacheManagerProofs -------------------------
(* What a beacon edge tracks stays consistent however its threads interleave *)
(* between the locks of the directory table, the popularity aggregator and   *)
(* the victim tracker: for every number of edges, keys and threads, every    *)
(* capacity and every number of requests, syncs and lost notifications.      *)
EXTENDS CacheManager, FiniteSetTheorems, TLAPS

-----------------------------------------------------------------------------
(* The popularity aggregator *)

\* PreservedNotCounted with what its cardinalities need.
AggregatorOK ==
  /\ bitmap \in [Keys -> SUBSET Edges]
  /\ topk = [k \in Keys |-> topk[k]]
  /\ preserved = [k \in Keys |-> preserved[k]]
  /\ \A k \in Keys : IsFiniteSet(topk[k])
  /\ PreservedNotCounted

\* A top-k list of an entry that fits its other fields.
GoodEntry(edges, top) ==
  /\ edges \subseteq Edges
  /\ top \subseteq edges
  /\ IsFiniteSet(top)
  /\ Cardinality(top) <= TopK

\* A shorter top-k list still fits.
LEMMA ShorterTopk ==
  ASSUME NEW edges, NEW top, GoodEntry(edges, top), NEW gone
  PROVE  GoodEntry(edges \ gone, top \ gone)
  <1>1. /\ IsFiniteSet(top \ gone)
        /\ Cardinality(top \ gone) <= Cardinality(top)
    BY FS_Subset DEF GoodEntry
  <1>2. Cardinality(top \ gone) \in Nat /\ Cardinality(top) \in Nat
    BY <1>1, FS_CardinalityType DEF GoodEntry
  <1> QED
    BY <1>1, <1>2, TopKAssumption DEF GoodEntry

\* So does one that update() has put a reporting edge into.
LEMMA LongerTopk ==
  ASSUME NEW k \in Keys, GoodEntry(bitmap[k], topk[k]),
         NEW e \in Edges, NEW top \in TopkWith(k, e)
  PROVE  GoodEntry(bitmap[k] \cup {e}, top)
  <1> DEFINE others == topk[k] \ {e}
  <1>1. /\ IsFiniteSet(others)
        /\ Cardinality(others) \in Nat
        /\ Cardinality(others) <= TopK
        /\ others \subseteq bitmap[k]
    <2>1. GoodEntry(bitmap[k] \ {e}, others)
      BY ShorterTopk, Zenon
    <2> QED
      BY <2>1, FS_CardinalityType DEF GoodEntry
  <1>2. CASE Cardinality(others) < TopK
    <2>1. top = others \cup {e}
      BY <1>2 DEF TopkWith
    <2>2. /\ IsFiniteSet(others \cup {e})
          /\ Cardinality(others \cup {e}) = Cardinality(others) + 1
      BY <1>1, FS_AddElement
    <2> QED
      BY <1>1, <1>2, <2>1, <2>2, TopKAssumption DEF GoodEntry
  <1>3. CASE ~(Cardinality(others) < TopK)
    <2>1. \/ top = others
          \/ \E min \in others : top = (others \ {min}) \cup {e}
      BY <1>3 DEF TopkWith
    <2>2. CASE top = others
      BY <1>1, <2>2 DEF GoodEntry
    <2>3. ASSUME NEW min \in others, top = (others \ {min}) \cup {e}
          PROVE  GoodEntry(bitmap[k] \cup {e}, top)
      <3>1. /\ IsFiniteSet(others \ {min})
            /\ Cardinality(others \ {min}) = Cardinality(others) - 1
        BY <1>1, FS_RemoveElement, Zenon
      <3>2. e \notin others \ {min}
        OBVIOUS
      <3>3. /\ IsFiniteSet(top)
            /\ Cardinality(top) = (Cardinality(others) - 1) + 1
        BY <3>1, <3>2, <2>3, FS_AddElement
      <3> QED
        BY <1>1, <2>3, <3>3, TopKAssumption DEF GoodEntry
    <2> QED
      BY <2>1, <2>2, <2>3
  <1> QED
    BY <1>2, <1>3

\* Writing back a good entry keeps the aggregator consistent ...
LEMMA WriteEntryKeeps ==
  ASSUME AggregatorOK, NEW k \in Keys, NEW edges, NEW top, NEW added,
         WriteEntry(k, edges, top, added), GoodEntry(edges, top),
         preserved' = [i \in Keys |-> preserved'[i]],
         preserved'[k] \cap edges = {},
         \A i \in Keys \ {k} : preserved'[i] = preserved[i]
  PROVE  AggregatorOK'
  <1>1. /\ bitmap' \in [Keys -> SUBSET Edges]
        /\ topk' = [i \in Keys |-> topk'[i]]
        /\ bitmap'[k] = edges
        /\ topk'[k] = top
        /\ \A i \in Keys \ {k} : bitmap'[i] = bitmap[i] /\ topk'[i] = topk[i]
    BY DEF AggregatorOK, WriteEntry, GoodEntry
  <1> QED
    BY <1>1 DEF AggregatorOK, PreservedNotCounted, GoodEntry

\* ... and so does discarding entries afterwards.
LEMMA WriteEntryAndDiscardKeeps ==
  ASSUME AggregatorOK, NEW k \in Keys, NEW edges, NEW top, NEW added,
         WriteEntryAndDiscard(k, edges, top, added), GoodEntry(edges, top),
         preserved' = [i \in Keys |-> preserved'[i]],
         preserved'[k] \cap edges = {},
         \A i \in Keys \ {k} : preserved'[i] = preserved[i]
  PROVE  AggregatorOK'
  <1>1. PICK D :
          /\ bitmap' = [i \in Keys |-> IF i \in D THEN {}
                          ELSE [bitmap EXCEPT ![k] = edges][i]]
          /\ topk' = [i \in Keys |-> IF i \in D THEN {}
                        ELSE [topk EXCEPT ![k] = top][i]]
    BY DEF WriteEntryAndDiscard
  <1>2. /\ bitmap' = [i \in Keys |-> bitmap'[i]]
        /\ topk' = [i \in Keys |-> topk'[i]]
    BY <1>1
  <1>3. IsFiniteSet({}) /\ Cardinality({}) = 0
    BY FS_EmptySet
  <1>4. ASSUME NEW i \in Keys
        PROVE  /\ preserved'[i] \cap bitmap'[i] = {}
               /\ GoodEntry(bitmap'[i], topk'[i])
    <2>1. CASE i \in D
      BY <1>1, <1>3, <2>1, TopKAssumption DEF GoodEntry
    <2>2. CASE i \notin D /\ i = k
      BY <1>1, <2>2 DEF AggregatorOK
    <2>3. CASE i \notin D /\ i # k
      BY <1>1, <2>3 DEF AggregatorOK, PreservedNotCounted, GoodEntry
    <2> QED
      BY <2>1, <2>2, <2>3
  <1>5. bitmap' \in [Keys -> SUBSET Edges]
    BY <1>2, <1>4 DEF GoodEntry
  <1> QED
    BY <1>2, <1>4, <1>5 DEF AggregatorOK, PreservedNotCounted, GoodEntry

\* The three operations keep it.
LEMMA AggregatorKeeps ==
  ASSUME AggregatorOK, NEW k \in Keys
  PROVE  /\ \A e \in Edges : \A is_tracked, is_source_cached :
              UpdateAggregatedUncachedPopularity(
                k, e, is_tracked, is_source_cached) => AggregatorOK'
         /\ \A placement :
              UpdatePreservedEdgesetForPlacement(k, placement)
                => AggregatorOK'
         /\ \A e : ClearPreservedEdgesetAfterAdmission(k, e) => AggregatorOK'
  <1>1. GoodEntry(bitmap[k], topk[k]) /\ preserved[k] \cap bitmap[k] = {}
    BY DEF AggregatorOK, PreservedNotCounted, GoodEntry
  <1>2. ASSUME NEW e \in Edges, NEW is_tracked, NEW is_source_cached,
               UpdateAggregatedUncachedPopularity(
                 k, e, is_tracked, is_source_cached)
        PROVE  AggregatorOK'
    <2>1. /\ preserved' = preserved
          /\ preserved' = [i \in Keys |-> preserved'[i]]
      BY <1>2 DEF UpdateAggregatedUncachedPopularity, AggregatorOK
    <2>2. CASE is_tracked /\ ~is_source_cached /\ e \notin preserved[k]
      <3>1. PICK top \in TopkWith(k, e) :
              WriteEntryAndDiscard(k, bitmap[k] \cup {e}, top, 0)
        BY <1>2, <2>2 DEF UpdateAggregatedUncachedPopularity
      <3>2. GoodEntry(bitmap[k] \cup {e}, top)
        BY <1>1, LongerTopk
      <3>3. preserved'[k] \cap (bitmap[k] \cup {e}) = {}
        BY <1>1, <2>1, <2>2
      <3> QED
        BY <2>1, <3>1, <3>2, <3>3, WriteEntryAndDiscardKeeps
    <2>3. CASE ~(is_tracked /\ ~is_source_cached /\ e \notin preserved[k])
      <3>1. WriteEntry(k, bitmap[k] \ {e}, topk[k] \ {e}, 0)
        BY <1>2, <2>3 DEF UpdateAggregatedUncachedPopularity
      <3>2. GoodEntry(bitmap[k] \ {e}, topk[k] \ {e})
        BY <1>1, ShorterTopk, Zenon
      <3>3. preserved'[k] \cap (bitmap[k] \ {e}) = {}
        BY <1>1, <2>1
      <3> QED
        BY <2>1, <3>1, <3>2, <3>3, WriteEntryKeeps
    <2> QED
      BY <2>2, <2>3
  <1>3. ASSUME NEW placement,
               UpdatePreservedEdgesetForPlacement(k, placement)
        PROVE  AggregatorOK'
    <2>1. PICK added : WriteEntryAndDiscard(
            k, bitmap[k] \ placement, topk[k] \ placement, added)
      BY <1>3 DEF UpdatePreservedEdgesetForPlacement
    <2>2. /\ preserved' = [i \in Keys |-> preserved'[i]]
          /\ preserved'[k] = preserved[k] \cup placement
          /\ \A i \in Keys \ {k} : preserved'[i] = preserved[i]
      BY <1>3, Zenon DEF UpdatePreservedEdgesetForPlacement, AggregatorOK
    <2>3. GoodEntry(bitmap[k] \ placement, topk[k] \ placement)
      BY <1>1, ShorterTopk, Zenon
    <2>4. preserved'[k] \cap (bitmap[k] \ placement) = {}
      BY <1>1, <2>2
    <2> QED
      BY <2>1, <2>2, <2>3, <2>4, WriteEntryAndDiscardKeeps
  <1>4. ASSUME NEW e, ClearPreservedEdgesetAfterAdmission(k, e)
        PROVE  AggregatorOK'
    <2>1. /\ preserved' = [i \in Keys |-> preserved'[i]]
          /\ \A i \in Keys : preserved'[i] \subseteq preserved[i]
          /\ bitmap' = bitmap
          /\ topk' = topk
      BY <1>4 DEF ClearPreservedEdgesetAfterAdmission, AggregatorOK
    <2> QED
      BY <2>1 DEF AggregatorOK, PreservedNotCounted
  <1> QED
    BY <1>2, <1>3, <1>4

-----------------------------------------------------------------------------
(* The victim tracker: reference counts *)

\* RefcntMatches with the types it needs.
RefcntOK ==
  /\ refcnt \in [Keys -> Nat]
  /\ metadata = [e \in Edges |-> metadata[e]]
  /\ RefcntMatches

\* The number of edges with a key among their victims is a natural number.
LEMMA TrackersFinite ==
  ASSUME NEW S \in SUBSET Edges
  PROVE  IsFiniteSet(S) /\ Cardinality(S) \in Nat
  BY EdgesAssumption, FS_Subset, FS_CardinalityType

\* When the victims of one edge change, the number of edges with key k among
\* theirs changes by that edge.
LEMMA TrackersChange ==
  ASSUME NEW e \in Edges, NEW k,
         NEW victims, metadata = [i \in Edges |-> metadata[i]],
         metadata' = [metadata EXCEPT ![e] = victims]
  PROVE  Cardinality(Trackers(k)') =
           (Cardinality(Trackers(k)) + Bit(k \in victims))
             - Bit(k \in metadata[e])
  <1>1. /\ metadata'[e] = victims
        /\ \A i \in Edges \ {e} : metadata'[i] = metadata[i]
    OBVIOUS
  <1>2. /\ IsFiniteSet(Trackers(k))
        /\ Cardinality(Trackers(k)) \in Nat
    BY TrackersFinite DEF Trackers
  <1>3. CASE k \in victims /\ k \in metadata[e]
    <2>1. Trackers(k)' = Trackers(k)
      BY <1>1, <1>3 DEF Trackers
    <2> QED
      BY <1>2, <1>3, <2>1 DEF Bit
  <1>4. CASE k \in victims /\ k \notin metadata[e]
    <2>1. Trackers(k)' = Trackers(k) \cup {e} /\ e \notin Trackers(k)
      BY <1>1, <1>4 DEF Trackers
    <2>2. Cardinality(Trackers(k) \cup {e}) = Cardinality(Trackers(k)) + 1
      BY <1>2, <2>1, FS_AddElement, Zenon
    <2> QED
      BY <1>2, <1>4, <2>1, <2>2 DEF Bit
  <1>5. CASE k \notin victims /\ k \in metadata[e]
    <2>1. Trackers(k)' = Trackers(k) \ {e} /\ e \in Trackers(k)
      BY <1>1, <1>5 DEF Trackers
    <2>2. Cardinality(Trackers(k) \ {e}) = Cardinality(Trackers(k)) - 1
      BY <1>2, <2>1, FS_RemoveElement
    <2> QED
      BY <1>2, <1>5, <2>1, <2>2 DEF Bit
  <1>6. CASE k \notin victims /\ k \notin metadata[e]
    <2>1. Trackers(k)' = Trackers(k)
      BY <1>1, <1>6 DEF Trackers
    <2> QED
      BY <1>2, <1>6, <2>1 DEF Bit
  <1> QED
    BY <1>3, <1>4, <1>5, <1>6

\* An edge with key k among its victims is counted.
LEMMA TrackedIsCounted ==
  ASSUME NEW e \in Edges, NEW k, k \in metadata[e]
  PROVE  Cardinality(Trackers(k)) > 0
  <1>1. e \in Trackers(k) /\ IsFiniteSet(Trackers(k))
    BY TrackersFinite DEF Trackers
  <1>2. Cardinality(Trackers(k)) \in Nat /\ Cardinality(Trackers(k)) # 0
    BY <1>1, FS_EmptySet, FS_CardinalityType
  <1> QED
    BY <1>2

\* The same after a step.
LEMMA TrackedIsCountedNext ==
  ASSUME NEW e \in Edges, NEW k, k \in metadata'[e]
  PROVE  Cardinality(Trackers(k)') > 0
  <1>1. e \in Trackers(k)' /\ IsFiniteSet(Trackers(k)')
    BY TrackersFinite DEF Trackers
  <1>2. Cardinality(Trackers(k)') \in Nat /\ Cardinality(Trackers(k)') # 0
    BY <1>1, FS_EmptySet, FS_CardinalityType
  <1> QED
    BY <1>2

\* New victims take references, old ones give theirs back.
LEMMA ReplaceKeepsRefcnt ==
  ASSUME RefcntOK, NEW e \in Edges, NEW victims, NEW dirinfosets,
         ReplaceVictims(e, victims, dirinfosets)
  PROVE  RefcntOK'
  <1> DEFINE cnt == Replaced(e, victims)
  <1>1. /\ metadata = [i \in Edges |-> metadata[i]]
        /\ metadata' = [metadata EXCEPT ![e] = victims]
        /\ refcnt' = [k \in Keys |->
                        IF k \in victims \cap LocalBeaconed /\ cnt[k] = 0
                        THEN 1 ELSE cnt[k]]
        /\ missed' = missed
    BY DEF RefcntOK, ReplaceVictims
  <1>2. metadata' = [i \in Edges |-> metadata'[i]] /\ metadata'[e] = victims
    BY <1>1
  <1>3. ASSUME NEW k \in Keys
        PROVE  /\ refcnt'[k] \in Nat
               /\ refcnt'[k] <= Cardinality(Trackers(k)')
               /\ k \notin missed' =>
                    refcnt'[k] = Cardinality(Trackers(k)')
    <2>1. /\ refcnt[k] \in Nat
          /\ refcnt[k] <= Cardinality(Trackers(k))
          /\ k \notin missed => refcnt[k] = Cardinality(Trackers(k))
      BY DEF RefcntOK, RefcntMatches
    <2>2. Cardinality(Trackers(k)') =
            (Cardinality(Trackers(k)) + Bit(k \in victims))
              - Bit(k \in metadata[e])
      BY <1>1, TrackersChange
    <2>3. /\ Cardinality(Trackers(k)) \in Nat
          /\ Cardinality(Trackers(k)') \in Nat
          /\ k \in metadata[e] => Cardinality(Trackers(k)) > 0
          /\ k \in victims => Cardinality(Trackers(k)') > 0
      <3>1. Trackers(k) \in SUBSET Edges /\ Trackers(k)' \in SUBSET Edges
        BY DEF Trackers
      <3> QED
        BY <1>2, <3>1, TrackersFinite, TrackedIsCounted, TrackedIsCountedNext
    <2>4. cnt[k] = IF refcnt[k] + Bit(k \in victims) > 0
                   THEN (refcnt[k] + Bit(k \in victims))
                          - Bit(k \in metadata[e])
                   ELSE 0
      BY DEF Replaced, Released
    <2>5. refcnt'[k] = IF k \in victims \cap LocalBeaconed /\ cnt[k] = 0
                       THEN 1 ELSE cnt[k]
      BY <1>1
    <2> HIDE DEF cnt
    <2> QED
      BY <1>1, <2>1, <2>2, <2>3, <2>4, <2>5 DEF Bit
  <1>4. refcnt' \in [Keys -> Nat]
    BY <1>1, <1>3
  <1> QED
    BY <1>2, <1>3, <1>4 DEF RefcntOK, RefcntMatches

\* A placement gives back the references of the victims it removes; one that
\* is no victim any more is `missed' from then on.
LEMMA RemoveKeepsRefcnt ==
  ASSUME RefcntOK, NEW e \in Edges, NEW victims,
         RemoveVictimsForGivenEdge(e, victims)
  PROVE  RefcntOK'
  <1>1. /\ metadata = [i \in Edges |-> metadata[i]]
        /\ metadata' = [metadata EXCEPT ![e] = metadata[e] \ victims]
        /\ refcnt' = Released(refcnt, victims)
        /\ missed' = missed \cup (victims \ metadata[e])
    BY DEF RefcntOK, RemoveVictimsForGivenEdge
  <1>2. metadata' = [i \in Edges |-> metadata'[i]]
    BY <1>1
  <1>3. ASSUME NEW k \in Keys
        PROVE  /\ refcnt'[k] \in Nat
               /\ refcnt'[k] <= Cardinality(Trackers(k)')
               /\ k \notin missed' =>
                    refcnt'[k] = Cardinality(Trackers(k)')
    <2>1. /\ refcnt[k] \in Nat
          /\ refcnt[k] <= Cardinality(Trackers(k))
          /\ k \notin missed => refcnt[k] = Cardinality(Trackers(k))
      BY DEF RefcntOK, RefcntMatches
    <2>2. Cardinality(Trackers(k)') =
            (Cardinality(Trackers(k)) + Bit(k \in metadata[e] \ victims))
              - Bit(k \in metadata[e])
      BY <1>1, TrackersChange
    <2>3. /\ Cardinality(Trackers(k)) \in Nat
          /\ Cardinality(Trackers(k)') \in Nat
          /\ k \in metadata[e] => Cardinality(Trackers(k)) > 0
      <3>1. Trackers(k) \in SUBSET Edges /\ Trackers(k)' \in SUBSET Edges
        BY DEF Trackers
      <3> QED
        BY <3>1, TrackersFinite, TrackedIsCounted
    <2>4. refcnt'[k] = IF refcnt[k] > 0 THEN refcnt[k] - Bit(k \in victims)
                       ELSE 0
      BY <1>1 DEF Released
    <2> QED
      BY <1>1, <2>1, <2>2, <2>3, <2>4 DEF Bit
  <1>4. refcnt' \in [Keys -> Nat]
    BY <1>1, <1>3 DEF Released
  <1> QED
    BY <1>2, <1>3, <1>4 DEF RefcntOK, RefcntMatches

-----------------------------------------------------------------------------
(* The threads *)

Kinds == {"lookup", "acquire_writelock", "release_writelock", "evict",
          "evict_background"}

VictimSets == UNION {[placement -> SUBSET Keys] : placement \in SUBSET Edges}

\* The local variables of a thread in each of its steps.
ThreadTypes ==
  {Idle}
  \cup [pc : {"aggregate"}, key : LocalBeaconed, edge : Edges, kind : Kinds,
        is_source_cached : BOOLEAN]
  \cup [pc : {"calculate"}, key : LocalBeaconed]
  \cup [pc : {"find"}, key : LocalBeaconed, topk : SUBSET Edges]
  \cup [pc : {"preserve", "remove"}, key : LocalBeaconed,
        placement : SUBSET Edges, victims : VictimSets]
  \cup [pc : {"admit", "clear"}, key : LocalBeaconed, edge : Edges]
  \cup [pc : {"evict"}, key : LocalBeaconed, edge : Edges, kind : Kinds]

\* The keys beaconed here are keys.
LEMMA LocalBeaconedKeys == LocalBeaconed \subseteq Keys
  BY DEF LocalBeaconed

\* The step a thread is in says which local variables it has.
LEMMA ThreadShapes ==
  ASSUME NEW l \in ThreadTypes
  PROVE  /\ l.pc = "idle" => l = Idle
         /\ l.pc = "aggregate" =>
              l \in [pc : {"aggregate"}, key : LocalBeaconed, edge : Edges,
                     kind : Kinds, is_source_cached : BOOLEAN]
         /\ l.pc = "calculate" =>
              l \in [pc : {"calculate"}, key : LocalBeaconed]
         /\ l.pc = "find" =>
              l \in [pc : {"find"}, key : LocalBeaconed, topk : SUBSET Edges]
         /\ l.pc \in {"preserve", "remove"} =>
              l \in [pc : {"preserve", "remove"}, key : LocalBeaconed,
                     placement : SUBSET Edges, victims : VictimSets]
         /\ l.pc \in {"admit", "clear"} =>
              l \in [pc : {"admit", "clear"}, key : LocalBeaconed,
                     edge : Edges]
         /\ l.pc = "evict" =>
              l \in [pc : {"evict"}, key : LocalBeaconed, edge : Edges,
                     kind : Kinds]
  BY DEF ThreadTypes, Idle

-----------------------------------------------------------------------------
(* The victim tracker's copies of the directory table *)

\* A thread has changed the entry of edge e and not yet told the tracker.
InFlight(t, k, e) ==
  /\ thread[t].pc \in {"admit", "evict"}
  /\ thread[t].key = k
  /\ thread[t].edge = e

\* DirinfoIsCurrent, and why: between the directory table and the tracker
\* nobody else changes the entry of the edge.
DirinfoOK ==
  /\ directory \in [LocalBeaconed -> SUBSET Edges]
  /\ dirs = [k \in Keys |-> dirs[k]]
  /\ \A t \in Threads, k \in LocalBeaconed, e \in Edges \ {Self} :
       InFlight(t, k, e) =>
         /\ e \in Serves[t]
         /\ e \in directory[k] <=> thread[t].pc = "admit"
  /\ DirinfoIsCurrent

\* The property of one edge, from the invariant.
LEMMA CurrentOrInFlight ==
  ASSUME DirinfoOK, NEW k \in LocalBeaconed, NEW e \in Edges \ {Self}
  PROVE  \/ refcnt[k] = 0
         \/ e \in dirs[k] <=> e \in directory[k]
         \/ \E t \in Threads : InFlight(t, k, e)
  BY DEF DirinfoOK, DirinfoIsCurrent, InFlight

\* A step of the tracker that takes the directory table's set for a key, or
\* leaves the one it has, keeps it.
LEMMA TrackerStepKeepsDirinfo ==
  ASSUME DirinfoOK, UNCHANGED directory,
         dirs' = [k \in Keys |-> dirs'[k]],
         \A t \in Threads, k \in LocalBeaconed, e \in Edges :
           /\ InFlight(t, k, e)' <=> InFlight(t, k, e)
           /\ InFlight(t, k, e) => thread'[t].pc = thread[t].pc,
         \A k \in LocalBeaconed :
           \/ refcnt'[k] = 0
           \/ dirs'[k] = directory[k]
           \/ refcnt[k] # 0 /\ dirs'[k] = dirs[k]
  PROVE  DirinfoOK'
  <1>1. DirinfoIsCurrent'
    <2> SUFFICES ASSUME NEW k \in LocalBeaconed, NEW e \in Edges \ {Self}
                 PROVE  \/ refcnt'[k] = 0
                        \/ e \in dirs'[k] <=> e \in directory'[k]
                        \/ \E t \in Threads : InFlight(t, k, e)'
      BY DEF DirinfoIsCurrent, InFlight
    <2>1. \/ refcnt[k] = 0
          \/ e \in dirs[k] <=> e \in directory[k]
          \/ \E t \in Threads : InFlight(t, k, e)
      BY CurrentOrInFlight
    <2> QED
      BY <2>1
  <1> QED
    BY <1>1 DEF DirinfoOK

\* A thread that was and is elsewhere is in flight neither before nor after.
LEMMA QuietThread ==
  ASSUME thread \in [Threads -> ThreadTypes], NEW t \in Threads, NEW l,
         Goto(t, l), thread[t].pc \notin {"admit", "evict"},
         l.pc \notin {"admit", "evict"}
  PROVE  \A u \in Threads, k \in LocalBeaconed, e \in Edges :
           /\ InFlight(u, k, e)' <=> InFlight(u, k, e)
           /\ InFlight(u, k, e) => thread'[u].pc = thread[u].pc
  <1>1. thread'[t] = l /\ \A u \in Threads \ {t} : thread'[u] = thread[u]
    BY DEF Goto
  <1> QED
    BY <1>1 DEF InFlight

\* The directory table changes the entry of edge e for key k; the thread that
\* did it is in flight, and no other thread is for the same entry.
LEMMA DirectoryStepKeepsDirinfo ==
  ASSUME thread \in [Threads -> ThreadTypes], DirinfoOK,
         NEW t \in Threads, NEW k \in LocalBeaconed, NEW e \in Edges, NEW l,
         thread[t].pc = "idle", Goto(t, l), UNCHANGED <<dirs, refcnt>>,
         l.key = k, l.edge = e, e = Self \/ e \in Serves[t],
         \/ l.pc = "admit" /\ directory' = [directory EXCEPT ![k] = @ \cup {e}]
         \/ l.pc = "evict" /\ directory' = [directory EXCEPT ![k] = @ \ {e}]
  PROVE  DirinfoOK'
  <1>1. thread'[t] = l /\ \A u \in Threads \ {t} : thread'[u] = thread[u]
    BY DEF Goto
  <1>2. /\ directory' \in [LocalBeaconed -> SUBSET Edges]
        /\ e \in directory'[k] <=> l.pc = "admit"
        /\ \A i \in LocalBeaconed, n \in Edges :
             i # k \/ n # e => (n \in directory'[i] <=> n \in directory[i])
    BY DEF DirinfoOK
  <1>4. ASSUME NEW u \in Threads, NEW i \in LocalBeaconed,
               NEW n \in Edges \ {Self}, InFlight(u, i, n)'
        PROVE  /\ n \in Serves[u]
               /\ n \in directory'[i] <=> thread'[u].pc = "admit"
    <2>1. CASE u = t
      BY <1>1, <1>2, <1>4, <2>1 DEF InFlight
    <2>2. CASE u # t
      <3>1. InFlight(u, i, n) /\ thread'[u] = thread[u]
        BY <1>1, <1>4, <2>2 DEF InFlight
      <3>2. n \in Serves[u] /\ (n \in directory[i] <=> thread[u].pc = "admit")
        BY <3>1 DEF DirinfoOK
      <3>3. i # k \/ n # e
        BY <2>2, <3>2, ServesAssumption
      <3> QED
        BY <1>2, <3>1, <3>2, <3>3
    <2> QED
      BY <2>1, <2>2
  <1>5. DirinfoIsCurrent'
    <2> SUFFICES ASSUME NEW i \in LocalBeaconed, NEW n \in Edges \ {Self}
                 PROVE  \/ refcnt'[i] = 0
                        \/ n \in dirs'[i] <=> n \in directory'[i]
                        \/ \E u \in Threads : InFlight(u, i, n)'
      BY DEF DirinfoIsCurrent, InFlight
    <2>1. CASE i = k /\ n = e
      BY <1>1, <2>1 DEF InFlight
    <2>2. CASE i # k \/ n # e
      <3>1. \/ refcnt[i] = 0
            \/ n \in dirs[i] <=> n \in directory[i]
            \/ \E u \in Threads : InFlight(u, i, n)
        BY CurrentOrInFlight
      <3>2. ASSUME NEW u \in Threads, InFlight(u, i, n)
            PROVE  InFlight(u, i, n)'
        BY <1>1, <3>2 DEF InFlight
      <3> QED
        BY <1>2, <2>2, <3>1, <3>2
    <2> QED
      BY <2>1, <2>2
  <1> QED
    BY <1>2, <1>4, <1>5 DEF DirinfoOK

\* The tracker learns of the change.
LEMMA ForwardKeepsDirinfo ==
  ASSUME thread \in [Threads -> ThreadTypes], DirinfoOK,
         NEW t \in Threads, NEW k \in LocalBeaconed, NEW e \in Edges, NEW l,
         InFlight(t, k, e), Goto(t, l), l.pc \notin {"admit", "evict"},
         UNCHANGED directory,
         NEW is_admit \in BOOLEAN, is_admit <=> thread[t].pc = "admit",
         UpdateLocalBeaconedVictimDirinfo(k, is_admit, e)
  PROVE  DirinfoOK'
  <1>1. thread'[t] = l /\ \A u \in Threads \ {t} : thread'[u] = thread[u]
    BY DEF Goto
  <1>2. k \in Keys
    BY LocalBeaconedKeys
  <1>3. /\ dirs' = [i \in Keys |-> dirs'[i]]
        /\ refcnt' = refcnt
        /\ refcnt[k] # 0 => (e \in dirs'[k] <=> is_admit)
        /\ \A i \in Keys, n \in Edges :
             i # k \/ n # e => (n \in dirs'[i] <=> n \in dirs[i])
    BY <1>2, Zenon DEF UpdateLocalBeaconedVictimDirinfo, DirinfoOK
  <1>4. ASSUME NEW u \in Threads, NEW i \in LocalBeaconed,
               NEW n \in Edges \ {Self}, InFlight(u, i, n)'
        PROVE  u # t /\ InFlight(u, i, n) /\ thread'[u] = thread[u]
    BY <1>1, <1>4 DEF InFlight
  <1>5. DirinfoIsCurrent'
    <2> SUFFICES ASSUME NEW i \in LocalBeaconed, NEW n \in Edges \ {Self}
                 PROVE  \/ refcnt'[i] = 0
                        \/ n \in dirs'[i] <=> n \in directory'[i]
                        \/ \E u \in Threads : InFlight(u, i, n)'
      BY DEF DirinfoIsCurrent, InFlight
    <2>1. CASE i = k /\ n = e
      BY <1>3, <2>1 DEF DirinfoOK
    <2>2. CASE i # k \/ n # e
      <3>1. \/ refcnt[i] = 0
            \/ n \in dirs[i] <=> n \in directory[i]
            \/ \E u \in Threads : InFlight(u, i, n)
        BY CurrentOrInFlight
      <3>2. ASSUME NEW u \in Threads, InFlight(u, i, n)
            PROVE  InFlight(u, i, n)'
        <4>1. u # t
          BY <2>2, <3>2 DEF InFlight
        <4> QED
          BY <1>1, <3>2, <4>1 DEF InFlight
      <3> QED
        BY <1>3, <2>2, <3>1, <3>2, LocalBeaconedKeys
    <2> QED
      BY <2>1, <2>2
  <1> QED
    BY <1>3, <1>4, <1>5 DEF DirinfoOK

\* Replacing the victims of an edge takes the directory table's sets for the
\* keys beaconed here.
LEMMA ReplaceDirs ==
  ASSUME refcnt \in [Keys -> Nat], NEW e \in Edges, NEW victims,
         NEW dirinfosets, DOMAIN dirinfosets \cap LocalBeaconed = {},
         ReplaceVictims(e, victims, dirinfosets)
  PROVE  /\ dirs' = [k \in Keys |-> dirs'[k]]
         /\ \A k \in LocalBeaconed :
              \/ refcnt'[k] = 0
              \/ dirs'[k] = directory[k]
              \/ refcnt[k] # 0 /\ dirs'[k] = dirs[k]
  <1> DEFINE cnt == Replaced(e, victims)
  <1>1. /\ refcnt' = [k \in Keys |->
                        IF k \in victims \cap LocalBeaconed /\ cnt[k] = 0
                        THEN 1 ELSE cnt[k]]
        /\ dirs' = [k \in Keys |->
                      IF k \in victims \cap LocalBeaconed THEN directory[k]
                      ELSE IF cnt[k] = 0 THEN {}
                      ELSE IF k \in DOMAIN dirinfosets THEN dirinfosets[k]
                      ELSE dirs[k]]
    BY DEF ReplaceVictims
  <1>2. ASSUME NEW k \in LocalBeaconed, k \notin victims, cnt[k] # 0
        PROVE  refcnt[k] # 0
    <2>1. k \in Keys /\ refcnt[k] \in Nat
      BY LocalBeaconedKeys
    <2>2. cnt[k] = IF refcnt[k] + Bit(k \in victims) > 0
                   THEN (refcnt[k] + Bit(k \in victims))
                          - Bit(k \in metadata[e])
                   ELSE 0
      BY <2>1 DEF Replaced, Released
    <2> HIDE DEF cnt
    <2> QED
      BY <1>2, <2>1, <2>2 DEF Bit
  <1> HIDE DEF cnt
  <1>3. ASSUME NEW k \in LocalBeaconed
        PROVE  \/ refcnt'[k] = 0
               \/ dirs'[k] = directory[k]
               \/ refcnt[k] # 0 /\ dirs'[k] = dirs[k]
    <2>1. k \in Keys /\ k \notin DOMAIN dirinfosets
      BY LocalBeaconedKeys
    <2> QED
      BY <1>1, <1>2, <2>1
  <1> QED
    BY <1>1, <1>3

\* A placement that removes victims changes no set that stays.
LEMMA RemoveDirs ==
  ASSUME refcnt \in [Keys -> Nat], NEW e \in Edges, NEW victims,
         RemoveVictimsForGivenEdge(e, victims)
  PROVE  /\ dirs' = [k \in Keys |-> dirs'[k]]
         /\ \A k \in LocalBeaconed :
              refcnt'[k] = 0 \/ (refcnt[k] # 0 /\ dirs'[k] = dirs[k])
  <1>1. \A k \in Keys :
          /\ refcnt'[k] = IF refcnt[k] > 0 THEN refcnt[k] - Bit(k \in victims)
                          ELSE 0
          /\ dirs'[k] = IF refcnt'[k] = 0 THEN {} ELSE dirs[k]
    BY DEF RemoveVictimsForGivenEdge, Released
  <1>2. dirs' = [k \in Keys |-> dirs'[k]]
    BY DEF RemoveVictimsForGivenEdge
  <1> QED
    BY <1>1, <1>2, LocalBeaconedKeys

-----------------------------------------------------------------------------
(* The cache manager *)

Inv ==
  /\ AggregatorOK
  /\ RefcntOK
  /\ thread \in [Threads -> ThreadTypes]
  /\ DirinfoOK

\* A step that leaves the aggregator alone keeps its part of the invariant.
LEMMA AggregatorAlone == AggregatorOK /\ UNCHANGED aggregator => AggregatorOK'
  BY DEF AggregatorOK, aggregator, PreservedNotCounted

\* A step that leaves the tracker alone keeps the reference counts right.
LEMMA RefcntAlone ==
  RefcntOK /\ UNCHANGED <<metadata, refcnt, missed>> => RefcntOK'
  BY DEF RefcntOK, RefcntMatches, Trackers

\* A thread's next step.
LEMMA GotoTyped ==
  ASSUME thread \in [Threads -> ThreadTypes], NEW t \in Threads,
         NEW l \in ThreadTypes, Goto(t, l)
  PROVE  thread' \in [Threads -> ThreadTypes]
  BY DEF Goto

\* A step that leaves the tracker and the directory table alone.
LEMMA TrackerAlone ==
  ASSUME Inv, NEW t \in Threads, NEW l \in ThreadTypes, Goto(t, l),
         thread[t].pc \notin {"admit", "evict"}, l.pc \notin {"admit", "evict"},
         UNCHANGED <<tracker, directory>>
  PROVE  RefcntOK' /\ thread' \in [Threads -> ThreadTypes] /\ DirinfoOK'
  <1>1. RefcntOK'
    BY RefcntAlone DEF Inv, tracker
  <1>2. thread' \in [Threads -> ThreadTypes]
    BY GotoTyped DEF Inv
  <1>3. \A u \in Threads, k \in LocalBeaconed, e \in Edges :
          /\ InFlight(u, k, e)' <=> InFlight(u, k, e)
          /\ InFlight(u, k, e) => thread'[u].pc = thread[u].pc
    BY QuietThread DEF Inv
  <1>4. /\ directory' = directory
        /\ dirs' = dirs
        /\ refcnt' = refcnt
        /\ dirs' = [k \in Keys |-> dirs'[k]]
    BY DEF tracker, Inv, DirinfoOK
  <1>5. DirinfoOK
    BY DEF Inv
  <1>6. DirinfoOK'
    BY <1>3, <1>4, <1>5, TrackerStepKeepsDirinfo
  <1> QED
    BY <1>1, <1>2, <1>6

\* The steps of a request that reports a popularity, up to its placement.
LEMMA ReportKeeps ==
  ASSUME Inv, NEW t \in Threads
  PROVE  /\ \A k \in LocalBeaconed, e \in Edges :
              LookupDirectory(t, k, e) => Inv'
         /\ Aggregate(t) => Inv'
         /\ GetPopularity(t) => Inv'
         /\ FindVictims(t) => Inv'
         /\ Preserve(t) => Inv'
  <1> DEFINE l == thread[t]
  <1> l \in ThreadTypes
    BY Zenon DEF Inv
  <1>1. ASSUME NEW k \in LocalBeaconed, NEW e \in Edges,
               LookupDirectory(t, k, e)
        PROVE  Inv'
    <2>1. PICK kind \in {"lookup", "acquire_writelock", "release_writelock"} :
            Goto(t, [pc |-> "aggregate", key |-> k, edge |-> e,
                     kind |-> kind, is_source_cached |-> e \in directory[k]])
      BY <1>1, Zenon DEF LookupDirectory
    <2>2. [pc |-> "aggregate", key |-> k, edge |-> e, kind |-> kind,
           is_source_cached |-> e \in directory[k]] \in ThreadTypes
      BY DEF ThreadTypes, Kinds
    <2>3. RefcntOK' /\ thread' \in [Threads -> ThreadTypes] /\ DirinfoOK'
      BY <1>1, <2>1, <2>2, TrackerAlone, Zenon DEF LookupDirectory
    <2> QED
      BY <1>1, <2>3, AggregatorAlone, Zenon DEF Inv, LookupDirectory
  <1>2. CASE Aggregate(t)
    <2>1. l.key \in LocalBeaconed /\ l.edge \in Edges /\ l.key \in Keys
      BY <1>2, ThreadShapes, LocalBeaconedKeys DEF Aggregate
    <2>2. PICK is_tracked \in BOOLEAN :
            /\ UpdateAggregatedUncachedPopularity(
                 l.key, l.edge, is_tracked, l.is_source_cached)
            /\ Goto(t, IF /\ NeedPlacementCalculation(l.kind)
                          /\ is_tracked
                          /\ ~l.is_source_cached
                       THEN [pc |-> "calculate", key |-> l.key]
                       ELSE Idle)
      BY <1>2 DEF Aggregate
    <2>3. AggregatorOK'
      BY <2>1, <2>2, AggregatorKeeps DEF Inv
    <2>4. PICK new \in {[pc |-> "calculate", key |-> l.key], Idle} :
            Goto(t, new)
      BY <2>2
    <2>5. new \in ThreadTypes /\ new.pc \notin {"admit", "evict"}
      BY <2>1 DEF ThreadTypes, Idle
    <2>6. RefcntOK' /\ thread' \in [Threads -> ThreadTypes] /\ DirinfoOK'
      BY <1>2, <2>4, <2>5, TrackerAlone, Zenon DEF Aggregate
    <2> QED
      BY <2>3, <2>6 DEF Inv
  <1>3. CASE GetPopularity(t)
    <2>1. l.key \in LocalBeaconed /\ l.key \in Keys
      BY <1>3, ThreadShapes, LocalBeaconedKeys DEF GetPopularity
    <2>2. PICK new \in {[pc |-> "find", key |-> l.key, topk |-> topk[l.key]],
                        Idle} : Goto(t, new)
      BY <1>3 DEF GetPopularity
    <2>3. topk[l.key] \in SUBSET Edges
      BY <2>1 DEF Inv, AggregatorOK, PreservedNotCounted
    <2>4. new \in ThreadTypes /\ new.pc \notin {"admit", "evict"}
      BY <2>1, <2>3, SMTT(30) DEF ThreadTypes, Idle
    <2>5. RefcntOK' /\ thread' \in [Threads -> ThreadTypes] /\ DirinfoOK'
      BY <1>3, <2>2, <2>4, TrackerAlone, ZenonT(30) DEF GetPopularity
    <2> QED
      BY <1>3, <2>5, AggregatorAlone DEF Inv, GetPopularity
  <1>4. CASE FindVictims(t)
    <2>1. l.key \in LocalBeaconed /\ l.topk \in SUBSET Edges
      BY <1>4, ThreadShapes, Zenon DEF FindVictims
    <2>2. \/ Goto(t, Idle)
          \/ \E placement \in SUBSET l.topk :
               \E victims \in [placement -> SUBSET Keys] :
                 Goto(t, [pc |-> "preserve", key |-> l.key,
                          placement |-> placement, victims |-> victims])
      BY <1>4, Zenon DEF FindVictims
    <2>3. ASSUME NEW placement \in SUBSET l.topk,
                 NEW victims \in [placement -> SUBSET Keys]
          PROVE  [pc |-> "preserve", key |-> l.key, placement |-> placement,
                  victims |-> victims] \in ThreadTypes
      <3>1. placement \in SUBSET Edges /\ victims \in VictimSets
        BY <2>1 DEF VictimSets
      <3> QED
        BY <2>1, <3>1, Zenon DEF ThreadTypes
    <2>4. Idle \in ThreadTypes /\ Idle.pc \notin {"admit", "evict"}
      BY DEF ThreadTypes, Idle
    <2>5. \E new \in ThreadTypes :
            Goto(t, new) /\ new.pc \notin {"admit", "evict"}
      BY <2>2, <2>3, <2>4, Zenon
    <2>6. RefcntOK' /\ thread' \in [Threads -> ThreadTypes] /\ DirinfoOK'
      BY <1>4, <2>5, TrackerAlone DEF FindVictims
    <2> QED
      BY <1>4, <2>6, AggregatorAlone, Zenon DEF Inv, FindVictims
  <1>5. CASE Preserve(t)
    <2>1. /\ l \in [pc : {"preserve", "remove"}, key : LocalBeaconed,
                    placement : SUBSET Edges, victims : VictimSets]
          /\ l.key \in Keys
      BY <1>5, ThreadShapes, LocalBeaconedKeys DEF Preserve
    <2>2. AggregatorOK'
      BY <1>5, <2>1, AggregatorKeeps DEF Inv, Preserve
    <2>3. /\ [l EXCEPT !.pc = "remove"] \in ThreadTypes
          /\ [l EXCEPT !.pc = "remove"].pc \notin {"admit", "evict"}
      BY <2>1 DEF ThreadTypes
    <2>4. Goto(t, [l EXCEPT !.pc = "remove"])
      BY <1>5 DEF Preserve
    <2>5. RefcntOK' /\ thread' \in [Threads -> ThreadTypes] /\ DirinfoOK'
      BY <1>5, <2>3, <2>4, TrackerAlone, Zenon DEF Preserve
    <2> QED
      BY <2>2, <2>5 DEF Inv
  <1> QED
    BY <1>1, <1>2, <1>3, <1>4, <1>5

\* The steps that deploy a placement.
LEMMA DeployKeeps ==
  ASSUME Inv, NEW t \in Threads, RemoveVictims(t) \/ Deploy(t)
  PROVE  Inv'
  <1> DEFINE l == thread[t]
  <1>1. l \in ThreadTypes
    BY DEF Inv
  <1>2. l \in [pc : {"preserve", "remove"}, key : LocalBeaconed,
               placement : SUBSET Edges, victims : VictimSets]
    BY <1>1, ThreadShapes DEF RemoveVictims, Deploy
  <1>3. CASE RemoveVictims(t)
    <2>1. PICK e \in l.placement :
            /\ RemoveVictimsForGivenEdge(e, l.victims[e])
            /\ Goto(t, [l EXCEPT !.victims[e] = {}])
      BY <1>3, Zenon DEF RemoveVictims
    <2>2. e \in Edges
      BY <1>2
    <2>3. [l.victims EXCEPT ![e] = {}] \in VictimSets
      <3>1. PICK placement \in SUBSET Edges :
              l.victims \in [placement -> SUBSET Keys]
        BY <1>2 DEF VictimSets
      <3>2. [l.victims EXCEPT ![e] = {}] \in [placement -> SUBSET Keys]
        BY <3>1, Zenon
      <3> QED
        BY <3>2 DEF VictimSets
    <2>4. /\ [l EXCEPT !.victims[e] = {}] \in ThreadTypes
          /\ [l EXCEPT !.victims[e] = {}].pc = l.pc
      BY <1>2, <2>3 DEF ThreadTypes
    <2>5. RefcntOK'
      BY <2>1, <2>2, RemoveKeepsRefcnt DEF Inv
    <2>6. thread' \in [Threads -> ThreadTypes]
      BY <2>1, <2>4, GotoTyped DEF Inv
    <2>7. \A u \in Threads, k \in LocalBeaconed, i \in Edges :
            /\ InFlight(u, k, i)' <=> InFlight(u, k, i)
            /\ InFlight(u, k, i) => thread'[u].pc = thread[u].pc
      BY <1>3, <2>1, <2>4, QuietThread, Zenon DEF Inv, RemoveVictims
    <2>8. /\ dirs' = [k \in Keys |-> dirs'[k]]
          /\ \A k \in LocalBeaconed :
               refcnt'[k] = 0 \/ (refcnt[k] # 0 /\ dirs'[k] = dirs[k])
      BY <2>1, <2>2, RemoveDirs DEF Inv, RefcntOK
    <2>9. DirinfoOK /\ directory' = directory
      BY <1>3 DEF Inv, RemoveVictims
    <2>10. DirinfoOK'
      BY <2>7, <2>8, <2>9, TrackerStepKeepsDirinfo
    <2> QED
      BY <1>3, <2>5, <2>6, <2>10, AggregatorAlone DEF Inv, RemoveVictims
  <1>4. CASE Deploy(t)
    <2>1. Idle \in ThreadTypes /\ Idle.pc = "idle"
      BY DEF ThreadTypes, Idle
    <2>2. RefcntOK' /\ thread' \in [Threads -> ThreadTypes] /\ DirinfoOK'
      BY <1>4, <2>1, TrackerAlone DEF Deploy
    <2> QED
      BY <1>4, <2>2, AggregatorAlone, Zenon DEF Inv, Deploy
  <1> QED
    BY <1>3, <1>4

\* The steps of an admission and of an eviction.
LEMMA AdmitKeeps ==
  ASSUME Inv, NEW t \in Threads
  PROVE  /\ \A k \in LocalBeaconed, e \in Edges :
              AdmitDirectory(t, k, e) \/ EvictDirectory(t, k, e) => Inv'
         /\ AdmitDirinfo(t) \/ EvictDirinfo(t) => Inv'
         /\ ClearPreserved(t) => Inv'
  <1> DEFINE l == thread[t]
  <1>1. l \in ThreadTypes
    BY Zenon DEF Inv
  <1>2. ASSUME NEW k \in LocalBeaconed, NEW e \in Edges,
               AdmitDirectory(t, k, e)
        PROVE  Inv'
    <2> DEFINE new == [pc |-> "admit", key |-> k, edge |-> e]
    <2>1. new \in ThreadTypes
      BY DEF ThreadTypes
    <2>2. /\ l.pc = "idle"
          /\ Goto(t, new)
          /\ e = Self \/ e \in Serves[t]
          /\ directory' = [directory EXCEPT ![k] = @ \cup {e}]
          /\ UNCHANGED <<aggregator, tracker>>
      BY <1>2, Zenon DEF AdmitDirectory
    <2>3. DirinfoOK'
      BY <2>2, DirectoryStepKeepsDirinfo, Zenon DEF Inv, tracker
    <2>4. thread' \in [Threads -> ThreadTypes]
      BY <2>1, <2>2, GotoTyped, Zenon DEF Inv
    <2> QED
      BY <2>2, <2>3, <2>4, AggregatorAlone, RefcntAlone DEF Inv, tracker
  <1>3. ASSUME NEW k \in LocalBeaconed, NEW e \in Edges,
               EvictDirectory(t, k, e)
        PROVE  Inv'
    <2>1. PICK kind \in {"evict", "evict_background"} :
            Goto(t, [pc |-> "evict", key |-> k, edge |-> e, kind |-> kind])
      BY <1>3 DEF EvictDirectory
    <2> DEFINE new == [pc |-> "evict", key |-> k, edge |-> e, kind |-> kind]
    <2>2. new \in ThreadTypes
      BY DEF ThreadTypes, Kinds
    <2>3. /\ l.pc = "idle"
          /\ e = Self \/ e \in Serves[t]
          /\ directory' = [directory EXCEPT ![k] = @ \ {e}]
          /\ UNCHANGED <<aggregator, tracker>>
      BY <1>3 DEF EvictDirectory
    <2>4. DirinfoOK'
      BY <2>1, <2>3, DirectoryStepKeepsDirinfo, Zenon DEF Inv, tracker
    <2>5. thread' \in [Threads -> ThreadTypes]
      BY <2>1, <2>2, GotoTyped DEF Inv
    <2> QED
      BY <2>3, <2>4, <2>5, AggregatorAlone, RefcntAlone DEF Inv, tracker
  <1>4. CASE AdmitDirinfo(t)
    <2>1. l \in [pc : {"admit", "clear"}, key : LocalBeaconed, edge : Edges]
      BY <1>1, <1>4, ThreadShapes DEF AdmitDirinfo
    <2> DEFINE new == [l EXCEPT !.pc = "clear"]
    <2>2. new \in ThreadTypes /\ new.pc = "clear"
      BY <2>1 DEF ThreadTypes
    <2>3. /\ InFlight(t, l.key, l.edge)
          /\ Goto(t, new)
          /\ UpdateLocalBeaconedVictimDirinfo(l.key, TRUE, l.edge)
          /\ UNCHANGED <<aggregator, directory>>
          /\ l.pc = "admit"
      BY <1>4, Zenon DEF AdmitDirinfo, InFlight
    <2>4. DirinfoOK'
      BY <2>1, <2>2, <2>3, ForwardKeepsDirinfo, Zenon DEF Inv
    <2>5. thread' \in [Threads -> ThreadTypes]
      BY <2>2, <2>3, GotoTyped DEF Inv
    <2> QED
      BY <2>3, <2>4, <2>5, AggregatorAlone, RefcntAlone
      DEF Inv, UpdateLocalBeaconedVictimDirinfo
  <1>5. CASE EvictDirinfo(t)
    <2>1. l \in [pc : {"evict"}, key : LocalBeaconed, edge : Edges,
                 kind : Kinds]
      BY <1>1, <1>5, ThreadShapes, Zenon DEF EvictDirinfo
    <2> DEFINE new == [pc |-> "aggregate", key |-> l.key, edge |-> l.edge,
                       kind |-> l.kind, is_source_cached |-> FALSE]
    <2>2. new \in ThreadTypes /\ new.pc = "aggregate"
      BY <2>1 DEF ThreadTypes
    <2>3. /\ InFlight(t, l.key, l.edge)
          /\ Goto(t, new)
          /\ UpdateLocalBeaconedVictimDirinfo(l.key, FALSE, l.edge)
          /\ UNCHANGED <<aggregator, directory>>
          /\ l.pc = "evict"
      BY <1>5, Zenon DEF EvictDirinfo, InFlight
    <2>4. DirinfoOK'
      BY <2>1, <2>2, <2>3, ForwardKeepsDirinfo, Zenon DEF Inv
    <2>5. thread' \in [Threads -> ThreadTypes]
      BY <2>2, <2>3, GotoTyped DEF Inv
    <2> QED
      BY <2>3, <2>4, <2>5, AggregatorAlone, RefcntAlone
      DEF Inv, UpdateLocalBeaconedVictimDirinfo
  <1>6. CASE ClearPreserved(t)
    <2>1. l.key \in Keys
      BY <1>1, <1>6, ThreadShapes, LocalBeaconedKeys DEF ClearPreserved
    <2>2. AggregatorOK'
      BY <1>6, <2>1, AggregatorKeeps, Zenon DEF Inv, ClearPreserved
    <2>3. Idle \in ThreadTypes /\ Idle.pc = "idle"
      BY DEF ThreadTypes, Idle
    <2>4. RefcntOK' /\ thread' \in [Threads -> ThreadTypes] /\ DirinfoOK'
      BY <1>6, <2>3, TrackerAlone DEF ClearPreserved
    <2> QED
      BY <2>2, <2>4 DEF Inv
  <1> QED
    BY <1>2, <1>3, <1>4, <1>5, <1>6

\* The victims of an edge change.
LEMMA SyncKeeps ==
  ASSUME Inv, UNCHANGED <<aggregator, directory, thread>>,
         NEW e \in Edges, NEW victims, NEW dirinfosets,
         DOMAIN dirinfosets \cap LocalBeaconed = {},
         ReplaceVictims(e, victims, dirinfosets)
  PROVE  Inv'
  <1>1. AggregatorOK'
    BY AggregatorAlone DEF Inv
  <1>2. RefcntOK'
    BY ReplaceKeepsRefcnt DEF Inv
  <1>3. /\ dirs' = [k \in Keys |-> dirs'[k]]
        /\ \A k \in LocalBeaconed :
             \/ refcnt'[k] = 0
             \/ dirs'[k] = directory[k]
             \/ refcnt[k] # 0 /\ dirs'[k] = dirs[k]
    BY ReplaceDirs DEF Inv, RefcntOK
  <1>4. \A t \in Threads, k \in LocalBeaconed, i \in Edges :
          /\ InFlight(t, k, i)' <=> InFlight(t, k, i)
          /\ InFlight(t, k, i) => thread'[t].pc = thread[t].pc
    BY DEF InFlight
  <1>5. DirinfoOK'
    BY <1>3, <1>4, TrackerStepKeepsDirinfo DEF Inv
  <1> QED
    BY <1>1, <1>2, <1>5 DEF Inv

\* The invariant holds initially.
LEMMA InvInit == Init => Inv
  <1> SUFFICES ASSUME Init PROVE Inv
    OBVIOUS
  <1> USE DEF Init, AInit, VInit
  <1>1. IsFiniteSet({}) /\ Cardinality({}) = 0
    BY FS_EmptySet
  <1>2. AggregatorOK
    BY <1>1, TopKAssumption DEF AggregatorOK, PreservedNotCounted
  <1>3. RefcntOK
    <2>1. \A k \in Keys : Trackers(k) = {}
      BY DEF Trackers
    <2>2. \A k \in Keys : refcnt[k] = 0
      OBVIOUS
    <2>3. RefcntMatches
      <3> HIDE DEF Init, AInit, VInit
      <3>1. \A k \in Keys : Cardinality(Trackers(k)) = 0
        BY <1>1, <2>1, Zenon
      <3> QED
        BY <2>2, <3>1 DEF RefcntMatches
    <2>4. refcnt \in [Keys -> Nat]
      BY Zenon
    <2>5. metadata = [e \in Edges |-> metadata[e]]
      BY Zenon
    <2> QED
      BY <2>3, <2>4, <2>5 DEF RefcntOK
  <1>4. thread \in [Threads -> ThreadTypes]
    BY DEF ThreadTypes
  <1>5. DirinfoOK
    <2>1. \A t \in Threads, k \in LocalBeaconed, e \in Edges :
            ~InFlight(t, k, e)
      BY DEF InFlight, Idle
    <2>2. DirinfoIsCurrent
      BY LocalBeaconedKeys DEF DirinfoIsCurrent
    <2> QED
      BY <2>1, <2>2, Zenon DEF DirinfoOK
  <1> QED
    BY <1>2, <1>3, <1>4, <1>5 DEF Inv

\* Every step keeps the invariant.
LEMMA InvNext == Inv /\ [Next]_vars => Inv'
  <1> SUFFICES ASSUME Inv, [Next]_vars PROVE Inv'
    OBVIOUS
  <1>1. ASSUME NEW t \in Threads, Step(t) PROVE Inv'
    BY <1>1, ReportKeeps, DeployKeeps, AdmitKeeps DEF Step
  <1>2. CASE SyncLocalVictims
    <2>1. PICK victims : ReplaceVictims(Self, victims, <<>>)
      BY <1>2 DEF SyncLocalVictims, UpdateLocalSyncedVictims
    <2>2. DOMAIN <<>> \cap LocalBeaconed = {}
      OBVIOUS
    <2>3. UNCHANGED <<aggregator, directory, thread>>
      BY <1>2 DEF SyncLocalVictims
    <2> QED
      BY <2>1, <2>2, <2>3, SyncKeeps, SelfAssumption
  <1>3. CASE SyncNeighborVictims
    <2>1. PICK e \in Edges \ {Self} : \E victims, dirinfosets :
            /\ ReplaceVictims(e, victims, dirinfosets)
            /\ DOMAIN dirinfosets \in SUBSET {k \in Keys : Beacon[k] = e}
      BY <1>3 DEF SyncNeighborVictims, UpdateForNeighborVictimSyncset
    <2>2. PICK victims, dirinfosets :
            /\ ReplaceVictims(e, victims, dirinfosets)
            /\ DOMAIN dirinfosets \in SUBSET {k \in Keys : Beacon[k] = e}
      BY <2>1
    <2>3. DOMAIN dirinfosets \cap LocalBeaconed = {}
      BY <2>2 DEF LocalBeaconed
    <2>4. UNCHANGED <<aggregator, directory, thread>>
      BY <1>3 DEF SyncNeighborVictims
    <2> QED
      BY <2>2, <2>3, <2>4, SyncKeeps, Zenon
  <1>4. CASE LoseNotification \/ UNCHANGED vars
    <2>1. UNCHANGED <<aggregator, tracker, directory, thread>>
      BY <1>4 DEF LoseNotification, vars
    <2>2. DirinfoOK'
      BY <2>1 DEF Inv, DirinfoOK, DirinfoIsCurrent, InFlight, tracker
    <2> QED
      BY <2>1, <2>2, AggregatorAlone, RefcntAlone DEF Inv, tracker
  <1> QED
    BY <1>1, <1>2, <1>3, <1>4 DEF Next

\* The invariant all three results rest on.
LEMMA InvAlways == Spec => []Inv
  BY InvInit, InvNext, PTL DEF Spec

\* While a placement of a key is being deployed to an edge, no report of the
\* edge is counted for the key, so it is not chosen a second time.
THEOREM NoSecondPlacement == Spec => []PreservedNotCounted
  <1>1. Inv => PreservedNotCounted
    BY DEF Inv, AggregatorOK
  <1> QED
    BY <1>1, InvAlways, PTL

\* The reference count of a VictimDirinfo never exceeds the number of edges
\* with the victim, and equals it unless a placement removed the victim late.
THEOREM RefcntCorrect == Spec => []RefcntMatches
  <1>1. Inv => RefcntMatches
    BY DEF Inv, RefcntOK
  <1> QED
    BY <1>1, InvAlways, PTL

\* The directory sets that eviction costs are calculated from follow the
\* directory table, up to the request the beacon server is working on.
THEOREM DirinfoFollowsDirectory == Spec => []DirinfoIsCurrent
  <1>1. Inv => DirinfoIsCurrent
    BY DEF Inv, DirinfoOK
  <1> QED
    BY <1>1, InvAlways, PTL

-----------------------------------------------------------------------------
(* Every preserved edge has a placement under way *)

\* Something will clear the preserved edge e of key k.
Serving(k, e) ==
  \/ deploying[k][e] > 0
  \/ \E t \in Threads : /\ thread[t].pc = "remove"
                        /\ thread[t].key = k
                        /\ e \in thread[t].placement

\* PreservedIsServed, and why: an admission acknowledges a placement of its
\* own, so the placements not yet acknowledged are never too few.
ServedInv ==
  /\ deploying \in [LocalBeaconed -> [Edges -> Nat]]
  /\ \A k \in LocalBeaconed, e \in Edges :
       Cardinality(Admitting(k, e)) <= deploying[k][e]
  /\ lost \in Nat
  /\ \A k \in LocalBeaconed : preserved[k] \subseteq Edges
  /\ lost = 0 => \A k \in LocalBeaconed, e \in Edges :
                   e \in preserved[k] => Serving(k, e)

\* Finitely many threads admit at a time.
LEMMA AdmittingFinite ==
  ASSUME NEW k, NEW e
  PROVE  IsFiniteSet(Admitting(k, e)) /\ Cardinality(Admitting(k, e)) \in Nat
  <1>1. Admitting(k, e) \in SUBSET Threads
    BY DEF Admitting
  <1>2. IsFiniteSet(Admitting(k, e))
    BY <1>1, ThreadsAssumption, FS_Subset
  <1> QED
    BY <1>2, FS_CardinalityType

\* A thread that neither admits nor deploys, before or after its step, does
\* not disturb any of it.
LEMMA ServedAlone ==
  ASSUME Inv, ServedInv, NEW t \in Threads, NEW l, Goto(t, l),
         thread[t].pc \notin {"admit", "clear", "remove"},
         l.pc \notin {"admit", "clear"},
         UNCHANGED <<preserved, lost>>,
         deploying' \in [LocalBeaconed -> [Edges -> Nat]],
         \A k \in LocalBeaconed, e \in Edges :
           deploying[k][e] <= deploying'[k][e]
  PROVE  ServedInv'
  <1>1. thread' = [thread EXCEPT ![t] = l] /\ t \in DOMAIN thread
    BY DEF Goto, Inv
  <1>2. \A u \in Threads : u # t => thread'[u] = thread[u]
    BY <1>1 DEF Inv
  <1>3. thread'[t] = l
    BY <1>1
  <1>4. \A k, e : Admitting(k, e)' = Admitting(k, e)
    BY <1>2, <1>3 DEF Admitting
  <1>5. ASSUME NEW k \in LocalBeaconed, NEW e \in Edges
        PROVE  /\ Cardinality(Admitting(k, e)') <= deploying'[k][e]
               /\ Serving(k, e) => Serving(k, e)'
    <2>1. /\ deploying[k][e] \in Nat /\ deploying'[k][e] \in Nat
          /\ deploying[k][e] <= deploying'[k][e]
          /\ Cardinality(Admitting(k, e)) <= deploying[k][e]
          /\ Cardinality(Admitting(k, e)) \in Nat
      BY AdmittingFinite, Zenon DEF ServedInv
    <2>2. Cardinality(Admitting(k, e)') <= deploying'[k][e]
      BY <1>4, <2>1
    <2>3. deploying[k][e] > 0 => deploying'[k][e] > 0
      BY <2>1
    <2> QED
      BY <1>2, <2>2, <2>3 DEF Serving
  <1> QED
    BY <1>4, <1>5, Zenon DEF ServedInv

\* The same with the placements unchanged.
LEMMA ServedQuiet ==
  ASSUME Inv, ServedInv, NEW t \in Threads, NEW l, Goto(t, l),
         thread[t].pc \notin {"admit", "clear", "remove"},
         l.pc \notin {"admit", "clear"},
         UNCHANGED <<preserved, lost, deploying>>
  PROVE  ServedInv'
  <1>1. /\ deploying' \in [LocalBeaconed -> [Edges -> Nat]]
        /\ \A k \in LocalBeaconed, e \in Edges :
             deploying[k][e] <= deploying'[k][e]
    BY DEF ServedInv
  <1> QED
    BY <1>1, ServedAlone

\* The steps of a report up to the placement it decides, and of an eviction.
LEMMA ReportServed ==
  ASSUME Inv, ServedInv, NEW t \in Threads
  PROVE  /\ \A k \in LocalBeaconed, e \in Edges :
              LookupDirectory(t, k, e) \/ EvictDirectory(t, k, e) => ServedInv'
         /\ Aggregate(t) => ServedInv'
         /\ GetPopularity(t) => ServedInv'
         /\ FindVictims(t) => ServedInv'
         /\ EvictDirinfo(t) => ServedInv'
  <1> DEFINE l == thread[t]
  <1>0. l \in ThreadTypes
    BY DEF Inv
  <1>1. ASSUME NEW k \in LocalBeaconed, NEW e \in Edges,
               LookupDirectory(t, k, e) \/ EvictDirectory(t, k, e)
        PROVE  ServedInv'
    <2>1. l.pc = "idle" /\ UNCHANGED <<preserved, lost, deploying>>
      BY <1>1, Zenon DEF LookupDirectory, EvictDirectory, aggregator
    <2>2. CASE LookupDirectory(t, k, e)
      <3>1. PICK kind :
              Goto(t, [pc |-> "aggregate", key |-> k, edge |-> e,
                       kind |-> kind, is_source_cached |-> e \in directory[k]])
        BY <2>2, Zenon DEF LookupDirectory
      <3> QED
        BY <2>1, <3>1, ServedQuiet, Zenon
    <2>3. CASE EvictDirectory(t, k, e)
      <3>1. PICK kind :
              Goto(t, [pc |-> "evict", key |-> k, edge |-> e, kind |-> kind])
        BY <2>3, Zenon DEF EvictDirectory
      <3> QED
        BY <2>1, <3>1, ServedQuiet, Zenon
    <2> QED
      BY <1>1, <2>2, <2>3
  <1>2. CASE Aggregate(t)
    <2>1. /\ l.key \in LocalBeaconed /\ l.edge \in Edges /\ l.pc = "aggregate"
      BY <1>0, <1>2, ThreadShapes, Zenon DEF Aggregate
    <2>2. PICK b \in {0, 1} :
            deploying' = [deploying EXCEPT ![l.key][l.edge] = @ + b]
      BY <1>2, Zenon DEF Aggregate, Bit
    <2>3. UNCHANGED <<preserved, lost>>
      BY <1>2, Zenon DEF Aggregate, UpdateAggregatedUncachedPopularity
    <2>4. \E new : Goto(t, new) /\ new.pc \in {"calculate", "idle"}
      <3>1. \E new \in {[pc |-> "calculate", key |-> l.key], Idle} : Goto(t, new)
        BY <1>2, Zenon DEF Aggregate
      <3> QED
        BY <3>1 DEF Idle
    <2> HIDE DEF l
    <2>5. /\ deploying' \in [LocalBeaconed -> [Edges -> Nat]]
          /\ \A k \in LocalBeaconed, e \in Edges :
               deploying[k][e] <= deploying'[k][e]
      BY <2>1, <2>2 DEF ServedInv
    <2> QED
      BY <2>1, <2>3, <2>4, <2>5, ServedAlone, Zenon DEF l
  <1>3. CASE GetPopularity(t)
    <2>1. \E new : Goto(t, new) /\ new.pc \in {"find", "idle"}
      <3>1. \E new \in {[pc |-> "find", key |-> l.key, topk |-> topk[l.key]],
                        Idle} : Goto(t, new)
        BY <1>3, Zenon DEF GetPopularity
      <3> QED
        BY <3>1 DEF Idle
    <2> QED
      BY <1>3, <2>1, ServedQuiet, Zenon DEF GetPopularity, aggregator
  <1>4. CASE FindVictims(t)
    <2>1. \E new : Goto(t, new) /\ new.pc \in {"preserve", "idle"}
      <3>1. CASE Goto(t, Idle)
        BY <3>1 DEF Idle
      <3>2. CASE ~Goto(t, Idle)
        <4>1. PICK placement, victims :
                Goto(t, [pc |-> "preserve", key |-> l.key,
                         placement |-> placement, victims |-> victims])
          BY <1>4, <3>2, Zenon DEF FindVictims
        <4> QED
          BY <4>1
      <3> QED
        BY <3>1, <3>2
    <2> QED
      BY <1>4, <2>1, ServedQuiet, Zenon DEF FindVictims, aggregator
  <1>5. CASE EvictDirinfo(t)
    <2>1. \E new : Goto(t, new) /\ new.pc = "aggregate"
      BY <1>5 DEF EvictDirinfo
    <2> QED
      BY <1>5, <2>1, ServedQuiet, ZenonT(30) DEF EvictDirinfo, aggregator
  <1> QED
    BY <1>1, <1>2, <1>3, <1>4, <1>5, Zenon

\* The steps of a placement: it is under way before its edges are preserved,
\* and counted as not yet acknowledged before its thread goes on.
LEMMA PlacementServed ==
  ASSUME Inv, ServedInv, NEW t \in Threads,
         Preserve(t) \/ RemoveVictims(t) \/ Deploy(t)
  PROVE  ServedInv'
  <1> DEFINE l == thread[t]
  <1>1. /\ l \in [pc : {"preserve", "remove"}, key : LocalBeaconed,
                  placement : SUBSET Edges, victims : VictimSets]
        /\ lost' = lost
        /\ l.key \in Keys
    <2>1. l \in ThreadTypes
      BY DEF Inv
    <2> QED
      BY <2>1, ThreadShapes, LocalBeaconedKeys
      DEF Preserve, RemoveVictims, Deploy
  <1>2. PICK new : /\ thread' = [thread EXCEPT ![t] = new]
                   /\ new.pc \notin {"admit", "clear"}
                   /\ ~Deploy(t) => /\ new.pc = "remove" /\ new.key = l.key
                                    /\ new.placement = l.placement
    <2>1. CASE Preserve(t)
      <3> DEFINE n == [l EXCEPT !.pc = "remove"]
      <3>1. n.pc = "remove" /\ n.key = l.key /\ n.placement = l.placement
        BY <1>1
      <3> HIDE DEF n
      <3>2. thread' = [thread EXCEPT ![t] = n]
        BY <2>1 DEF Preserve, Goto, n
      <3> QED
        BY <3>1, <3>2, Zenon
    <2>2. CASE RemoveVictims(t)
      <3>1. PICK e : Goto(t, [l EXCEPT !.victims[e] = {}])
        BY <2>2, Zenon DEF RemoveVictims
      <3> DEFINE n == [l EXCEPT !.victims[e] = {}]
      <3>2. n.pc = "remove" /\ n.key = l.key /\ n.placement = l.placement
        BY <1>1, <2>2 DEF RemoveVictims
      <3>3. thread' = [thread EXCEPT ![t] = n]
        BY <3>1 DEF Goto
      <3> HIDE DEF n
      <3> QED
        BY <3>2, <3>3, Zenon
    <2>3. CASE Deploy(t)
      BY <2>3, Zenon DEF Deploy, Goto, Idle
    <2> QED
      BY <2>1, <2>2, <2>3
  <1>3. /\ thread'[t] = new
        /\ \A u \in Threads : u # t => thread'[u] = thread[u]
    BY <1>2 DEF Inv
  <1>4. \A k, e : Admitting(k, e)' = Admitting(k, e)
    BY <1>1, <1>2, <1>3, Zenon DEF Admitting
  <1>5. /\ deploying' \in [LocalBeaconed -> [Edges -> Nat]]
        /\ \A k \in LocalBeaconed, e \in Edges :
             /\ deploying[k][e] <= deploying'[k][e]
             /\ Deploy(t) /\ k = l.key /\ e \in l.placement =>
                  deploying'[k][e] > 0
    <2>1. CASE Deploy(t)
      <3>1. deploying' = [deploying EXCEPT ![l.key] =
              [e \in Edges |-> deploying[l.key][e] + Bit(e \in l.placement)]]
        BY <2>1, Zenon DEF Deploy
      <3> HIDE DEF l
      <3>2. \A e \in Edges : /\ Bit(e \in l.placement) \in Nat
                             /\ e \in l.placement => Bit(e \in l.placement) = 1
        BY Zenon DEF Bit
      <3> QED
        BY <1>1, <3>1, <3>2 DEF ServedInv
    <2>2. CASE ~Deploy(t)
      <3>1. deploying' = deploying
        BY <2>2 DEF Preserve, RemoveVictims
      <3> QED
        BY <2>2, <3>1 DEF ServedInv
    <2> QED
      BY <2>1, <2>2, Zenon
  <1>6. ASSUME NEW k \in LocalBeaconed, NEW e \in Edges
        PROVE  /\ Cardinality(Admitting(k, e)') <= deploying'[k][e]
               /\ Serving(k, e) => Serving(k, e)'
               /\ e \in preserved'[k] => e \in preserved[k] \/ Serving(k, e)'
    <2>1. /\ deploying[k][e] \in Nat /\ deploying'[k][e] \in Nat
          /\ deploying[k][e] <= deploying'[k][e]
          /\ Cardinality(Admitting(k, e)) <= deploying[k][e]
          /\ Cardinality(Admitting(k, e)) \in Nat
      BY <1>5, AdmittingFinite, Zenon DEF ServedInv
    <2>2. Cardinality(Admitting(k, e)') <= deploying'[k][e]
      BY <1>4, <2>1
    <2>3. ASSUME k = l.key, e \in l.placement PROVE Serving(k, e)'
      <3>1. CASE Deploy(t)
        BY <1>5, <2>3, <3>1, Zenon DEF Serving
      <3>2. CASE ~Deploy(t)
        BY <1>2, <1>3, <2>3, <3>2, Zenon DEF Serving
      <3> QED
        BY <3>1, <3>2
    <2>4. ASSUME Serving(k, e) PROVE Serving(k, e)'
      <3>1. CASE deploying[k][e] > 0
        <4>1. deploying'[k][e] > 0
          BY <2>1, <3>1
        <4> QED
          BY <4>1 DEF Serving
      <3>2. CASE ~(deploying[k][e] > 0)
        <4>1. PICK u \in Threads : /\ thread[u].pc = "remove"
                                   /\ thread[u].key = k
                                   /\ e \in thread[u].placement
          BY <2>4, <3>2 DEF Serving
        <4>2. CASE u = t
          BY <2>3, <4>1, <4>2
        <4>3. CASE u # t
          BY <1>3, <4>1, <4>3 DEF Serving
        <4> QED
          BY <4>2, <4>3
      <3> QED
        BY <3>1, <3>2
    <2>5. ASSUME e \in preserved'[k], e \notin preserved[k] PROVE Serving(k, e)'
      <3>1. k = l.key /\ e \in l.placement
        <4>1. CASE Preserve(t)
          <5>1. preserved' = [preserved EXCEPT ![l.key] = @ \cup l.placement]
            BY <4>1 DEF Preserve, UpdatePreservedEdgesetForPlacement
          <5> QED
            BY <1>1, <2>5, <5>1, LocalBeaconedKeys DEF Inv, AggregatorOK
        <4>2. CASE ~Preserve(t)
          BY <2>5, <4>2 DEF RemoveVictims, Deploy, aggregator
        <4> QED
          BY <4>1, <4>2
      <3> QED
        BY <2>3, <3>1
    <2> QED
      BY <2>2, <2>4, <2>5, Zenon
  <1>7. \A k \in LocalBeaconed : preserved'[k] \subseteq Edges
    <2>1. CASE Preserve(t)
      <3>1. preserved' = [preserved EXCEPT ![l.key] = @ \cup l.placement]
        BY <2>1 DEF Preserve, UpdatePreservedEdgesetForPlacement
      <3> QED
        BY <1>1, <3>1, LocalBeaconedKeys, Zenon DEF Inv, AggregatorOK, ServedInv
    <2>2. CASE ~Preserve(t)
      BY <2>2, Zenon DEF RemoveVictims, Deploy, aggregator, ServedInv
    <2> QED
      BY <2>1, <2>2
  <1> QED
    BY <1>1, <1>5, <1>6, <1>7, Zenon DEF ServedInv

\* An admission starts only for a placement that no other one acknowledges.
LEMMA AdmitServed ==
  ASSUME Inv, ServedInv, NEW t \in Threads, NEW k \in LocalBeaconed,
         NEW e \in Edges, AdmitDirectory(t, k, e)
  PROVE  ServedInv'
  <1> DEFINE new == [pc |-> "admit", key |-> k, edge |-> e]
  <1>1. /\ thread[t].pc = "idle"
        /\ thread' = [thread EXCEPT ![t] = new]
        /\ deploying[k][e] > Cardinality(Admitting(k, e))
        /\ UNCHANGED <<preserved, deploying, lost>>
    BY ZenonT(30) DEF AdmitDirectory, Goto, aggregator
  <1>2. /\ thread'[t] = new
        /\ \A u \in Threads : u # t => thread'[u] = thread[u]
    BY <1>1 DEF Inv
  <1>3. new.pc = "admit" /\ new.key = k /\ new.edge = e
    OBVIOUS
  <1> HIDE DEF new
  <1>4. ASSUME NEW i \in LocalBeaconed, NEW j \in Edges
        PROVE  /\ Cardinality(Admitting(i, j)') <= deploying[i][j]
               /\ Serving(i, j) => Serving(i, j)'
    <2>1. CASE i = k /\ j = e
      <3>1. Admitting(i, j)' = Admitting(i, j) \cup {t} /\ t \notin Admitting(i, j)
        BY <1>1, <1>2, <1>3, <2>1 DEF Admitting
      <3>2. Cardinality(Admitting(i, j) \cup {t}) = Cardinality(Admitting(i, j)) + 1
        BY <3>1, AdmittingFinite, FS_AddElement, Zenon
      <3>3. Cardinality(Admitting(i, j)) \in Nat /\ deploying[i][j] \in Nat
        BY AdmittingFinite DEF ServedInv
      <3>4. Cardinality(Admitting(i, j)') <= deploying[i][j]
        BY <1>1, <2>1, <3>1, <3>2, <3>3, SMTT(30)
      <3> QED
        BY <1>1, <1>2, <3>4, Zenon DEF Serving
    <2>2. CASE ~(i = k /\ j = e)
      <3>1. Admitting(i, j)' = Admitting(i, j)
        BY <1>1, <1>2, <1>3, <2>2, Zenon DEF Admitting
      <3> QED
        BY <1>1, <1>2, <3>1, Zenon DEF Serving, ServedInv
    <2> QED
      BY <2>1, <2>2, Zenon
  <1> QED
    BY <1>1, <1>4 DEF ServedInv

\* An admission that goes on to the aggregator is still the same one.
LEMMA ForwardServed ==
  ASSUME Inv, ServedInv, NEW t \in Threads, AdmitDirinfo(t)
  PROVE  ServedInv'
  <1> DEFINE l == thread[t]
             new == [l EXCEPT !.pc = "clear"]
  <1>1. /\ l \in [pc : {"admit", "clear"}, key : LocalBeaconed, edge : Edges]
        /\ l.pc = "admit"
    <2>1. l \in ThreadTypes
      BY DEF Inv
    <2> QED
      BY <2>1, ThreadShapes DEF AdmitDirinfo
  <1>2. new.pc = "clear" /\ new.key = l.key /\ new.edge = l.edge
    BY <1>1
  <1>3. thread' = [thread EXCEPT ![t] = new]
        /\ UNCHANGED <<preserved, deploying, lost>>
    BY DEF AdmitDirinfo, Goto, aggregator
  <1> HIDE DEF new
  <1>4. /\ thread'[t] = new
        /\ \A u \in Threads : u # t => thread'[u] = thread[u]
    BY <1>3 DEF Inv
  <1>5. \A k, e : Admitting(k, e)' = Admitting(k, e)
    BY <1>1, <1>2, <1>4 DEF Admitting
  <1>6. \A k, e : Serving(k, e) => Serving(k, e)'
    BY <1>1, <1>3, <1>4, Zenon DEF Serving
  <1> QED
    BY <1>3, <1>5, <1>6, Zenon DEF ServedInv

\* The end of an admission acknowledges its placement and clears its edge.
LEMMA ClearServed ==
  ASSUME Inv, ServedInv, NEW t \in Threads, ClearPreserved(t)
  PROVE  ServedInv'
  <1> DEFINE l == thread[t]
             k == l.key
             e == l.edge
  <1>1. /\ k \in LocalBeaconed /\ k \in Keys /\ e \in Edges /\ l.pc = "clear"
        /\ t \in Admitting(k, e)
    <2>1. l \in ThreadTypes
      BY DEF Inv
    <2> QED
      BY <2>1, ThreadShapes, LocalBeaconedKeys, Zenon DEF ClearPreserved, Admitting
  <1>2. /\ thread' = [thread EXCEPT ![t] = Idle]
        /\ deploying' = [deploying EXCEPT ![k][e] = @ - 1]
        /\ preserved' = [preserved EXCEPT ![k] = @ \ {e}]
        /\ lost' = lost
    BY DEF ClearPreserved, Goto, ClearPreservedEdgesetAfterAdmission
  <1> HIDE DEF k, e, l
  <1>3. /\ thread'[t].pc = "idle"
        /\ \A u \in Threads : u # t => thread'[u] = thread[u]
    BY <1>2 DEF Inv, Idle
  <1>4. /\ IsFiniteSet(Admitting(k, e) \ {t})
        /\ Cardinality(Admitting(k, e) \ {t}) = Cardinality(Admitting(k, e)) - 1
        /\ Cardinality(Admitting(k, e)) \in Nat
        /\ Cardinality(Admitting(k, e) \ {t}) \in Nat
    BY <1>1, AdmittingFinite, FS_RemoveElement, FS_CardinalityType, ZenonT(30)
  <1>5. /\ Cardinality(Admitting(k, e)) <= deploying[k][e]
        /\ deploying[k][e] \in Nat /\ deploying[k][e] - 1 \in Nat
    BY <1>1, <1>4, SMTT(30) DEF ServedInv
  <1>6. /\ deploying' \in [LocalBeaconed -> [Edges -> Nat]]
        /\ deploying'[k][e] = deploying[k][e] - 1
        /\ \A i \in LocalBeaconed, j \in Edges :
             ~(i = k /\ j = e) => deploying'[i][j] = deploying[i][j]
    BY <1>1, <1>2, <1>5 DEF ServedInv
  <1>7. ASSUME NEW i \in LocalBeaconed, NEW j \in Edges
        PROVE  /\ Cardinality(Admitting(i, j)') <= deploying'[i][j]
               /\ j \in preserved'[i] =>
                    j \in preserved[i] /\ (Serving(i, j) => Serving(i, j)')
    <2>1. CASE i = k /\ j = e
      <3>1. Admitting(i, j)' = Admitting(k, e) \ {t}
        BY <1>3, <2>1, Zenon DEF Admitting
      <3>2. Cardinality(Admitting(i, j)') <= deploying'[i][j]
        BY <1>4, <1>5, <1>6, <2>1, <3>1
      <3>3. j \notin preserved'[i]
        BY <1>1, <1>2, <2>1, Zenon DEF Inv, AggregatorOK
      <3> QED
        BY <3>2, <3>3
    <2>2. CASE ~(i = k /\ j = e)
      <3>1. Admitting(i, j)' = Admitting(i, j)
        BY <1>1, <1>3, <2>2 DEF Admitting, k, e, l
      <3>2. j \in preserved'[i] => j \in preserved[i]
        BY <1>1, <1>2, LocalBeaconedKeys, Zenon DEF Inv, AggregatorOK
      <3>3. Serving(i, j) => Serving(i, j)'
        BY <1>1, <1>3, <1>6, <2>2 DEF Serving, l
      <3> QED
        <4>1. deploying'[i][j] = deploying[i][j]
          BY <1>6, <2>2, Zenon
        <4>2. Cardinality(Admitting(i, j)) <= deploying[i][j]
          BY Zenon DEF ServedInv
        <4> QED
          BY <3>1, <3>2, <3>3, <4>1, <4>2, Zenon
    <2> QED
      BY <2>1, <2>2
  <1>8. \A i \in LocalBeaconed : preserved'[i] \subseteq Edges
    BY <1>1, <1>2, LocalBeaconedKeys, Zenon DEF Inv, AggregatorOK, ServedInv
  <1> QED
    BY <1>2, <1>6, <1>7, <1>8, Zenon DEF ServedInv

\* A lost notification leaves enough placements for the admissions under way.
LEMMA LoseServed ==
  ASSUME Inv, ServedInv, LoseNotification PROVE ServedInv'
  <1>1. PICK k \in LocalBeaconed, e \in Edges \ {Self} :
          /\ deploying[k][e] > Cardinality(Admitting(k, e))
          /\ deploying' = [deploying EXCEPT ![k][e] = @ - 1]
    BY Zenon DEF LoseNotification
  <1>2. lost' = lost + 1 /\ UNCHANGED <<thread, preserved>> /\ lost \in Nat
    BY DEF LoseNotification, ServedInv, aggregator
  <1>3. \A i, j : Admitting(i, j)' = Admitting(i, j)
    BY <1>2, Zenon DEF Admitting
  <1>4. /\ Cardinality(Admitting(k, e)) \in Nat /\ deploying[k][e] \in Nat
        /\ deploying[k][e] - 1 \in Nat
        /\ Cardinality(Admitting(k, e)) <= deploying[k][e] - 1
    BY <1>1, AdmittingFinite, SMTT(30) DEF ServedInv
  <1>5. /\ deploying' \in [LocalBeaconed -> [Edges -> Nat]]
        /\ \A i \in LocalBeaconed, j \in Edges :
             Cardinality(Admitting(i, j)) <= deploying'[i][j]
    BY <1>1, <1>4 DEF ServedInv
  <1>6. lost' \in Nat /\ lost' # 0
    BY <1>2, SMTT(30)
  <1> QED
    BY <1>2, <1>3, <1>5, <1>6 DEF ServedInv

\* Nothing is preserved at the start.
LEMMA ServedInit == Init => ServedInv
  <1> SUFFICES ASSUME Init PROVE ServedInv
    OBVIOUS
  <1>1. \A k, e : Admitting(k, e) = {}
    BY DEF Init, Idle, Admitting
  <1>2. Cardinality({}) = 0
    BY FS_EmptySet
  <1>3. \A k \in LocalBeaconed : preserved[k] = {}
    BY LocalBeaconedKeys DEF Init, AInit
  <1> QED
    BY <1>1, <1>2, <1>3, SMTT(30) DEF Init, ServedInv

\* Every step keeps a placement under way for every preserved edge.
LEMMA ServedNext == Inv /\ ServedInv /\ [Next]_vars => ServedInv'
  <1> SUFFICES ASSUME Inv, ServedInv, [Next]_vars PROVE ServedInv'
    OBVIOUS
  <1>1. ASSUME NEW t \in Threads, Step(t) PROVE ServedInv'
    BY <1>1, ReportServed, PlacementServed, AdmitServed, ForwardServed,
       ClearServed DEF Step
  <1>2. CASE LoseNotification
    BY <1>2, LoseServed, Zenon
  <1>3. CASE SyncLocalVictims \/ SyncNeighborVictims \/ UNCHANGED vars
    <2>1. UNCHANGED <<preserved, thread, deploying, lost>>
      BY <1>3 DEF SyncLocalVictims, SyncNeighborVictims, vars, aggregator
    <2>2. \A k, e : /\ Admitting(k, e)' = Admitting(k, e)
                    /\ Serving(k, e)' <=> Serving(k, e)
      BY <2>1 DEF Admitting, Serving
    <2> QED
      BY <2>1, <2>2 DEF ServedInv
  <1> QED
    BY <1>1, <1>2, <1>3 DEF Next

\* As long as no notification is lost, every preserved edge has a placement
\* under way whose acknowledgement will clear it, so the reports of the edge
\* are not ignored for ever.
THEOREM PreservedIsAlwaysServed == Spec => []PreservedIsServed
  <1>1. Inv /\ ServedInv => PreservedIsServed
    <2> SUFFICES ASSUME Inv, ServedInv, lost = 0, NEW k \in LocalBeaconed,
                        NEW e \in preserved[k]
                 PROVE  Serving(k, e)
      BY DEF PreservedIsServed, Serving
    <2> QED
      BY DEF ServedInv
  <1> QED
    BY <1>1, InvAlways, ServedInit, ServedNext, PTL DEF Spec
=============================================================================
