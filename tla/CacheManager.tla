---------------------------- MODULE CacheManager ----------------------------
(* CoveredCacheManager at a beacon edge: the threads that look up, admit and *)
(* evict directory entries, and the placements they decide.  A placement     *)
(* takes the locks of the popularity aggregator and of the victim tracker    *)
(* one after the other, so the steps of two threads interleave.              *)
EXTENDS PopularityAggregator, VictimTracker

CONSTANTS
  Threads,      \* the beacon server and the cache server workers
  Serves,       \* thread -> the edges whose requests it processes
  MaxRequests,  \* how many lookups and evictions are processed, a bound
  MaxSyncs,     \* how many times the victims of an edge change, a bound
  MaxLost       \* how many placement notifications are lost, a bound

ASSUME ThreadsAssumption == IsFiniteSet(Threads)

\* Only the beacon server processes the requests of neighbors.
ASSUME ServesAssumption ==
  \A t, u \in Threads : t # u => Serves[t] \cap Serves[u] \subseteq {Self}

VARIABLES
  thread,       \* thread -> its step and its local variables
  deploying,    \* key -> edge -> placements not yet acknowledged
  admitted,     \* key -> the edges that have ever cached it
  requests,
  syncs,
  lost

vars == <<aggregator, tracker, directory, thread, deploying, admitted,
          requests, syncs, lost>>

Idle == [pc |-> "idle"]

Init ==
  /\ AInit
  /\ VInit
  /\ thread = [t \in Threads |-> Idle]
  /\ deploying = [k \in LocalBeaconed |-> [e \in Edges |-> 0]]
  /\ admitted = [k \in LocalBeaconed |-> {}]
  /\ requests = 0
  /\ syncs = 0
  /\ lost = 0

Goto(t, local) == thread' = [thread EXCEPT ![t] = local]

-----------------------------------------------------------------------------
(* updatePopularityAggregatorForAggregatedPopularity(), in a directory lookup *)
(* or eviction                                                               *)

\* The requests that report a popularity: a directory lookup, acquiring and
\* releasing a write lock, an eviction.  Placements are not calculated where
\* the new copies would be invalid, nor recursively.
NeedPlacementCalculation(kind) ==
  kind \notin {"acquire_writelock", "evict_background"}

\* The directory table is read here, and is_source_cached is used later.
LookupDirectory(t, k, e) ==
  /\ thread[t].pc = "idle"
  /\ e \in Serves[t]
  /\ requests < MaxRequests
  /\ requests' = requests + 1
  /\ \E kind \in {"lookup", "acquire_writelock", "release_writelock"} :
       Goto(t, [pc |-> "aggregate", key |-> k, edge |-> e, kind |-> kind,
                is_source_cached |-> e \in directory[k]])
  /\ UNCHANGED <<aggregator, tracker, directory, deploying, admitted, syncs,
                 lost>>

\* need_fast_path_hint: the report is a neighbor's first cache miss.
NeedFastPathHint(l, is_tracked) ==
  /\ l.kind = "lookup"
  /\ l.edge # Self
  /\ ~is_tracked
  /\ ~l.is_source_cached
  /\ l.edge \notin preserved[l.key] \cup bitmap[l.key]

\* With a hint in the answer the neighbor may place the object on itself.
Aggregate(t) ==
  LET l == thread[t] IN
  /\ l.pc = "aggregate"
  /\ \E is_tracked \in BOOLEAN :
       /\ UpdateAggregatedUncachedPopularity(
            l.key, l.edge, is_tracked, l.is_source_cached)
       /\ \E is_placed \in {FALSE, NeedFastPathHint(l, is_tracked)} :
            deploying' = [deploying EXCEPT ![l.key][l.edge] =
                            @ + Bit(is_placed)]
       /\ Goto(t, IF /\ NeedPlacementCalculation(l.kind)
                     /\ is_tracked
                     /\ ~l.is_source_cached
                  THEN [pc |-> "calculate", key |-> l.key]
                  ELSE Idle)
  /\ UNCHANGED <<tracker, directory, admitted, requests, syncs, lost>>

\* placementCalculation_() copies the popularity of the key ...
GetPopularity(t) ==
  LET l == thread[t] IN
  /\ l.pc = "calculate"
  /\ Goto(t, IF topk[l.key] = {} THEN Idle
             ELSE [pc |-> "find", key |-> l.key, topk |-> topk[l.key]])
  /\ UNCHANGED <<aggregator, tracker, directory, deploying, admitted,
                 requests, syncs, lost>>

\* ... and then finds victims for the placement with the largest gain, if one
\* has a gain.
FindVictims(t) ==
  LET l == thread[t] IN
  /\ l.pc = "find"
  /\ \/ Goto(t, Idle)
     \/ \E placement \in (SUBSET l.topk) \ {{}} :
          \E victims \in [placement -> SUBSET Keys] :
            /\ \A e \in placement : victims[e] \subseteq metadata[e]
            /\ Goto(t, [pc |-> "preserve", key |-> l.key,
                        placement |-> placement, victims |-> victims])
  /\ UNCHANGED <<aggregator, tracker, directory, deploying, admitted,
                 requests, syncs, lost>>

Preserve(t) ==
  LET l == thread[t] IN
  /\ l.pc = "preserve"
  /\ UpdatePreservedEdgesetForPlacement(l.key, l.placement)
  /\ Goto(t, [l EXCEPT !.pc = "remove"])
  /\ UNCHANGED <<tracker, directory, deploying, admitted, requests, syncs,
                 lost>>

\* The victims are removed edge by edge, each time under the tracker's lock.
RemoveVictims(t) ==
  LET l == thread[t] IN
  /\ l.pc = "remove"
  /\ \E e \in l.placement :
       /\ l.victims[e] # {}
       /\ RemoveVictimsForGivenEdge(e, l.victims[e])
       /\ Goto(t, [l EXCEPT !.victims[e] = {}])
  /\ UNCHANGED <<aggregator, directory, deploying, admitted, requests, syncs,
                 lost>>

\* nonblockDataFetchForPlacementInternal_(): from here the object is fetched
\* and the edges of the placement are notified, in the background.
Deploy(t) ==
  LET l == thread[t] IN
  /\ l.pc = "remove"
  /\ \A e \in l.placement : l.victims[e] = {}
  /\ deploying' = [deploying EXCEPT ![l.key] =
                     [e \in Edges |-> @[e] + Bit(e \in l.placement)]]
  /\ Goto(t, Idle)
  /\ UNCHANGED <<aggregator, tracker, directory, admitted, requests, syncs,
                 lost>>

-----------------------------------------------------------------------------
(* A notified edge admits the object: admitLocalDirectory_() here, or its     *)
(* directory admission request at the beacon server                          *)

Admitting(k, e) ==
  {t \in Threads : /\ thread[t].pc \in {"admit", "clear"}
                   /\ thread[t].key = k
                   /\ thread[t].edge = e}

AdmitDirectory(t, k, e) ==
  /\ thread[t].pc = "idle"
  /\ e = Self \/ e \in Serves[t]
  /\ deploying[k][e] > Cardinality(Admitting(k, e))
  /\ directory' = [directory EXCEPT ![k] = @ \cup {e}]
  /\ admitted' = [admitted EXCEPT ![k] = @ \cup {e}]
  /\ Goto(t, [pc |-> "admit", key |-> k, edge |-> e])
  /\ UNCHANGED <<aggregator, tracker, deploying, requests, syncs, lost>>

AdmitDirinfo(t) ==
  LET l == thread[t] IN
  /\ l.pc = "admit"
  /\ UpdateLocalBeaconedVictimDirinfo(l.key, TRUE, l.edge)
  /\ Goto(t, [l EXCEPT !.pc = "clear"])
  /\ UNCHANGED <<aggregator, directory, deploying, admitted, requests, syncs,
                 lost>>

ClearPreserved(t) ==
  LET l == thread[t] IN
  /\ l.pc = "clear"
  /\ ClearPreservedEdgesetAfterAdmission(l.key, l.edge)
  /\ deploying' = [deploying EXCEPT ![l.key][l.edge] = @ - 1]
  /\ Goto(t, Idle)
  /\ UNCHANGED <<tracker, directory, admitted, requests, syncs, lost>>

\* An edge evicts the object: evictLocalDirectory_() here, or its request at
\* the beacon server.
EvictDirectory(t, k, e) ==
  /\ thread[t].pc = "idle"
  /\ e \in Serves[t]
  /\ e \in directory[k]
  /\ requests < MaxRequests
  /\ requests' = requests + 1
  /\ directory' = [directory EXCEPT ![k] = @ \ {e}]
  /\ \E kind \in {"evict", "evict_background"} :
       Goto(t, [pc |-> "evict", key |-> k, edge |-> e, kind |-> kind])
  /\ UNCHANGED <<aggregator, tracker, deploying, admitted, syncs, lost>>

EvictDirinfo(t) ==
  LET l == thread[t] IN
  /\ l.pc = "evict"
  /\ UpdateLocalBeaconedVictimDirinfo(l.key, FALSE, l.edge)
  /\ Goto(t, [pc |-> "aggregate", key |-> l.key, edge |-> l.edge,
              kind |-> l.kind, is_source_cached |-> FALSE])
  /\ UNCHANGED <<aggregator, directory, deploying, admitted, requests, syncs,
                 lost>>

-----------------------------------------------------------------------------
(* The environment *)

\* The victims an edge may report: of the keys beaconed here those it has
\* cached, though not now, as a list or a syncset may be old.
Reportable(e) == {k \in Keys : k \in LocalBeaconed => e \in admitted[k]}

\* updateCacheManagerForLocalSyncedVictimsInternal_(): the edge's own cache
\* has other victims.
SyncLocalVictims ==
  /\ syncs < MaxSyncs
  /\ syncs' = syncs + 1
  /\ \E victims \in SUBSET Reportable(Self) : UpdateLocalSyncedVictims(victims)
  /\ UNCHANGED <<aggregator, directory, thread, deploying, admitted, requests,
                 lost>>

\* A message of a neighbor brings a syncset that the tracker applies.
SyncNeighborVictims ==
  /\ syncs < MaxSyncs
  /\ syncs' = syncs + 1
  /\ \E e \in Edges \ {Self} :
       \E victims \in SUBSET Reportable(e),
          beaconed \in SUBSET {k \in Keys : Beacon[k] = e} :
         \E dirinfosets \in [beaconed -> SUBSET Edges] :
           UpdateForNeighborVictimSyncset(e, victims, dirinfosets)
  /\ UNCHANGED <<aggregator, directory, thread, deploying, admitted, requests,
                 lost>>

\* CoveredBgplacePlacementNotifyRequest has no answer and is not repeated.
LoseNotification ==
  /\ lost < MaxLost
  /\ \E k \in LocalBeaconed, e \in Edges \ {Self} :
       /\ deploying[k][e] > Cardinality(Admitting(k, e))
       /\ deploying' = [deploying EXCEPT ![k][e] = @ - 1]
  /\ lost' = lost + 1
  /\ UNCHANGED <<aggregator, tracker, directory, thread, admitted, requests,
                 syncs>>

Step(t) ==
  \/ \E k \in LocalBeaconed, e \in Edges : LookupDirectory(t, k, e)
  \/ Aggregate(t)
  \/ GetPopularity(t)
  \/ FindVictims(t)
  \/ Preserve(t)
  \/ RemoveVictims(t)
  \/ Deploy(t)
  \/ \E k \in LocalBeaconed, e \in Edges : AdmitDirectory(t, k, e)
  \/ AdmitDirinfo(t)
  \/ ClearPreserved(t)
  \/ \E k \in LocalBeaconed, e \in Edges : EvictDirectory(t, k, e)
  \/ EvictDirinfo(t)

Next ==
  \/ \E t \in Threads : Step(t)
  \/ SyncLocalVictims
  \/ SyncNeighborVictims
  \/ LoseNotification

Spec == Init /\ [][Next]_vars

-----------------------------------------------------------------------------
(* Properties *)

\* A preserved edge waits for a placement that is being deployed to it, so
\* its popularity is ignored only for a while (popularity_aggregator.c:259),
\* unless a notification is lost: then nothing ever clears it.
PreservedIsServed ==
  lost = 0 =>
    \A k \in LocalBeaconed : \A e \in preserved[k] :
      \/ deploying[k][e] > 0
      \/ \E t \in Threads : /\ thread[t].pc = "remove"
                            /\ thread[t].key = k
                            /\ e \in thread[t].placement

\* The VictimDirinfo of a key beaconed here has the same other edges as the
\* directory table, except the one whose request the beacon server is about to
\* forward to the tracker (covered_edge_wrapper.c:685 and :716).
DirinfoIsCurrent ==
  \A k \in LocalBeaconed : \A e \in Edges \ {Self} :
    \/ refcnt[k] = 0
    \/ e \in dirs[k] <=> e \in directory[k]
    \/ \E t \in Threads : /\ thread[t].pc \in {"admit", "evict"}
                          /\ thread[t].key = k
                          /\ thread[t].edge = e
=============================================================================
