--------------------------- MODULE VictimTracker ----------------------------
(* The victim tracker of one edge: the victims of every edge, and for each   *)
(* victim a reference-counted VictimDirinfo with the edges that cache it.    *)
(* Every operation runs under rwlock_for_victim_tracker_ and is one action.  *)
(* Cache infos are left out; VictimSync models how syncsets are numbered.    *)
EXTENDS BeaconEdge

VARIABLES
  metadata,    \* peredge_victim_metadata_: edge -> its victims
  refcnt,      \* key -> refcnt_ of its VictimDirinfo, 0 if it has none
  dirs,        \* key -> dirinfo_set_ of its VictimDirinfo
  directory,   \* key -> edges in the directory table, for keys beaconed here
  missed       \* the victims a placement removed after they were gone

tracker == <<metadata, refcnt, dirs, missed>>

VInit ==
  /\ metadata = [e \in Edges |-> {}]
  /\ refcnt = [k \in Keys |-> 0]
  /\ dirs = [k \in Keys |-> {}]
  /\ directory = [k \in LocalBeaconed |-> {}]
  /\ missed = {}

\* tryToReleaseVictimDirinfo_() for each of `keys'.
Released(cnt, keys) ==
  [k \in Keys |-> IF cnt[k] > 0 THEN cnt[k] - Bit(k \in keys) ELSE 0]

\* Mutant: victims that stay take a second reference.
Replaced_StayTwice(e, victims) ==
  Released([k \in Keys |-> refcnt[k] + Bit(k \in victims)],
           metadata[e] \ victims)

\* replaceVictimMetadataForEdgeIdx_(): new victims take a reference before
\* the old ones give theirs back.
Replaced(e, victims) ==
  Released([k \in Keys |-> refcnt[k] + Bit(k \in victims)], metadata[e])

\* The tracker after `victims' replace those of `e': then the dirinfo sets
\* that came with them, for keys with an entry, then the directory table's own
\* sets, which create an entry where there is none.
ReplaceVictims(e, victims, dirinfosets) ==
  LET cnt == Replaced(e, victims)
      local == victims \cap LocalBeaconed
  IN
  /\ metadata' = [metadata EXCEPT ![e] = victims]
  /\ refcnt' = [k \in Keys |-> IF k \in local /\ cnt[k] = 0 THEN 1 ELSE cnt[k]]
  /\ dirs' = [k \in Keys |->
                IF k \in local THEN directory[k]
                ELSE IF cnt[k] = 0 THEN {}
                ELSE IF k \in DOMAIN dirinfosets THEN dirinfosets[k]
                ELSE dirs[k]]
  /\ UNCHANGED missed

\* updateLocalSyncedVictims()
UpdateLocalSyncedVictims(victims) == ReplaceVictims(Self, victims, <<>>)

\* updateForNeighborVictimSyncset(), for a syncset it applies.
UpdateForNeighborVictimSyncset(e, victims, dirinfosets) ==
  /\ e # Self
  /\ ReplaceVictims(e, victims, dirinfosets)

\* Mutant: an eviction is not forwarded.
UpdateLocalBeaconedVictimDirinfo_AdmitOnly(k, is_admit, e) ==
  /\ dirs' = [dirs EXCEPT ![k] = IF refcnt[k] > 0 /\ is_admit
                                 THEN @ \cup {e} ELSE @]
  /\ UNCHANGED <<metadata, refcnt, missed>>

\* updateLocalBeaconedVictimDirinfo()
UpdateLocalBeaconedVictimDirinfo(k, is_admit, e) ==
  /\ dirs' = [dirs EXCEPT ![k] = IF refcnt[k] = 0 THEN @
                                 ELSE IF is_admit THEN @ \cup {e}
                                 ELSE @ \ {e}]
  /\ UNCHANGED <<metadata, refcnt, missed>>

\* removeVictimsForGivenEdge(): gives a reference back for every key of the
\* placement's list, also for one that is no victim of the edge any more.
RemoveVictimsForGivenEdge(e, victims) ==
  LET cnt == Released(refcnt, victims) IN
  /\ metadata' = [metadata EXCEPT ![e] = @ \ victims]
  /\ refcnt' = cnt
  /\ dirs' = [k \in Keys |-> IF cnt[k] = 0 THEN {} ELSE dirs[k]]
  /\ missed' = missed \cup (victims \ metadata[e])

-----------------------------------------------------------------------------
(* Properties *)

Trackers(k) == {e \in Edges : k \in metadata[e]}

\* The reference count of a VictimDirinfo is the number of edges with the key
\* among their victims, and never more, so no entry outlives its victims; it
\* can be less only where a placement removed a victim that a syncset or
\* another placement had taken away before (victim_tracker.c:460).
RefcntMatches ==
  \A k \in Keys : /\ refcnt[k] <= Cardinality(Trackers(k))
                  /\ k \notin missed => refcnt[k] = Cardinality(Trackers(k))

\* Every victim has a VictimDirinfo: it is released only when "No edge node is
\* tracking the key as a synced victim" (victim_tracker.c:837).
VictimHasDirinfo == \A k \in Keys : Trackers(k) # {} => refcnt[k] > 0
=============================================================================
