----------------------------- MODULE VictimSync -----------------------------
(* Victim synchronization between DACO edges.  Every control message to a    *)
(* neighbor carries the sender's victims, as a complete syncset or as the    *)
(* difference to the syncset sent before.  VictimsyncMonitor numbers them,   *)
(* caches syncsets that come too early and, when it cannot cache more, asks  *)
(* the neighbor for a complete one.  Messages are lost and reordered.        *)
(*                                                                           *)
(* A syncset is one function from keys to cache infos; its margin bytes and  *)
(* directory sets are compressed and recovered by the same rules.            *)
EXTENDS Naturals, FiniteSets, FiniteSetsExt, Functions, Sequences, TLC

CONSTANTS
  Edges,
  Keys,
  Info,                 \* the cache info of a victim
  Absent,               \* the key is no victim
  NULL,                 \* no previous syncset
  Contents,             \* edge -> the victims it may have when it sends
  MonitoredVictimsetcnt,\* peredge_monitored_victimsetcnt: the cache's limit
  MaxSeqnum,            \* edge -> how many syncsets it sends, a bound
  MaxLost               \* how many syncsets the network loses, a bound

ASSUME MonitoredAssumption == MonitoredVictimsetcnt \in Nat
ASSUME AbsentAssumption == Absent \notin Info
ASSUME NullAssumption == NULL \notin [Keys -> Info \cup {Absent}]
ASSUME ContentsAssumption ==
  Contents \in [Edges -> SUBSET [Keys -> Info \cup {Absent}]]

VARIABLES
  monitor,     \* edge -> neighbor -> VictimsyncMonitor
  view,        \* edge -> neighbor -> its victims in the edge's VictimTracker
  network,     \* the syncsets in flight
  history,     \* edge -> neighbor -> the victims sent, in order; NULL for the
               \* ones older than what the neighbor tracks
  removed,     \* edge -> neighbor -> victims removed from view by placements
  lost

vars == <<monitor, view, network, history, removed, lost>>

Neighbors(e) == Edges \ {e}
Victims == [Keys -> Info \cup {Absent}]
NoVictims == [k \in Keys |-> Absent]

InitMonitor ==
  [cur_seqnum |-> 0, prev |-> NULL,
   is_first |-> TRUE, tracked_seqnum |-> 0, cached |-> {},
   enforcement_seqnum |-> 0, wait |-> FALSE, need_enforcement |-> FALSE]

Init ==
  /\ monitor = [e \in Edges |-> [n \in Neighbors(e) |-> InitMonitor]]
  /\ view = [e \in Edges |-> [n \in Neighbors(e) |-> NoVictims]]
  /\ network = {}
  /\ history = [e \in Edges |-> [n \in Neighbors(e) |-> <<>>]]
  /\ removed = [e \in Edges |-> [n \in Neighbors(e) |-> {}]]
  /\ lost = 0

-----------------------------------------------------------------------------
(* VictimSyncset::compress() and recover() *)

\* A syncset lists victims as entries.  dedup: only the fields that changed,
\* as compress() does for a victim it finds in the previous syncset when that
\* is shorter; otherwise the whole info.  An Absent entry is a stale victim.
Entries(cur, listed, deduped) ==
  [k \in listed |-> [info |-> cur[k], dedup |-> k \in deduped]]

Changed(cur, prev) == {k \in Keys : cur[k] # prev[k]}
Kept(cur, prev) == {k \in Keys : cur[k] # Absent /\ prev[k] # Absent}

\* What compress() can return, by the sizes: the complete syncset, or a
\* compressed one that lists the changed victims or, if its other parts are
\* worth compressing, all of them.
Forms(cur, prev) ==
  {[complete |-> TRUE, victims |-> Entries(cur, Keys, {})]}
  \cup (IF prev = NULL THEN {}
        ELSE {[complete |-> FALSE, victims |-> Entries(cur, Keys, {})]}
             \cup {[complete |-> FALSE,
                    victims |-> Entries(cur, Changed(cur, prev), d)] :
                      d \in SUBSET (Changed(cur, prev) \cap Kept(cur, prev))})

\* recover(): a deduped entry of a victim that placements have removed from
\* the base meanwhile is skipped.
Recover(form, base) ==
  LET listed == form.victims IN
  [k \in Keys |->
     IF k \notin DOMAIN listed \/ (listed[k].dedup /\ base[k] = Absent)
     THEN base[k]
     ELSE listed[k].info]

-----------------------------------------------------------------------------
(* Sender: getLocalVictimSyncsetForSynchronization(), which calls            *)
(* VictimsyncMonitor::replacePrevVictimSyncset()                             *)

SendSyncset(e, n) ==
  LET m == monitor[e][n] IN
  /\ m.cur_seqnum < MaxSeqnum[e]
  /\ \E cur \in Contents[e] :
       \E form \in Forms(cur, m.prev) :
         /\ network' = network \cup
              {[from |-> e, to |-> n, seqnum |-> m.cur_seqnum,
                enforce |-> m.need_enforcement, form |-> form]}
         /\ monitor' = [monitor EXCEPT ![e][n] =
              [m EXCEPT !.cur_seqnum = @ + 1,
                        !.prev = cur,
                        !.need_enforcement = FALSE]]
         /\ history' = [history EXCEPT ![e][n] = Append(@, cur)]
  /\ UNCHANGED <<view, removed, lost>>

-----------------------------------------------------------------------------
(* Receiver: updateForNeighborVictimSyncset(), under the tracker's write     *)
(* lock.  The operators below take and return a VictimsyncMonitor.           *)

\* Mutant: the request for a complete syncset is ignored.
EnforceComplete_Ignored(m, enforce) == m

EnforceComplete(m, enforce) == IF enforce THEN [m EXCEPT !.prev = NULL] ELSE m

CachedSeqnums(m) == {s.seqnum : s \in m.cached}

CachedAt(m, i) == CHOOSE s \in m.cached : s.seqnum = i

\* The last syncset that follows `seqnum' without a gap in the cache.
LastContinuous(m, seqnum) ==
  Max({i \in {seqnum} \cup CachedSeqnums(m) :
         /\ i >= seqnum
         /\ (seqnum + 1) .. i \subseteq CachedSeqnums(m)})

\* Mutant: stale syncsets stay in the cache.
TryToClearEnforcement_KeepStale(m, synced) ==
  LET last == LastContinuous(m, synced)
      answered == m.wait /\ last > m.enforcement_seqnum
  IN [m EXCEPT !.is_first = FALSE,
               !.tracked_seqnum = last,
               !.need_enforcement = @ /\ ~answered,
               !.enforcement_seqnum = IF answered THEN 0 ELSE @,
               !.wait = @ /\ ~answered]

\* clearStaleCachedVictimSyncsets_() and clearContinuousCachedVictimSyncsets_(),
\* then the end of an enforcement that the tracked syncset answers.
TryToClearEnforcement(m, synced) ==
  LET last == LastContinuous(m, synced)
      answered == m.wait /\ last > m.enforcement_seqnum
  IN [m EXCEPT !.is_first = FALSE,
               !.tracked_seqnum = last,
               !.cached = {s \in @ : s.seqnum > last},
               !.need_enforcement = @ /\ ~answered,
               !.enforcement_seqnum = IF answered THEN 0 ELSE @,
               !.wait = @ /\ ~answered]

\* The victims after the cached syncsets that follow `synced' without a gap.
ClearContinuous(m, synced, base) ==
  LET last == LastContinuous(m, synced)
      new[i \in synced .. last] ==
        IF i = synced THEN base
        ELSE Recover(CachedAt(m, i).form, new[i - 1])
  IN new[last]

\* Caches a syncset that cannot be applied yet.  With the cache full it asks
\* for a complete one, once, and drops the syncset.
TryToEnableEnforcement(m, s) ==
  IF Cardinality(m.cached) < MonitoredVictimsetcnt
  THEN [m EXCEPT !.cached = @ \cup {[seqnum |-> s.seqnum, form |-> s.form]}]
  ELSE IF ~m.wait
  THEN [m EXCEPT !.enforcement_seqnum = Max({s.seqnum} \cup CachedSeqnums(m)),
                 !.wait = TRUE,
                 !.need_enforcement = TRUE]
  ELSE m

\* Mutant: an old complete syncset is taken for a new one.
IsOutdated_Never(m, s) == FALSE

IsOutdated(m, s) == ~m.is_first /\ s.seqnum <= m.tracked_seqnum

\* Mutant: a compressed syncset is applied after a gap.
IsApplicable_AfterGap(m, s) ==
  s.form.complete \/ (~m.is_first /\ s.seqnum > m.tracked_seqnum)

\* A complete syncset can always be applied, a compressed one only on top of
\* the syncset sent just before it.
IsApplicable(m, s) ==
  s.form.complete \/ (~m.is_first /\ s.seqnum = m.tracked_seqnum + 1)

ReceiveSyncset(s) ==
  LET e == s.to
      n == s.from
      m == EnforceComplete(monitor[e][n], s.enforce)
  IN
  /\ s \in network
  /\ network' = network \ {s}
  /\ \/ /\ IsOutdated(m, s)
        /\ monitor' = [monitor EXCEPT ![e][n] = m]
        /\ UNCHANGED <<view, removed, history>>
     \/ /\ ~IsOutdated(m, s)
        /\ IsApplicable(m, s)
        /\ LET base == Recover(s.form, view[e][n])
               new == ClearContinuous(m, s.seqnum, base)
           IN /\ view' = [view EXCEPT ![e][n] = new]
              /\ removed' = [removed EXCEPT ![e][n] =
                               {k \in @ : new[k] = Absent}]
        /\ monitor' = [monitor EXCEPT ![e][n] =
                         TryToClearEnforcement(m, s.seqnum)]
        /\ history' = [history EXCEPT ![n][e] =
                         [i \in DOMAIN @ |->
                            IF i > monitor'[e][n].tracked_seqnum
                            THEN @[i] ELSE NULL]]
     \/ /\ ~IsOutdated(m, s)
        /\ ~IsApplicable(m, s)
        /\ monitor' = [monitor EXCEPT ![e][n] = TryToEnableEnforcement(m, s)]
        /\ UNCHANGED <<view, removed, history>>
  /\ UNCHANGED lost

-----------------------------------------------------------------------------
\* removeVictimsForGivenEdge(): a placement decided here evicts a victim of
\* the neighbor, so the tracker forgets it before the neighbor does.
RemoveVictim(e, n, k) ==
  /\ view[e][n][k] # Absent
  /\ view' = [view EXCEPT ![e][n][k] = Absent]
  /\ removed' = [removed EXCEPT ![e][n] = @ \cup {k}]
  /\ UNCHANGED <<monitor, network, history, lost>>

\* The message that carries the syncset is lost, or its sender gives up.
LoseSyncset(s) ==
  /\ s \in network
  /\ lost < MaxLost
  /\ network' = network \ {s}
  /\ lost' = lost + 1
  /\ UNCHANGED <<monitor, view, history, removed>>

Send == \E e \in Edges : \E n \in Neighbors(e) : SendSyncset(e, n)
Receive == \E s \in network : ReceiveSyncset(s)
Remove ==
  \E e \in Edges : \E n \in Neighbors(e), k \in Keys : RemoveVictim(e, n, k)
Lose == \E s \in network : LoseSyncset(s)

Next == Send \/ Receive \/ Remove \/ Lose

Spec == Init /\ [][Next]_vars

-----------------------------------------------------------------------------
(* Properties *)

\* What an edge tracks of a neighbor is what the neighbor sent with the tracked
\* sequence number, except for victims that placements have removed since:
\* applying differences (victim_tracker.c:188-358) never mixes two syncsets,
\* whatever was lost or reordered.
ViewIsSent ==
  \A e \in Edges : \A n \in Neighbors(e) :
    LET m == monitor[e][n] IN
    IF m.is_first THEN view[e][n] = NoVictims
    ELSE /\ m.tracked_seqnum < Len(history[n][e])
         /\ history[n][e][m.tracked_seqnum + 1] # NULL
         /\ \A k \in Keys \ removed[e][n] :
              view[e][n][k] = history[n][e][m.tracked_seqnum + 1][k]

\* The assertions of VictimsyncMonitor: the first complete syncset finds no
\* tracked one (victimsync_monitor.c:75), an enforcement starts only when none
\* is pending (:129), the cache keeps its limit (:279) and holds only
\* compressed syncsets ahead of the tracked one (:314, :318).
MonitorAsserts ==
  \A e \in Edges : \A n \in Neighbors(e) :
    LET m == monitor[e][n] IN
    /\ m.is_first => m.tracked_seqnum = 0
    /\ m.need_enforcement => m.wait
    /\ Cardinality(m.cached) <= MonitoredVictimsetcnt
    /\ \A s \in m.cached :
         /\ ~s.form.complete
         /\ m.is_first \/ s.seqnum > m.tracked_seqnum

\* An edge never replaces a neighbor's victims by older ones: a delayed or
\* overtaken syncset is ignored (victim_tracker.c:246).
NeverGoesBack ==
  [][\A e \in Edges : \A n \in Neighbors(e) :
       /\ monitor'[e][n].tracked_seqnum >= monitor[e][n].tracked_seqnum
       /\ monitor'[e][n].is_first => monitor[e][n].is_first
       /\ view'[e][n] # view[e][n] =>
            \/ monitor'[e][n].tracked_seqnum > monitor[e][n].tracked_seqnum
            \/ monitor'[e][n].is_first # monitor[e][n].is_first
            \/ removed'[e][n] # removed[e][n]]_vars

\* An edge that waits for a complete syncset has its request still to send or
\* under way, or the neighbor will answer or has answered it
\* (victimsync_monitor.h:2: the monitor enforces complete syncsets).
Answered(e, n) ==
  LET m == monitor[e][n] IN
  \/ m.need_enforcement
  \/ \E s \in network : s.from = e /\ s.to = n /\ s.enforce
  \/ monitor[n][e].prev = NULL
  \/ \E s \in network : /\ s.from = n /\ s.to = e
                        /\ s.form.complete
                        /\ s.seqnum > m.enforcement_seqnum

\* No edge waits for a complete syncset that nobody will send: the monitor
\* "enforces the sender edge node to issue complete victim syncsets" when
\* packets are lost or reordered (victimsync_monitor.h:2).
WaitingIsAnswered ==
  \A e \in Edges : \A n \in Neighbors(e) :
    monitor[e][n].wait => Answered(e, n)

\* Reordering alone never leaves a waiting edge without an answer.
WaitingIsAnsweredIfNoneLost == lost = 0 => WaitingIsAnswered
=============================================================================
