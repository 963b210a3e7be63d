--------------------------- MODULE MsiCopyProofs ---------------------------
(***************************************************************************)
(* The copies of the key in MsiProtocol: the directory knows every copy,   *)
(* the copies are invalidated before the value changes, and the directory  *)
(* offers only edges that can serve the key.  Where every edge has one     *)
(* cache server worker, for every set of edges, every beacon and every     *)
(* number of writes.                                                       *)
(*                                                                         *)
(* An edge admits, updates and evicts its copy by one call at a time, so   *)
(* its record at the beacon lags behind its cache by that one call.  The   *)
(* invariant says for each place of the call what the lag can be.          *)
(***************************************************************************)
EXTENDS MsiWakeupProofs

\* The answers to admissions, the calls that report evictions, and the
\* acknowledgements of invalidations.
AdmitAnswers(ms) == {m \in ms : m.type = "admit" /\ m.rsp}
EvictCalls(ms) == {m \in ms : m.type = "evict"}
InvAcks(ms) == {m \in ms : m.type = "inv" /\ m.rsp}

\* The copy of edge e is recorded: it can be absent from the directory only
\* while the edge's own call has not arrived there, and then the cache has none.
\* The evicting worker reports an eviction before it does anything else, the
\* beacon's without a message.
Recorded(e) ==
    /\ \A m \in EvictCalls(net) : m.th[2] = e => evictor[e] = "evict" /\ e # Beacon
    /\ \A m, n \in EvictCalls(net) : m.th[2] = e /\ n.th[2] = e => m = n
    /\ evictor[e] = "evict" => /\ cache[e].st = "absent"
                               /\ worker[e].pc \in EvictPoints
    /\ worker[e].pc \in AdmitPoints => cache[e].st = "absent"
    /\ cache[e].st # "absent" \/ worker[e].pc \in Installs => meta.dir[e] # "none"
    /\ \A m \in AdmitAnswers(net) : m.th = W(e) => meta.dir[e] # "none"

\* Worker e has written with the lock, and its release is not processed yet.
Unreleased(e) == worker[e].pc \in {"written", "release"} /\ Granted(e)

\* The record of edge e is backed by its copy, if no cache operation fails.
Served(e) ==
    /\ meta.dir[e] # "none" => \/ cache[e].st # "absent"
                               \/ worker[e].pc \in AdmitPoints
                               \/ evictor[e] = "evict"
    /\ \A m \in EvictCalls(net) : m.th[2] = e /\ m.rsp => meta.dir[e] = "none"
    /\ worker[e].pc = "installInvalid" => meta.dir[e] = "invalid"
    /\ \A m \in AdmitAnswers(net) :
         m.th = W(e) /\ m.arg = "written" => meta.dir[e] = "invalid"
    /\ Unreleased(e) /\ meta.dir[e] # "none" =>
         cache[e].st = "valid" \/ evictor[e] = "evict"
    /\ meta.dir[e] = "valid" => \/ cache[e].st = "valid"
                                \/ worker[e].pc \in {"admit", "installValid"}
                                \/ evictor[e] = "evict"

\* A thread of the beacon awaits that edge g invalidates its copy, and g has not
\* done so yet.
Doomed(g) ==
    \E k \in Collectors :
      /\ IF k = "server" THEN \E m \in server : m.type = "acquire"
                         ELSE worker[Beacon].pc = "invalidate"
      /\ g \in pending[k]
      /\ \A m \in InvAcks(net) : m.th = BeaconThread(k) => m.dst # g

\* During a write a valid copy is to be invalidated or is newer than the grant.
Guarded ==
    meta.writeflag =>
      \A g \in Edges : cache[g].st = "valid" => g \in fresh \/ Doomed(g)

\* The beacon's worker invalidates copies with the lock, and no thread of the
\* beacon notifies its own edge.
BeaconCollects ==
    /\ worker[Beacon].pc = "invalidate" => worker[Beacon].lock = "success"
    /\ \A k \in Collectors :
         Collecting(k) /\ CollectedCall(k) = "fin" => Beacon \notin pending[k]

CopyInv ==
    /\ WakeInv
    /\ \A e \in Edges : Recorded(e)
    /\ ~MayFail => \A e \in Edges : Served(e)
    /\ Guarded
    /\ BeaconCollects

----------------------------------------------------------------------------
(* What a step leaves alone *)

\* No worker gets the lock back at the end of its write.
Steady ==
    \A f \in Edges :
      worker'[f].pc \in {"written", "release"} /\ Granted(f)' => Granted(f)

\* Edge f gets no answer to an admission and makes no eviction call.
MailStays(f) ==
    /\ \A m \in EvictCalls(net') : m.th[2] = f => m \in EvictCalls(net)
    /\ \A m \in AdmitAnswers(net') : m.th = W(f) => m \in AdmitAnswers(net)

\* The record of edge f stays or becomes invalid.
RecordFades(f) ==
    /\ meta'.dir[f] = "none" <=> meta.dir[f] = "none"
    /\ meta'.dir[f] # meta.dir[f] => meta'.dir[f] = "invalid"

\* What the directory and the cache hold for an edge.
LEMMA EdgeTypes ==
    ASSUME CopyInv, NEW e \in Edges
    PROVE  /\ worker[e] \in WorkerType /\ cache[e] \in CacheType
           /\ evictor[e] \in {"idle", "evict"} /\ meta \in MetaType
           /\ meta.dir[e] \in Dirinfo
           /\ cache[e].st \in {"absent", "valid", "invalid"}
           /\ worker[e].pc \in Labels
BY Zenon DEF CopyInv, WakeInv, LockInv, IInv, TypeOK, MetaType, CacheType, WorkerType

\* An edge whose worker stays keeps its facts when a lock is granted or, unless
\* it has written itself, when its copy is invalidated during a write.
LEMMA EdgeFades ==
    ASSUME CopyInv, Steady, NEW f \in Edges, MailStays(f), RecordFades(f),
           worker'[f] = worker[f], evictor'[f] = evictor[f],
           cache'[f].st = "absent" <=> cache[f].st = "absent",
           cache[f].st = "valid" /\ cache'[f].st # "valid" =>
             meta.dir[f] # "valid" /\ ~Unreleased(f)
    PROVE  Recorded(f)' /\ (~MayFail => Served(f)')
<1>1. Recorded(f) /\ (~MayFail => Served(f))
  BY DEF CopyInv
<1>2. Recorded(f)'
  BY <1>1 DEF Recorded, MailStays, RecordFades
<1>3. Unreleased(f)' => Unreleased(f)
  BY DEF Unreleased, Steady
<1>4. ASSUME ~MayFail
      PROVE  Served(f)'
  <2>1. Served(f)
    BY <1>1, <1>4
  <2>2. meta'.dir[f] # "none" <=> meta.dir[f] # "none"
    BY DEF RecordFades
  <2>3. (meta'.dir[f] # "none" => \/ cache'[f].st # "absent"
                                  \/ worker'[f].pc \in AdmitPoints
                                  \/ evictor'[f] = "evict")
    BY <2>1, <2>2 DEF Served
  <2>4. \A m \in EvictCalls(net') : m.th[2] = f /\ m.rsp => meta'.dir[f] = "none"
    BY <2>1, <2>2 DEF Served, MailStays
  <2>5. meta.dir[f] = "invalid" => meta'.dir[f] = "invalid"
    BY DEF RecordFades
  <2>6. /\ worker'[f].pc = "installInvalid" => meta'.dir[f] = "invalid"
        /\ \A m \in AdmitAnswers(net') :
             m.th = W(f) /\ m.arg = "written" => meta'.dir[f] = "invalid"
    BY <2>1, <2>5 DEF Served, MailStays
  <2>7. Unreleased(f)' /\ meta'.dir[f] # "none" =>
          cache'[f].st = "valid" \/ evictor'[f] = "evict"
    BY <1>3, <2>1, <2>2 DEF Served
  <2>8. meta'.dir[f] = "valid" => \/ cache'[f].st = "valid"
                                  \/ worker'[f].pc \in {"admit", "installValid"}
                                  \/ evictor'[f] = "evict"
    BY <2>1 DEF Served, RecordFades
  <2> QED
    BY <2>3, <2>4, <2>6, <2>7, <2>8 DEF Served
<1> QED
  BY <1>2, <1>4

\* The answer to an admission finds its worker waiting for it.
LEMMA MailWaits ==
    ASSUME WakeInv, NEW e \in Edges
    PROVE  \A m \in AdmitAnswers(net) : m.th = W(e) => worker[e].pc = "admit"
<1>1. Disciplined(e)
  BY DEF WakeInv, LockInv
<1> QED
  BY <1>1 DEF Disciplined, Own, AdmitAnswers, WorkerCalls

\* A worker that is not evicting moves outside an admission, and its copy stays
\* or becomes valid.
LEMMA EdgeMoves ==
    ASSUME CopyInv, WakeInv', Steady, NEW e \in Edges,
           \A m \in EvictCalls(net') : m.th[2] = e => m \in EvictCalls(net),
           RecordFades(e), evictor[e] = "idle", evictor'[e] = "idle",
           worker[e].pc \notin AdmitPoints, worker'[e].pc \notin AdmitPoints,
           cache'[e].st = "absent" <=> cache[e].st = "absent",
           cache[e].st = "valid" => cache'[e].st = "valid",
           Unreleased(e)' => Unreleased(e)
    PROVE  Recorded(e)' /\ (~MayFail => Served(e)')
<1>1. Recorded(e) /\ (~MayFail => Served(e))
  BY DEF CopyInv
<1>2. \A m \in AdmitAnswers(net') : m.th # W(e)
  <2>1. \A m \in AdmitAnswers(net') : m.th = W(e) => worker'[e].pc = "admit"
    <3>1. Disciplined(e)'
      BY DEF WakeInv, LockInv
    <3> QED
      BY <3>1 DEF Disciplined, Own, AdmitAnswers, WorkerCalls
  <2> QED
    BY <2>1 DEF AdmitPoints
<1>3. worker'[e].pc \notin Installs /\ worker'[e].pc # "installInvalid"
  BY DEF AdmitPoints, Installs
<1>4. Recorded(e)'
  BY <1>1, <1>2, <1>3 DEF Recorded, RecordFades
<1>5. ASSUME ~MayFail
      PROVE  Served(e)'
  <2>1. Served(e)
    BY <1>1, <1>5
  <2>2. worker[e].pc \notin {"admit", "installValid"}
    BY DEF AdmitPoints, Installs
  <2> QED
    BY <1>2, <1>3, <2>1, <2>2 DEF Served, RecordFades
<1> QED
  BY <1>4, <1>5

\* Copies that become valid count as fresh, and the invalidations that are under
\* way go on.
LEMMA GuardStays ==
    ASSUME CopyInv, meta'.writeflag => meta.writeflag, fresh \subseteq fresh',
           \A g \in Edges : cache'[g].st = "valid" =>
                              cache[g].st = "valid" \/ g \in fresh',
           pending' = pending, server' = server,
           worker[Beacon].pc = "invalidate" => worker'[Beacon].pc = "invalidate",
           InvAcks(net') \subseteq InvAcks(net)
    PROVE  Guarded'
<1>1. Guarded
  BY DEF CopyInv
<1>2. ASSUME NEW g \in Edges, Doomed(g)
      PROVE  Doomed(g)'
  BY <1>2 DEF Doomed
<1> QED
  BY <1>1, <1>2 DEF Guarded

\* The beacon's worker collects nothing new.
LEMMA CollectsStay ==
    ASSUME CopyInv, pending' = pending, server' = server,
           worker'[Beacon].pc \in CollectPoints => worker'[Beacon] = worker[Beacon]
    PROVE  BeaconCollects'
<1>1. BeaconCollects
  BY DEF CopyInv
<1>2. worker'[Beacon].pc = "invalidate" => worker'[Beacon].lock = "success"
  BY <1>1 DEF BeaconCollects, CollectPoints
<1>3. Collecting("server")' /\ CollectedCall("server")' = "fin" =>
        Beacon \notin pending'["server"]
  BY <1>1 DEF BeaconCollects, Collectors, Collecting, CollectedCall
<1>4. Collecting("worker")' /\ CollectedCall("worker")' = "fin" =>
        Beacon \notin pending'["worker"]
  BY <1>1 DEF BeaconCollects, Collectors, Collecting, CollectedCall, CollectPoints
<1> QED
  BY <1>2, <1>3, <1>4 DEF BeaconCollects, Collectors

\* What a worker sends as it moves to state w is none of the messages above.
LEMMA EnterMail ==
    ASSUME NEW e \in Edges, NEW w, NEW ms, Enter(e, w, ms),
           worker \in [Edges -> WorkerType]
    PROVE  /\ worker'[e] = w
           /\ \A f \in Edges : f # e => worker'[f] = worker[f]
           /\ AdmitAnswers(net') = AdmitAnswers(ms)
           /\ EvictCalls(net') = EvictCalls(ms)
           /\ InvAcks(net') = InvAcks(ms)
<1>1. PICK req : net' = ms \cup req /\ NextCall(e, w, req)
  BY EnterSends, Zenon
<1>2. \A m \in req : ~m.rsp /\ m.type \in WorkerCalls \cup {"put"}
  BY <1>1 DEF NextCall
<1>3. /\ worker'[e] = w
      /\ \A f \in Edges : f # e => worker'[f] = worker[f]
  BY DEF Enter
<1>4. AdmitAnswers(net') = AdmitAnswers(ms)
  BY <1>1, <1>2 DEF AdmitAnswers
<1>5. EvictCalls(net') = EvictCalls(ms)
  BY <1>1, <1>2 DEF EvictCalls, WorkerCalls
<1>6. InvAcks(net') = InvAcks(ms)
  BY <1>1, <1>2 DEF InvAcks
<1> QED
  BY <1>3, <1>4, <1>5, <1>6

\* The messages ms are some of those in flight, or others than the above.
MailWithin(ms) ==
    /\ AdmitAnswers(ms) \subseteq AdmitAnswers(net)
    /\ EvictCalls(ms) \subseteq EvictCalls(net)
    /\ InvAcks(ms) \subseteq InvAcks(net)

\* The other edges see nothing of a worker's step at its own copy and record.
LEMMA OthersStay ==
    ASSUME CopyInv, Steady, NEW e \in Edges, NEW w, NEW ms, Enter(e, w, ms),
           MailWithin(ms),
           \A f \in Edges : f # e => /\ cache'[f] = cache[f] /\ RecordFades(f)
                                     /\ evictor'[f] = evictor[f]
    PROVE  \A f \in Edges : f # e => Recorded(f)' /\ (~MayFail => Served(f)')
<1> SUFFICES ASSUME NEW f \in Edges, f # e
             PROVE  Recorded(f)' /\ (~MayFail => Served(f)')
  OBVIOUS
<1>1. worker \in [Edges -> WorkerType]
  BY Zenon DEF CopyInv, WakeInv, LockInv, IInv, TypeOK
<1>2. /\ worker'[f] = worker[f]
      /\ AdmitAnswers(net') = AdmitAnswers(ms)
      /\ EvictCalls(net') = EvictCalls(ms)
  BY <1>1, EnterMail
<1>3. MailStays(f)
  BY <1>2 DEF MailStays, MailWithin
<1> QED
  BY <1>2, <1>3, EdgeFades

\* The steps of a worker that concern neither an admission nor a collection: its
\* copy stays, or becomes valid and fresh.
LEMMA WorkerCopies ==
    ASSUME CopyInv, WakeInv', Steady, NEW e \in Edges, NEW w, NEW ms, Enter(e, w, ms),
           MailWithin(ms), UNCHANGED <<meta, evictor, server, pending>>,
           evictor[e] = "idle",
           worker[e].pc \notin AdmitPoints \cup CollectPoints,
           w.pc \notin AdmitPoints \cup CollectPoints \cup {"written"},
           w.pc = "release" => worker[e].pc = "written" /\ worker[e].lock = "success",
           \A f \in Edges : f # e => cache'[f] = cache[f],
           cache'[e].st = "absent" <=> cache[e].st = "absent",
           cache[e].st = "valid" => cache'[e].st = "valid",
           cache'[e].st = "valid" => cache[e].st = "valid" \/ e \in fresh',
           fresh \subseteq fresh'
    PROVE  CopyInv'
<1>0. worker \in [Edges -> WorkerType]
  BY Zenon DEF CopyInv, WakeInv, LockInv, IInv, TypeOK
<1>1. /\ worker'[e] = w
      /\ \A f \in Edges : f # e => worker'[f] = worker[f]
      /\ EvictCalls(net') = EvictCalls(ms)
      /\ InvAcks(net') = InvAcks(ms)
  BY <1>0, EnterMail
<1>2. \A f \in Edges : RecordFades(f)
  BY DEF RecordFades
<1>3. \A f \in Edges : f # e => Recorded(f)' /\ (~MayFail => Served(f)')
  BY <1>2, OthersStay
<1>4. Unreleased(e)' => Unreleased(e)
  BY <1>1 DEF Unreleased, Steady
<1>5. Recorded(e)' /\ (~MayFail => Served(e)')
  BY <1>1, <1>2, <1>4, EdgeMoves DEF MailWithin
<1>6. Guarded'
  BY <1>1, BeaconAssumption, GuardStays DEF MailWithin, CollectPoints
<1>7. BeaconCollects'
  BY <1>1, BeaconAssumption, CollectsStay
<1> QED
  BY <1>3, <1>5, <1>6, <1>7 DEF CopyInv

----------------------------------------------------------------------------
(* The steps of the workers *)

\* A single worker evicts only where it makes room, and waits for the end of an
\* eviction there.
LEMMA NotEvicting ==
    ASSUME CopyInv, MultiWorker = {}, NEW e \in Edges,
           Free(e) \/ worker[e].pc \notin EvictPoints
    PROVE  evictor[e] = "idle"
<1>1. evictor[e] \in {"idle", "evict"} /\ Recorded(e)
  BY EdgeTypes DEF CopyInv
<1> QED
  BY <1>1 DEF Recorded, Free

\* Messages that are in flight are within.
LEMMA SomeWithin ==
    ASSUME NEW ms, ms \subseteq net
    PROVE  MailWithin(ms)
BY DEF MailWithin, AdmitAnswers, EvictCalls, InvAcks

\* So are those that are left after a worker received a message.
LEMMA Within ==
    ASSUME TRUE
    PROVE  MailWithin(net) /\ \A m : MailWithin(net \ {m})
BY Fewer, SomeWithin

\* The client steps and the reading steps.
LEMMA ReadCopies ==
    ASSUME CopyInv, WakeInv', Steady, MultiWorker = {}, NEW e \in Edges, Client(e) \/ Read(e)
    PROVE  CopyInv'
<1>0. worker[e] \in WorkerType
  BY EdgeTypes
<1>b. UNCHANGED <<meta, evictor, server, pending>>
  BY Zenon DEF Client, Read, Get, Put, LookupLocalDirectory,
     LookupBeaconDirectory, ProcessRedirectedGetRequest, RedirectGetToTarget,
     FetchDataFromCloud, TryToUpdateInvalidLocalEdgeCache
<1>d. /\ worker[e].pc \in {"idle", "lookup", "redirect", "missed", "cloudget",
                          "fetched"}
      /\ worker[e].pc = "idle" => Free(e)
  BY Zenon DEF Client, Read, Get, Put, LookupLocalDirectory,
     LookupBeaconDirectory, ProcessRedirectedGetRequest, RedirectGetToTarget,
     FetchDataFromCloud, TryToUpdateInvalidLocalEdgeCache
<1>p. PICK w, ms : Enter(e, w, ms) /\ ms \subseteq net /\ w.pc \in PlainLabels
  BY <1>0, ReadEnters
<1>1. Enter(e, w, ms) /\ MailWithin(ms) /\ w.pc \in PlainLabels
  BY <1>p, SomeWithin
<1>2. /\ \A f \in Edges : f # e => cache'[f] = cache[f]
      /\ cache'[e].st = "absent" <=> cache[e].st = "absent"
      /\ cache[e].st = "valid" => cache'[e].st = "valid"
      /\ cache'[e].st = "valid" => cache[e].st = "valid" \/ e \in fresh'
      /\ fresh \subseteq fresh'
  <2>0. cache \in [Edges -> CacheType]
    BY Zenon DEF CopyInv, WakeInv, LockInv, IInv, TypeOK
  <2>1. CASE TryToUpdateInvalidLocalEdgeCache(e)
    BY <2>0, <2>1 DEF TryToUpdateInvalidLocalEdgeCache
  <2>2. CASE ~TryToUpdateInvalidLocalEdgeCache(e)
    <3>1. UNCHANGED <<cache, fresh>>
      BY <2>2, Zenon DEF Client, Read, Get, Put, LookupLocalDirectory,
         LookupBeaconDirectory, ProcessRedirectedGetRequest, RedirectGetToTarget,
         FetchDataFromCloud
    <3> QED
      BY <3>1
  <2> QED
    BY <2>1, <2>2
<1>3. evictor[e] = "idle"
  BY <1>d, NotEvicting DEF EvictPoints
<1>4. /\ worker[e].pc \notin AdmitPoints \cup CollectPoints
      /\ w.pc \notin AdmitPoints \cup CollectPoints \cup {"written", "release"}
  BY <1>d, <1>1 DEF AdmitPoints, Installs, CollectPoints, PlainLabels
<1> QED
  BY <1>b, <1>1, <1>2, <1>3, <1>4, WorkerCopies

\* The steps of a worker outside a collection, given what it does to its edge.
LEMMA WorkerEdge ==
    ASSUME CopyInv, WakeInv', Steady, NEW e \in Edges, NEW w, NEW ms, Enter(e, w, ms),
           MailWithin(ms), UNCHANGED <<evictor, server, pending>>,
           meta'.writeflag => meta.writeflag,
           \A f \in Edges : f # e => cache'[f] = cache[f] /\ RecordFades(f),
           worker[e].pc \notin CollectPoints, w.pc \notin CollectPoints,
           cache'[e].st = "valid" => cache[e].st = "valid" \/ e \in fresh',
           fresh \subseteq fresh',
           Recorded(e)', ~MayFail => Served(e)'
    PROVE  CopyInv'
<1>0. worker \in [Edges -> WorkerType]
  BY Zenon DEF CopyInv, WakeInv, LockInv, IInv, TypeOK
<1>1. /\ worker'[e] = w
      /\ \A f \in Edges : f # e => worker'[f] = worker[f]
      /\ InvAcks(net') = InvAcks(ms)
  BY <1>0, EnterMail, Zenon
<1>2. \A f \in Edges : f # e => Recorded(f)' /\ (~MayFail => Served(f)')
  BY OthersStay, Zenon
<1>3. Guarded'
  BY <1>1, BeaconAssumption, GuardStays, Zenon DEF MailWithin, CollectPoints
<1>4. BeaconCollects'
  BY <1>1, BeaconAssumption, CollectsStay
<1> QED
  BY <1>2, <1>3, <1>4 DEF CopyInv

\* An edge that is not evicting has no eviction call under way, and an answer to
\* an admission only as long as its worker waits for it.
LEMMA EdgeMail ==
    ASSUME CopyInv, WakeInv', Steady, NEW e \in Edges, NEW w, NEW ms, Enter(e, w, ms),
           MailWithin(ms), evictor[e] = "idle"
    PROVE  /\ worker'[e] = w
           /\ \A m \in EvictCalls(net') : m.th[2] # e
           /\ \A m \in AdmitAnswers(net') : m \in AdmitAnswers(ms)
           /\ \A m \in AdmitAnswers(net') : m.th = W(e) => w.pc = "admit"
<1>0. worker \in [Edges -> WorkerType] /\ Recorded(e)
  BY Zenon DEF CopyInv, WakeInv, LockInv, IInv, TypeOK
<1>1. /\ worker'[e] = w
      /\ EvictCalls(net') = EvictCalls(ms)
      /\ AdmitAnswers(net') = AdmitAnswers(ms)
  BY <1>0, EnterMail
<1>2. \A m \in EvictCalls(net') : m.th[2] # e
  BY <1>0, <1>1 DEF Recorded, MailWithin
<1>3. \A m \in AdmitAnswers(net') : m.th = W(e) => worker'[e].pc = "admit"
  <2>1. Disciplined(e)'
    BY DEF WakeInv, LockInv
  <2> QED
    BY <2>1 DEF Disciplined, Own, AdmitAnswers, WorkerCalls
<1> QED
  BY <1>1, <1>2, <1>3

\* The admission steps.
LEMMA AdmitCopies ==
    ASSUME CopyInv, WakeInv', Steady, MultiWorker = {}, NEW e \in Edges, Admit(e)
    PROVE  CopyInv'
<1>0. /\ worker[e] \in WorkerType /\ meta \in MetaType /\ meta.dir[e] \in Dirinfo
      /\ cache[e].st \in {"absent", "valid", "invalid"}
  BY EdgeTypes
<1>a. \A l : [worker[e] EXCEPT !.pc = l].pc = l
  BY <1>0 DEF WorkerType
<1>b. UNCHANGED <<evictor, server, pending>>
  BY Zenon DEF Admit, AfterRequest, AdmitLocalDirectory, AdmitBeaconDirectory,
         AdmitLocalEdgeCache
<1>c. Recorded(e) /\ (~MayFail => Served(e)) /\ cache \in [Edges -> CacheType]
  BY Zenon DEF CopyInv, WakeInv, LockInv, IInv, TypeOK
<1>d. worker[e].pc \in AdmitPoints \cup {"decide"} /\ evictor[e] = "idle"
  <2>1. worker[e].pc = "decide" => Free(e)
    BY DEF Admit, AfterRequest, AdmitLocalDirectory, AdmitBeaconDirectory,
           AdmitLocalEdgeCache
  <2>2. worker[e].pc \in AdmitPoints \cup {"decide"}
    BY Zenon DEF Admit, AfterRequest, AdmitLocalDirectory, AdmitBeaconDirectory,
           AdmitLocalEdgeCache, AdmitPoints, Installs
  <2> QED
    BY <2>1, <2>2, NotEvicting, Zenon DEF EvictPoints, AdmitPoints, Installs
<1>e. worker[e].pc \notin CollectPoints
  BY <1>d DEF AdmitPoints, Installs, CollectPoints
<1>1. CASE AfterRequest(e)
  <2>1. worker[e].pc = "decide" /\ UNCHANGED <<meta, cache, fresh>>
    BY <1>1 DEF AfterRequest
  <2>2. CASE Enter(e, IdleWorker(e), net)
    <3>1. IdleWorker(e).pc = "idle"
      BY DEF IdleWorker
    <3>2. IdleWorker(e).pc \notin AdmitPoints \cup CollectPoints \cup
                                    {"written", "release"}
      BY <3>1 DEF AdmitPoints, Installs, CollectPoints
    <3>3. worker[e].pc \notin AdmitPoints \cup CollectPoints
      BY <2>1 DEF AdmitPoints, Installs, CollectPoints
    <3> QED
      BY <1>b, <1>d, <2>1, <2>2, <3>2, <3>3, Within, WorkerCopies, Zenon
  <2>3. CASE cache[e].st = "absent" /\ Jump(e, "admit", net)
    <3> DEFINE w == [worker[e] EXCEPT !.pc = "admit"]
    <3>1. Enter(e, w, net) /\ w.pc = "admit"
      BY <1>a, <2>3 DEF Jump
    <3> HIDE DEF w
    <3>2. /\ worker'[e] = w
          /\ \A m \in EvictCalls(net') : m.th[2] # e
          /\ \A m \in AdmitAnswers(net') : m \in AdmitAnswers(net)
      BY <1>d, <3>1, Within, EdgeMail, Zenon
    <3>3. \A m \in AdmitAnswers(net) : m.th # W(e)
      BY <2>1, MailWaits DEF CopyInv
    <3>4. Recorded(e)'
      BY <1>b, <1>d, <2>1, <2>3, <3>1, <3>2, <3>3, Zenon DEF Recorded, Installs
    <3>5. ~MayFail => Served(e)'
      BY <1>b, <2>1, <3>1, <3>2, <3>3 DEF Served, Unreleased, AdmitPoints
    <3>6. \A f \in Edges : RecordFades(f)
      BY <2>1 DEF RecordFades
    <3> QED
      BY <1>b, <1>e, <2>1, <3>1, <3>4, <3>5, <3>6, Within, WorkerEdge, Zenon
         DEF CollectPoints
  <2> QED
    BY <1>1, <2>2, <2>3, Zenon DEF AfterRequest
<1>2. CASE AdmitLocalDirectory(e)
  <2> DEFINE l == IF meta.writeflag THEN "installInvalid" ELSE "installValid"
             w == [worker[e] EXCEPT !.pc = l]
  <2>1. /\ worker[e].pc = "admit" /\ UNCHANGED <<cache, fresh>>
        /\ meta' = updateDirectoryTable(meta, e, TRUE)
        /\ Enter(e, w, net)
    BY <1>2 DEF AdmitLocalDirectory, Jump
  <2>2. /\ meta'.writeflag = meta.writeflag
        /\ meta'.dir[e] = IF meta.writeflag THEN "invalid" ELSE "valid"
        /\ \A f \in Edges : f # e => meta'.dir[f] = meta.dir[f]
    BY <1>0, <2>1 DEF updateDirectoryTable, MetaType
  <2>3. w.pc = l
    BY <1>a
  <2>4. l \in Installs /\ l # "admit" /\ l \notin CollectPoints
    BY DEF Installs, CollectPoints
  <2> HIDE DEF w
  <2>5. /\ worker'[e] = w
        /\ \A m \in EvictCalls(net') : m.th[2] # e
        /\ \A m \in AdmitAnswers(net') : m.th # W(e)
    BY <1>d, <2>1, <2>3, <2>4, Within, EdgeMail, Zenon
  <2>6. Recorded(e)'
    BY <1>b, <1>c, <1>d, <2>1, <2>2, <2>3, <2>5, Zenon DEF Recorded, AdmitPoints
  <2>7. ~MayFail => Served(e)'
    BY <1>b, <2>1, <2>2, <2>3, <2>4, <2>5, Zenon
       DEF Served, Unreleased, AdmitPoints, Installs
  <2>8. \A f \in Edges : f # e => RecordFades(f)
    BY <2>2 DEF RecordFades
  <2> QED
    BY <1>b, <1>e, <2>1, <2>2, <2>3, <2>4, <2>6, <2>7, <2>8, Within, WorkerEdge, Zenon
<1>3. CASE AdmitBeaconDirectory(e)
  <2>1. PICK m \in Responses(W(e), "admit") :
          Jump(e, IF m.arg = "written" THEN "installInvalid" ELSE "installValid",
               net \ {m})
    BY <1>3, Zenon DEF AdmitBeaconDirectory
  <2> DEFINE l == IF m.arg = "written" THEN "installInvalid" ELSE "installValid"
             w == [worker[e] EXCEPT !.pc = l]
  <2>2. worker[e].pc = "admit" /\ UNCHANGED <<meta, cache, fresh>>
    BY <1>3 DEF AdmitBeaconDirectory
  <2>3. Enter(e, w, net \ {m})
    BY <2>1 DEF Jump
  <2>4. w.pc = l
    BY <1>a
  <2>5. l \in Installs /\ l # "admit" /\ l \notin CollectPoints
    BY DEF Installs, CollectPoints
  <2>6. m \in AdmitAnswers(net) /\ m.th = W(e)
    BY DEF Responses, AdmitAnswers
  <2> HIDE DEF w
  <2>7. /\ worker'[e] = w
        /\ \A n \in EvictCalls(net') : n.th[2] # e
        /\ \A n \in AdmitAnswers(net') : n.th # W(e)
    BY <1>d, <2>3, <2>4, <2>5, Within, EdgeMail
  <2>8. Recorded(e)'
    BY <1>b, <1>c, <1>d, <2>2, <2>4, <2>6, <2>7, Zenon DEF Recorded, AdmitPoints
  <2>9. ASSUME ~MayFail
        PROVE  Served(e)'
    <3>1. Served(e)
      BY <1>c, <2>9
    <3>2. m.arg = "written" => meta.dir[e] = "invalid"
      BY <2>6, <3>1, Zenon DEF Served
    <3> QED
      BY <2>2, <2>4, <2>5, <2>7, <3>2, Zenon DEF Served, Unreleased, AdmitPoints, Installs
  <2>10. \A f \in Edges : RecordFades(f)
    BY <2>2 DEF RecordFades
  <2> QED
    BY <1>b, <1>e, <2>2, <2>3, <2>4, <2>5, <2>8, <2>9, <2>10, Within, WorkerEdge, Zenon
<1>4. CASE AdmitLocalEdgeCache(e)
  <2> DEFINE w == IdleWorker(e)
  <2>1. /\ worker[e].pc \in Installs /\ meta' = meta /\ Enter(e, w, net)
        /\ \/ LET valid == worker[e].pc = "installValid"
              IN  /\ cache' = [cache EXCEPT ![e] =
                                 [st |-> IF valid THEN "valid" ELSE "invalid",
                                  val |-> worker[e].val]]
                  /\ fresh' = IF valid THEN fresh \cup {e} ELSE fresh
           \/ MayFail /\ UNCHANGED <<cache, fresh>>
    BY <1>4 DEF AdmitLocalEdgeCache, Installs
  <2>2. w.pc = "idle"
    BY Zenon DEF IdleWorker
  <2> HIDE DEF w
  <2>3. /\ \A f \in Edges : f # e => cache'[f] = cache[f]
        /\ cache'[e].st = "valid" => cache[e].st = "valid" \/ e \in fresh'
        /\ fresh \subseteq fresh'
        /\ ~MayFail => cache'[e].st = IF worker[e].pc = "installValid"
                                      THEN "valid" ELSE "invalid"
    BY <1>c, <2>1
  <2>4. /\ worker'[e] = w
        /\ \A n \in EvictCalls(net') : n.th[2] # e
        /\ \A n \in AdmitAnswers(net') : n.th # W(e)
    BY <1>d, <2>1, <2>2, Within, EdgeMail, Zenon
  <2>5. Recorded(e)'
    BY <1>b, <1>c, <1>d, <2>1, <2>2, <2>4, Zenon DEF Recorded, AdmitPoints, Installs
  <2>6. ASSUME ~MayFail
        PROVE  Served(e)'
    <3>1. Served(e)
      BY <1>c, <2>6
    <3>2. meta.dir[e] = "valid" => worker[e].pc = "installValid"
      BY <2>1, <3>1, Zenon DEF Served, Installs
    <3>3. /\ cache'[e].st # "absent"
          /\ worker[e].pc = "installValid" => cache'[e].st = "valid"
      BY <2>3, <2>6, Zenon
    <3> QED
      BY <2>1, <2>2, <2>4, <3>2, <3>3, Zenon DEF Served, Unreleased
  <2>7. \A f \in Edges : RecordFades(f)
    BY <2>1 DEF RecordFades
  <2> QED
    BY <1>b, <1>e, <2>1, <2>2, <2>3, <2>5, <2>6, <2>7, Within, WorkerEdge, ZenonT(30)
       DEF CollectPoints
<1> QED
  BY <1>1, <1>2, <1>3, <1>4 DEF Admit

----------------------------------------------------------------------------
(* Grants and releases of the lock *)

\* The calls to the edges are none of the messages above.
LEMMA RoundMail ==
    ASSUME NEW k, NEW type \in {"inv", "fin"}, NEW dsts, NEW ms,
           CallEdges(k, type, dsts, ms)
    PROVE  /\ pending' = [pending EXCEPT ![k] = dsts]
           /\ AdmitAnswers(net') = AdmitAnswers(ms)
           /\ EvictCalls(net') = EvictCalls(ms)
           /\ InvAcks(net') = InvAcks(ms)
<1>1. PICK req : net' = ms \cup req /\ RoundCall(k, type, dsts, req)
  BY RoundSends, Zenon
<1>2. \A m \in req : m.type \in {"inv", "fin"} /\ ~m.rsp
  BY <1>1 DEF RoundCall
<1>3. pending' = [pending EXCEPT ![k] = dsts]
  BY DEF CallEdges
<1>4. AdmitAnswers(net') = AdmitAnswers(ms)
  BY <1>1, <1>2 DEF AdmitAnswers
<1>5. EvictCalls(net') = EvictCalls(ms)
  BY <1>1, <1>2 DEF EvictCalls
<1>6. InvAcks(net') = InvAcks(ms)
  BY <1>1, <1>2 DEF InvAcks
<1> QED
  BY <1>3, <1>4, <1>5, <1>6

\* A grant calls every edge with a copy, and the records fade.
LEMMA GrantGuards ==
    ASSUME CopyInv, NEW k \in Collectors, NEW ms, MailWithin(ms), ~Collecting(k),
           CallEdges(k, "inv", dirinfos(meta), ms), cache' = cache,
           meta' = setWriteflag(meta),
           IF k = "server" THEN \E m \in server' : m.type = "acquire"
                           ELSE worker'[Beacon].pc = "invalidate"
    PROVE  /\ Guarded' /\ \A f \in Edges : RecordFades(f)
           /\ \A f \in Edges : MailStays(f)
           /\ \A j \in Collectors : j # k => pending'[j] = pending[j]
<1>0. /\ pending \in [Collectors -> SUBSET Edges] /\ meta \in MetaType
      /\ cache \in [Edges -> CacheType]
  BY Zenon DEF CopyInv, WakeInv, LockInv, IInv, TypeOK, Collectors
<1>1. /\ pending' = [pending EXCEPT ![k] = dirinfos(meta)]
      /\ AdmitAnswers(net') = AdmitAnswers(ms)
      /\ EvictCalls(net') = EvictCalls(ms)
      /\ InvAcks(net') = InvAcks(ms)
  BY RoundMail, Zenon
<1>2. \A f \in Edges : MailStays(f)
  BY <1>1 DEF MailStays, MailWithin
<1>3. \A f \in Edges : RecordFades(f)
  BY <1>0 DEF RecordFades, setWriteflag, invalidateAllDirinfo, MetaType
<1>4. \A m \in InvAcks(net') : m.th # BeaconThread(k)
  <2>1. \A m \in InvAcks(net') : m \in net /\ m.type = "inv"
    BY <1>1, Zenon DEF MailWithin, InvAcks
  <2>2. Collected(k)
    BY DEF CopyInv, WakeInv
  <2> QED
    BY <2>1, <2>2 DEF Collected, Acks, Rounds
<1>5. ASSUME NEW g \in Edges, cache'[g].st = "valid"
      PROVE  Doomed(g)'
  <2>1. g \in dirinfos(meta)
    BY <1>5, Zenon DEF CopyInv, Recorded, dirinfos
  <2>2. g \in pending'[k]
    BY <1>0, <1>1, <2>1, Zenon
  <2> QED
    BY <1>4, <2>2 DEF Doomed
<1>6. \A j \in Collectors : j # k => pending'[j] = pending[j]
  BY <1>0, <1>1, Zenon
<1> QED
  BY <1>2, <1>3, <1>5, <1>6 DEF Guarded

\* The beacon's own worker takes the lock.
LEMMA AcquireCopies ==
    ASSUME CopyInv, WakeInv', Steady, MultiWorker = {}, NEW e \in Edges,
           AcquireLocalWritelock(e), lockResult(meta) = "success"
    PROVE  CopyInv'
<1>0. /\ worker[e] \in WorkerType /\ worker \in [Edges -> WorkerType]
      /\ e = Beacon /\ worker[e].pc = "acquire"
  BY Zenon DEF CopyInv, WakeInv, LockInv, IInv, TypeOK, AcquireLocalWritelock
<1>1. /\ meta' = setWriteflag(meta)
      /\ worker' = [worker EXCEPT ![e].pc = "invalidate", ![e].lock = "success"]
      /\ CallEdges("worker", "inv", dirinfos(meta), net)
      /\ UNCHANGED <<cache, evictor, server>>
  BY DEF AcquireLocalWritelock, acquireLocalWritelockByCacheServer
<1>2. /\ worker'[e].pc = "invalidate" /\ worker'[e].lock = "success"
      /\ \A f \in Edges : f # e => worker'[f] = worker[f]
  BY <1>0, <1>1 DEF WorkerType
<1>3. "worker" \in Collectors /\ ~Collecting("worker")
  BY <1>0 DEF Collectors, Collecting
<1>4. /\ Guarded' /\ \A f \in Edges : RecordFades(f)
      /\ \A f \in Edges : MailStays(f)
      /\ \A j \in Collectors : j # "worker" => pending'[j] = pending[j]
  BY <1>0, <1>1, <1>2, <1>3, Within, GrantGuards
<1>5. \A f \in Edges : f # e => Recorded(f)' /\ (~MayFail => Served(f)')
  BY <1>1, <1>2, <1>4, EdgeFades, Zenon
<1>6. evictor[e] = "idle"
  BY <1>0, NotEvicting DEF EvictPoints
<1>7. Unreleased(e)' => Unreleased(e)
  BY <1>2 DEF Unreleased
<1>8. worker[e].pc \notin AdmitPoints /\ worker'[e].pc \notin AdmitPoints
  BY <1>0, <1>2 DEF AdmitPoints, Installs
<1>9. Recorded(e)' /\ (~MayFail => Served(e)')
  BY <1>1, <1>4, <1>6, <1>7, <1>8, EdgeMoves, Zenon DEF MailStays
<1>10. BeaconCollects'
  <2>1. BeaconCollects
    BY DEF CopyInv
  <2>2. CollectedCall("worker")' = "inv"
    BY <1>0, <1>2 DEF CollectedCall
  <2>3. /\ Collecting("server")' <=> Collecting("server")
        /\ CollectedCall("server")' = CollectedCall("server")
        /\ pending'["server"] = pending["server"]
    BY <1>1, <1>4 DEF Collecting, CollectedCall, Collectors
  <2> QED
    BY <1>0, <1>2, <2>1, <2>2, <2>3 DEF BeaconCollects, Collectors
<1> QED
  BY <1>4, <1>5, <1>9, <1>10, Zenon DEF CopyInv

\* The release of edge e makes its record valid, which its copy backs.
LEMMA ReleaseEdge ==
    ASSUME CopyInv, NEW e \in Edges, Unreleased(e), MailStays(e),
           meta' = releaseLocalWritelock(meta, e), UNCHANGED <<cache, evictor>>,
           \/ worker'[e].pc = "notify" /\ evictor[e] = "idle"
           \/ worker'[e] = worker[e]
    PROVE  Recorded(e)' /\ (~MayFail => Served(e)')
<1>0. meta \in MetaType /\ Recorded(e) /\ (~MayFail => Served(e))
  BY EdgeTypes DEF CopyInv
<1>1. meta'.dir[e] = IF meta.dir[e] = "none" THEN "none" ELSE "valid"
  BY <1>0 DEF releaseLocalWritelock, validateDirinfo, MetaType
<1>2. worker[e].pc \in {"written", "release"}
  BY DEF Unreleased
<1>3. \A m \in AdmitAnswers(net') : m.th # W(e)
  BY <1>2, MailWaits, Zenon DEF CopyInv, MailStays
<1>4. worker'[e].pc \notin AdmitPoints
  BY <1>2 DEF AdmitPoints, Installs
<1>5. worker'[e].pc \notin Installs /\ worker'[e].pc # "installInvalid"
  BY <1>4 DEF AdmitPoints, Installs
<1>6. Recorded(e)'
  BY <1>0, <1>1, <1>3, <1>4, <1>5, Zenon DEF Recorded, MailStays
<1>7. ASSUME ~MayFail
      PROVE  Served(e)'
  <2>1. Served(e)
    BY <1>0, <1>7
  <2>2. meta.dir[e] # "none" => cache[e].st = "valid" \/ evictor[e] = "evict"
    BY <2>1, Zenon DEF Served
  <2> QED
    BY <1>1, <1>3, <1>5, <2>1, <2>2, Zenon DEF Served, MailStays
<1> QED
  BY <1>6, <1>7

\* The end of a write leaves no copy to guard, and is told to other edges only.
LEMMA ReleaseGuards ==
    ASSUME CopyInv, Steady, NEW e \in Edges, NEW k \in Collectors, NEW ms,
           MailWithin(ms), CallEdges(k, "fin", meta.blocklist, ms),
           meta' = releaseLocalWritelock(meta, e),
           \A f \in Edges : f # e => worker'[f] = worker[f],
           UNCHANGED <<cache, evictor>>
    PROVE  /\ Guarded' /\ Beacon \notin pending'[k]
           /\ \A j \in Collectors : j # k => pending'[j] = pending[j]
           /\ \A f \in Edges : MailStays(f)
           /\ \A f \in Edges : f # e => Recorded(f)' /\ (~MayFail => Served(f)')
<1>0. /\ pending \in [Collectors -> SUBSET Edges] /\ meta \in MetaType
      /\ Beacon \notin meta.blocklist
  BY Zenon DEF CopyInv, WakeInv, LockInv, IInv, TypeOK, Collectors, BeaconConsistent
<1>1. /\ pending' = [pending EXCEPT ![k] = meta.blocklist]
      /\ AdmitAnswers(net') = AdmitAnswers(ms)
      /\ EvictCalls(net') = EvictCalls(ms)
  BY RoundMail, Zenon
<1>2. \A f \in Edges : MailStays(f)
  BY <1>1, Zenon DEF MailStays, MailWithin
<1>3. /\ ~meta'.writeflag
      /\ \A f \in Edges : f # e => meta'.dir[f] = meta.dir[f]
  BY <1>0 DEF releaseLocalWritelock, validateDirinfo, MetaType
<1>4. \A f \in Edges : f # e => Recorded(f)' /\ (~MayFail => Served(f)')
  BY <1>2, <1>3, EdgeFades, Zenon DEF RecordFades
<1>5. Beacon \notin pending'[k] /\ \A j \in Collectors : j # k => pending'[j] = pending[j]
  BY <1>0, <1>1, Zenon
<1> QED
  BY <1>2, <1>3, <1>4, <1>5, Zenon DEF Guarded

\* The beacon's own worker releases the lock.
LEMMA ReleaseCopies ==
    ASSUME CopyInv, WakeInv', Steady, MultiWorker = {}, NEW e \in Edges,
           ReleaseLocalWritelock(e)
    PROVE  CopyInv'
<1>0. worker \in [Edges -> WorkerType] /\ worker[e] \in WorkerType
  BY Zenon DEF CopyInv, WakeInv, LockInv, IInv, TypeOK
<1>1. /\ e = Beacon /\ worker[e].pc = "written" /\ Free(e)
      /\ worker[e].lock = "success" /\ meta' = releaseLocalWritelock(meta, e)
      /\ worker' = [worker EXCEPT ![e].pc = "notify"]
      /\ CallEdges("worker", "fin", meta.blocklist, net)
      /\ UNCHANGED <<cache, evictor, server>>
  BY Zenon DEF ReleaseLocalWritelock
<1>2. /\ worker'[e].pc = "notify"
      /\ \A f \in Edges : f # e => worker'[f] = worker[f]
  BY <1>0, <1>1 DEF WorkerType
<1>3. "worker" \in Collectors
  BY DEF Collectors
<1>4. /\ Guarded' /\ Beacon \notin pending'["worker"]
      /\ \A j \in Collectors : j # "worker" => pending'[j] = pending[j]
      /\ \A f \in Edges : MailStays(f)
      /\ \A f \in Edges : f # e => Recorded(f)' /\ (~MayFail => Served(f)')
  BY <1>1, <1>2, <1>3, Within, ReleaseGuards, Zenon
<1>5. evictor[e] = "idle"
  BY <1>1, NotEvicting
<1>8. Unreleased(e)
  <2>1. Own(e, net) = {} /\ Own(e, server) = {}
    BY <1>1, NoCall DEF CopyInv, WakeInv, Remote
  <2> QED
    BY <1>1, <2>1 DEF Unreleased, Granted, Own, WorkerCalls
<1>6. Recorded(e)' /\ (~MayFail => Served(e)')
  BY <1>1, <1>2, <1>4, <1>5, <1>8, ReleaseEdge, Zenon
<1>7. BeaconCollects'
  <2>1. BeaconCollects
    BY DEF CopyInv
  <2>2. /\ Collecting("server")' <=> Collecting("server")
        /\ CollectedCall("server")' = CollectedCall("server")
        /\ pending'["server"] = pending["server"]
    BY <1>1, <1>4, Zenon DEF Collecting, CollectedCall, Collectors
  <2> QED
    BY <1>1, <1>2, <1>4, <2>1, <2>2 DEF BeaconCollects, Collectors
<1> QED
  BY <1>4, <1>6, <1>7, Zenon DEF CopyInv

\* The update of the copy after the write.
LEMMA UpdateCopies ==
    ASSUME CopyInv, WakeInv', Steady, MultiWorker = {}, NEW e \in Edges,
           UpdateLocalEdgeCache(e)
    PROVE  CopyInv'
<1>0. /\ worker[e] \in WorkerType /\ meta.dir[e] \in Dirinfo
      /\ cache[e].st \in {"absent", "valid", "invalid"}
      /\ cache[e] \in CacheType
  BY EdgeTypes
<1>1. Recorded(e) /\ (~MayFail => Served(e)) /\ cache \in [Edges -> CacheType]
  BY Zenon DEF CopyInv, WakeInv, LockInv, IInv, TypeOK
<1> DEFINE w == [worker[e] EXCEPT !.pc = "written"]
<1>2. /\ worker[e].pc = "update" /\ UNCHANGED <<meta, evictor, server, pending>>
      /\ Enter(e, w, net)
  BY DEF UpdateLocalEdgeCache, Jump
<1>3. w.pc = "written"
  BY <1>0 DEF WorkerType
<1> HIDE DEF w
<1>4. evictor[e] = "idle"
  BY <1>2, NotEvicting, Zenon DEF EvictPoints
<1>5. /\ worker'[e] = w
      /\ \A m \in EvictCalls(net') : m.th[2] # e
      /\ \A m \in AdmitAnswers(net') : m.th # W(e)
  BY <1>2, <1>3, <1>4, Within, EdgeMail, Zenon
<1>6. /\ \A f \in Edges : f # e => cache'[f] = cache[f]
      /\ cache'[e].st = "absent" <=> cache[e].st = "absent"
      /\ ~MayFail => cache'[e].st \in {"absent", "valid"}
      /\ cache'[e].st = "valid" => cache[e].st = "valid" \/ e \in fresh'
      /\ fresh \subseteq fresh'
  <2>1. [cache[e] EXCEPT !.st = "invalid"].st = "invalid"
    BY <1>0 DEF CacheType
  <2>2. CASE cache[e].st # "absent" /\ fresh' = fresh \cup {e}
               /\ cache' = [cache EXCEPT ![e] = [st |-> "valid",
                                                 val |-> worker[e].val]]
    BY <1>1, <2>2
  <2>3. CASE cache[e].st # "absent" /\ MayFail /\ fresh' = fresh
               /\ cache' = [cache EXCEPT ![e].st = "invalid"]
    <3>1. cache'[e].st = "invalid" /\ \A f \in Edges : f # e => cache'[f] = cache[f]
      BY <1>1, <2>1, <2>3
    <3> QED
      BY <2>3, <3>1
  <2>4. CASE cache[e].st = "absent" /\ UNCHANGED <<cache, fresh>>
    BY <2>4
  <2> QED
    BY <2>2, <2>3, <2>4 DEF UpdateLocalEdgeCache
<1>7. w.pc \notin AdmitPoints /\ w.pc \notin Installs /\ worker[e].pc \notin AdmitPoints
  BY <1>2, <1>3, Zenon DEF AdmitPoints, Installs
<1>8. Recorded(e)'
  BY <1>1, <1>2, <1>4, <1>5, <1>6, <1>7, Zenon DEF Recorded
<1>9. ASSUME ~MayFail
      PROVE  Served(e)'
  <2>1. meta.dir[e] # "none" => cache'[e].st = "valid"
    BY <1>1, <1>2, <1>4, <1>6, <1>7, <1>9, Zenon DEF Served
  <2>2. "none" # "valid" /\ w.pc # "installInvalid"
    BY <1>3
  <2> QED
    BY <1>2, <1>5, <2>1, <2>2, ZenonT(30) DEF Served
<1>10. \A f \in Edges : RecordFades(f)
  BY <1>2 DEF RecordFades
<1> QED
  BY <1>2, <1>3, <1>6, <1>8, <1>9, <1>10, Within, WorkerEdge, Zenon DEF CollectPoints

\* An answer to a call of another kind is within.
LEMMA ReplyWithin ==
    ASSUME CopyInv, NEW m \in net, NEW arg, m.type \notin {"admit", "evict", "inv"}
    PROVE  MailWithin((net \ {m}) \cup {Reply(m, arg)})
<1>1. m \in MessageType
  BY Zenon DEF CopyInv, WakeInv, LockInv, IInv, TypeOK
<1>2. Reply(m, arg).type = m.type /\ Reply(m, arg).rsp
  BY <1>1 DEF Reply, MessageType, Messages
<1> QED
  BY <1>2 DEF MailWithin, AdmitAnswers, EvictCalls, InvAcks

\* The writing steps.
LEMMA WriteCopies ==
    ASSUME CopyInv, WakeInv', Steady, MultiWorker = {}, NEW e \in Edges, Write(e)
    PROVE  CopyInv'
<1>0. worker[e] \in WorkerType
  BY EdgeTypes
<1>a. \A l : [worker[e] EXCEPT !.pc = l].pc = l
  BY <1>0 DEF WorkerType
<1>b. \A l : [worker[e] EXCEPT !.pc = "put", !.lock = l].pc = "put"
  BY <1>0 DEF WorkerType
<1>1. CASE AcquireLocalWritelock(e) /\ lockResult(meta) = "success"
  BY <1>1, AcquireCopies
<1>2. CASE ReleaseLocalWritelock(e)
  BY <1>2, ReleaseCopies
<1>3. CASE UpdateLocalEdgeCache(e)
  BY <1>3, UpdateCopies, Zenon
<1>4. ASSUME UNCHANGED <<meta, cache, evictor, server, pending, fresh>>,
             NEW w, NEW ms, Enter(e, w, ms), MailWithin(ms),
             worker[e].pc \in {"acquire", "blocked", "put", "written", "release"},
             worker[e].pc = "written" => Free(e),
             w.pc \in {"put", "blocked", "lookup", "acquire", "update", "decide",
                       "release"},
             w.pc = "release" => worker[e].pc = "written" /\ worker[e].lock = "success"
      PROVE  CopyInv'
  <2>1. evictor[e] = "idle"
    BY <1>4, NotEvicting, Zenon DEF EvictPoints
  <2>2. /\ worker[e].pc \notin AdmitPoints \cup CollectPoints
        /\ w.pc \notin AdmitPoints \cup CollectPoints \cup {"written"}
    BY <1>4 DEF AdmitPoints, Installs, CollectPoints
  <2> QED
    BY <1>4, <2>1, <2>2, WorkerCopies, Zenon
<1>5. CASE AcquireLocalWritelock(e) /\ lockResult(meta) # "success"
  <2>1. /\ worker[e].pc = "acquire" /\ meta' = meta
        /\ Enter(e, [worker[e] EXCEPT !.pc = "put", !.lock = "noneed"], net)
        /\ UNCHANGED <<cache, evictor, server, pending, fresh>>
    BY <1>5 DEF AcquireLocalWritelock, acquireLocalWritelockByCacheServer
  <2> QED
    BY <1>b, <1>4, <2>1, Within, Zenon
<1>6. CASE AcquireBeaconWritelock(e)
  <2>1. /\ worker[e].pc = "acquire"
        /\ UNCHANGED <<meta, cache, evictor, server, pending, fresh>>
    BY <1>6 DEF AcquireBeaconWritelock
  <2>2. PICK m \in Responses(W(e), "acquire") :
          IF m.arg = "failure" THEN Jump(e, "blocked", net \ {m})
          ELSE Enter(e, [worker[e] EXCEPT !.pc = "put", !.lock = m.arg], net \ {m})
    BY <1>6, Zenon DEF AcquireBeaconWritelock
  <2>3. CASE m.arg = "failure"
    <3>1. Enter(e, [worker[e] EXCEPT !.pc = "blocked"], net \ {m})
      BY <2>2, <2>3 DEF Jump
    <3> QED
      BY <1>a, <1>4, <2>1, <3>1, Within, Zenon
  <2>4. CASE m.arg # "failure"
    <3>1. Enter(e, [worker[e] EXCEPT !.pc = "put", !.lock = m.arg], net \ {m})
      BY <2>2, <2>4
    <3> QED
      BY <1>b, <1>4, <2>1, <3>1, Within, Zenon
  <2> QED
    BY <2>3, <2>4
<1>7. CASE BlockForWritesByInterruption(e)
  <2>1. /\ worker[e].pc = "blocked"
        /\ UNCHANGED <<meta, cache, evictor, server, pending, fresh>>
    BY <1>7 DEF BlockForWritesByInterruption
  <2>2. PICK m \in net, l \in {"lookup", "acquire"} :
          m.type = "fin" /\ Jump(e, l, (net \ {m}) \cup {Reply(m, "-")})
    BY <1>7, Zenon DEF BlockForWritesByInterruption
  <2>3. MailWithin((net \ {m}) \cup {Reply(m, "-")})
    BY <2>2, ReplyWithin
  <2>4. Enter(e, [worker[e] EXCEPT !.pc = l], (net \ {m}) \cup {Reply(m, "-")})
    BY <2>2 DEF Jump
  <2> QED
    BY <1>a, <1>4, <2>1, <2>3, <2>4, ZenonT(30)
<1>8. CASE WriteDataToCloud(e)
  <2>1. /\ worker[e].pc = "put"
        /\ UNCHANGED <<meta, cache, evictor, server, pending, fresh>>
    BY <1>8 DEF WriteDataToCloud
  <2>2. PICK m : Enter(e, [worker[e] EXCEPT !.pc = "update"], net \ {m})
    BY <1>8, Zenon DEF WriteDataToCloud, Jump
  <2> QED
    BY <1>a, <1>4, <2>1, <2>2, Within, ZenonT(30)
<1>9. CASE FinishWrite(e)
  <2>1. /\ worker[e].pc = "written" /\ Free(e)
        /\ UNCHANGED <<meta, cache, evictor, server, pending, fresh>>
    BY <1>9 DEF FinishWrite
  <2>2. \/ Enter(e, [worker[e] EXCEPT !.pc = "decide"], net)
        \/ /\ worker[e].lock = "success"
           /\ Enter(e, [worker[e] EXCEPT !.pc = "release"], net)
    BY <1>9 DEF FinishWrite, Jump
  <2> QED
    BY <1>a, <1>4, <2>1, <2>2, Within, Zenon
<1>10. CASE ReleaseBeaconWritelock(e)
  <2>1. /\ worker[e].pc = "release"
        /\ UNCHANGED <<meta, cache, evictor, server, pending, fresh>>
    BY <1>10 DEF ReleaseBeaconWritelock
  <2>2. PICK m : Enter(e, [worker[e] EXCEPT !.pc = "decide"], net \ {m})
    BY <1>10, Zenon DEF ReleaseBeaconWritelock, Jump
  <2> QED
    BY <1>a, <1>4, <2>1, <2>2, Within, Zenon
<1> QED
  BY <1>1, <1>2, <1>3, <1>5, <1>6, <1>7, <1>8, <1>9, <1>10, Zenon DEF Write

----------------------------------------------------------------------------
(* Evictions and the beacon server *)

\* A step at edge e that leaves the workers and the collections alone, given what
\* it does to the edge.
LEMMA EdgeStep ==
    ASSUME CopyInv, WakeInv', Steady, NEW e \in Edges,
           UNCHANGED <<worker, server, pending>>, fresh \subseteq fresh',
           meta'.writeflag = meta.writeflag,
           \A f \in Edges : cache'[f].st = "valid" => cache[f].st = "valid",
           InvAcks(net') \subseteq InvAcks(net),
           \A f \in Edges : f # e => /\ cache'[f] = cache[f] /\ MailStays(f)
                                     /\ evictor'[f] = evictor[f]
                                     /\ meta'.dir[f] = meta.dir[f],
           Recorded(e)', ~MayFail => Served(e)'
    PROVE  CopyInv'
<1>1. \A f \in Edges : f # e => Recorded(f)' /\ (~MayFail => Served(f)')
  BY EdgeFades, Zenon DEF RecordFades
<1>2. Guarded'
  BY GuardStays, Zenon
<1>3. BeaconCollects'
  BY CollectsStay, Zenon
<1> QED
  BY <1>1, <1>2, <1>3 DEF CopyInv

\* The messages req are the request by which edge e reports an eviction.
EvictSent(e, req) ==
    /\ \A m \in req : m.type = "evict" /\ ~m.rsp /\ m.th[2] = e /\ e # Beacon
    /\ \A m, n \in req : m = n

\* The evicting steps.
LEMMA EvictCopies ==
    ASSUME CopyInv, WakeInv', Steady, MultiWorker = {}, NEW e \in Edges, Evict(e)
    PROVE  CopyInv'
<1>0. /\ meta \in MetaType /\ cache \in [Edges -> CacheType]
      /\ evictor \in [Edges -> {"idle", "evict"}]
      /\ Recorded(e) /\ (~MayFail => Served(e))
  BY Zenon DEF CopyInv, WakeInv, LockInv, IInv, TypeOK
<1>1. CASE EvictLocalEdgeCache(e)
  <2>1. /\ evictor[e] = "idle" /\ worker[e].pc \in EvictPoints
        /\ cache' = [cache EXCEPT ![e] = [st |-> "absent", val |-> 0]]
        /\ evictor' = [evictor EXCEPT ![e] = "evict"]
        /\ UNCHANGED <<meta, worker, server, pending, fresh>>
    BY <1>1, Zenon DEF EvictLocalEdgeCache
  <2>2. PICK req : net' = net \cup req /\ EvictSent(e, req)
    <3>1. CASE e = Beacon
      <4>1. net' = net \cup {}
        BY <1>1, <3>1 DEF EvictLocalEdgeCache
      <4>2. EvictSent(e, {})
        BY DEF EvictSent
      <4> QED
        BY <4>1, <4>2
    <3>2. CASE e # Beacon
      <4> DEFINE s == CHOOSE s \in Unused(E(e), net) : TRUE
                 r == [type |-> "evict", rsp |-> FALSE, th |-> E(e), dst |-> e,
                       seq |-> s, copy |-> 0, arg |-> "-", ver |-> 0]
      <4>1. net' = net \cup Requests(E(e), "evict", {e}, s, 0, 0)
        BY <1>1, <3>2, Zenon DEF EvictLocalEdgeCache, Call
      <4>2. Requests(E(e), "evict", {e}, s, 0, 0) = {r}
        BY DEF Requests
      <4>3. r.type = "evict" /\ ~r.rsp /\ r.th[2] = e
        BY DEF E
      <4> HIDE DEF r
      <4>4. net' = net \cup {r}
        BY <4>1, <4>2, Zenon
      <4>5. EvictSent(e, {r})
        BY <3>2, <4>3 DEF EvictSent
      <4> QED
        BY <4>4, <4>5
    <3> QED
      BY <3>1, <3>2
  <2>3. /\ EvictCalls(net') = EvictCalls(net) \cup req
        /\ AdmitAnswers(net') = AdmitAnswers(net)
        /\ InvAcks(net') = InvAcks(net)
    BY <2>2 DEF EvictSent, EvictCalls, AdmitAnswers, InvAcks
  <2>4. \A f \in Edges : f # e => MailStays(f)
    BY <2>2, <2>3 DEF EvictSent, MailStays
  <2>5. /\ cache'[e].st = "absent" /\ evictor'[e] = "evict"
        /\ \A f \in Edges : f # e => /\ cache'[f] = cache[f]
                                     /\ evictor'[f] = evictor[f]
    BY <1>0, <2>1
  <2>6. \A m \in EvictCalls(net) : m.th[2] # e
    BY <1>0, <2>1, Zenon DEF Recorded
  <2>7. worker[e].pc \notin Installs /\ worker[e].pc # "installInvalid"
    BY <2>1 DEF EvictPoints, Installs
  <2>8. Recorded(e)'
    BY <1>0, <2>1, <2>2, <2>3, <2>5, <2>6, <2>7, Zenon DEF EvictSent, Recorded
  <2>9. ~MayFail => Served(e)'
    BY <1>0, <2>1, <2>2, <2>3, <2>5, <2>6, <2>7, Zenon DEF EvictSent, Served
  <2> QED
    BY <2>1, <2>3, <2>4, <2>5, <2>8, <2>9, EdgeStep, Zenon
<1>2. CASE EvictLocalDirectory(e)
  <2>1. /\ e = Beacon /\ evictor[e] = "evict"
        /\ meta' = updateDirectoryTable(meta, e, FALSE)
        /\ evictor' = [evictor EXCEPT ![e] = "idle"]
        /\ UNCHANGED <<cache, worker, server, pending, net, fresh>>
    BY <1>2 DEF EvictLocalDirectory
  <2>2. /\ meta'.writeflag = meta.writeflag /\ meta'.dir[e] = "none"
        /\ \A f \in Edges : f # e => meta'.dir[f] = meta.dir[f]
    BY <1>0, <2>1 DEF updateDirectoryTable, MetaType
  <2>3. cache[e].st = "absent" /\ worker[e].pc \in EvictPoints
    BY <1>0, <2>1, Zenon DEF Recorded
  <2>4. worker[e].pc \notin AdmitPoints /\ worker[e].pc \notin Installs
    BY <2>3 DEF EvictPoints, AdmitPoints, Installs
  <2>5. \A m \in AdmitAnswers(net) : m.th # W(e)
    BY <2>4, MailWaits, Zenon DEF CopyInv, AdmitPoints
  <2>6. \A m \in EvictCalls(net) : m.th[2] # e
    BY <1>0, <2>1, Zenon DEF Recorded
  <2>7. evictor'[e] = "idle" /\ \A f \in Edges : f # e => evictor'[f] = evictor[f]
    BY <1>0, <2>1
  <2>8. Recorded(e)'
    BY <2>1, <2>3, <2>4, <2>5, <2>6, <2>7, Zenon DEF Recorded
  <2>9. Served(e)'
    BY <2>1, <2>2, <2>4, <2>5, <2>6, Zenon DEF Served, Installs
  <2>10. \A f \in Edges : MailStays(f)
    BY <2>1, Zenon DEF MailStays
  <2> QED
    BY <2>1, <2>2, <2>7, <2>8, <2>9, <2>10, EdgeStep, Zenon
<1>3. CASE EvictBeaconDirectory(e)
  <2>1. /\ evictor[e] = "evict"
        /\ evictor' = [evictor EXCEPT ![e] = "idle"]
        /\ UNCHANGED <<cache, meta, worker, server, pending, fresh>>
    BY <1>3 DEF EvictBeaconDirectory
  <2>2. PICK m \in Responses(E(e), "evict") : net' = net \ {m}
    BY <1>3, Zenon DEF EvictBeaconDirectory
  <2>3. m \in EvictCalls(net) /\ m.th[2] = e /\ m.rsp
    BY DEF Responses, EvictCalls, E
  <2>4. /\ EvictCalls(net') = EvictCalls(net) \ {m}
        /\ AdmitAnswers(net') \subseteq AdmitAnswers(net)
        /\ InvAcks(net') \subseteq InvAcks(net)
    BY <2>2 DEF EvictCalls, AdmitAnswers, InvAcks
  <2>5. \A n \in EvictCalls(net') : n.th[2] # e
    BY <1>0, <2>3, <2>4, Zenon DEF Recorded
  <2>6. cache[e].st = "absent" /\ worker[e].pc \in EvictPoints
    BY <1>0, <2>1, Zenon DEF Recorded
  <2>7. worker[e].pc \notin AdmitPoints /\ worker[e].pc \notin Installs
    BY <2>6, Zenon DEF EvictPoints, AdmitPoints, Installs
  <2>8. \A n \in AdmitAnswers(net') : n.th # W(e)
    BY <2>4, <2>7, MailWaits DEF CopyInv, AdmitPoints
  <2>9. evictor'[e] = "idle" /\ \A f \in Edges : f # e => evictor'[f] = evictor[f]
    BY <1>0, <2>1
  <2>10. Recorded(e)'
    BY <2>1, <2>5, <2>6, <2>7, <2>8, <2>9, Zenon DEF Recorded
  <2>11. ~MayFail => Served(e)'
    <3>1. ~MayFail => meta.dir[e] = "none"
      BY <1>0, <2>3, Zenon DEF Served
    <3> QED
      BY <2>1, <2>5, <2>7, <2>8, <3>1, Zenon DEF Served, Installs
  <2>12. \A f \in Edges : MailStays(f)
    BY <2>4, Zenon DEF MailStays
  <2> QED
    BY <2>1, <2>4, <2>9, <2>10, <2>11, <2>12, EdgeStep, Zenon
<1> QED
  BY <1>1, <1>2, <1>3 DEF Evict

\* A step that leaves the caches, the directory and the collections alone.
LEMMA NothingCopied ==
    ASSUME CopyInv, WakeInv', Steady, MailWithin(net'),
           UNCHANGED <<cache, worker, evictor, server, pending, fresh>>,
           meta'.writeflag = meta.writeflag, meta'.dir = meta.dir
    PROVE  CopyInv'
<1>1. \A f \in Edges : MailStays(f) /\ RecordFades(f)
  BY DEF MailWithin, MailStays, RecordFades
<1>2. \A f \in Edges : Recorded(f)' /\ (~MayFail => Served(f)')
  BY <1>1, EdgeFades, Zenon
<1>3. Guarded' /\ BeaconCollects'
  BY GuardStays, CollectsStay DEF MailWithin
<1> QED
  BY <1>2, <1>3 DEF CopyInv

\* The server records an admission or an eviction.
LEMMA UpdateRequestCopies ==
    ASSUME CopyInv, WakeInv', Steady, NEW e \in Edges, ProcessDirectoryUpdateRequest(e)
    PROVE  CopyInv'
<1>0. /\ meta \in MetaType /\ Recorded(e) /\ (~MayFail => Served(e)) /\ LockInv
      /\ IInv
  BY Zenon DEF CopyInv, WakeInv, LockInv, IInv, TypeOK
<1>1. UNCHANGED <<cache, worker, evictor, server, pending, fresh>>
  BY DEF ProcessDirectoryUpdateRequest
<1>2. PICK m \in BeaconRequests(e, {"admit", "evict"}) :
        /\ meta' = updateDirectoryTable(meta, e, m.type = "admit")
        /\ net' = (net \ {m}) \cup
                    {Reply(m, IF m.type = "evict" THEN "-"
                              ELSE IF meta.writeflag THEN "written" ELSE "clear")}
  BY Zenon DEF ProcessDirectoryUpdateRequest
<1>3. m \in net /\ m \in MessageType /\ m.type \in {"admit", "evict"} /\ m.th[2] = e
      /\ ~m.rsp
  <2>1. m \in net /\ m.type \in {"admit", "evict"} /\ m.th[2] = e /\ ~m.rsp
    BY DEF BeaconRequests
  <2> QED
    BY <1>0, <2>1, Zenon DEF IInv, TypeOK
<1> DEFINE arg == IF m.type = "evict" THEN "-"
                  ELSE IF meta.writeflag THEN "written" ELSE "clear"
           r == Reply(m, arg)
<1>4. /\ r.type = m.type /\ r.rsp /\ r.th = m.th /\ r.arg = arg
      /\ net' = (net \ {m}) \cup {r}
  BY <1>2, <1>3 DEF Reply, MessageType, Messages
<1> HIDE DEF r
<1>5. /\ meta'.writeflag = meta.writeflag
      /\ meta'.dir[e] = IF m.type # "admit" THEN "none"
                        ELSE IF meta.writeflag THEN "invalid" ELSE "valid"
      /\ \A f \in Edges : f # e => meta'.dir[f] = meta.dir[f]
  BY <1>0, <1>2 DEF updateDirectoryTable, MetaType
<1>6. InvAcks(net') \subseteq InvAcks(net)
  BY <1>3, <1>4 DEF InvAcks
<1>8. \A f \in Edges : W(f)[2] = f
  BY DEF W
<1>9. \A f \in Edges : f # e => MailStays(f)
  <2>1. ASSUME NEW f \in Edges, f # e, NEW n \in net', n # r
        PROVE  n \in net
    BY <1>4, <2>1
  <2>2. \A f \in Edges : f # e => r.th # W(f) /\ r.th[2] # f
    BY <1>3, <1>4, <1>8
  <2> QED
    BY <2>1, <2>2 DEF MailStays, EvictCalls, AdmitAnswers
<1>10. CASE m.type = "admit"
  <2>1. m \in Own(e, net)
    <3>1. PICK f \in Edges : m.th = W(f)
      BY <1>0, <1>3, <1>10, Zenon DEF LockInv, Callers, WorkerCalls
    <3> QED
      BY <1>3, <1>8, <1>10, <3>1, Zenon DEF Own, WorkerCalls
  <2>2. Disciplined(e)
    BY <1>0, Zenon DEF LockInv
  <2>3. worker[e].pc = "admit" /\ \A n \in Own(e, net) : n = m
    BY <1>10, <2>1, <2>2, Zenon DEF Disciplined
  <2>4. evictor[e] # "evict"
    BY <1>0, <2>3 DEF Recorded, EvictPoints
  <2>5. \A n \in EvictCalls(net') : n.th[2] # e
    BY <1>0, <1>4, <1>10, <2>4, ZenonT(30) DEF Recorded, EvictCalls
  <2>6. \A n \in AdmitAnswers(net') : n.th = W(e) => n = r
    BY <1>4, <2>3, Zenon DEF AdmitAnswers, Own, WorkerCalls
  <2>7. ~Unreleased(e)'
    BY <1>1, <2>3, Zenon DEF Unreleased
  <2>8. worker[e].pc \in AdmitPoints /\ worker[e].pc \notin Installs
    BY <2>3, Zenon DEF AdmitPoints, Installs
  <2>9. meta'.dir[e] # "none" /\ (arg = "written" => meta'.dir[e] = "invalid")
    BY <1>5, <1>10
  <2>10. Recorded(e)'
    BY <1>0, <1>1, <2>4, <2>5, <2>8, <2>9, Zenon DEF Recorded
  <2>11. Served(e)'
    BY <1>1, <1>4, <2>3, <2>5, <2>6, <2>7, <2>8, <2>9, ZenonT(30) DEF Served
  <2> QED
    BY <1>1, <1>5, <1>6, <1>9, <2>10, <2>11, EdgeStep, Zenon
<1>11. CASE m.type = "evict"
  <2>1. m \in EvictCalls(net)
    BY <1>3, <1>11, Zenon DEF EvictCalls
  <2>2. /\ evictor[e] = "evict" /\ e # Beacon /\ cache[e].st = "absent"
        /\ worker[e].pc \in EvictPoints
        /\ \A n \in EvictCalls(net) : n.th[2] = e => n = m
    BY <1>0, <1>3, <2>1, Zenon DEF Recorded
  <2>3. \A n \in EvictCalls(net') : n.th[2] = e => n = r
    BY <1>4, <2>2, Zenon DEF EvictCalls
  <2>4. worker[e].pc \notin AdmitPoints /\ worker[e].pc \notin Installs
    BY <2>2, Zenon DEF EvictPoints, AdmitPoints, Installs
  <2>5. \A n \in AdmitAnswers(net') : n.th # W(e)
    <3>1. AdmitAnswers(net') \subseteq AdmitAnswers(net)
      BY <1>4, <1>11, Zenon DEF AdmitAnswers
    <3> QED
      BY <2>4, <3>1, MailWaits, Zenon DEF CopyInv, AdmitPoints
  <2>6. meta'.dir[e] = "none"
    BY <1>5, <1>11, Zenon
  <2>7. Recorded(e)'
    BY <1>1, <2>2, <2>3, <2>4, <2>5, Zenon DEF Recorded
  <2>8. Served(e)'
    BY <1>1, <2>4, <2>5, <2>6 DEF Served, Installs
  <2> QED
    BY <1>1, <1>5, <1>6, <1>9, <2>7, <2>8, EdgeStep, Zenon
<1> QED
  BY <1>3, <1>10, <1>11, Zenon

\* The server takes a lock request.
LEMMA AcquireRequestCopies ==
    ASSUME CopyInv, WakeInv', Steady, NEW e \in Edges, ProcessAcquireWritelockRequest(e)
    PROVE  CopyInv'
<1>0. IInv /\ LockInv /\ meta \in MetaType
  BY Zenon DEF CopyInv, WakeInv, LockInv, IInv, TypeOK
<1>1. /\ UNCHANGED <<cache, worker, evictor>>
      /\ meta' = acquireLocalWritelockByBeaconServer(meta, e)
  BY DEF ProcessAcquireWritelockRequest
<1>2. PICK m \in BeaconRequests(e, {"acquire"}) :
        IF lockResult(meta) = "success"
          THEN /\ CallEdges("server", "inv", dirinfos(meta), net \ {m})
               /\ server' = {m}
               /\ fresh' = {}
          ELSE /\ net' = (net \ {m}) \cup {Reply(m, lockResult(meta))}
               /\ UNCHANGED <<server, pending, seq, fresh>>
  BY Zenon DEF ProcessAcquireWritelockRequest
<1>3. m \in net /\ m.type = "acquire" /\ server = {}
  BY Zenon DEF BeaconRequests
<1>4. CASE lockResult(meta) = "success"
  <2>1. /\ CallEdges("server", "inv", dirinfos(meta), net \ {m}) /\ server' = {m}
        /\ meta' = setWriteflag(meta)
    BY <1>1, <1>2, <1>4, Zenon DEF acquireLocalWritelockByBeaconServer
  <2>2. "server" \in Collectors /\ ~Collecting("server") /\ "worker" \in Collectors
    BY <1>3 DEF Collectors, Collecting
  <2>3. \E n \in server' : n.type = "acquire"
    BY <1>3, <2>1
  <2>4. /\ Guarded' /\ \A f \in Edges : RecordFades(f)
        /\ \A f \in Edges : MailStays(f)
        /\ \A j \in Collectors : j # "server" => pending'[j] = pending[j]
    BY <1>1, <2>1, <2>2, <2>3, Within, GrantGuards, Zenon
  <2>5. \A f \in Edges : Recorded(f)' /\ (~MayFail => Served(f)')
    BY <1>1, <2>4, EdgeFades, ZenonT(30)
  <2>6. BeaconCollects'
    <3>1. BeaconCollects
      BY Zenon DEF CopyInv
    <3>2. CollectedCall("server")' = "inv"
      BY <1>3, <2>1, Zenon DEF CollectedCall
    <3>3. /\ Collecting("worker")' <=> Collecting("worker")
          /\ CollectedCall("worker")' = CollectedCall("worker")
          /\ pending'["worker"] = pending["worker"]
      BY <1>1, <2>2, <2>4, Zenon DEF Collecting, CollectedCall
    <3> QED
      BY <1>1, <3>1, <3>2, <3>3, Zenon DEF BeaconCollects, Collectors
  <2> QED
    BY <2>4, <2>5, <2>6 DEF CopyInv
<1>5. CASE lockResult(meta) # "success"
  <2>1. /\ net' = (net \ {m}) \cup {Reply(m, lockResult(meta))}
        /\ UNCHANGED <<server, pending, fresh>>
    BY <1>2, <1>5
  <2>2. meta'.writeflag = meta.writeflag /\ meta'.dir = meta.dir
    BY <1>0, <1>1, <1>5 DEF acquireLocalWritelockByBeaconServer, blockEdge, MetaType
  <2>3. MailWithin(net')
    BY <1>3, <2>1, ReplyWithin, Zenon
  <2> QED
    BY <1>1, <2>1, <2>2, <2>3, NothingCopied, Zenon
<1> QED
  BY <1>4, <1>5

\* The server takes a release.
LEMMA ReleaseRequestCopies ==
    ASSUME CopyInv, WakeInv', Steady, NEW e \in Edges, ProcessReleaseWritelockRequest(e)
    PROVE  CopyInv'
<1>0. LockInv
  BY DEF CopyInv, WakeInv
<1>1. /\ UNCHANGED <<cache, worker, evictor>>
      /\ meta' = releaseLocalWritelock(meta, e)
  BY DEF ProcessReleaseWritelockRequest
<1>2. PICK m \in BeaconRequests(e, {"release"}) :
        /\ CallEdges("server", "fin", meta.blocklist, net \ {m})
        /\ server' = {m}
  BY Zenon DEF ProcessReleaseWritelockRequest
<1>3. m \in net /\ m.type = "release" /\ ~m.rsp /\ m.th[2] = e
  BY DEF BeaconRequests
<1>4. m.th = W(e)
  <2>1. PICK f \in Edges : m.th = W(f)
    BY <1>0, <1>3 DEF LockInv, Callers, WorkerCalls
  <2> QED
    BY <1>3, <2>1 DEF W
<1>5. Unreleased(e)
  <2>1. m \in Own(e, net)
    BY <1>3, <1>4, Zenon DEF Own, WorkerCalls
  <2>2. worker[e].pc = "release"
    BY <1>0, <1>3, <2>1 DEF LockInv, Disciplined
  <2> QED
    BY <1>0, <1>3, <2>1, <2>2, CallerHolds, Zenon DEF Unreleased
<1>6. "server" \in Collectors
  BY Zenon DEF Collectors
<1>7. /\ Guarded' /\ Beacon \notin pending'["server"]
      /\ \A j \in Collectors : j # "server" => pending'[j] = pending[j]
      /\ \A f \in Edges : MailStays(f)
      /\ \A f \in Edges : f # e => Recorded(f)' /\ (~MayFail => Served(f)')
  BY <1>1, <1>2, <1>6, Within, ReleaseGuards, Zenon
<1>8. Recorded(e)' /\ (~MayFail => Served(e)')
  BY <1>1, <1>5, <1>7, ReleaseEdge, Zenon
<1>9. BeaconCollects'
  <2>1. BeaconCollects
    BY DEF CopyInv
  <2>2. /\ Collecting("worker")' <=> Collecting("worker")
        /\ CollectedCall("worker")' = CollectedCall("worker")
        /\ pending'["worker"] = pending["worker"]
    BY <1>1, <1>7 DEF Collecting, CollectedCall, Collectors
  <2> QED
    BY <1>1, <1>7, <2>1, <2>2 DEF BeaconCollects, Collectors
<1> QED
  BY <1>7, <1>8, <1>9 DEF CopyInv

\* The steps of the beacon server.
LEMMA ServerCopies ==
    ASSUME CopyInv, WakeInv', Steady, NEW e \in Edges, BeaconServer(e)
    PROVE  CopyInv'
<1>1. CASE ProcessDirectoryLookupRequest(e)
  <2>1. /\ meta' = lookupByBeaconServer(meta, e) /\ meta \in MetaType
        /\ UNCHANGED <<cache, worker, evictor, server, pending, fresh>>
    BY <1>1, Zenon
       DEF ProcessDirectoryLookupRequest, CopyInv, WakeInv, LockInv, IInv, TypeOK
  <2>2. meta'.writeflag = meta.writeflag /\ meta'.dir = meta.dir
    BY <2>1 DEF lookupByBeaconServer, blockEdge, MetaType
  <2>3. PICK m \in BeaconRequests(e, {"lookup"}) :
          \E arg : net' = (net \ {m}) \cup {Reply(m, arg)}
    BY <1>1, Zenon DEF ProcessDirectoryLookupRequest
  <2>4. m \in net /\ m.type = "lookup"
    BY DEF BeaconRequests
  <2>5. MailWithin(net')
    BY <2>3, <2>4, ReplyWithin, Zenon
  <2> QED
    BY <2>1, <2>2, <2>5, NothingCopied, Zenon
<1> QED
  BY <1>1, UpdateRequestCopies, AcquireRequestCopies, ReleaseRequestCopies, Zenon
     DEF BeaconServer

----------------------------------------------------------------------------
(* The collections *)

\* While copies are being invalidated, the lock's holder waits for the end of it.
LEMMA InvalidatingHolder ==
    ASSUME CopyInv, NEW k \in Collectors, Collecting(k), CollectedCall(k) = "inv"
    PROVE  \E h \in Edges : Granted(h) /\ worker[h].pc \in {"acquire", "invalidate"}
<1>0. LockInv /\ BeaconCollects
  BY DEF CopyInv, WakeInv
<1>1. CASE k = "server"
  <2>1. PICK m \in server : m.type = "acquire"
    BY <1>1, Zenon DEF Collecting, CollectedCall
  <2>2. PICK h \in Edges : m.th = W(h)
    BY <1>0, <2>1, Zenon DEF LockInv, Callers, WorkerCalls
  <2>3. m \in Own(h, server) /\ Disciplined(h)
    BY <1>0, <2>1, <2>2, Zenon DEF Own, WorkerCalls, LockInv
  <2>4. worker[h].pc = "acquire"
    BY <2>1, <2>3 DEF Disciplined
  <2>5. Granted(h)
    BY <2>1, <2>2 DEF Granted
  <2> QED
    BY <2>4, <2>5
<1>2. CASE k # "server"
  <2>1. worker[Beacon].pc = "invalidate" /\ worker[Beacon].lock = "success"
    BY <1>0, <1>2, Zenon DEF Collecting, CollectedCall, BeaconCollects
  <2>2. Own(Beacon, net) = {} /\ Own(Beacon, server) = {}
    BY <1>0, <2>1, BeaconAssumption, NoCall, Zenon DEF Remote
  <2>3. Granted(Beacon)
    BY <2>1, <2>2 DEF Granted, Own, WorkerCalls
  <2> QED
    BY <2>1, <2>3, BeaconAssumption
<1> QED
  BY <1>1, <1>2

\* While copies are being invalidated, no record is valid and no writer has
\* finished.
LEMMA InvalidatingHeld ==
    ASSUME CopyInv, NEW k \in Collectors, Collecting(k), CollectedCall(k) = "inv",
           NEW f \in Edges
    PROVE  meta.dir[f] # "valid" /\ ~Unreleased(f)
<1>0. LockInv /\ FlagMeansHeld /\ BeaconConsistent
  BY Zenon DEF CopyInv, WakeInv, LockInv, IInv
<1>1. PICK h \in Edges : Granted(h) /\ worker[h].pc \in {"acquire", "invalidate"}
  BY InvalidatingHolder
<1>2. meta.dir[f] # "valid"
  BY <1>0, <1>1 DEF FlagMeansHeld, Holders, BeaconConsistent
<1>3. ASSUME Unreleased(f)
      PROVE  FALSE
  <2>1. worker[f].pc \in {"written", "release"} /\ Granted(f)
    BY <1>3 DEF Unreleased
  <2>3. f = h
    BY <1>0, <1>1, <2>1, ZenonT(30) DEF LockInv
  <2> QED
    BY <1>1, <2>1, <2>3
<1> QED
  BY <1>2, <1>3

\* An edge invalidates its copy on behalf of thread k.
LEMMA CopyInvalidated ==
    ASSUME CopyInv, WakeInv', Steady, NEW k \in Collectors, Collecting(k),
           CollectedCall(k) = "inv", NEW e \in Edges,
           cache' = [cache EXCEPT ![e] = Invalidated(@)],
           UNCHANGED <<meta, worker, evictor, server, fresh>>,
           \A f \in Edges : MailStays(f),
           \A j \in Collectors : /\ pending'[j] \subseteq pending[j]
                                 /\ pending[j] \subseteq pending'[j] \cup {e},
           \A m \in InvAcks(net') : m \in InvAcks(net) \/ m.dst = e
    PROVE  CopyInv'
<1>0. /\ cache \in [Edges -> CacheType] /\ cache[e] \in CacheType /\ Guarded
      /\ BeaconCollects
  BY Zenon DEF CopyInv, WakeInv, LockInv, IInv, TypeOK
<1>1. /\ cache'[e].st = "absent" <=> cache[e].st = "absent"
      /\ cache'[e].st # "valid"
      /\ \A f \in Edges : f # e => cache'[f] = cache[f]
  BY <1>0, Zenon DEF Invalidated, CacheType
<1>2. \A f \in Edges : RecordFades(f)
  BY DEF RecordFades
<1>3. \A f \in Edges : meta.dir[f] # "valid" /\ ~Unreleased(f)
  BY InvalidatingHeld, Zenon
<1>4. \A f \in Edges : Recorded(f)' /\ (~MayFail => Served(f)')
  BY <1>1, <1>2, <1>3, EdgeFades, ZenonT(30)
<1>5. ASSUME NEW g \in Edges, g # e, Doomed(g)
      PROVE  Doomed(g)'
  BY <1>5, SMTT(30) DEF Doomed
<1>6. Guarded'
  BY <1>0, <1>1, <1>5, Zenon DEF Guarded
<1>7. BeaconCollects'
  BY <1>0, Zenon DEF BeaconCollects, Collecting, CollectedCall
<1> QED
  BY <1>4, <1>6, <1>7 DEF CopyInv

\* The beacon invalidates its own copy.
LEMMA OwnCopyCopies ==
    ASSUME CopyInv, WakeInv', Steady, NEW k \in Collectors, InvalidateOwnCopy(k)
    PROVE  CopyInv'
<1>1. /\ Collecting(k) /\ Beacon \in pending[k] /\ net' = net
      /\ cache' = [cache EXCEPT ![Beacon] = Invalidated(@)]
      /\ pending' = [pending EXCEPT ![k] = @ \ {Beacon}]
      /\ UNCHANGED <<meta, worker, evictor, server, fresh>>
  BY DEF InvalidateOwnCopy
<1>2. pending \in [Collectors -> SUBSET Edges] /\ BeaconCollects
  BY Zenon DEF CopyInv, WakeInv, LockInv, IInv, TypeOK, Collectors
<1>3. CollectedCall(k) = "inv"
  BY <1>1, <1>2 DEF BeaconCollects, CollectedCall
<1>4. \A j \in Collectors : /\ pending'[j] \subseteq pending[j]
                            /\ pending[j] \subseteq pending'[j] \cup {Beacon}
  BY <1>1, <1>2, Zenon
<1>5. \A f \in Edges : MailStays(f)
  BY <1>1, Zenon DEF MailStays
<1> QED
  BY <1>1, <1>3, <1>4, <1>5, BeaconAssumption, CopyInvalidated, Zenon

\* An edge takes the request to invalidate its copy.
LEMMA InvalidationCopies ==
    ASSUME CopyInv, WakeInv', Steady, NEW e \in Edges, ProcessInvalidationRequest(e)
    PROVE  CopyInv'
<1>1. /\ cache' = [cache EXCEPT ![e] = Invalidated(@)]
      /\ UNCHANGED <<meta, worker, evictor, server, pending, fresh>>
  BY DEF ProcessInvalidationRequest
<1>2. PICK m \in net : /\ m.type = "inv" /\ ~m.rsp /\ m.dst = e
                       /\ net' = (net \ {m}) \cup {Reply(m, "-")}
  BY Zenon DEF ProcessInvalidationRequest
<1>3. m \in MessageType
  BY Zenon DEF CopyInv, WakeInv, LockInv, IInv, TypeOK
<1> DEFINE r == Reply(m, "-")
<1>4. r.type = "inv" /\ r.rsp /\ r.dst = e
  BY <1>2, <1>3 DEF Reply, MessageType, Messages
<1>5. net' = (net \ {m}) \cup {r}
  BY <1>2
<1> HIDE DEF r
<1>6. PICK k \in Collectors : m.th = BeaconThread(k)
  BY <1>2 DEF CopyInv, WakeInv, FromBeacon, Rounds
<1>7. Collecting(k) /\ CollectedCall(k) = "inv"
  <2>1. m \in Acks(k, net)
    BY <1>2, <1>6, Zenon DEF Acks, Rounds
  <2> QED
    BY <1>2, <2>1, Zenon DEF CopyInv, WakeInv, Collected
<1>8. \A f \in Edges : MailStays(f)
  BY <1>4, <1>5 DEF MailStays, EvictCalls, AdmitAnswers
<1>9. \A n \in InvAcks(net') : n \in InvAcks(net) \/ n.dst = e
  BY <1>4, <1>5 DEF InvAcks
<1> QED
  BY <1>1, <1>7, <1>8, <1>9, CopyInvalidated, Zenon

\* A thread of the beacon takes an acknowledgement.
LEMMA AckCopies ==
    ASSUME CopyInv, WakeInv', Steady, NEW k \in Collectors, ReceiveAck(k)
    PROVE  CopyInv'
<1>0. /\ pending \in [Collectors -> SUBSET Edges] /\ Guarded /\ BeaconCollects
      /\ \A m, n \in server : m = n
  BY Zenon DEF CopyInv, WakeInv, LockInv, IInv, TypeOK, Collectors
<1>1. UNCHANGED <<cache, meta, worker, evictor, server, fresh>>
  BY Zenon DEF ReceiveAck
<1>2. PICK m \in Responses(BeaconThread(k), "inv")
                  \cup Responses(BeaconThread(k), "fin") :
        /\ pending' = [pending EXCEPT ![k] = @ \ {m.dst}]
        /\ net' = net \ {m}
  BY Zenon DEF ReceiveAck
<1>3. m \in Acks(k, net) /\ m.rsp /\ m.th = BeaconThread(k) /\ m \in net
  BY DEF Responses, Acks, Rounds
<1>4. m.type = CollectedCall(k)
  BY <1>3, Zenon DEF CopyInv, WakeInv, Collected
<1>5. \A f \in Edges : MailStays(f) /\ RecordFades(f)
  BY <1>1, <1>2, Zenon DEF MailStays, RecordFades, EvictCalls, AdmitAnswers
<1>6. \A f \in Edges : Recorded(f)' /\ (~MayFail => Served(f)')
  BY <1>1, <1>5, EdgeFades, ZenonT(30)
<1>7. ASSUME NEW g \in Edges, Doomed(g)
      PROVE  Doomed(g)'
  <2>1. PICK j \in Collectors :
          /\ IF j = "server" THEN \E n \in server : n.type = "acquire"
                             ELSE worker[Beacon].pc = "invalidate"
          /\ g \in pending[j]
          /\ \A n \in InvAcks(net) : n.th = BeaconThread(j) => n.dst # g
    BY <1>7, Zenon DEF Doomed
  <2>2. j = k => m.dst # g
    <3>1. CollectedCall(j) = "inv"
      BY <1>0, <2>1, Zenon DEF CollectedCall
    <3> QED
      BY <1>3, <1>4, <2>1, <3>1, Zenon DEF InvAcks
  <2>3. g \in pending'[j]
    BY <1>0, <1>2, <2>1, <2>2, Zenon
  <2>4. InvAcks(net') \subseteq InvAcks(net)
    BY <1>2, Zenon DEF InvAcks
  <2> QED
    BY <1>1, <2>1, <2>3, <2>4, Zenon DEF Doomed
<1>8. Guarded'
  BY <1>0, <1>1, <1>7, Zenon DEF Guarded
<1>9. BeaconCollects'
  <2>1. \A j \in Collectors : pending'[j] \subseteq pending[j]
    BY <1>0, <1>2
  <2> QED
    BY <1>0, <1>1, <2>1, Zenon DEF BeaconCollects, Collecting, CollectedCall
<1> QED
  BY <1>6, <1>8, <1>9 DEF CopyInv

\* The server has all acknowledgements.
LEMMA ServerCollectedCopies ==
    ASSUME CopyInv, WakeInv', Steady, ServerCollected
    PROVE  CopyInv'
<1>0. /\ Guarded /\ BeaconCollects /\ server \subseteq MessageType
      /\ \A m \in server : m.type \in {"acquire", "release"}
  BY Zenon DEF CopyInv, WakeInv, LockInv, IInv, TypeOK
<1>1. /\ pending["server"] = {} /\ server' = {}
      /\ UNCHANGED <<cache, meta, worker, evictor, pending, fresh>>
  BY DEF ServerCollected
<1>2. PICK m \in server :
        net' = net \cup {Reply(m, IF m.type = "acquire" THEN "success" ELSE "-")}
  BY Zenon DEF ServerCollected
<1> DEFINE r == Reply(m, IF m.type = "acquire" THEN "success" ELSE "-")
<1>3. r.type \in {"acquire", "release"} /\ r.rsp
  BY <1>0 DEF Reply, MessageType, Messages
<1>4. net' = net \cup {r}
  BY <1>2, Zenon
<1> HIDE DEF r
<1>5. \A f \in Edges : MailStays(f) /\ RecordFades(f)
  BY <1>1, <1>3, <1>4, Zenon DEF MailStays, RecordFades, EvictCalls, AdmitAnswers
<1>6. \A f \in Edges : Recorded(f)' /\ (~MayFail => Served(f)')
  BY <1>1, <1>5, EdgeFades, Zenon
<1>7. InvAcks(net') = InvAcks(net)
  BY <1>3, <1>4, Zenon DEF InvAcks
<1>8. ASSUME NEW g \in Edges, Doomed(g)
      PROVE  Doomed(g)'
  BY <1>1, <1>7, <1>8, Zenon DEF Doomed
<1>9. Guarded'
  BY <1>0, <1>1, <1>8, Zenon DEF Guarded
<1>10. BeaconCollects'
  BY <1>0, <1>1, Zenon DEF BeaconCollects, Collecting, CollectedCall, Collectors
<1> QED
  BY <1>6, <1>9, <1>10 DEF CopyInv

\* The beacon's worker has all acknowledgements.
LEMMA WorkerCollectedCopies ==
    ASSUME CopyInv, WakeInv', Steady, MultiWorker = {}, WorkerCollected
    PROVE  CopyInv'
<1>0. /\ Guarded /\ BeaconCollects /\ worker \in [Edges -> WorkerType]
      /\ Beacon \in Edges /\ worker[Beacon] \in WorkerType
  BY Zenon, BeaconAssumption DEF CopyInv, WakeInv, LockInv, IInv, TypeOK
<1>1. /\ pending["worker"] = {} /\ worker[Beacon].pc \in {"invalidate", "notify"}
      /\ UNCHANGED <<cache, meta, evictor, server, pending, fresh>>
  BY DEF WorkerCollected, Collecting
<1> DEFINE l == IF worker[Beacon].pc = "invalidate" THEN "put" ELSE "decide"
           w == [worker[Beacon] EXCEPT !.pc = l]
<1>2. Enter(Beacon, w, net)
  BY DEF WorkerCollected, Jump
<1>3. w.pc \in {"put", "decide"}
  BY <1>0 DEF WorkerType
<1> HIDE DEF w
<1>4. evictor[Beacon] = "idle"
  BY <1>0, <1>1, NotEvicting, Zenon DEF EvictPoints
<1>5. /\ worker'[Beacon] = w
      /\ \A m \in EvictCalls(net') : m.th[2] # Beacon
  BY <1>0, <1>2, <1>3, <1>4, Within, EdgeMail, Zenon
<1>6. \A f \in Edges : RecordFades(f)
  BY <1>1 DEF RecordFades
<1>7. \A f \in Edges : f # Beacon => Recorded(f)' /\ (~MayFail => Served(f)')
  BY <1>0, <1>1, <1>2, <1>6, Within, OthersStay, Zenon
<1>8. ~Unreleased(Beacon)'
  BY <1>3, <1>5, Zenon DEF Unreleased
<1>9. worker[Beacon].pc \notin AdmitPoints /\ worker'[Beacon].pc \notin AdmitPoints
  BY <1>1, <1>3, <1>5, Zenon DEF AdmitPoints, Installs
<1>10. Recorded(Beacon)' /\ (~MayFail => Served(Beacon)')
  BY <1>0, <1>1, <1>4, <1>5, <1>6, <1>8, <1>9, EdgeMoves, Zenon
<1>11. InvAcks(net') = InvAcks(net)
  BY <1>0, <1>2, EnterMail, Zenon
<1>12. ASSUME NEW g \in Edges, Doomed(g)
       PROVE  Doomed(g)'
  BY <1>1, <1>11, <1>12, Zenon DEF Doomed, Collectors
<1>13. Guarded'
  BY <1>0, <1>1, <1>12, Zenon DEF Guarded
<1>14. BeaconCollects'
  BY <1>0, <1>1, <1>3, <1>5, Zenon
     DEF BeaconCollects, Collecting, CollectedCall, Collectors
<1> QED
  BY <1>7, <1>10, <1>13, <1>14, Zenon DEF CopyInv

\* The cloud takes a write.
LEMMA PutCopies ==
    ASSUME CopyInv, WakeInv', Steady, ProcessGlobalPutRequest
    PROVE  CopyInv'
<1>1. UNCHANGED <<cache, meta, worker, evictor, server, pending, fresh>>
  BY DEF ProcessGlobalPutRequest
<1>2. PICK m \in net : m.type = "put" /\ net' = (net \ {m}) \cup {Reply(m, "-")}
  BY Zenon DEF ProcessGlobalPutRequest
<1>3. MailWithin(net')
  BY <1>2, ReplyWithin
<1> QED
  BY <1>1, <1>3, NothingCopied

----------------------------------------------------------------------------
(* The copies *)

\* The invariant holds initially.
LEMMA InitCopies == Init => CopyInv
<1> SUFFICES ASSUME Init
             PROVE  CopyInv
  OBVIOUS
<1>1. WakeInv
  BY InitWakes
<1>2. \A e \in Edges : /\ worker[e].pc = "idle" /\ cache[e].st = "absent"
                       /\ evictor[e] = "idle" /\ meta.dir[e] = "none"
  BY Zenon DEF Init, IdleWorker, InitMeta
<1>3. net = {} /\ server = {} /\ ~meta.writeflag
  BY DEF Init, InitMeta
<1>4. \A e \in Edges : Recorded(e) /\ Served(e)
  BY <1>2, <1>3, ZenonT(30) DEF Recorded, Served, Unreleased, EvictCalls, AdmitAnswers,
                         AdmitPoints, Installs
<1>5. Guarded
  BY <1>3, Zenon DEF Guarded
<1>6. BeaconCollects
  BY <1>2, <1>3, BeaconAssumption DEF BeaconCollects, Collecting
<1> QED
  BY <1>1, <1>4, <1>5, <1>6, Zenon DEF CopyInv

\* Only the lock requests set the write flag.
LEMMA FlagRises ==
    ASSUME LockInv, Next, ~meta.writeflag, meta'.writeflag
    PROVE  \E e \in Edges : \/ AcquireLocalWritelock(e)
                            \/ ProcessAcquireWritelockRequest(e)
<1>0. meta \in MetaType
  BY Zenon DEF LockInv, IInv, TypeOK
<1>1. /\ \A e : lookupByBeaconServer(meta, e).writeflag = meta.writeflag
      /\ \A e : releaseLocalWritelock(meta, e).writeflag = FALSE
      /\ \A e, b : updateDirectoryTable(meta, e, b).writeflag = meta.writeflag
  BY <1>0 DEF lookupByBeaconServer, blockEdge, releaseLocalWritelock,
              validateDirinfo, updateDirectoryTable, MetaType
<1>2. ASSUME NEW e \in Edges, Client(e) \/ Read(e)
      PROVE  FALSE
  <2>1. meta' = meta
    BY <1>2, Zenon DEF Client, Read, Get, Put, LookupLocalDirectory,
       LookupBeaconDirectory, ProcessRedirectedGetRequest, RedirectGetToTarget,
       FetchDataFromCloud, TryToUpdateInvalidLocalEdgeCache
  <2> QED
    BY <2>1
<1>3. ASSUME NEW e \in Edges, Admit(e) \/ Evict(e)
      PROVE  FALSE
  <2>1. \/ meta' = meta
        \/ \E b : meta' = updateDirectoryTable(meta, e, b)
    BY <1>3, Zenon DEF Admit, AfterRequest, AdmitLocalDirectory,
       AdmitBeaconDirectory, AdmitLocalEdgeCache, Evict, EvictLocalEdgeCache,
       EvictLocalDirectory, EvictBeaconDirectory
  <2> QED
    BY <1>1, <2>1, Zenon
<1>4. ASSUME NEW e \in Edges, Write(e), ~AcquireLocalWritelock(e)
      PROVE  FALSE
  <2>1. meta' = meta \/ meta' = releaseLocalWritelock(meta, e)
    BY <1>4, Zenon DEF Write, AcquireBeaconWritelock,
       BlockForWritesByInterruption, WriteDataToCloud, UpdateLocalEdgeCache,
       FinishWrite, ReleaseLocalWritelock, ReleaseBeaconWritelock
  <2> QED
    BY <1>1, <2>1, Zenon
<1>5. ASSUME NEW e \in Edges, ProcessInvalidationRequest(e) \/ BeaconServer(e),
             ~ProcessAcquireWritelockRequest(e)
      PROVE  FALSE
  <2>1. \/ meta' = meta \/ meta' = lookupByBeaconServer(meta, e)
        \/ meta' = releaseLocalWritelock(meta, e)
        \/ \E b : meta' = updateDirectoryTable(meta, e, b)
    BY <1>5, Zenon DEF ProcessInvalidationRequest, BeaconServer,
       ProcessDirectoryLookupRequest, ProcessDirectoryUpdateRequest,
       ProcessReleaseWritelockRequest
  <2> QED
    BY <1>1, <2>1, Zenon
<1>6. ASSUME Collect \/ ProcessGlobalPutRequest
      PROVE  FALSE
  <2>1. meta' = meta
    BY <1>6, Zenon DEF Collect, InvalidateOwnCopy, ReceiveAck, ServerCollected,
       WorkerCollected, ProcessGlobalPutRequest
  <2> QED
    BY <2>1
<1> QED
  BY <1>2, <1>3, <1>4, <1>5, <1>6, Zenon DEF Next

\* No worker gets the lock back: a grant answers a lock request, and forgets none
\* of the releases.
LEMMA NextSteady ==
    ASSUME LockInv, [Next]_vars
    PROVE  Steady
<1>1. LockInv' /\ LockStep
  BY NextLocks
<1> SUFFICES ASSUME NEW f \in Edges, worker'[f].pc \in {"written", "release"},
                    Granted(f)', ~Granted(f)
             PROVE  FALSE
  BY DEF Steady
<1>2. f \in Holders' /\ f \notin Holders
  BY DEF Holders
<1>3. Holders = {}
  BY <1>1, <1>2, Zenon DEF LockStep, Lock!Next, Lock!Grant, Lock!Wait, Lock!Release
<1>4. ~meta.writeflag /\ meta'.writeflag
  BY <1>1, <1>2, <1>3, Zenon DEF LockInv, FlagMeansHeld
<1>5. Next
  BY <1>4, Zenon DEF vars
<1>6. PICK e \in Edges : \/ AcquireLocalWritelock(e)
                         \/ ProcessAcquireWritelockRequest(e)
  BY <1>4, <1>5, FlagRises, Zenon
<1>7. /\ \A m \in server' : m.type = "acquire" => m.th # W(f)
      /\ \A m \in net' : m.type = "acquire" => m.th # W(f)
  <2>1. Disciplined(f)'
    BY <1>1, Zenon DEF LockInv
  <2> QED
    BY <2>1, Zenon DEF Disciplined, Own, WorkerCalls
<1>8. /\ worker'[f].lock = "success"
      /\ ~ \E m \in server' : m.type = "release" /\ m.th = W(f)
      /\ ~ \E m \in net' : m.type = "release" /\ m.th = W(f) /\ m.rsp
  BY <1>7, Zenon DEF Granted
<1>9. ASSUME worker'[f] = worker[f], server \subseteq server',
             \A m \in net : m \in net' \/ m.type = "acquire"
      PROVE  FALSE
  BY <1>8, <1>9, Zenon DEF Granted
<1>a. worker \in [Edges -> WorkerType] /\ meta \in MetaType
  BY Zenon DEF LockInv, IInv, TypeOK
<1>10. CASE AcquireLocalWritelock(e)
  <2>1. meta' # meta
    BY <1>4
  <2>2. /\ worker' = [worker EXCEPT ![e].pc = "invalidate", ![e].lock = "success"]
        /\ CallEdges("worker", "inv", dirinfos(meta), net) /\ server' = server
    BY <1>10, <2>1, Zenon
       DEF AcquireLocalWritelock, acquireLocalWritelockByCacheServer, lockResult
  <2>3. worker'[e].pc = "invalidate" /\ \A g \in Edges : g # e => worker'[g] = worker[g]
    BY <1>a, <2>2 DEF WorkerType
  <2>4. \E req : net' = net \cup req
    BY <2>2, RoundSends, Zenon
  <2> QED
    BY <1>9, <2>2, <2>3, <2>4, Zenon
<1>11. CASE ProcessAcquireWritelockRequest(e)
  <2>1. worker' = worker
    BY <1>11 DEF ProcessAcquireWritelockRequest
  <2>2. PICK m \in BeaconRequests(e, {"acquire"}) :
          \/ CallEdges("server", "inv", dirinfos(meta), net \ {m})
          \/ net' = (net \ {m}) \cup {Reply(m, lockResult(meta))}
    BY <1>11, Zenon DEF ProcessAcquireWritelockRequest
  <2>3. m.type = "acquire" /\ server = {}
    BY DEF BeaconRequests
  <2>4. \E req : net' = (net \ {m}) \cup req
    BY <2>2, RoundSends, Zenon
  <2> QED
    BY <1>9, <2>1, <2>3, <2>4, ZenonT(30)
<1> QED
  BY <1>6, <1>10, <1>11

\* Every step keeps the invariant where no edge has a second worker.
LEMMA NextCopies ==
    ASSUME MultiWorker = {}
    PROVE  CopyInv /\ [Next]_vars => CopyInv'
<1> SUFFICES ASSUME CopyInv, [Next]_vars
             PROVE  CopyInv'
  OBVIOUS
<1>1. WakeInv' /\ Steady
  BY NextWakes, NextSteady DEF CopyInv, WakeInv
<1>2. CASE \E e \in Edges : Client(e) \/ Read(e) \/ Admit(e) \/ Write(e) \/ Evict(e)
  BY <1>1, <1>2, ReadCopies, AdmitCopies, WriteCopies, EvictCopies, Zenon
<1>3. CASE \E e \in Edges : ProcessInvalidationRequest(e) \/ BeaconServer(e)
  BY <1>1, <1>3, InvalidationCopies, ServerCopies
<1>4. CASE Collect
  <2>1. CASE \E k \in Collectors : InvalidateOwnCopy(k) \/ ReceiveAck(k)
    BY <1>1, <2>1, OwnCopyCopies, AckCopies
  <2> QED
    BY <1>1, <1>4, <2>1, ServerCollectedCopies, WorkerCollectedCopies, Zenon
       DEF Collect, Collectors
<1>5. CASE ProcessGlobalPutRequest
  BY <1>1, <1>5, PutCopies, Zenon
<1>6. CASE UNCHANGED vars
  <2>1. /\ UNCHANGED <<cache, worker, evictor, server, pending, fresh, meta, net>>
    BY <1>6 DEF vars
  <2>2. MailWithin(net')
    BY <2>1, Within
  <2> QED
    BY <1>1, <2>1, <2>2, NothingCopied, Zenon
<1> QED
  BY <1>2, <1>3, <1>4, <1>5, <1>6, Zenon DEF Next

\* The invariant holds in every state where no edge has a second worker.
LEMMA AlwaysCopies ==
    ASSUME MultiWorker = {}
    PROVE  Spec => []CopyInv
BY InitCopies, NextCopies, PTL DEF Spec

\* LocalCachedIsGlobalCached: where every edge has one cache server worker, an
\* object in a local cache is recorded in the directory of its beacon, so that a
\* write invalidates it (admission reports to the directory before the cache takes
\* the object, eviction after the cache lost it).
THEOREM CopiesAreRecorded ==
    ASSUME MultiWorker = {}
    PROVE  Spec => []LocalCachedIsGlobalCached
<1>1. CopyInv => LocalCachedIsGlobalCached
  BY DEF CopyInv, Recorded, LocalCachedIsGlobalCached
<1> QED
  BY <1>1, AlwaysCopies, PTL

\* A copy that is still valid while the holder writes is fresh.
LEMMA WritersAlone == CopyInv => InvalidatedBeforeWrite
<1> SUFFICES ASSUME CopyInv, NEW e \in Edges, worker[e].lock = "success",
                    worker[e].pc \in {"put", "update", "written"},
                    NEW f \in Edges, cache[f].st = "valid"
             PROVE  f \in fresh
  BY Zenon DEF InvalidatedBeforeWrite
<1>1. LockInv /\ Disciplined(e) /\ Guarded /\ FlagMeansHeld
  BY Zenon DEF CopyInv, WakeInv, LockInv
<1>2. Granted(e)
  BY <1>1, Zenon DEF Granted, Disciplined, Own, WorkerCalls
<1>3. f \in fresh \/ Doomed(f)
  BY <1>1, <1>2, ZenonT(30) DEF FlagMeansHeld, Holders, Guarded
<1>4. ASSUME Doomed(f)
      PROVE  FALSE
  <2>1. PICK k \in Collectors :
          IF k = "server" THEN \E m \in server : m.type = "acquire"
                          ELSE worker[Beacon].pc = "invalidate"
    BY <1>4, Zenon DEF Doomed
  <2>2. Collecting(k) /\ CollectedCall(k) = "inv"
    BY <1>1, <2>1, Zenon DEF Collecting, CollectedCall, LockInv
  <2>3. PICK h \in Edges : Granted(h) /\ worker[h].pc \in {"acquire", "invalidate"}
    BY <2>2, InvalidatingHolder, Zenon
  <2>4. h = e
    BY <1>1, <1>2, <2>3 DEF LockInv
  <2> QED
    BY <2>3, <2>4, Zenon
<1> QED
  BY <1>3, <1>4

\* InvalidatedBeforeWrite: where every edge has one cache server worker, while the
\* lock's holder writes, every copy that is still valid became valid after the
\* grant (the lock's answer waits for all acknowledgements).
THEOREM CopiesAreInvalidated ==
    ASSUME MultiWorker = {}
    PROVE  Spec => []InvalidatedBeforeWrite
BY WritersAlone, AlwaysCopies, PTL

\* TargetsServe: where every edge has one cache server worker and no cache operation
\* fails, the directory offers an edge only if the edge has a valid copy, is about
\* to install one, or is evicting it.
THEOREM TargetsAlwaysServe ==
    ASSUME MultiWorker = {}, MayFail = FALSE
    PROVE  Spec => []TargetsServe
<1>1. CopyInv => TargetsServe
  BY Zenon DEF CopyInv, Served, TargetsServe
<1> QED
  BY <1>1, AlwaysCopies, PTL

=============================================================================
