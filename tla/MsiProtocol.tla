---------------------------- MODULE MsiProtocol ----------------------------
(***************************************************************************)
(* Cache coherence of one key.  Every edge runs the cache server worker    *)
(* that owns the key, its invalidation and redirection processors, and an  *)
(* evicting thread; the beacon edge also runs the beacon server, a single  *)
(* thread; the cloud stores the value.  Remote calls are datagrams.  This  *)
(* module has a network that delivers every datagram once, in any order;   *)
(* MsiTimeouts adds timeouts, retries and loss.                            *)
(*                                                                         *)
(* A value is the number of the write that produced it, 0 initially.       *)
(***************************************************************************)
EXTENDS Naturals, Cooperation

CONSTANTS Beacon,      \* the edge that the DHT makes responsible for the key
          MaxVersion,  \* bound on the number of writes
          Readers,     \* the edges whose clients read the key
          Writers,     \* the edges whose clients write it
          MultiWorker, \* the edges with several cache server workers, where
                       \* another key's worker may evict this key at any time
          MayFail,     \* whether admissions and updates of a local cache may
                       \* fail, as they do for oversized objects
          Seqs         \* message sequence numbers; enough of them that an
                       \* unused one exists stands for the 64-bit counter

ASSUME BeaconAssumption == Beacon \in Edges
ASSUME VersionAssumption == MaxVersion \in Nat
ASSUME ClientAssumption == Readers \subseteq Edges /\ Writers \subseteq Edges
ASSUME WorkerAssumption == MultiWorker \subseteq Edges
ASSUME FailAssumption == MayFail \in BOOLEAN
ASSUME SeqsAssumption == Seqs # {}
\* A lookup answers with an edge, or with one of these two.
ASSUME NamesAssumption == Edges \cap {"written", "none"} = {}

VARIABLES
    cloud,    \* the value in the cloud's store
    nver,     \* the number of writes started
    cache,    \* cache[e]: the key's object in the local cache of edge e
    meta,     \* the beacon's metadata of the key
    worker,   \* worker[e]: the cache server worker of the key at edge e
    evictor,  \* evictor[e]: the thread of edge e that evicts the key
    server,   \* the request the beacon server is processing, as a set
    pending,  \* the edges whose acknowledgement a thread of the beacon
              \* still awaits, for the server and for the beacon's worker
    seq,      \* the sequence number of each thread's latest call
    net,      \* the datagrams in flight
    fresh,    \* history: edges that validated a copy since the write lock
              \* was last granted
    fault     \* the assertions of the code that failed

vars == <<cloud, nver, cache, meta, worker, evictor, server, pending, seq,
          net, fresh, fault>>

Versions == 0..MaxVersion
Threads == {"worker", "evictor", "server"} \X Edges
Labels == {"idle", "lookup", "blocked", "redirect", "missed", "cloudget",
           "fetched", "decide", "admit", "installValid", "installInvalid", "acquire",
           "invalidate", "put", "update", "written", "release", "notify"}
Locks == {"none", "noneed", "success"}
Calls == {"lookup", "admit", "evict", "acquire", "release", "put", "inv", "fin"}
Answers(type) == CASE type = "lookup" -> {"written", "none"} \cup Edges
                   [] type = "admit" -> {"written", "clear"}
                   [] type = "acquire" -> {"noneed", "success", "failure"}
                   [] OTHER -> {"-"}

CacheType == [st : {"absent", "valid", "invalid"}, val : Versions]
WorkerType == [pc : Labels, op : {"none", "get", "put"}, val : Versions,
               lock : Locks, target : Edges]
\* th is the calling thread, dst the edge an "inv" or "fin" is sent to (the
\* caller's edge otherwise), copy tells a retry from the first transmission.
Messages == [type : Calls, rsp : BOOLEAN, th : Threads, dst : Edges, seq : Seqs,
             copy : Nat, arg : UNION {Answers(c) : c \in Calls}, ver : Versions]
MessageType ==
    {m \in Messages : m.arg \in IF m.rsp THEN Answers(m.type) ELSE {"-"}}

IdleWorker(e) == [pc |-> "idle", op |-> "none", val |-> 0, lock |-> "none",
                  target |-> e]

Init ==
    /\ cloud = 0
    /\ nver = 0
    /\ cache = [e \in Edges |-> [st |-> "absent", val |-> 0]]
    /\ meta = InitMeta
    /\ worker = [e \in Edges |-> IdleWorker(e)]
    /\ evictor = [e \in Edges |-> "idle"]
    /\ server = {}
    /\ pending = [t \in {"server", "worker"} |-> {}]
    /\ seq = [t \in Threads |-> CHOOSE s \in Seqs : TRUE]
    /\ net = {}
    /\ fresh = {}
    /\ fault = {}

----------------------------------------------------------------------------
(* Remote calls *)

W(e) == <<"worker", e>>
E(e) == <<"evictor", e>>
BeaconThread(k) == <<k, Beacon>>

Unused(t, ms) == {s \in Seqs : \A m \in ms : m.th = t => m.seq # s}

Requests(t, type, dsts, s, c, ver) ==
    {[type |-> type, rsp |-> FALSE, th |-> t, dst |-> d, seq |-> s,
      copy |-> c, arg |-> "-", ver |-> ver] : d \in dsts}

\* Thread t sends a request under an unused sequence number; ms is what
\* else remains in flight.
Call(t, type, dsts, ver, ms) ==
    /\ Unused(t, ms) # {}
    /\ LET s == CHOOSE s \in Unused(t, ms) : TRUE
       IN  /\ seq' = [seq EXCEPT ![t] = s]
           /\ net' = ms \cup Requests(t, type, dsts, s, 0, ver)

Reply(m, arg) == [m EXCEPT !.rsp = TRUE, !.arg = arg, !.ver = 0]

\* The response to the current call of thread t; one with another sequence
\* number is stale and ignored.
Responses(t, type) == {m \in net : m.rsp /\ m.th = t /\ m.type = type
                                   /\ m.seq = seq[t]}

\* The labels at which worker e waits for a remote call to answer.
Remote(e, label) ==
    \/ label = "put"
    \/ label \in {"lookup", "admit", "acquire", "release"} /\ e # Beacon

\* Worker e moves to state w, sending its request if w waits for an answer.
Enter(e, w, ms) ==
    /\ worker' = [worker EXCEPT ![e] = w]
    /\ IF Remote(e, w.pc)
         THEN Call(W(e), w.pc, {e}, IF w.pc = "put" THEN w.val ELSE 0, ms)
         ELSE net' = ms /\ seq' = seq

Jump(e, label, ms) == Enter(e, [worker[e] EXCEPT !.pc = label], ms)

\* Mutant: the worker does not wait for its own eviction.
Free_Always(e) == TRUE

\* With a single worker the worker itself evicts, and does nothing else
\* until the directory has been updated.
Free(e) == e \in MultiWorker \/ evictor[e] = "idle"

\* An assert of the code; the process ends when it fails.
Check(cond, name) == fault' = IF cond THEN fault ELSE fault \cup {name}

\* The lock is held when it is released, and the beacon's own worker, which
\* polls, is not among the edges to notify.
CheckRelease == Check(meta.writeflag /\ Beacon \notin meta.blocklist, "release")

----------------------------------------------------------------------------
(* Reads: processLocalGetRequest_ *)

Get(e) ==
    /\ e \in Readers /\ worker[e].pc = "idle" /\ Free(e)
    /\ IF cache[e].st = "valid"
         THEN Enter(e, [worker[e] EXCEPT !.pc = "fetched", !.op = "get",
                                         !.val = cache[e].val], net)
         ELSE Enter(e, [worker[e] EXCEPT !.pc = "lookup", !.op = "get"], net)
    /\ UNCHANGED <<cloud, nver, cache, meta, evictor, server, pending, fresh,
                   fault>>

\* The worker of the beacon edge polls the directory while the key is being
\* written.
LookupLocalDirectory(e) ==
    /\ e = Beacon /\ worker[e].pc = "lookup"
    /\ ~meta.writeflag
    /\ IF lookupTargets(meta, e) = {} THEN Jump(e, "cloudget", net)
       ELSE \E d \in lookupTargets(meta, e) :
              Enter(e, [worker[e] EXCEPT !.pc = "redirect", !.target = d], net)
    /\ UNCHANGED <<cloud, nver, cache, meta, evictor, server, pending, fresh,
                   fault>>

LookupBeaconDirectory(e) ==
    /\ worker[e].pc = "lookup"
    /\ \E m \in Responses(W(e), "lookup") :
         CASE m.arg = "written" -> Jump(e, "blocked", net \ {m})
           [] m.arg = "none" -> Jump(e, "cloudget", net \ {m})
           [] OTHER -> Enter(e, [worker[e] EXCEPT !.pc = "redirect",
                                                  !.target = m.arg], net \ {m})
    /\ UNCHANGED <<cloud, nver, cache, meta, evictor, server, pending, fresh,
                   fault>>

\* The target's redirection processor reads its cache: a valid object is a hit.
ProcessRedirectedGetRequest(e) ==
    /\ worker[e].pc = "redirect"
    /\ LET c == cache[worker[e].target]
       IN  IF c.st = "valid"
             THEN Enter(e, [worker[e] EXCEPT !.pc = "fetched", !.val = c.val], net)
             ELSE Jump(e, "missed", net)
    /\ UNCHANGED <<cloud, nver, cache, meta, evictor, server, pending, fresh,
                   fault>>

\* After a miss the processor asks its cache again whether the object is there:
\* then the reader looks the directory up once more, else it goes to the cloud.
RedirectGetToTarget(e) ==
    /\ worker[e].pc = "missed"
    /\ Jump(e, IF cache[worker[e].target].st = "absent" THEN "cloudget"
               ELSE "lookup", net)
    /\ UNCHANGED <<cloud, nver, cache, meta, evictor, server, pending, fresh,
                   fault>>

FetchDataFromCloud(e) ==
    /\ worker[e].pc = "cloudget"
    /\ Enter(e, [worker[e] EXCEPT !.pc = "fetched", !.val = cloud], net)
    /\ UNCHANGED <<cloud, nver, cache, meta, evictor, server, pending, fresh,
                   fault>>

\* A cached object that is invalid takes the fetched value and becomes valid.
TryToUpdateInvalidLocalEdgeCache(e) ==
    /\ worker[e].pc = "fetched"
    /\ \/ /\ cache[e].st = "invalid"
          /\ cache' = [cache EXCEPT ![e] = [st |-> "valid",
                                            val |-> worker[e].val]]
          /\ fresh' = fresh \cup {e}
       \/ /\ cache[e].st = "invalid" => MayFail
          /\ UNCHANGED <<cache, fresh>>
    /\ Jump(e, "decide", net)
    /\ UNCHANGED <<cloud, nver, meta, evictor, server, pending, fault>>

----------------------------------------------------------------------------
(* Admission, after a read or a write *)

\* The worker answers the client, or first admits an object not cached yet.
AfterRequest(e) ==
    /\ worker[e].pc = "decide" /\ Free(e)
    /\ \/ Enter(e, IdleWorker(e), net)
       \/ cache[e].st = "absent" /\ Jump(e, "admit", net)
    /\ UNCHANGED <<cloud, nver, cache, meta, evictor, server, pending, fresh,
                   fault>>

AdmitLocalDirectory(e) ==
    /\ e = Beacon /\ worker[e].pc = "admit"
    /\ meta' = updateDirectoryTable(meta, e, TRUE)
    /\ Jump(e, IF meta.writeflag THEN "installInvalid" ELSE "installValid", net)
    /\ UNCHANGED <<cloud, nver, cache, evictor, server, pending, fresh, fault>>

AdmitBeaconDirectory(e) ==
    /\ worker[e].pc = "admit"
    /\ \E m \in Responses(W(e), "admit") :
         Jump(e, IF m.arg = "written" THEN "installInvalid" ELSE "installValid",
              net \ {m})
    /\ UNCHANGED <<cloud, nver, cache, meta, evictor, server, pending, fresh,
                   fault>>

\* The local cache takes the object with the validity the beacon reported.
AdmitLocalEdgeCache(e) ==
    /\ worker[e].pc \in {"installValid", "installInvalid"}
    /\ \/ LET valid == worker[e].pc = "installValid"
          IN  /\ cache' = [cache EXCEPT ![e] =
                             [st |-> IF valid THEN "valid" ELSE "invalid",
                              val |-> worker[e].val]]
              /\ fresh' = IF valid THEN fresh \cup {e} ELSE fresh
       \/ MayFail /\ UNCHANGED <<cache, fresh>>
    /\ Enter(e, IdleWorker(e), net)
    /\ UNCHANGED <<cloud, nver, meta, evictor, server, pending, fault>>

----------------------------------------------------------------------------
(* Writes: processLocalWriteRequest_ *)

Put(e) ==
    /\ e \in Writers /\ worker[e].pc = "idle" /\ Free(e)
    /\ nver < MaxVersion
    /\ nver' = nver + 1
    /\ Enter(e, [worker[e] EXCEPT !.pc = "acquire", !.op = "put",
                                  !.val = nver + 1], net)
    /\ UNCHANGED <<cloud, cache, meta, evictor, server, pending, fresh, fault>>

\* A thread of the beacon (k = "server" or "worker") asks every edge in dsts
\* and awaits all of them; its own edge it serves itself.
CallEdges(k, type, dsts, ms) ==
    /\ pending' = [pending EXCEPT ![k] = dsts]
    /\ Call(BeaconThread(k), type, dsts \ {Beacon}, 0, ms)

\* The beacon's own worker polls the write lock while it is taken.
AcquireLocalWritelock(e) ==
    /\ e = Beacon /\ worker[e].pc = "acquire"
    /\ meta' = acquireLocalWritelockByCacheServer(meta)
    /\ \/ /\ lockResult(meta) = "noneed"
          /\ Enter(e, [worker[e] EXCEPT !.pc = "put", !.lock = "noneed"], net)
          /\ UNCHANGED <<pending, fresh>>
       \/ /\ lockResult(meta) = "success"
          /\ worker' = [worker EXCEPT ![e].pc = "invalidate",
                                      ![e].lock = "success"]
          /\ CallEdges("worker", "inv", dirinfos(meta), net)
          /\ fresh' = {}
    /\ UNCHANGED <<cloud, nver, cache, evictor, server, fault>>

\* Mutant: a refused lock is taken for a granted one.
AcquireBeaconWritelock_IgnoresFailure(e) ==
    /\ worker[e].pc = "acquire"
    /\ \E m \in Responses(W(e), "acquire") :
         Enter(e, [worker[e] EXCEPT !.pc = "put", !.lock = m.arg], net \ {m})
    /\ UNCHANGED <<cloud, nver, cache, meta, evictor, server, pending, fresh,
                   fault>>

AcquireBeaconWritelock(e) ==
    /\ worker[e].pc = "acquire"
    /\ \E m \in Responses(W(e), "acquire") :
         IF m.arg = "failure" THEN Jump(e, "blocked", net \ {m})
         ELSE Enter(e, [worker[e] EXCEPT !.pc = "put", !.lock = m.arg],
                    net \ {m})
    /\ UNCHANGED <<cloud, nver, cache, meta, evictor, server, pending, fresh,
                   fault>>

\* A blocked worker acknowledges the end of the write and repeats its call.
BlockForWritesByInterruption(e) ==
    /\ worker[e].pc = "blocked"
    /\ \E m \in net :
         /\ m.type = "fin" /\ ~m.rsp /\ m.dst = e
         /\ Jump(e, IF worker[e].op = "get" THEN "lookup" ELSE "acquire",
                 (net \ {m}) \cup {Reply(m, "-")})
    /\ UNCHANGED <<cloud, nver, cache, meta, evictor, server, pending, fresh,
                   fault>>

\* Mutant: the worker does not wait for the cloud's answer.
WriteDataToCloud_NoWait(e) ==
    /\ worker[e].pc = "put"
    /\ Jump(e, "update", {m \in net : ~(m.rsp /\ m.th = W(e))})
    /\ UNCHANGED <<cloud, nver, cache, meta, evictor, server, pending, fresh,
                   fault>>

WriteDataToCloud(e) ==
    /\ worker[e].pc = "put"
    /\ \E m \in Responses(W(e), "put") : Jump(e, "update", net \ {m})
    /\ UNCHANGED <<cloud, nver, cache, meta, evictor, server, pending, fresh,
                   fault>>

\* Only an object that is cached is updated; a failed update invalidates it.
UpdateLocalEdgeCache(e) ==
    /\ worker[e].pc = "update"
    /\ \/ /\ cache[e].st # "absent"
          /\ cache' = [cache EXCEPT ![e] = [st |-> "valid",
                                            val |-> worker[e].val]]
          /\ fresh' = fresh \cup {e}
       \/ /\ cache[e].st # "absent" /\ MayFail
          /\ cache' = [cache EXCEPT ![e].st = "invalid"]
          /\ UNCHANGED fresh
       \/ cache[e].st = "absent" /\ UNCHANGED <<cache, fresh>>
    /\ Jump(e, "written", net)
    /\ UNCHANGED <<cloud, nver, meta, evictor, server, pending, fault>>

\* Mutant: the lock is released even where none was needed.
FinishWrite_AlwaysReleases(e) ==
    /\ worker[e].pc = "written" /\ Free(e) /\ e # Beacon
    /\ Jump(e, "release", net)
    /\ UNCHANGED <<cloud, nver, cache, meta, evictor, server, pending, fresh,
                   fault>>

\* Mutant: the lock is not released.
FinishWrite_NeverReleases(e) ==
    /\ worker[e].pc = "written" /\ Free(e)
    /\ Jump(e, "decide", net)
    /\ UNCHANGED <<cloud, nver, cache, meta, evictor, server, pending, fresh,
                   fault>>

\* The write lock is released only by a writer that acquired it.
FinishWrite(e) ==
    /\ worker[e].pc = "written" /\ Free(e)
    /\ \/ /\ worker[e].lock = "noneed"
          /\ Jump(e, "decide", net)
       \/ /\ worker[e].lock = "success" /\ e # Beacon
          /\ Jump(e, "release", net)
    /\ UNCHANGED <<cloud, nver, cache, meta, evictor, server, pending, fresh,
                   fault>>

\* Mutant: the blocked edges are not notified.
ReleaseLocalWritelock_Silent(e) ==
    /\ e = Beacon /\ worker[e].pc = "written" /\ Free(e)
    /\ worker[e].lock = "success"
    /\ CheckRelease
    /\ meta' = releaseLocalWritelock(meta, e)
    /\ worker' = [worker EXCEPT ![e].pc = "notify"]
    /\ CallEdges("worker", "fin", {}, net)
    /\ UNCHANGED <<cloud, nver, cache, evictor, server, fresh>>

ReleaseLocalWritelock(e) ==
    /\ e = Beacon /\ worker[e].pc = "written" /\ Free(e)
    /\ worker[e].lock = "success"
    /\ CheckRelease
    /\ meta' = releaseLocalWritelock(meta, e)
    /\ worker' = [worker EXCEPT ![e].pc = "notify"]
    /\ CallEdges("worker", "fin", meta.blocklist, net)
    /\ UNCHANGED <<cloud, nver, cache, evictor, server, fresh>>

ReleaseBeaconWritelock(e) ==
    /\ worker[e].pc = "release"
    /\ \E m \in Responses(W(e), "release") : Jump(e, "decide", net \ {m})
    /\ UNCHANGED <<cloud, nver, cache, meta, evictor, server, pending, fresh,
                   fault>>

----------------------------------------------------------------------------
(* Evictions *)

\* Where a single worker makes room: after serving a request, for this key
\* or another, and after changing the cached value.
EvictPoints == {"idle", "decide", "written"}

EvictLocalEdgeCache(e) ==
    /\ evictor[e] = "idle" /\ cache[e].st # "absent"
    /\ e \in MultiWorker \/ worker[e].pc \in EvictPoints
    /\ cache' = [cache EXCEPT ![e] = [st |-> "absent", val |-> 0]]
    /\ evictor' = [evictor EXCEPT ![e] = "evict"]
    /\ IF e = Beacon THEN UNCHANGED <<seq, net>>
                     ELSE Call(E(e), "evict", {e}, 0, net)
    /\ UNCHANGED <<cloud, nver, meta, worker, server, pending, fresh, fault>>

EvictLocalDirectory(e) ==
    /\ e = Beacon /\ evictor[e] = "evict"
    /\ meta' = updateDirectoryTable(meta, e, FALSE)
    /\ evictor' = [evictor EXCEPT ![e] = "idle"]
    /\ UNCHANGED <<cloud, nver, cache, worker, server, pending, seq, net,
                   fresh, fault>>

EvictBeaconDirectory(e) ==
    /\ evictor[e] = "evict"
    /\ \E m \in Responses(E(e), "evict") : net' = net \ {m}
    /\ evictor' = [evictor EXCEPT ![e] = "idle"]
    /\ UNCHANGED <<cloud, nver, cache, meta, worker, server, pending, seq,
                   fresh, fault>>

----------------------------------------------------------------------------
(* The beacon server: one thread, one request at a time *)

BeaconRequests(e, types) ==
    {m \in net : server = {} /\ ~m.rsp /\ m.type \in types /\ m.th[2] = e}

\* An edge is blocked at most once.
CheckBlock(e) == Check(e \notin meta.blocklist, "blocked twice")

ProcessDirectoryLookupRequest(e) ==
    /\ \E m \in BeaconRequests(e, {"lookup"}) :
         \E arg \in IF meta.writeflag THEN {"written"}
                    ELSE IF lookupTargets(meta, e) = {} THEN {"none"}
                    ELSE lookupTargets(meta, e) :
           net' = (net \ {m}) \cup {Reply(m, arg)}
    /\ CheckBlock(e)
    /\ meta' = lookupByBeaconServer(meta, e)
    /\ UNCHANGED <<cloud, nver, cache, worker, evictor, server, pending, seq,
                   fresh>>

ProcessDirectoryUpdateRequest(e) ==
    /\ \E m \in BeaconRequests(e, {"admit", "evict"}) :
         /\ meta' = updateDirectoryTable(meta, e, m.type = "admit")
         /\ net' = (net \ {m}) \cup
                     {Reply(m, IF m.type = "evict" THEN "-"
                               ELSE IF meta.writeflag THEN "written"
                               ELSE "clear")}
    /\ UNCHANGED <<cloud, nver, cache, worker, evictor, server, pending, seq,
                   fresh, fault>>

\* A granted lock is answered only after every copy has been invalidated.
ProcessAcquireWritelockRequest(e) ==
    /\ \E m \in BeaconRequests(e, {"acquire"}) :
         IF lockResult(meta) = "success"
           THEN /\ CallEdges("server", "inv", dirinfos(meta), net \ {m})
                /\ server' = {m}
                /\ fresh' = {}
           ELSE /\ net' = (net \ {m}) \cup {Reply(m, lockResult(meta))}
                /\ UNCHANGED <<server, pending, seq, fresh>>
    /\ meta' = acquireLocalWritelockByBeaconServer(meta, e)
    /\ IF lockResult(meta) = "failure" THEN CheckBlock(e) ELSE UNCHANGED fault
    /\ UNCHANGED <<cloud, nver, cache, worker, evictor>>

\* Mutant: the blocked edges are not notified.
ProcessReleaseWritelockRequest_Silent(e) ==
    /\ \E m \in BeaconRequests(e, {"release"}) :
         /\ CallEdges("server", "fin", {}, net \ {m})
         /\ server' = {m}
    /\ CheckRelease
    /\ meta' = releaseLocalWritelock(meta, e)
    /\ UNCHANGED <<cloud, nver, cache, worker, evictor, fresh>>

\* A release is answered only after every blocked edge has been notified.
ProcessReleaseWritelockRequest(e) ==
    /\ \E m \in BeaconRequests(e, {"release"}) :
         /\ CallEdges("server", "fin", meta.blocklist, net \ {m})
         /\ server' = {m}
    /\ CheckRelease
    /\ meta' = releaseLocalWritelock(meta, e)
    /\ UNCHANGED <<cloud, nver, cache, worker, evictor, fresh>>

----------------------------------------------------------------------------
(* Collecting acknowledgements: parallelInvalidateCacheCopies and           *)
(* parallelNotifyEdgesToFinishBlock                                         *)

Collecting(k) == IF k = "server" THEN server # {}
                 ELSE worker[Beacon].pc \in {"invalidate", "notify"}

\* The call whose acknowledgements are collected.
CollectedCall(k) ==
    LET invalidating == IF k = "server" THEN \A m \in server : m.type = "acquire"
                        ELSE worker[Beacon].pc = "invalidate"
    IN  IF invalidating THEN "inv" ELSE "fin"

Invalidated(c) == IF c.st = "absent" THEN c ELSE [c EXCEPT !.st = "invalid"]

InvalidateOwnCopy(k) ==
    /\ Collecting(k) /\ Beacon \in pending[k]
    /\ cache' = [cache EXCEPT ![Beacon] = Invalidated(@)]
    /\ pending' = [pending EXCEPT ![k] = @ \ {Beacon}]
    /\ UNCHANGED <<cloud, nver, meta, worker, evictor, server, seq, net, fresh,
                   fault>>

\* An edge acknowledges a call at most once.
ReceiveAck(k) ==
    /\ Collecting(k) /\ pending[k] # {}
    /\ \E m \in Responses(BeaconThread(k), "inv")
                  \cup Responses(BeaconThread(k), "fin") :
         /\ Check(m.dst \in pending[k], "acknowledged twice")
         /\ pending' = [pending EXCEPT ![k] = @ \ {m.dst}]
         /\ net' = net \ {m}
    /\ UNCHANGED <<cloud, nver, cache, meta, worker, evictor, server, seq,
                   fresh>>

ServerCollected ==
    /\ pending["server"] = {}
    /\ \E m \in server :
         net' = net \cup {Reply(m, IF m.type = "acquire" THEN "success" ELSE "-")}
    /\ server' = {}
    /\ UNCHANGED <<cloud, nver, cache, meta, worker, evictor, pending, seq,
                   fresh, fault>>

WorkerCollected ==
    /\ Collecting("worker") /\ pending["worker"] = {}
    /\ Jump(Beacon, IF worker[Beacon].pc = "invalidate" THEN "put" ELSE "decide",
            net)
    /\ UNCHANGED <<cloud, nver, cache, meta, evictor, server, pending, fresh,
                   fault>>

ProcessInvalidationRequest(e) ==
    /\ \E m \in net :
         /\ m.type = "inv" /\ ~m.rsp /\ m.dst = e
         /\ net' = (net \ {m}) \cup {Reply(m, "-")}
    /\ cache' = [cache EXCEPT ![e] = Invalidated(@)]
    /\ UNCHANGED <<cloud, nver, meta, worker, evictor, server, pending, seq,
                   fresh, fault>>

\* The cloud's data server applies every write request it receives.
ProcessGlobalPutRequest ==
    /\ \E m \in net :
         /\ m.type = "put" /\ ~m.rsp
         /\ cloud' = m.ver
         /\ net' = (net \ {m}) \cup {Reply(m, "-")}
    /\ UNCHANGED <<nver, cache, meta, worker, evictor, server, pending, seq,
                   fresh, fault>>

----------------------------------------------------------------------------
Client(e) == Get(e) \/ Put(e)

Read(e) ==
    \/ LookupLocalDirectory(e) \/ LookupBeaconDirectory(e)
    \/ ProcessRedirectedGetRequest(e) \/ RedirectGetToTarget(e)
    \/ FetchDataFromCloud(e) \/ TryToUpdateInvalidLocalEdgeCache(e)

Admit(e) ==
    \/ AfterRequest(e) \/ AdmitLocalDirectory(e) \/ AdmitBeaconDirectory(e)
    \/ AdmitLocalEdgeCache(e)

Write(e) ==
    \/ AcquireLocalWritelock(e) \/ AcquireBeaconWritelock(e)
    \/ BlockForWritesByInterruption(e) \/ WriteDataToCloud(e)
    \/ UpdateLocalEdgeCache(e) \/ FinishWrite(e)
    \/ ReleaseLocalWritelock(e) \/ ReleaseBeaconWritelock(e)

Evict(e) == EvictLocalEdgeCache(e) \/ EvictLocalDirectory(e)
               \/ EvictBeaconDirectory(e)

BeaconServer(e) ==
    \/ ProcessDirectoryLookupRequest(e) \/ ProcessDirectoryUpdateRequest(e)
    \/ ProcessAcquireWritelockRequest(e) \/ ProcessReleaseWritelockRequest(e)

Collect == \/ \E k \in {"server", "worker"} : InvalidateOwnCopy(k) \/ ReceiveAck(k)
           \/ ServerCollected \/ WorkerCollected

Next ==
    \/ \E e \in Edges : Client(e) \/ Read(e) \/ Admit(e) \/ Write(e) \/ Evict(e)
                          \/ ProcessInvalidationRequest(e) \/ BeaconServer(e)
    \/ Collect \/ ProcessGlobalPutRequest

Spec == Init /\ [][Next]_vars

\* Every thread keeps running.  Clients need not send requests and nothing
\* needs to be evicted.  The beacon server takes datagrams from its socket in
\* the order of arrival, so it cannot pass over the requests of one edge for
\* ever while it serves the others.
Fairness ==
    /\ \A e \in Edges :
         /\ WF_vars(Read(e)) /\ WF_vars(Admit(e)) /\ WF_vars(Write(e))
         /\ WF_vars(EvictLocalDirectory(e)) /\ WF_vars(EvictBeaconDirectory(e))
         /\ WF_vars(ProcessInvalidationRequest(e))
         /\ SF_vars(BeaconServer(e))
    /\ WF_vars(Collect)
    /\ WF_vars(ProcessGlobalPutRequest)

FairSpec == Spec /\ Fairness

----------------------------------------------------------------------------
(* Properties *)

\* Every variable keeps its type.
TypeOK ==
    /\ cloud \in Versions
    /\ nver \in Versions
    /\ cache \in [Edges -> CacheType]
    /\ meta \in MetaType
    /\ worker \in [Edges -> WorkerType]
    /\ evictor \in [Edges -> {"idle", "evict"}]
    /\ server \subseteq MessageType
    /\ pending \in [{"server", "worker"} -> SUBSET Edges]
    /\ seq \in [Threads -> Seqs]
    /\ net \subseteq MessageType
    /\ fresh \subseteq Edges
    /\ fault \subseteq {"release", "blocked twice", "acknowledged twice"}

\* While a key is being written the directory offers no valid copy of it, and
\* edges are blocked only while it is being written; the beacon's own worker,
\* which polls, is never blocked.  So a read that starts during a write waits
\* for it, and no edge is blocked where no release will look for it.
BeaconConsistent ==
    /\ meta.writeflag => \A e \in Edges : meta.dir[e] # "valid"
    /\ ~meta.writeflag => meta.blocklist = {}
    /\ Beacon \notin meta.blocklist

\* No assertion of the code fails: the lock is held when it is released, no
\* edge is blocked twice, and no edge acknowledges a call twice.
NoAssertFails == fault = {}

\* The edges to which the lock has been granted and whose release the beacon
\* has not processed: the server is still invalidating copies for the edge,
\* its answer is on the way, or the writer is at work and the beacon has not
\* received its release.
Granted(e) ==
    \/ \E m \in server : m.type = "acquire" /\ m.th = W(e)
    \/ \E m \in net : m.type = "acquire" /\ m.th = W(e) /\ m.rsp
                       /\ m.arg = "success"
    \/ /\ worker[e].lock = "success"
       /\ worker[e].pc \in {"invalidate", "put", "update", "written", "release"}
       /\ ~ \E m \in server : m.type = "release" /\ m.th = W(e)
       /\ ~ \E m \in net : m.type = "release" /\ m.th = W(e) /\ m.rsp

Holders == {e \in Edges : Granted(e)}

Lock == INSTANCE WriteLock WITH holders <- Holders, waiting <- meta.blocklist

\* The messages implement the abstract write lock: one edge holds it at a
\* time, only edges that do not hold it wait, and a release wakes them all.
ImplementsWriteLock == Lock!Spec

\* The write flag is set exactly while some edge holds the lock, so that no
\* write is left without the release that resets the flag.
FlagMeansHeld == meta.writeflag <=> Holders # {}

\* A thread of the beacon is waiting for edge e to learn that a write ended.
Notifying(e) ==
    \E k \in {"server", "worker"} :
      /\ Collecting(k) /\ CollectedCall(k) = "fin" /\ e \in pending[k]
      /\ ~ \E m \in net : m.type = "fin" /\ m.rsp /\ m.dst = e
                            /\ m.th = BeaconThread(k)

\* An edge whose worker is blocked is in the beacon's blocklist, or the beacon
\* is notifying it that the write ended; an edge in the blocklist is blocked or
\* is about to learn that it is.  No wake-up is lost and none is misplaced.
NoLostWakeup ==
    \A e \in Edges :
      /\ worker[e].pc = "blocked" => e \in meta.blocklist \/ Notifying(e)
      /\ e \in meta.blocklist =>
           \/ worker[e].pc = "blocked"
           \/ \E m \in net : /\ m.rsp /\ m.th = W(e)
                             /\ m.arg \in {"written", "failure"}

\* While the lock's holder writes, every copy that is still valid became valid
\* after the grant: those that existed at the grant have been invalidated
\* before the value in the cloud changes.
InvalidatedBeforeWrite ==
    \A e \in Edges :
      worker[e].lock = "success" /\ worker[e].pc \in {"put", "update", "written"}
        => \A f \in Edges : cache[f].st = "valid" => f \in fresh

\* An object in a local cache is recorded in the directory of its beacon: a
\* copy the directory does not know would never be invalidated.
LocalCachedIsGlobalCached ==
    \A e \in Edges : cache[e].st # "absent" => meta.dir[e] # "none"

\* The directory offers an edge as a target only if the edge can answer with a
\* valid copy, is about to install one, or is evicting it: a redirected read
\* is not sent back to the directory again and again.
TargetsServe ==
    \A e \in Edges :
      meta.dir[e] = "valid" =>
        \/ cache[e].st = "valid"
        \/ worker[e].pc \in {"admit", "installValid"}
        \/ evictor[e] = "evict"

\* A blocked worker is woken, and every request a client sends is answered:
\* no thread waits for ever on the lock, on the directory or on another edge.
EveryRequestEnds ==
    \A e \in Edges : (worker[e].pc # "idle") ~> (worker[e].pc = "idle")

TakesEffectInTime ==
    cloud' # cloud => \E e \in Edges : worker[e].pc = "put" /\ worker[e].val = cloud'

\* The cloud's value changes only while the worker that wrote the new value
\* still waits for the cloud's answer: a write cannot take effect after its
\* client was told that it was done, over a later write.
WritesTakeEffectInTime == [][TakesEffectInTime]_vars

----------------------------------------------------------------------------
(* What comments and assertions of the code say, and the code does not      *)
(* ensure                                                                   *)

Quiet == /\ \A e \in Edges : worker[e].pc = "idle" /\ evictor[e] = "idle"
         /\ server = {} /\ net = {}

\* When nothing is under way, every valid copy holds the value in the cloud:
\* asking the beacon before admitting an object keeps clients from getting an
\* incorrect value.
NoStaleCopy ==
    Quiet => \A e \in Edges : cache[e].st = "valid" => cache[e].val = cloud

=============================================================================
