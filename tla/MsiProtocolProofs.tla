------------------------- MODULE MsiProtocolProofs -------------------------
(***************************************************************************)
(* Proofs about MsiProtocol, for every set of edges, every beacon, every   *)
(* number of writes and every choice of the other constants: its state is  *)
(* well formed, the beacon's metadata is consistent, and the write lock is *)
(* exclusive and implements WriteLock.                                     *)
(***************************************************************************)
EXTENDS MsiProtocol, TLAPS

----------------------------------------------------------------------------
(* The operations on the beacon's metadata *)

\* What BeaconConsistent says of a metadata value.
Consistent(mt) ==
    /\ mt.writeflag => \A e \in Edges : mt.dir[e] # "valid"
    /\ ~mt.writeflag => mt.blocklist = {}
    /\ Beacon \notin mt.blocklist

\* Admissions and evictions keep the metadata consistent: an admission during
\* a write is recorded as invalid.
LEMMA UpdateConsistent ==
    ASSUME NEW mt \in MetaType, NEW e \in Edges, NEW a \in BOOLEAN,
           Consistent(mt)
    PROVE  /\ updateDirectoryTable(mt, e, a) \in MetaType
           /\ Consistent(updateDirectoryTable(mt, e, a))
BY DEF MetaType, Dirinfo, Consistent, updateDirectoryTable

\* A lookup changes the blocklist only, during a write, for a remote edge.
LEMMA LookupConsistent ==
    ASSUME NEW mt \in MetaType, NEW e \in Edges, Consistent(mt), e # Beacon
    PROVE  /\ lookupByBeaconServer(mt, e) \in MetaType
           /\ Consistent(lookupByBeaconServer(mt, e))
BY DEF MetaType, Dirinfo, Consistent, lookupByBeaconServer, blockEdge

\* Setting the write flag invalidates every record.
LEMMA SetWriteflagConsistent ==
    ASSUME NEW mt \in MetaType, Consistent(mt), ~mt.writeflag
    PROVE  setWriteflag(mt) \in MetaType /\ Consistent(setWriteflag(mt))
BY Zenon DEF MetaType, Dirinfo, Consistent, setWriteflag, invalidateAllDirinfo

\* Acquiring the lock from the beacon's worker keeps the metadata consistent.
LEMMA AcquireLocalConsistent ==
    ASSUME NEW mt \in MetaType, Consistent(mt)
    PROVE  /\ acquireLocalWritelockByCacheServer(mt) \in MetaType
           /\ Consistent(acquireLocalWritelockByCacheServer(mt))
BY SetWriteflagConsistent DEF acquireLocalWritelockByCacheServer, lockResult

\* So does acquiring it from the beacon server, which blocks a remote edge.
LEMMA AcquireRemoteConsistent ==
    ASSUME NEW mt \in MetaType, NEW e \in Edges, Consistent(mt), e # Beacon
    PROVE  /\ acquireLocalWritelockByBeaconServer(mt, e) \in MetaType
           /\ Consistent(acquireLocalWritelockByBeaconServer(mt, e))
<1>1. CASE lockResult(mt) = "success"
  BY <1>1, SetWriteflagConsistent
     DEF acquireLocalWritelockByBeaconServer, lockResult
<1>2. CASE lockResult(mt) = "failure"
  <2>1. mt.writeflag
    BY <1>2 DEF lockResult
  <2>2. acquireLocalWritelockByBeaconServer(mt, e) = blockEdge(mt, e)
    BY <1>2 DEF acquireLocalWritelockByBeaconServer
  <2> QED
    BY <2>1, <2>2 DEF MetaType, Consistent, blockEdge
<1>3. CASE lockResult(mt) \notin {"success", "failure"}
  BY <1>3 DEF acquireLocalWritelockByBeaconServer
<1> QED
  BY <1>1, <1>2, <1>3

\* A release clears the flag and the blocklist together.
LEMMA ReleaseConsistent ==
    ASSUME NEW mt \in MetaType, NEW e \in Edges, Consistent(mt)
    PROVE  /\ releaseLocalWritelock(mt, e) \in MetaType
           /\ Consistent(releaseLocalWritelock(mt, e))
BY Zenon DEF MetaType, Dirinfo, Consistent, releaseLocalWritelock, validateDirinfo

----------------------------------------------------------------------------
(* The messages *)

\* Messages are typed, and the beacon's worker and evictor call the directory
\* of their own edge without messages.
NetOK(ms) ==
    /\ ms \subseteq MessageType
    /\ \A m \in ms : m.type \in {"lookup", "admit", "acquire", "release"}
                       => m.th[2] # Beacon

\* The threads of an edge are threads.
LEMMA ThreadTypes ==
    ASSUME NEW e \in Edges
    PROVE  /\ W(e) \in Threads /\ W(e)[2] = e
           /\ E(e) \in Threads /\ E(e)[2] = e
           /\ BeaconThread("server") \in Threads
           /\ BeaconThread("worker") \in Threads
BY BeaconAssumption DEF W, E, BeaconThread, Threads

\* Requests are messages.
LEMMA RequestsOK ==
    ASSUME NEW t \in Threads, NEW type \in Calls, NEW dsts \in SUBSET Edges,
           NEW s \in Seqs, NEW c \in Nat, NEW ver \in Versions,
           type \in {"lookup", "admit", "acquire", "release"} => t[2] # Beacon
    PROVE  NetOK(Requests(t, type, dsts, s, c, ver))
<1>1. "-" \in UNION {Answers(d) : d \in Calls}
  BY DEF Answers, Calls
<1>2. ASSUME NEW d \in dsts
      PROVE  [type |-> type, rsp |-> FALSE, th |-> t, dst |-> d, seq |-> s,
              copy |-> c, arg |-> "-", ver |-> ver] \in MessageType
  BY <1>1 DEF MessageType, Messages
<1> QED
  BY <1>2 DEF NetOK, Requests

\* An answer to a message is a message of the same call.
LEMMA ReplyOK ==
    ASSUME NEW ms, NetOK(ms), NEW m \in ms, NEW arg \in Answers(m.type)
    PROVE  NetOK((ms \ {m}) \cup {Reply(m, arg)})
<1>1. arg \in UNION {Answers(d) : d \in Calls}
  BY DEF NetOK, MessageType, Messages
<1>2. 0 \in Versions
  BY VersionAssumption DEF Versions
<1> QED
  BY <1>1, <1>2, ZenonT(30) DEF NetOK, Reply, MessageType, Messages

\* A call leaves typed messages and a typed sequence number.
LEMMA CallOK ==
    ASSUME TypeOK, NEW t \in Threads, NEW type \in Calls,
           NEW dsts \in SUBSET Edges, NEW ver \in Versions,
           NEW ms, NetOK(ms),
           type \in {"lookup", "admit", "acquire", "release"} => t[2] # Beacon,
           Call(t, type, dsts, ver, ms)
    PROVE  NetOK(net') /\ seq' \in [Threads -> Seqs]
<1> DEFINE s == CHOOSE s \in Unused(t, ms) : TRUE
<1>1. s \in Seqs
  BY DEF Call, Unused
<1>2. /\ seq' = [seq EXCEPT ![t] = s]
      /\ net' = ms \cup Requests(t, type, dsts, s, 0, ver)
  BY DEF Call
<1>3. NetOK(Requests(t, type, dsts, s, 0, ver))
  BY <1>1, RequestsOK
<1> HIDE DEF s
<1>4. NetOK(net')
  BY <1>2, <1>3 DEF NetOK
<1>5. seq' \in [Threads -> Seqs]
  BY <1>1, <1>2, Zenon DEF TypeOK
<1> QED
  BY <1>4, <1>5

\* A worker that moves on leaves typed messages, and is itself typed.
LEMMA EnterOK ==
    ASSUME TypeOK, NEW e \in Edges, NEW w \in WorkerType, NEW ms, NetOK(ms),
           Enter(e, w, ms)
    PROVE  /\ NetOK(net') /\ seq' \in [Threads -> Seqs]
           /\ worker' = [worker EXCEPT ![e] = w]
           /\ worker' \in [Edges -> WorkerType]
<1>1. worker' = [worker EXCEPT ![e] = w] /\ worker' \in [Edges -> WorkerType]
  BY Zenon DEF Enter, TypeOK
<1>2. CASE Remote(e, w.pc)
  <2> DEFINE ver == IF w.pc = "put" THEN w.val ELSE 0
  <2>1. ver \in Versions
    BY VersionAssumption DEF WorkerType, Versions
  <2>2. w.pc \in Calls
    BY <1>2 DEF Remote, Calls
  <2>3. w.pc \in {"lookup", "admit", "acquire", "release"} => W(e)[2] # Beacon
    BY <1>2, ThreadTypes DEF Remote
  <2>4. Call(W(e), w.pc, {e}, ver, ms)
    BY <1>2 DEF Enter
  <2> HIDE DEF ver
  <2> QED
    BY <1>1, <2>1, <2>2, <2>3, <2>4, CallOK, ThreadTypes, Zenon
<1>3. CASE ~Remote(e, w.pc)
  BY <1>1, <1>3, Zenon DEF Enter, TypeOK
<1> QED
  BY <1>2, <1>3

\* The same for a change of the label only.
LEMMA JumpOK ==
    ASSUME TypeOK, NEW e \in Edges, NEW label \in Labels, NEW ms, NetOK(ms),
           Jump(e, label, ms)
    PROVE  /\ NetOK(net') /\ seq' \in [Threads -> Seqs]
           /\ worker' \in [Edges -> WorkerType]
<1>0. worker[e] \in WorkerType
  BY Zenon DEF TypeOK
<1>1. [worker[e] EXCEPT !.pc = label] \in WorkerType
  BY <1>0 DEF WorkerType
<1> QED
  BY <1>1, EnterOK DEF Jump

----------------------------------------------------------------------------
(* The inductive invariant *)

\* TypeOK and BeaconConsistent with what they rest on: only remote edges send
\* the requests that the beacon server blocks or grants the lock to.
IInv ==
    /\ TypeOK
    /\ BeaconConsistent
    /\ NetOK(net) /\ NetOK(server)
    /\ \A m \in server : m.type \in {"acquire", "release"}

\* A step that changes a worker and its messages only.
LEMMA WorkerStep ==
    ASSUME IInv, NetOK(net'), seq' \in [Threads -> Seqs],
           worker' \in [Edges -> WorkerType],
           UNCHANGED <<cloud, nver, cache, meta, evictor, server, pending,
                       fresh, fault>>
    PROVE  IInv'
BY Zenon DEF IInv, TypeOK, BeaconConsistent, NetOK

\* The beacon's edge calls remove no type.
LEMMA CallEdgesOK ==
    ASSUME TypeOK, NEW k \in {"server", "worker"}, NEW type \in {"inv", "fin"},
           NEW dsts \in SUBSET Edges, NEW ms, NetOK(ms),
           CallEdges(k, type, dsts, ms)
    PROVE  /\ NetOK(net') /\ seq' \in [Threads -> Seqs]
           /\ pending' \in [{"server", "worker"} -> SUBSET Edges]
<1>1. pending' \in [{"server", "worker"} -> SUBSET Edges]
  BY Zenon DEF CallEdges, TypeOK
<1>2. BeaconThread(k) \in Threads
  BY ThreadTypes, BeaconAssumption
<1>3. type \in Calls /\ dsts \ {Beacon} \in SUBSET Edges /\ 0 \in Versions
  BY VersionAssumption DEF Calls, Versions
<1>4. Call(BeaconThread(k), type, dsts \ {Beacon}, 0, ms)
  BY DEF CallEdges
<1>5. type \notin {"lookup", "admit", "acquire", "release"}
  OBVIOUS
<1> QED
  BY <1>1, <1>2, <1>3, <1>4, <1>5, CallOK

\* Requests and answers of thread t, taken from the network, are typed.
LEMMA ResponseOK ==
    ASSUME IInv, NEW t, NEW type, NEW m \in Responses(t, type)
    PROVE  m \in net /\ m \in MessageType /\ m.type = type
           /\ m.arg \in Answers(type) /\ NetOK(net \ {m})
BY DEF IInv, NetOK, Responses, MessageType

\* The client steps and the reading steps keep the invariant.
LEMMA ReadKeeps ==
    ASSUME IInv, NEW e \in Edges, Client(e) \/ Read(e)
    PROVE  IInv'
<1>0. TypeOK /\ NetOK(net) /\ worker[e] \in WorkerType
      /\ cache[e] \in CacheType /\ cloud \in Versions /\ nver \in Versions
  BY Zenon DEF IInv, TypeOK
<1>1. CASE Get(e)
  <2>1. CASE cache[e].st = "valid"
    <3>1. [worker[e] EXCEPT !.pc = "fetched", !.op = "get",
                            !.val = cache[e].val] \in WorkerType
      BY <1>0, Zenon DEF WorkerType, CacheType, Labels
    <3> QED
      BY <1>0, <1>1, <2>1, <3>1, EnterOK, WorkerStep DEF Get
  <2>2. CASE cache[e].st # "valid"
    <3>1. [worker[e] EXCEPT !.pc = "lookup", !.op = "get"] \in WorkerType
      BY <1>0, Zenon DEF WorkerType, Labels
    <3> QED
      BY <1>0, <1>1, <2>2, <3>1, EnterOK, WorkerStep DEF Get
  <2> QED
    BY <2>1, <2>2
<1>2. CASE Put(e)
  <2>1. nver' \in Versions /\ nver + 1 \in Versions
    BY <1>0, <1>2, VersionAssumption DEF Put, Versions
  <2>2. [worker[e] EXCEPT !.pc = "acquire", !.op = "put", !.val = nver + 1]
          \in WorkerType
    BY <1>0, <2>1, ZenonT(30) DEF WorkerType, Labels
  <2>3. /\ NetOK(net') /\ seq' \in [Threads -> Seqs]
        /\ worker' \in [Edges -> WorkerType]
    BY <1>0, <1>2, <2>2, EnterOK DEF Put
  <2> QED
    BY <1>2, <2>1, <2>3, Zenon DEF Put, IInv, TypeOK, BeaconConsistent, NetOK
<1>3. CASE LookupLocalDirectory(e)
  <2>1. CASE lookupTargets(meta, e) = {}
    <3>1. "cloudget" \in Labels
      BY DEF Labels
    <3> QED
      BY <1>0, <1>3, <2>1, <3>1, JumpOK, WorkerStep DEF LookupLocalDirectory
  <2>2. CASE lookupTargets(meta, e) # {}
    <3>1. PICK d \in lookupTargets(meta, e) :
            Enter(e, [worker[e] EXCEPT !.pc = "redirect", !.target = d], net)
      BY <1>3, <2>2, Zenon DEF LookupLocalDirectory
    <3>2. [worker[e] EXCEPT !.pc = "redirect", !.target = d] \in WorkerType
      BY <1>0, Zenon DEF WorkerType, Labels, lookupTargets
    <3> QED
      BY <1>0, <1>3, <3>1, <3>2, EnterOK, WorkerStep, Zenon DEF LookupLocalDirectory
  <2> QED
    BY <2>1, <2>2
<1>4. CASE LookupBeaconDirectory(e)
  <2>1. PICK m \in Responses(W(e), "lookup") :
          CASE m.arg = "written" -> Jump(e, "blocked", net \ {m})
            [] m.arg = "none" -> Jump(e, "cloudget", net \ {m})
            [] OTHER -> Enter(e, [worker[e] EXCEPT !.pc = "redirect",
                                                   !.target = m.arg], net \ {m})
    BY <1>4, Zenon DEF LookupBeaconDirectory
  <2>2. NetOK(net \ {m}) /\ m.arg \in {"written", "none"} \cup Edges
    BY ResponseOK DEF Answers
  <2>3. "blocked" \in Labels /\ "cloudget" \in Labels
    BY DEF Labels
  <2>4. CASE m.arg = "written"
    BY <1>0, <1>4, <2>1, <2>2, <2>3, <2>4, JumpOK, WorkerStep
       DEF LookupBeaconDirectory
  <2>5. CASE m.arg # "written" /\ m.arg = "none"
    BY <1>0, <1>4, <2>1, <2>2, <2>3, <2>5, JumpOK, WorkerStep
       DEF LookupBeaconDirectory
  <2>6. CASE m.arg # "written" /\ m.arg # "none"
    <3>1. [worker[e] EXCEPT !.pc = "redirect", !.target = m.arg] \in WorkerType
      BY <1>0, <2>2, <2>6, Zenon DEF WorkerType, Labels
    <3> QED
      BY <1>0, <1>4, <2>1, <2>2, <2>6, <3>1, EnterOK, WorkerStep
         DEF LookupBeaconDirectory
  <2> QED
    BY <2>4, <2>5, <2>6
<1>5. CASE ProcessRedirectedGetRequest(e)
  <2> DEFINE c == cache[worker[e].target]
  <2>1. c \in CacheType
    BY <1>0, Zenon DEF WorkerType, TypeOK
  <2>2. "missed" \in Labels
    BY DEF Labels
  <2>3. CASE c.st = "valid"
    <3>1. [worker[e] EXCEPT !.pc = "fetched", !.val = c.val] \in WorkerType
      BY <1>0, <2>1, Zenon DEF WorkerType, CacheType, Labels
    <3>2. Enter(e, [worker[e] EXCEPT !.pc = "fetched", !.val = c.val], net)
      BY <1>5, <2>3 DEF ProcessRedirectedGetRequest
    <3> QED
      BY <1>0, <1>5, <3>1, <3>2, EnterOK, WorkerStep
         DEF ProcessRedirectedGetRequest
  <2>4. CASE c.st # "valid"
    BY <1>0, <1>5, <2>2, <2>4, JumpOK, WorkerStep
       DEF ProcessRedirectedGetRequest
  <2> QED
    BY <2>3, <2>4
<1>6. CASE RedirectGetToTarget(e)
  <2>1. "lookup" \in Labels /\ "cloudget" \in Labels
    BY DEF Labels
  <2> QED
    BY <1>0, <1>6, <2>1, JumpOK, WorkerStep DEF RedirectGetToTarget
<1>7. CASE FetchDataFromCloud(e)
  <2>1. [worker[e] EXCEPT !.pc = "fetched", !.val = cloud] \in WorkerType
    BY <1>0, Zenon DEF WorkerType, Labels
  <2> QED
    BY <1>0, <1>7, <2>1, EnterOK, WorkerStep DEF FetchDataFromCloud
<1>8. CASE TryToUpdateInvalidLocalEdgeCache(e)
  <2>0. [st |-> "valid", val |-> worker[e].val] \in CacheType
    BY <1>0 DEF CacheType, WorkerType
  <2>1. cache' \in [Edges -> CacheType] /\ fresh' \subseteq Edges
    BY <1>0, <1>8, <2>0, ZenonT(30) DEF TryToUpdateInvalidLocalEdgeCache, TypeOK
  <2>2. "decide" \in Labels
    BY DEF Labels
  <2>3. /\ NetOK(net') /\ seq' \in [Threads -> Seqs]
        /\ worker' \in [Edges -> WorkerType]
    BY <1>0, <1>8, <2>2, JumpOK DEF TryToUpdateInvalidLocalEdgeCache
  <2> QED
    BY <1>8, <2>1, <2>3, Zenon
       DEF TryToUpdateInvalidLocalEdgeCache, IInv, TypeOK, BeaconConsistent, NetOK
<1> QED
  BY <1>1, <1>2, <1>3, <1>4, <1>5, <1>6, <1>7, <1>8 DEF Client, Read

\* The admission steps keep the invariant.
LEMMA AdmitKeeps ==
    ASSUME IInv, NEW e \in Edges, Admit(e)
    PROVE  IInv'
<1>0. TypeOK /\ NetOK(net) /\ worker[e] \in WorkerType /\ meta \in MetaType
      /\ Consistent(meta)
  BY Zenon DEF IInv, TypeOK, BeaconConsistent, Consistent
<1>a. IdleWorker(e) \in WorkerType
  BY VersionAssumption DEF IdleWorker, WorkerType, Labels, Locks, Versions
<1>b. {"admit", "installValid", "installInvalid"} \subseteq Labels
  BY DEF Labels
<1>1. CASE AfterRequest(e)
  <2>1. CASE Enter(e, IdleWorker(e), net)
    BY <1>0, <1>a, <1>1, <2>1, EnterOK, WorkerStep DEF AfterRequest
  <2>2. CASE Jump(e, "admit", net)
    BY <1>0, <1>b, <1>1, <2>2, JumpOK, WorkerStep DEF AfterRequest
  <2> QED
    BY <1>1, <2>1, <2>2 DEF AfterRequest
<1>2. CASE AdmitLocalDirectory(e)
  <2>1. meta' \in MetaType /\ Consistent(meta')
    BY <1>0, <1>2, UpdateConsistent, Zenon DEF AdmitLocalDirectory
  <2>2. PICK label \in {"installInvalid", "installValid"} : Jump(e, label, net)
    BY <1>2 DEF AdmitLocalDirectory
  <2>3. /\ NetOK(net') /\ seq' \in [Threads -> Seqs]
        /\ worker' \in [Edges -> WorkerType]
    BY <1>0, <1>b, <2>2, JumpOK
  <2> QED
    BY <1>2, <2>1, <2>3, Zenon
       DEF AdmitLocalDirectory, IInv, TypeOK, BeaconConsistent, Consistent, NetOK
<1>3. CASE AdmitBeaconDirectory(e)
  <2>1. PICK m \in Responses(W(e), "admit") :
          \E label \in {"installInvalid", "installValid"} :
            Jump(e, label, net \ {m})
    BY <1>3 DEF AdmitBeaconDirectory
  <2>2. NetOK(net \ {m})
    BY ResponseOK
  <2> QED
    BY <1>0, <1>b, <1>3, <2>1, <2>2, JumpOK, WorkerStep DEF AdmitBeaconDirectory
<1>4. CASE AdmitLocalEdgeCache(e)
  <2>0. /\ [st |-> "valid", val |-> worker[e].val] \in CacheType
        /\ [st |-> "invalid", val |-> worker[e].val] \in CacheType
    BY <1>0 DEF CacheType, WorkerType
  <2>1. \/ UNCHANGED <<cache, fresh>>
        \/ /\ \E c \in CacheType : cache' = [cache EXCEPT ![e] = c]
           /\ fresh' \in {fresh, fresh \cup {e}}
    <3>1. CASE worker[e].pc = "installValid"
      BY <1>4, <2>0, <3>1 DEF AdmitLocalEdgeCache
    <3>2. CASE worker[e].pc # "installValid"
      BY <1>4, <2>0, <3>2 DEF AdmitLocalEdgeCache
    <3> QED
      BY <3>1, <3>2
  <2>2. cache' \in [Edges -> CacheType] /\ fresh' \subseteq Edges
    BY <1>0, <2>1, Zenon DEF TypeOK
  <2>3. /\ NetOK(net') /\ seq' \in [Threads -> Seqs]
        /\ worker' \in [Edges -> WorkerType]
    BY <1>0, <1>a, <1>4, EnterOK DEF AdmitLocalEdgeCache
  <2> QED
    BY <1>4, <2>2, <2>3, Zenon
       DEF AdmitLocalEdgeCache, IInv, TypeOK, BeaconConsistent, NetOK
<1> QED
  BY <1>1, <1>2, <1>3, <1>4 DEF Admit

\* The writing steps keep the invariant.
LEMMA WriteKeeps ==
    ASSUME IInv, NEW e \in Edges, Write(e)
    PROVE  IInv'
<1>0. TypeOK /\ NetOK(net) /\ worker[e] \in WorkerType /\ meta \in MetaType
      /\ Consistent(meta)
  BY Zenon DEF IInv, TypeOK, BeaconConsistent, Consistent
<1>a. {"put", "invalidate", "blocked", "lookup", "acquire", "update", "written",
       "decide", "release", "notify"} \subseteq Labels
  BY DEF Labels
<1>1. CASE AcquireLocalWritelock(e)
  <2>1. meta' \in MetaType /\ Consistent(meta')
    BY <1>0, <1>1, AcquireLocalConsistent DEF AcquireLocalWritelock
  <2>2. CASE lockResult(meta) = "noneed"
    <3>1. [worker[e] EXCEPT !.pc = "put", !.lock = "noneed"] \in WorkerType
      BY <1>0, <1>a, Zenon DEF WorkerType, Locks
    <3>2. Enter(e, [worker[e] EXCEPT !.pc = "put", !.lock = "noneed"], net)
          /\ UNCHANGED <<pending, fresh>>
      BY <1>1, <2>2 DEF AcquireLocalWritelock
    <3>3. /\ NetOK(net') /\ seq' \in [Threads -> Seqs]
          /\ worker' \in [Edges -> WorkerType]
      BY <1>0, <3>1, <3>2, EnterOK
    <3> QED
      BY <1>1, <2>1, <3>2, <3>3, Zenon
         DEF AcquireLocalWritelock, IInv, TypeOK, BeaconConsistent, Consistent,
             NetOK
  <2>3. CASE lockResult(meta) = "success"
    <3>1. /\ worker' = [worker EXCEPT ![e].pc = "invalidate",
                                      ![e].lock = "success"]
          /\ CallEdges("worker", "inv", dirinfos(meta), net)
          /\ fresh' = {}
      BY <1>1, <2>3 DEF AcquireLocalWritelock
    <3>2. [worker[e] EXCEPT !.pc = "invalidate", !.lock = "success"]
            \in WorkerType
      BY <1>0, <1>a, Zenon DEF WorkerType, Locks
    <3>3. worker' \in [Edges -> WorkerType]
      BY <1>0, <3>1, <3>2, Zenon DEF TypeOK
    <3>4. dirinfos(meta) \in SUBSET Edges
      BY DEF dirinfos
    <3>5. /\ NetOK(net') /\ seq' \in [Threads -> Seqs]
          /\ pending' \in [{"server", "worker"} -> SUBSET Edges]
      BY <1>0, <3>1, <3>4, CallEdgesOK
    <3> QED
      BY <1>1, <2>1, <3>1, <3>3, <3>5, Zenon
         DEF AcquireLocalWritelock, IInv, TypeOK, BeaconConsistent, Consistent,
             NetOK
  <2> QED
    BY <1>1, <2>2, <2>3 DEF AcquireLocalWritelock
<1>2. CASE AcquireBeaconWritelock(e)
  <2>1. PICK m \in Responses(W(e), "acquire") :
          IF m.arg = "failure" THEN Jump(e, "blocked", net \ {m})
          ELSE Enter(e, [worker[e] EXCEPT !.pc = "put", !.lock = m.arg],
                     net \ {m})
    BY <1>2, Zenon DEF AcquireBeaconWritelock
  <2>2. NetOK(net \ {m}) /\ m.arg \in {"noneed", "success", "failure"}
    BY ResponseOK DEF Answers
  <2>3. CASE m.arg = "failure"
    BY <1>0, <1>a, <1>2, <2>1, <2>2, <2>3, JumpOK, WorkerStep
       DEF AcquireBeaconWritelock
  <2>4. CASE m.arg # "failure"
    <3>1. [worker[e] EXCEPT !.pc = "put", !.lock = m.arg] \in WorkerType
      BY <1>0, <1>a, <2>2, <2>4, Zenon DEF WorkerType, Locks
    <3> QED
      BY <1>0, <1>2, <2>1, <2>2, <2>4, <3>1, EnterOK, WorkerStep
         DEF AcquireBeaconWritelock
  <2> QED
    BY <2>3, <2>4
<1>3. CASE BlockForWritesByInterruption(e)
  <2>1. PICK m \in net :
          /\ m.type = "fin"
          /\ \E label \in {"lookup", "acquire"} :
               Jump(e, label, (net \ {m}) \cup {Reply(m, "-")})
    BY <1>3, Zenon DEF BlockForWritesByInterruption
  <2>2. NetOK((net \ {m}) \cup {Reply(m, "-")})
    BY <1>0, <2>1, ReplyOK DEF Answers
  <2> QED
    BY <1>0, <1>a, <1>3, <2>1, <2>2, JumpOK, WorkerStep
       DEF BlockForWritesByInterruption
<1>4. CASE WriteDataToCloud(e)
  <2>1. PICK m \in Responses(W(e), "put") : Jump(e, "update", net \ {m})
    BY <1>4 DEF WriteDataToCloud
  <2>2. NetOK(net \ {m})
    BY ResponseOK
  <2> QED
    BY <1>0, <1>a, <1>4, <2>1, <2>2, JumpOK, WorkerStep DEF WriteDataToCloud
<1>5. CASE UpdateLocalEdgeCache(e)
  <2>a. cache[e] \in CacheType /\ worker[e].val \in Versions
    BY <1>0, Zenon DEF WorkerType, TypeOK
  <2>0. /\ [st |-> "valid", val |-> worker[e].val] \in CacheType
        /\ [cache[e] EXCEPT !.st = "invalid"] \in CacheType
    BY <2>a DEF CacheType
  <2>1. cache' \in [Edges -> CacheType] /\ fresh' \subseteq Edges
    BY <1>0, <1>5, <2>0, ZenonT(30) DEF UpdateLocalEdgeCache, TypeOK
  <2>2. /\ NetOK(net') /\ seq' \in [Threads -> Seqs]
        /\ worker' \in [Edges -> WorkerType]
    BY <1>0, <1>a, <1>5, JumpOK DEF UpdateLocalEdgeCache
  <2> QED
    BY <1>5, <2>1, <2>2, Zenon
       DEF UpdateLocalEdgeCache, IInv, TypeOK, BeaconConsistent, NetOK
<1>6. CASE FinishWrite(e)
  BY <1>0, <1>a, <1>6, JumpOK, WorkerStep DEF FinishWrite
<1>7. CASE ReleaseLocalWritelock(e)
  <2>1. meta' \in MetaType /\ Consistent(meta')
    BY <1>0, <1>7, ReleaseConsistent DEF ReleaseLocalWritelock
  <2>2. [worker[e] EXCEPT !.pc = "notify"] \in WorkerType
    BY <1>0, <1>a DEF WorkerType
  <2>3. worker' \in [Edges -> WorkerType]
    BY <1>0, <1>7, <2>2, Zenon DEF ReleaseLocalWritelock, TypeOK
  <2>4. meta.blocklist \in SUBSET Edges
    BY <1>0 DEF MetaType
  <2>5. /\ NetOK(net') /\ seq' \in [Threads -> Seqs]
        /\ pending' \in [{"server", "worker"} -> SUBSET Edges]
    BY <1>0, <1>7, <2>4, CallEdgesOK DEF ReleaseLocalWritelock
  <2>6. fault' \subseteq {"release", "blocked twice", "acknowledged twice"}
    BY <1>0, <1>7, Zenon DEF ReleaseLocalWritelock, CheckRelease, Check, TypeOK
  <2> QED
    BY <1>7, <2>1, <2>3, <2>5, <2>6, Zenon
       DEF ReleaseLocalWritelock, IInv, TypeOK, BeaconConsistent, Consistent,
           NetOK
<1>8. CASE ReleaseBeaconWritelock(e)
  <2>1. PICK m \in Responses(W(e), "release") : Jump(e, "decide", net \ {m})
    BY <1>8 DEF ReleaseBeaconWritelock
  <2>2. NetOK(net \ {m})
    BY ResponseOK
  <2> QED
    BY <1>0, <1>a, <1>8, <2>1, <2>2, JumpOK, WorkerStep
       DEF ReleaseBeaconWritelock
<1> QED
  BY <1>1, <1>2, <1>3, <1>4, <1>5, <1>6, <1>7, <1>8 DEF Write

\* The evicting steps keep the invariant.
LEMMA EvictKeeps ==
    ASSUME IInv, NEW e \in Edges, Evict(e)
    PROVE  IInv'
<1>0. TypeOK /\ NetOK(net) /\ meta \in MetaType /\ Consistent(meta)
  BY Zenon DEF IInv, TypeOK, BeaconConsistent, Consistent
<1>1. CASE EvictLocalEdgeCache(e)
  <2>1. 0 \in Versions /\ [st |-> "absent", val |-> 0] \in CacheType
    BY VersionAssumption DEF CacheType, Versions
  <2>2. /\ cache' \in [Edges -> CacheType]
        /\ evictor' \in [Edges -> {"idle", "evict"}]
    BY <1>0, <1>1, <2>1, Zenon DEF EvictLocalEdgeCache, TypeOK
  <2>3. NetOK(net') /\ seq' \in [Threads -> Seqs]
    <3>1. CASE e = Beacon
      BY <1>0, <1>1, <3>1, Zenon DEF EvictLocalEdgeCache, TypeOK
    <3>2. CASE e # Beacon
      <4>1. Call(E(e), "evict", {e}, 0, net)
        BY <1>1, <3>2 DEF EvictLocalEdgeCache
      <4>2. "evict" \in Calls /\ E(e) \in Threads
        BY ThreadTypes DEF Calls
      <4> QED
        BY <1>0, <2>1, <4>1, <4>2, CallOK
    <3> QED
      BY <3>1, <3>2
  <2> QED
    BY <1>1, <2>2, <2>3, Zenon
       DEF EvictLocalEdgeCache, IInv, TypeOK, BeaconConsistent, NetOK
<1>2. CASE EvictLocalDirectory(e)
  <2>1. meta' \in MetaType /\ Consistent(meta')
    BY <1>0, <1>2, UpdateConsistent, Zenon DEF EvictLocalDirectory
  <2>2. evictor' \in [Edges -> {"idle", "evict"}]
    BY <1>0, <1>2, Zenon DEF EvictLocalDirectory, TypeOK
  <2> QED
    BY <1>2, <2>1, <2>2, Zenon
       DEF EvictLocalDirectory, IInv, TypeOK, BeaconConsistent, Consistent, NetOK
<1>3. CASE EvictBeaconDirectory(e)
  <2>1. PICK m \in Responses(E(e), "evict") : net' = net \ {m}
    BY <1>3 DEF EvictBeaconDirectory
  <2>2. NetOK(net')
    BY <2>1, ResponseOK
  <2>3. evictor' \in [Edges -> {"idle", "evict"}]
    BY <1>0, <1>3, Zenon DEF EvictBeaconDirectory, TypeOK
  <2> QED
    BY <1>3, <2>2, <2>3, Zenon
       DEF EvictBeaconDirectory, IInv, TypeOK, BeaconConsistent, NetOK
<1> QED
  BY <1>1, <1>2, <1>3 DEF Evict

\* A request that the beacon server takes is typed; those that lock or look up
\* come from a remote edge.
LEMMA RequestOK ==
    ASSUME IInv, NEW e \in Edges, NEW types, NEW m \in BeaconRequests(e, types)
    PROVE  /\ m \in net /\ m \in MessageType /\ m.type \in types
           /\ server = {} /\ NetOK(net \ {m})
           /\ m.type \in {"lookup", "admit", "acquire", "release"} => e # Beacon
BY DEF IInv, NetOK, BeaconRequests

\* The steps of the beacon server keep the invariant.
LEMMA ServerKeeps ==
    ASSUME IInv, NEW e \in Edges, BeaconServer(e)
    PROVE  IInv'
<1>0. TypeOK /\ NetOK(net) /\ NetOK(server) /\ meta \in MetaType
      /\ Consistent(meta)
  BY Zenon DEF IInv, TypeOK, BeaconConsistent, Consistent
<1>1. CASE ProcessDirectoryLookupRequest(e)
  <2>1. PICK m \in BeaconRequests(e, {"lookup"}) :
          \E arg \in {"written", "none"} \cup Edges :
             net' = (net \ {m}) \cup {Reply(m, arg)}
    <3>1. (IF meta.writeflag THEN {"written"}
           ELSE IF lookupTargets(meta, e) = {} THEN {"none"}
           ELSE lookupTargets(meta, e)) \subseteq {"written", "none"} \cup Edges
      BY DEF lookupTargets
    <3> QED
      BY <1>1, <3>1 DEF ProcessDirectoryLookupRequest
  <2>2. m \in net /\ m.type = "lookup" /\ e # Beacon
    BY RequestOK, Zenon DEF BeaconRequests
  <2>3. NetOK(net')
    <3>1. {"written", "none"} \cup Edges = Answers(m.type)
      BY <2>2 DEF Answers
    <3>2. PICK arg \in Answers(m.type) : net' = (net \ {m}) \cup {Reply(m, arg)}
      BY <2>1, <3>1
    <3> QED
      BY <1>0, <2>2, <3>2, ReplyOK
  <2>4. meta' \in MetaType /\ Consistent(meta')
    BY <1>0, <1>1, <2>2, LookupConsistent DEF ProcessDirectoryLookupRequest
  <2>5. fault' \subseteq {"release", "blocked twice", "acknowledged twice"}
    BY <1>0, <1>1, Zenon DEF ProcessDirectoryLookupRequest, CheckBlock, Check, TypeOK
  <2> QED
    BY <1>1, <2>3, <2>4, <2>5, Zenon
       DEF ProcessDirectoryLookupRequest, IInv, TypeOK, BeaconConsistent,
           Consistent, NetOK
<1>2. CASE ProcessDirectoryUpdateRequest(e)
  <2>1. PICK m \in BeaconRequests(e, {"admit", "evict"}) :
          /\ meta' = updateDirectoryTable(meta, e, m.type = "admit")
          /\ net' = (net \ {m}) \cup
                      {Reply(m, IF m.type = "evict" THEN "-"
                                ELSE IF meta.writeflag THEN "written"
                                ELSE "clear")}
    BY <1>2 DEF ProcessDirectoryUpdateRequest
  <2>2. m \in net /\ m.type \in {"admit", "evict"}
    BY RequestOK, Zenon
  <2>3. NetOK(net')
    <3>1. CASE m.type = "evict"
      <4>1. "-" \in Answers(m.type)
        BY <3>1 DEF Answers
      <4> QED
        BY <1>0, <2>1, <2>2, <3>1, <4>1, ReplyOK
    <3>2. CASE m.type = "admit"
      <4>1. {"written", "clear"} \subseteq Answers(m.type)
        BY <3>2 DEF Answers
      <4> QED
        BY <1>0, <2>1, <2>2, <3>2, <4>1, ReplyOK
    <3> QED
      BY <2>2, <3>1, <3>2
  <2>4. meta' \in MetaType /\ Consistent(meta')
    BY <1>0, <2>1, UpdateConsistent, Zenon
  <2> QED
    BY <1>2, <2>3, <2>4, Zenon
       DEF ProcessDirectoryUpdateRequest, IInv, TypeOK, BeaconConsistent,
           Consistent, NetOK
<1>3. CASE ProcessAcquireWritelockRequest(e)
  <2>1. PICK m \in BeaconRequests(e, {"acquire"}) :
          IF lockResult(meta) = "success"
            THEN /\ CallEdges("server", "inv", dirinfos(meta), net \ {m})
                 /\ server' = {m}
                 /\ fresh' = {}
            ELSE /\ net' = (net \ {m}) \cup {Reply(m, lockResult(meta))}
                 /\ UNCHANGED <<server, pending, seq, fresh>>
    BY <1>3 DEF ProcessAcquireWritelockRequest
  <2>2. m \in net /\ m.type = "acquire" /\ e # Beacon /\ NetOK(net \ {m})
    BY RequestOK
  <2>3. meta' \in MetaType /\ Consistent(meta')
    BY <1>0, <1>3, <2>2, AcquireRemoteConsistent, Zenon
       DEF ProcessAcquireWritelockRequest
  <2>4. fault' \subseteq {"release", "blocked twice", "acknowledged twice"}
    BY <1>0, <1>3, Zenon DEF ProcessAcquireWritelockRequest, CheckBlock, Check, TypeOK
  <2>5. CASE lockResult(meta) = "success"
    <3>1. dirinfos(meta) \in SUBSET Edges
      BY DEF dirinfos
    <3>2. /\ NetOK(net') /\ seq' \in [Threads -> Seqs]
          /\ pending' \in [{"server", "worker"} -> SUBSET Edges]
      BY <1>0, <2>1, <2>2, <2>5, <3>1, CallEdgesOK
    <3>3. NetOK(server') /\ \A n \in server' : n.type \in {"acquire", "release"}
      BY <1>0, <2>1, <2>2, <2>5, Zenon DEF NetOK
    <3> QED
      BY <1>3, <2>1, <2>3, <2>4, <2>5, <3>2, <3>3, Zenon
         DEF ProcessAcquireWritelockRequest, IInv, TypeOK, BeaconConsistent,
             Consistent, NetOK
  <2>6. CASE lockResult(meta) # "success"
    <3>1. lockResult(meta) \in Answers(m.type)
      BY <2>2 DEF lockResult, Answers
    <3>2. NetOK(net')
      BY <1>0, <2>1, <2>2, <2>6, <3>1, ReplyOK, SMTT(30)
    <3> QED
      BY <1>3, <2>1, <2>3, <2>4, <2>6, <3>2, Zenon
         DEF ProcessAcquireWritelockRequest, IInv, TypeOK, BeaconConsistent,
             Consistent, NetOK
  <2> QED
    BY <2>5, <2>6
<1>4. CASE ProcessReleaseWritelockRequest(e)
  <2>1. PICK m \in BeaconRequests(e, {"release"}) :
          /\ CallEdges("server", "fin", meta.blocklist, net \ {m})
          /\ server' = {m}
    BY <1>4 DEF ProcessReleaseWritelockRequest
  <2>2. m \in net /\ m.type = "release" /\ NetOK(net \ {m})
    BY RequestOK
  <2>3. meta' \in MetaType /\ Consistent(meta')
    BY <1>0, <1>4, ReleaseConsistent DEF ProcessReleaseWritelockRequest
  <2>4. meta.blocklist \in SUBSET Edges
    BY <1>0 DEF MetaType
  <2>5. /\ NetOK(net') /\ seq' \in [Threads -> Seqs]
        /\ pending' \in [{"server", "worker"} -> SUBSET Edges]
    BY <1>0, <2>1, <2>2, <2>4, CallEdgesOK, Zenon
  <2>6. NetOK(server') /\ \A n \in server' : n.type \in {"acquire", "release"}
    BY <1>0, <2>1, <2>2 DEF NetOK
  <2>7. fault' \subseteq {"release", "blocked twice", "acknowledged twice"}
    BY <1>0, <1>4, Zenon
       DEF ProcessReleaseWritelockRequest, CheckRelease, Check, TypeOK
  <2> QED
    BY <1>4, <2>3, <2>5, <2>6, <2>7, Zenon
       DEF ProcessReleaseWritelockRequest, IInv, TypeOK, BeaconConsistent,
           Consistent, NetOK
<1> QED
  BY <1>1, <1>2, <1>3, <1>4 DEF BeaconServer

\* The collection of acknowledgements, the invalidation processors and the
\* cloud keep the invariant.
LEMMA CollectKeeps ==
    ASSUME IInv,
           \/ Collect \/ ProcessGlobalPutRequest
           \/ \E e \in Edges : ProcessInvalidationRequest(e)
    PROVE  IInv'
<1>0. TypeOK /\ NetOK(net) /\ NetOK(server)
  BY DEF IInv
<1>a. ASSUME NEW e \in Edges
      PROVE  Invalidated(cache[e]) \in CacheType
  <2>1. cache[e] \in CacheType
    BY <1>0, Zenon DEF TypeOK
  <2> QED
    BY <2>1 DEF Invalidated, CacheType
<1>1. ASSUME NEW k \in {"server", "worker"}, InvalidateOwnCopy(k)
      PROVE  IInv'
  <2>1. /\ cache' = [cache EXCEPT ![Beacon] = Invalidated(cache[Beacon])]
        /\ pending' = [pending EXCEPT ![k] = pending[k] \ {Beacon}]
    BY <1>1 DEF InvalidateOwnCopy
  <2>2. /\ cache' \in [Edges -> CacheType]
        /\ pending' \in [{"server", "worker"} -> SUBSET Edges]
    BY <1>0, <1>a, <2>1, BeaconAssumption, ZenonT(30) DEF TypeOK
  <2> QED
    BY <1>1, <2>2, Zenon DEF InvalidateOwnCopy, IInv, TypeOK, BeaconConsistent, NetOK
<1>2. ASSUME NEW k \in {"server", "worker"}, ReceiveAck(k)
      PROVE  IInv'
  <2>1. PICK m \in net :
          /\ Check(m.dst \in pending[k], "acknowledged twice")
          /\ pending' = [pending EXCEPT ![k] = pending[k] \ {m.dst}]
          /\ net' = net \ {m}
    BY <1>2, Zenon DEF ReceiveAck, Responses
  <2>2. /\ pending' \in [{"server", "worker"} -> SUBSET Edges]
        /\ fault' \subseteq {"release", "blocked twice", "acknowledged twice"}
    BY <1>0, <2>1, Zenon DEF TypeOK, Check
  <2>3. NetOK(net')
    BY <1>0, <2>1, Zenon DEF NetOK
  <2> QED
    BY <1>2, <2>2, <2>3, Zenon DEF ReceiveAck, IInv, TypeOK, BeaconConsistent, NetOK
<1>3. ASSUME ServerCollected
      PROVE  IInv'
  <2>1. PICK m \in server :
          net' = net \cup
                   {Reply(m, IF m.type = "acquire" THEN "success" ELSE "-")}
    BY <1>3 DEF ServerCollected
  <2>2. m.type \in {"acquire", "release"}
    BY DEF IInv
  <2>3. (IF m.type = "acquire" THEN "success" ELSE "-") \in Answers(m.type)
    BY <2>2 DEF Answers
  <2>4. NetOK((server \ {m}) \cup
              {Reply(m, IF m.type = "acquire" THEN "success" ELSE "-")})
    BY <1>0, <2>3, ReplyOK
  <2>5. NetOK(net')
    BY <1>0, <2>1, <2>4 DEF NetOK
  <2> QED
    BY <1>3, <2>5, Zenon DEF ServerCollected, IInv, TypeOK, BeaconConsistent, NetOK
<1>4. ASSUME WorkerCollected
      PROVE  IInv'
  <2>1. PICK label \in {"put", "decide"} : Jump(Beacon, label, net)
    BY <1>4 DEF WorkerCollected
  <2>2. {"put", "decide"} \subseteq Labels
    BY Zenon DEF Labels
  <2> QED
    BY <1>0, <1>4, <2>1, <2>2, BeaconAssumption, JumpOK, WorkerStep
       DEF WorkerCollected
<1>5. ASSUME ProcessGlobalPutRequest
      PROVE  IInv'
  <2>1. PICK m \in net : /\ m.type = "put" /\ cloud' = m.ver
                         /\ net' = (net \ {m}) \cup {Reply(m, "-")}
    BY <1>5 DEF ProcessGlobalPutRequest
  <2>2. NetOK(net')
    BY <1>0, <2>1, ReplyOK DEF Answers
  <2>3. cloud' \in Versions
    BY <1>0, <2>1, Zenon DEF NetOK, MessageType, Messages
  <2> QED
    BY <1>5, <2>2, <2>3, Zenon
       DEF ProcessGlobalPutRequest, IInv, TypeOK, BeaconConsistent, NetOK
<1>6. ASSUME NEW e \in Edges, ProcessInvalidationRequest(e)
      PROVE  IInv'
  <2>1. PICK m \in net : /\ m.type = "inv"
                         /\ net' = (net \ {m}) \cup {Reply(m, "-")}
    BY <1>6 DEF ProcessInvalidationRequest
  <2>2. NetOK(net')
    BY <1>0, <2>1, ReplyOK DEF Answers
  <2>3. cache' = [cache EXCEPT ![e] = Invalidated(cache[e])]
    BY <1>6 DEF ProcessInvalidationRequest
  <2>4. cache' \in [Edges -> CacheType]
    BY <1>0, <1>a, <2>3, Zenon DEF TypeOK
  <2> QED
    BY <1>6, <2>2, <2>4, Zenon
       DEF ProcessInvalidationRequest, IInv, TypeOK, BeaconConsistent, NetOK
<1> QED
  BY <1>1, <1>2, <1>3, <1>4, <1>5, <1>6 DEF Collect

\* The invariant holds initially.
LEMMA InitIInv == Init => IInv
<1> SUFFICES ASSUME Init PROVE IInv
  OBVIOUS
<1>1. 0 \in Versions
  BY VersionAssumption DEF Versions
<1>2. (CHOOSE s \in Seqs : TRUE) \in Seqs
  BY SeqsAssumption
<1>3. [st |-> "absent", val |-> 0] \in CacheType
  BY <1>1 DEF CacheType
<1>4. ASSUME NEW e \in Edges
      PROVE  IdleWorker(e) \in WorkerType
  BY <1>1 DEF IdleWorker, WorkerType, Labels, Locks
<1>5. meta \in MetaType /\ BeaconConsistent
  BY DEF Init, InitMeta, MetaType, Dirinfo, BeaconConsistent
<1>6. /\ cache \in [Edges -> CacheType] /\ worker \in [Edges -> WorkerType]
      /\ seq \in [Threads -> Seqs]
      /\ pending \in [{"server", "worker"} -> SUBSET Edges]
  BY <1>2, <1>3, <1>4 DEF Init
<1> QED
  BY <1>1, <1>5, <1>6 DEF Init, IInv, TypeOK, NetOK

\* Every step keeps the invariant.
LEMMA NextIInv == IInv /\ [Next]_vars => IInv'
<1> SUFFICES ASSUME IInv, [Next]_vars PROVE IInv'
  OBVIOUS
<1>1. ASSUME NEW e \in Edges, Client(e) \/ Read(e) PROVE IInv'
  BY <1>1, ReadKeeps
<1>2. ASSUME NEW e \in Edges, Admit(e) PROVE IInv'
  BY <1>2, AdmitKeeps
<1>3. ASSUME NEW e \in Edges, Write(e) PROVE IInv'
  BY <1>3, WriteKeeps
<1>4. ASSUME NEW e \in Edges, Evict(e) PROVE IInv'
  BY <1>4, EvictKeeps
<1>5. ASSUME NEW e \in Edges, BeaconServer(e) PROVE IInv'
  BY <1>5, ServerKeeps
<1>6. ASSUME NEW e \in Edges, ProcessInvalidationRequest(e) PROVE IInv'
  BY <1>6, CollectKeeps
<1>7. CASE Collect \/ ProcessGlobalPutRequest
  BY <1>7, CollectKeeps
<1>8. CASE UNCHANGED vars
  BY <1>8, Zenon DEF vars, IInv, TypeOK, BeaconConsistent, NetOK
<1> QED
  BY <1>1, <1>2, <1>3, <1>4, <1>5, <1>6, <1>7, <1>8 DEF Next

\* The inductive invariant holds in every reachable state.
LEMMA AlwaysIInv == Spec => []IInv
BY InitIInv, NextIInv, PTL DEF Spec

\* Every variable keeps its type, whatever the edges, the bounds and the
\* sequence numbers are.
THEOREM TypeCorrect == Spec => []TypeOK
<1>1. IInv => TypeOK
  BY DEF IInv
<1> QED
  BY <1>1, AlwaysIInv, PTL

\* While a key is being written the beacon's directory offers no valid copy,
\* no edge is blocked outside a write, and the beacon never blocks itself.
THEOREM BeaconIsConsistent == Spec => []BeaconConsistent
<1>1. IInv => BeaconConsistent
  BY DEF IInv
<1> QED
  BY <1>1, AlwaysIInv, PTL

----------------------------------------------------------------------------
(* The write lock.  The argument rests on the discipline of the remote calls: *)
(* a worker has at most one call to the beacon under way, the one it waits    *)
(* for, and this call is at one place, a datagram or the server.  So a grant  *)
(* is at one place too, from the moment the write flag is set until it is     *)
(* reset.                                                                     *)

\* The calls of a worker to the beacon; its writes go to the cloud.
WorkerCalls == {"lookup", "admit", "acquire", "release"}

\* The calls of the worker of edge e among the messages ms.
Own(e, ms) == {m \in ms : m.type \in WorkerCalls /\ m.th = W(e)}

\* Only workers make these calls.
Callers(ms) == \A m \in ms : m.type \in WorkerCalls => \E e \in Edges : m.th = W(e)

\* The worker of edge e has one call to the beacon under way at most, the one it
\* waits for; it releases only a lock it was granted.
Disciplined(e) ==
    /\ \A m \in Own(e, net) \cup Own(e, server) :
         m.type = worker[e].pc /\ Remote(e, worker[e].pc)
    /\ \A m, n \in Own(e, net) : m = n
    /\ Own(e, net) = {} \/ Own(e, server) = {}
    /\ worker[e].pc = "release" => worker[e].lock = "success"

\* The labels between the grant of the lock and its release.
Holding == {"invalidate", "put", "update", "written", "release"}

\* The calls are disciplined, the server has one request at most, one
\* edge holds the lock at most, and one does exactly while the write flag is set.
LockInv ==
    /\ IInv
    /\ Callers(net) /\ Callers(server)
    /\ \A m, n \in server : m = n
    /\ \A e \in Edges : Disciplined(e)
    /\ FlagMeansHeld
    /\ \A e, f \in Edges : Granted(e) /\ Granted(f) => e = f

----------------------------------------------------------------------------
(* How a step moves the calls and the grants *)

\* The calls of one edge are not those of another.
LEMMA OwnApart ==
    ASSUME NEW e, NEW f, W(e) = W(f)
    PROVE  e = f
BY DEF W

\* The messages req are the call at which worker e waits in state w.
NextCall(e, w, req) ==
    /\ \A m \in req : /\ m.th = W(e) /\ m.type = w.pc /\ ~m.rsp
                      /\ m.type \in WorkerCalls \cup {"put"} /\ Remote(e, w.pc)
    /\ \A m, n \in req : m = n

\* A worker that moves to state w sends its next call only.
LEMMA EnterSends ==
    ASSUME NEW e \in Edges, NEW w, NEW ms, Enter(e, w, ms)
    PROVE  \E req : net' = ms \cup req /\ NextCall(e, w, req)
<1>1. CASE Remote(e, w.pc)
  <2> DEFINE s == CHOOSE s \in Unused(W(e), ms) : TRUE
             ver == IF w.pc = "put" THEN w.val ELSE 0
             r == [type |-> w.pc, rsp |-> FALSE, th |-> W(e), dst |-> e,
                   seq |-> s, copy |-> 0, arg |-> "-", ver |-> ver]
  <2>1. net' = ms \cup Requests(W(e), w.pc, {e}, s, 0, ver)
    BY <1>1 DEF Enter, Call
  <2>2. Requests(W(e), w.pc, {e}, s, 0, ver) = {r}
    BY DEF Requests
  <2>3. w.pc \in WorkerCalls \cup {"put"}
    BY <1>1 DEF Remote, WorkerCalls
  <2>4. r.th = W(e) /\ r.type = w.pc /\ ~r.rsp
    OBVIOUS
  <2> HIDE DEF r
  <2>5. net' = ms \cup {r}
    BY <2>1, <2>2
  <2>6. NextCall(e, w, {r})
    BY <1>1, <2>3, <2>4 DEF NextCall
  <2> QED
    BY <2>5, <2>6
<1>2. CASE ~Remote(e, w.pc)
  <2>1. net' = ms \cup {}
    BY <1>2 DEF Enter
  <2>2. NextCall(e, w, {})
    BY DEF NextCall
  <2> QED
    BY <2>1, <2>2
<1> QED
  BY <1>1, <1>2

\* A worker whose call has been answered moves to state w: the others' calls
\* and grants stay, and the worker holds the lock if w says so.
LEMMA WorkerMoves ==
    ASSUME LockInv, NEW e \in Edges, NEW w, NEW ms, NEW req,
           worker' = [worker EXCEPT ![e] = w], net' = ms \cup req,
           NextCall(e, w, req), Callers(ms),
           Own(e, ms) = {}, Own(e, server) = {},
           \A f \in Edges : f # e => Own(f, ms) = Own(f, net),
           w.pc = "release" => w.lock = "success",
           UNCHANGED server
    PROVE  /\ Callers(net') /\ \A f \in Edges : Disciplined(f)'
           /\ \A f \in Edges : f # e => (Granted(f)' <=> Granted(f))
           /\ Granted(e)' <=> w.lock = "success" /\ w.pc \in Holding
<1>1. /\ net' = ms \cup req
      /\ \A m \in req : /\ m.th = W(e) /\ m.type = w.pc /\ ~m.rsp
                        /\ m.type \in WorkerCalls \cup {"put"} /\ Remote(e, w.pc)
      /\ \A m, n \in req : m = n
  BY DEF NextCall
<1>2. /\ worker' = [worker EXCEPT ![e] = w] /\ worker'[e] = w
      /\ \A f \in Edges : f # e => worker'[f] = worker[f]
  BY Zenon DEF LockInv, IInv, TypeOK
<1>3. Own(e, net') \subseteq req
  BY <1>1 DEF Own
<1>4. ASSUME NEW f \in Edges, f # e
      PROVE  Own(f, net') = Own(f, net)
  BY <1>1, <1>4, OwnApart DEF Own
<1>5. Callers(net')
  BY <1>1 DEF Callers
<1>6. ASSUME NEW f \in Edges, f # e
      PROVE  Disciplined(f)' /\ (Granted(f)' <=> Granted(f))
  <2>1. Own(f, server)' = Own(f, server) /\ Own(f, net)' = Own(f, net)
    BY <1>4, <1>6 DEF Own
  <2>2. worker'[f] = worker[f] /\ Disciplined(f)
    BY <1>2, <1>6 DEF LockInv
  <2>3. Disciplined(f)'
    BY <2>1, <2>2, Zenon DEF Disciplined
  <2>4. \A m \in net' : m.type \in WorkerCalls /\ m.th = W(f) <=> m \in Own(f, net)
    BY <2>1, Zenon DEF Own
  <2>5. Granted(f)' <=> Granted(f)
    BY <2>1, <2>2 DEF Granted, Own, WorkerCalls
  <2> QED
    BY <2>3, <2>5
<1>7. Disciplined(e)'
  <2>1. Own(e, server)' = {} /\ Own(e, net)' \subseteq req
    BY <1>3 DEF Own
  <2> QED
    BY <1>1, <1>2, <2>1, Zenon DEF Disciplined
<1>8. Granted(e)' <=> w.lock = "success" /\ w.pc \in Holding
  <2>1. \A m \in server' : m.type \in WorkerCalls => m.th # W(e)
    BY Zenon DEF Own
  <2>2. \A m \in net' : m.type \in WorkerCalls /\ m.th = W(e) => ~m.rsp
    BY <1>1, <1>3 DEF Own
  <2> QED
    BY <1>2, <2>1, <2>2, Zenon DEF Granted, Holding, WorkerCalls
<1> QED
  BY <1>5, <1>6, <1>7, <1>8

\* The calls and grants of all edges stay when only other messages and other
\* variables change.
LEMMA OthersMove ==
    ASSUME LockInv, Callers(net'), \A f \in Edges : Own(f, net') = Own(f, net),
           UNCHANGED <<worker, server>>
    PROVE  \A f \in Edges : Disciplined(f)' /\ (Granted(f)' <=> Granted(f))
<1> TAKE f \in Edges
<1>1. Own(f, server)' = Own(f, server) /\ Own(f, net)' = Own(f, net)
  BY Zenon DEF Own
<1>2. Disciplined(f)'
  BY <1>1, Zenon DEF LockInv, Disciplined
<1>3. Granted(f)' <=> Granted(f)
  BY <1>1 DEF Granted, Own, WorkerCalls
<1> QED
  BY <1>2, <1>3

\* An answer that grants nothing, to a call other than a release, takes the
\* place of the call.
LEMMA AnswerMoves ==
    ASSUME LockInv, NEW e \in Edges, NEW m \in Own(e, net), ~m.rsp, NEW arg,
           m.type # "release", m.type = "acquire" => arg # "success",
           net' = (net \ {m}) \cup {Reply(m, arg)},
           UNCHANGED <<worker, server>>
    PROVE  /\ Callers(net')
           /\ \A f \in Edges : Disciplined(f)' /\ (Granted(f)' <=> Granted(f))
<1> DEFINE r == Reply(m, arg)
<1>1. m \in MessageType
  BY DEF LockInv, IInv, NetOK, Own
<1>2. r.type = m.type /\ r.th = m.th /\ r.rsp /\ r.arg = arg
  BY <1>1 DEF Reply, MessageType, Messages
<1>3. m.type \in WorkerCalls /\ m.th = W(e) /\ net' = (net \ {m}) \cup {r}
  BY DEF Own
<1> HIDE DEF r
<1>4. Callers(net')
  BY <1>2, <1>3 DEF LockInv, Callers
<1>5. ASSUME NEW f \in Edges, f # e
      PROVE  Disciplined(f)' /\ (Granted(f)' <=> Granted(f))
  <2>1. Own(f, net)' = Own(f, net) /\ Own(f, server)' = Own(f, server)
    BY <1>2, <1>3, <1>5, OwnApart DEF Own
  <2>2. Disciplined(f)'
    BY <2>1, ZenonT(30) DEF LockInv, Disciplined
  <2>3. Granted(f)' <=> Granted(f)
    BY <2>1 DEF Granted, Own, WorkerCalls
  <2> QED
    BY <2>2, <2>3
<1>6. Own(e, net) = {m} /\ Own(e, server) = {} /\ m.type = worker[e].pc
  BY DEF LockInv, Disciplined
<1>7. Own(e, net)' = {r} /\ Own(e, server)' = {}
  BY <1>2, <1>3, <1>6 DEF Own
<1>8. Disciplined(e)'
  BY <1>2, <1>6, <1>7, Zenon DEF LockInv, Disciplined
<1>9. Granted(e)' <=> Granted(e)
  BY <1>2, <1>6, <1>7 DEF Granted, Own, WorkerCalls
<1> QED
  BY <1>4, <1>5, <1>8, <1>9, Zenon

\* The beacon server takes an acquire or a release: after an acquire its
\* sender holds the lock, after a release it does not.
LEMMA TakeMoves ==
    ASSUME LockInv, NEW e \in Edges, NEW m \in Own(e, net), ~m.rsp,
           m.type \in {"acquire", "release"}, server = {}, server' = {m},
           NEW req, \A n \in req : n.type \notin WorkerCalls,
           net' = (net \ {m}) \cup req, UNCHANGED worker
    PROVE  /\ Callers(net') /\ Callers(server')
           /\ \A f \in Edges : Disciplined(f)'
           /\ \A f \in Edges : f # e => (Granted(f)' <=> Granted(f))
           /\ Granted(e)' <=> m.type = "acquire"
<1>1. m.type \in WorkerCalls /\ m.th = W(e)
  BY Zenon DEF Own
<1>2. Callers(net') /\ Callers(server')
  BY <1>1 DEF LockInv, Callers
<1>3. ASSUME NEW f \in Edges, f # e
      PROVE  Disciplined(f)' /\ (Granted(f)' <=> Granted(f))
  <2>1. Own(f, net)' = Own(f, net) /\ Own(f, server)' = Own(f, server)
    BY <1>1, <1>3, OwnApart DEF Own
  <2>2. Disciplined(f)
    BY DEF LockInv
  <2>3. Disciplined(f)'
    BY <2>1, <2>2, Zenon DEF Disciplined
  <2>4. Granted(f)' <=> Granted(f)
    BY <2>1, Zenon DEF Granted, Own, WorkerCalls
  <2> QED
    BY <2>3, <2>4
<1>4. Own(e, net) = {m} /\ m.type = worker[e].pc
  BY Zenon DEF LockInv, Disciplined
<1>5. Own(e, net)' = {} /\ Own(e, server)' = {m}
  BY <1>1, <1>4 DEF Own
<1>6. Disciplined(e)'
  BY <1>4, <1>5, Zenon DEF LockInv, Disciplined
<1>7. Granted(e)' <=> m.type = "acquire"
  BY <1>1, <1>4, <1>5 DEF Granted, Own, WorkerCalls
<1> QED
  BY <1>2, <1>3, <1>6, <1>7

\* The beacon server answers the request it took.
LEMMA CollectedMoves ==
    ASSUME LockInv, ServerCollected
    PROVE  /\ Callers(net') /\ Callers(server')
           /\ \A f \in Edges : Disciplined(f)' /\ (Granted(f)' <=> Granted(f))
<1>1. PICK m \in server :
        net' = net \cup {Reply(m, IF m.type = "acquire" THEN "success" ELSE "-")}
  BY DEF ServerCollected
<1> DEFINE r == Reply(m, IF m.type = "acquire" THEN "success" ELSE "-")
<1>2. server = {m} /\ server' = {} /\ worker' = worker
  BY DEF LockInv, ServerCollected
<1>3. m \in MessageType /\ m.type \in {"acquire", "release"}
  BY DEF LockInv, IInv, NetOK
<1>4. /\ r.type = m.type /\ r.th = m.th /\ r.rsp
      /\ r.arg = "success" <=> m.type = "acquire"
  BY <1>3 DEF Reply, MessageType, Messages
<1>5. PICK e \in Edges : m.th = W(e)
  BY <1>3 DEF LockInv, Callers, WorkerCalls
<1>6. net' = net \cup {r}
  BY <1>1
<1> HIDE DEF r
<1>7. Callers(net') /\ Callers(server')
  BY <1>2, <1>4, <1>5, <1>6 DEF LockInv, Callers
<1>8. ASSUME NEW f \in Edges, f # e
      PROVE  Disciplined(f)' /\ (Granted(f)' <=> Granted(f))
  <2>1. Own(f, net)' = Own(f, net) /\ Own(f, server)' = Own(f, server)
    BY <1>2, <1>4, <1>5, <1>6, <1>8, OwnApart DEF Own
  <2>2. Disciplined(f)'
    BY <1>2, <2>1, Zenon DEF LockInv, Disciplined
  <2>3. Granted(f)' <=> Granted(f)
    BY <1>2, <2>1 DEF Granted, Own, WorkerCalls
  <2> QED
    BY <2>2, <2>3
<1>9. Own(e, server) = {m}
  BY <1>2, <1>3, <1>5, Zenon DEF Own, WorkerCalls
<1>10. Own(e, net) = {} /\ m.type = worker[e].pc
  BY <1>9 DEF LockInv, Disciplined
<1>11. Own(e, net)' = {r} /\ Own(e, server)' = {}
  BY <1>2, <1>3, <1>4, <1>5, <1>6, <1>10, Zenon DEF Own, WorkerCalls
<1>12. Disciplined(e)'
  BY <1>2, <1>4, <1>9, <1>10, <1>11, Zenon DEF LockInv, Disciplined
<1>13. Granted(e)' <=> Granted(e)
  BY <1>2, <1>3, <1>4, <1>9, <1>10, <1>11, Zenon DEF Granted, Own, WorkerCalls
<1> QED
  BY <1>7, <1>8, <1>12, <1>13

----------------------------------------------------------------------------
(* What a step does to the lock *)

\* A step of the protocol is a step of WriteLock or leaves its state.
LockStep == Lock!Next \/ UNCHANGED <<Holders, meta.blocklist>>

\* The messages after a step are disciplined.
Orderly == /\ IInv' /\ Callers(net') /\ Callers(server')
           /\ \A m, n \in server' : m = n
           /\ \A f \in Edges : Disciplined(f)'

\* Nobody's grant changes, and no edge starts to wait.
LEMMA GrantsStay ==
    ASSUME LockInv, Orderly, \A f \in Edges : Granted(f)' <=> Granted(f),
           meta'.writeflag = meta.writeflag, meta'.blocklist = meta.blocklist
    PROVE  LockInv' /\ LockStep
<1>1. Holders' = Holders
  BY DEF Holders
<1>2. FlagMeansHeld'
  BY <1>1 DEF LockInv, FlagMeansHeld
<1> QED
  BY <1>1, <1>2 DEF LockInv, Orderly, LockStep

\* An edge that has no grant starts to wait during a write.
LEMMA EdgeWaits ==
    ASSUME LockInv, Orderly, \A f \in Edges : Granted(f)' <=> Granted(f),
           NEW e \in Edges, ~Granted(e), meta.writeflag, meta'.writeflag,
           meta'.blocklist = meta.blocklist \cup {e}
    PROVE  LockInv' /\ LockStep
<1>1. Holders' = Holders
  BY DEF Holders
<1>2. Holders # {} /\ e \notin Holders
  BY DEF LockInv, FlagMeansHeld, Holders
<1>3. FlagMeansHeld'
  BY <1>1, <1>2 DEF FlagMeansHeld
<1>4. Lock!Wait(e)
  BY <1>1, <1>2, Zenon DEF Lock!Wait
<1> QED
  BY <1>3, <1>4 DEF LockInv, Orderly, LockStep, Lock!Next

\* The lock is granted to an edge when the write flag was not set.
LEMMA EdgeGains ==
    ASSUME LockInv, Orderly, NEW e \in Edges, Granted(e)',
           \A f \in Edges : f # e => (Granted(f)' <=> Granted(f)),
           ~meta.writeflag, meta'.writeflag, meta'.blocklist = meta.blocklist
    PROVE  LockInv' /\ LockStep
<1>1. Holders = {} /\ \A f \in Edges : ~Granted(f)
  BY DEF LockInv, FlagMeansHeld, Holders
<1>2. Holders' = {e}
  BY <1>1 DEF Holders
<1>3. meta.blocklist = {}
  BY DEF LockInv, IInv, BeaconConsistent
<1>4. Lock!Grant(e)
  BY <1>1, <1>2, <1>3 DEF Lock!Grant
<1>5. FlagMeansHeld'
  BY <1>2 DEF FlagMeansHeld
<1>6. \A f, g \in Edges : Granted(f)' /\ Granted(g)' => f = g
  BY <1>1, Zenon
<1> QED
  BY <1>4, <1>5, <1>6 DEF LockInv, Orderly, LockStep, Lock!Next

\* The holder loses its grant when the write flag is reset.
LEMMA EdgeLoses ==
    ASSUME LockInv, Orderly, NEW e \in Edges, Granted(e), ~Granted(e)',
           \A f \in Edges : f # e => (Granted(f)' <=> Granted(f)),
           ~meta'.writeflag, meta'.blocklist = {}
    PROVE  LockInv' /\ LockStep
<1>1. Holders # {} /\ \A f \in Edges : f # e => ~Granted(f)
  BY DEF LockInv, Holders
<1>2. Holders' = {} /\ \A f \in Edges : ~Granted(f)'
  BY <1>1 DEF Holders
<1>3. Lock!Release
  BY <1>1, <1>2 DEF Lock!Release
<1>4. FlagMeansHeld'
  BY <1>2, Zenon DEF FlagMeansHeld
<1> QED
  BY <1>2, <1>3, <1>4 DEF LockInv, Orderly, LockStep, Lock!Next

\* Whether worker e, in state w and without a call under way, holds the lock.
Holds(w) == w.lock = "success" /\ w.pc \in Holding

\* A worker that waits for no call moves without gaining or losing the lock.
LEMMA LocalMove ==
    ASSUME LockInv, IInv', NEW e \in Edges, NEW w, NEW ms, Enter(e, w, ms),
           Own(e, net) = {}, Own(e, server) = {},
           \A f \in Edges : Own(f, ms) = Own(f, net), Callers(ms),
           Holds(w) <=> Holds(worker[e]),
           w.pc = "release" => w.lock = "success", UNCHANGED server,
           meta'.writeflag = meta.writeflag, meta'.blocklist = meta.blocklist
    PROVE  LockInv' /\ LockStep
<1>1. PICK req : net' = ms \cup req /\ NextCall(e, w, req)
  BY EnterSends, Zenon
<1>2. worker' = [worker EXCEPT ![e] = w]
  BY DEF Enter
<1>3. /\ Callers(net') /\ \A f \in Edges : Disciplined(f)'
      /\ \A f \in Edges : f # e => (Granted(f)' <=> Granted(f))
      /\ Granted(e)' <=> w.lock = "success" /\ w.pc \in Holding
  BY <1>1, <1>2, WorkerMoves, Zenon
<1>4. Granted(e) <=> Holds(worker[e])
  BY Zenon DEF Granted, Own, WorkerCalls, Holds, Holding
<1>5. Orderly
  BY <1>3, Zenon DEF Orderly, LockInv
<1> QED
  BY <1>3, <1>4, <1>5, GrantsStay, Zenon DEF Holds

\* A worker takes the answer to its call: it then holds the lock if the answer
\* grants it, or it held the lock and the answer is not that of its release.
LEMMA AnsweredMove ==
    ASSUME LockInv, IInv', NEW e \in Edges, NEW m \in Responses(W(e), worker[e].pc),
           worker[e].pc \in WorkerCalls, NEW w, Enter(e, w, net \ {m}),
           Holds(w) <=> \/ m.type = "acquire" /\ m.arg = "success"
                        \/ Holds(worker[e]) /\ m.type # "release",
           w.pc = "release" => w.lock = "success", UNCHANGED <<server, meta>>
    PROVE  LockInv' /\ LockStep
<1>1. m \in Own(e, net) /\ m.type = worker[e].pc /\ m.rsp
  BY Zenon DEF Own, Responses
<1>2. Own(e, net) = {m} /\ Own(e, server) = {}
  BY <1>1, SMTT(30) DEF LockInv, Disciplined
<1>3. Own(e, net \ {m}) = {} /\ Callers(net \ {m})
  BY <1>2, Zenon DEF Own, LockInv, Callers
<1>4. ASSUME NEW f \in Edges, f # e
      PROVE  Own(f, net \ {m}) = Own(f, net)
  BY <1>1, <1>4, OwnApart, Zenon DEF Own
<1>5. PICK req : net' = (net \ {m}) \cup req /\ NextCall(e, w, req)
  BY EnterSends
<1>6. worker' = [worker EXCEPT ![e] = w]
  BY DEF Enter
<1>7. /\ Callers(net') /\ \A f \in Edges : Disciplined(f)'
      /\ \A f \in Edges : f # e => (Granted(f)' <=> Granted(f))
      /\ Granted(e)' <=> w.lock = "success" /\ w.pc \in Holding
  BY <1>2, <1>3, <1>4, <1>5, <1>6, WorkerMoves, ZenonT(30)
<1>8. Granted(e) <=> \/ m.type = "acquire" /\ m.arg = "success"
                     \/ Holds(worker[e]) /\ m.type # "release"
  BY <1>1, <1>2, Zenon DEF Granted, Own, WorkerCalls, Holds, Holding
<1>9. Orderly
  BY <1>7, ZenonT(30) DEF Orderly, LockInv
<1> QED
  BY <1>7, <1>8, <1>9, GrantsStay, Zenon DEF Holds

\* A worker that waits for no answer of the beacon has no call under way there.
LEMMA NoCall ==
    ASSUME LockInv, NEW e \in Edges, ~Remote(e, worker[e].pc) \/ worker[e].pc = "put"
    PROVE  Own(e, net) = {} /\ Own(e, server) = {}
BY Zenon DEF LockInv, Disciplined, Own, WorkerCalls

\* LocalMove for a worker that leaves the messages alone.
LEMMA OwnMove ==
    ASSUME LockInv, IInv', NEW e \in Edges, ~Remote(e, worker[e].pc),
           NEW w, Enter(e, w, net), Holds(w) <=> Holds(worker[e]),
           w.pc = "release" => w.lock = "success", UNCHANGED server,
           meta'.writeflag = meta.writeflag, meta'.blocklist = meta.blocklist
    PROVE  LockInv' /\ LockStep
<1>1. Own(e, net) = {} /\ Own(e, server) = {} /\ Callers(net)
  BY NoCall DEF LockInv
<1> QED
  BY <1>1, LocalMove, ZenonT(30)

----------------------------------------------------------------------------
(* The steps *)

\* The client steps and the reading steps leave the lock alone.
LEMMA ReadLocks ==
    ASSUME LockInv, IInv', NEW e \in Edges, Client(e) \/ Read(e)
    PROVE  LockInv' /\ LockStep
<1>0. worker[e] \in WorkerType /\ worker[e].lock \in Locks
  BY ZenonT(30) DEF LockInv, IInv, TypeOK, WorkerType
<1> USE DEF Holds, Holding
<1>1. CASE Get(e)
  <2>1. ~Remote(e, worker[e].pc) /\ UNCHANGED <<server, meta>>
    BY <1>1, Zenon DEF Get, Remote
  <2>2. PICK w : /\ Enter(e, w, net)
                 /\ w.pc \in {"fetched", "lookup"} /\ worker[e].pc = "idle"
    <3>1. CASE cache[e].st = "valid"
      <4> DEFINE v == [worker[e] EXCEPT !.pc = "fetched", !.op = "get",
                                        !.val = cache[e].val]
      <4>1. v.pc = "fetched" /\ Enter(e, v, net) /\ worker[e].pc = "idle"
        BY <1>0, <1>1, <3>1 DEF Get, WorkerType
      <4> QED
        BY <4>1, Zenon
    <3>2. CASE cache[e].st # "valid"
      <4> DEFINE v == [worker[e] EXCEPT !.pc = "lookup", !.op = "get"]
      <4>1. v.pc = "lookup" /\ Enter(e, v, net) /\ worker[e].pc = "idle"
        BY <1>0, <1>1, <3>2, Zenon DEF Get, WorkerType
      <4> QED
        BY <4>1, Zenon
    <3> QED
      BY <3>1, <3>2
  <2> QED
    BY <2>1, <2>2, OwnMove, Zenon
<1>2. CASE Put(e)
  <2> DEFINE w == [worker[e] EXCEPT !.pc = "acquire", !.op = "put",
                                    !.val = nver + 1]
  <2>1. /\ ~Remote(e, worker[e].pc) /\ UNCHANGED <<server, meta>>
        /\ Enter(e, w, net) /\ worker[e].pc = "idle"
    BY <1>2 DEF Put, Remote
  <2>2. w.pc = "acquire"
    BY <1>0, Zenon DEF WorkerType
  <2> HIDE DEF w
  <2> QED
    BY <2>1, <2>2, OwnMove
<1>3. CASE LookupLocalDirectory(e)
  <2>1. /\ ~Remote(e, worker[e].pc) /\ UNCHANGED <<server, meta>>
        /\ worker[e].pc = "lookup"
    BY <1>3, Zenon DEF LookupLocalDirectory, Remote
  <2>2. PICK w : Enter(e, w, net) /\ w.pc \in {"cloudget", "redirect"}
    <3>1. CASE lookupTargets(meta, e) = {}
      <4> DEFINE v == [worker[e] EXCEPT !.pc = "cloudget"]
      <4>1. v.pc = "cloudget" /\ Enter(e, v, net)
        BY <1>0, <1>3, <3>1 DEF LookupLocalDirectory, Jump, WorkerType
      <4> QED
        BY <4>1, Zenon
    <3>2. CASE lookupTargets(meta, e) # {}
      <4>1. PICK d \in lookupTargets(meta, e) :
              Enter(e, [worker[e] EXCEPT !.pc = "redirect", !.target = d], net)
        BY <1>3, <3>2, Zenon DEF LookupLocalDirectory
      <4>2. [worker[e] EXCEPT !.pc = "redirect", !.target = d].pc = "redirect"
        BY <1>0, Zenon DEF WorkerType
      <4> QED
        BY <4>1, <4>2, Zenon
    <3> QED
      BY <3>1, <3>2
  <2> QED
    BY <2>1, <2>2, OwnMove
<1>4. CASE LookupBeaconDirectory(e)
  <2>1. worker[e].pc = "lookup" /\ UNCHANGED <<server, meta>>
    BY <1>4 DEF LookupBeaconDirectory
  <2>2. PICK m \in Responses(W(e), "lookup") :
          CASE m.arg = "written" -> Jump(e, "blocked", net \ {m})
            [] m.arg = "none" -> Jump(e, "cloudget", net \ {m})
            [] OTHER -> Enter(e, [worker[e] EXCEPT !.pc = "redirect",
                                                   !.target = m.arg], net \ {m})
    BY <1>4, Zenon DEF LookupBeaconDirectory
  <2>3. m.type = "lookup"
    BY DEF Responses
  <2>4. PICK w : /\ Enter(e, w, net \ {m})
                 /\ w.pc \in {"blocked", "cloudget", "redirect"}
    <3>1. \A l : [worker[e] EXCEPT !.pc = l].pc = l
      BY <1>0 DEF WorkerType
    <3>2. [worker[e] EXCEPT !.pc = "redirect", !.target = m.arg].pc = "redirect"
      BY <1>0 DEF WorkerType
    <3>3. CASE m.arg = "written"
      BY <2>2, <3>1, <3>3, Zenon DEF Jump
    <3>4. CASE m.arg # "written" /\ m.arg = "none"
      BY <2>2, <3>1, <3>4, Zenon DEF Jump
    <3>5. CASE m.arg # "written" /\ m.arg # "none"
      BY <2>2, <3>2, <3>5, Zenon
    <3> QED
      BY <3>3, <3>4, <3>5
  <2> QED
    BY <2>1, <2>3, <2>4, AnsweredMove, ZenonT(30) DEF WorkerCalls
<1>5. CASE ProcessRedirectedGetRequest(e) \/ RedirectGetToTarget(e)
           \/ FetchDataFromCloud(e) \/ TryToUpdateInvalidLocalEdgeCache(e)
  <2>1. /\ worker[e].pc \in {"redirect", "missed", "cloudget", "fetched"}
        /\ UNCHANGED <<server, meta>>
    BY <1>5 DEF ProcessRedirectedGetRequest, RedirectGetToTarget,
                FetchDataFromCloud, TryToUpdateInvalidLocalEdgeCache
  <2>2. ~Remote(e, worker[e].pc)
    BY <2>1 DEF Remote
  <2>3. /\ \A l : [worker[e] EXCEPT !.pc = l].pc = l
        /\ \A v : [worker[e] EXCEPT !.pc = "fetched", !.val = v].pc = "fetched"
    BY <1>0 DEF WorkerType
  <2>4. PICK w : /\ Enter(e, w, net)
                 /\ w.pc \in {"fetched", "missed", "cloudget", "lookup", "decide"}
    <3>1. CASE ProcessRedirectedGetRequest(e)
      BY <2>3, <3>1, ZenonT(30) DEF ProcessRedirectedGetRequest, Jump
    <3>2. CASE RedirectGetToTarget(e)
      BY <2>3, <3>2, Zenon DEF RedirectGetToTarget, Jump
    <3>3. CASE FetchDataFromCloud(e)
      BY <2>3, <3>3, Zenon DEF FetchDataFromCloud
    <3>4. CASE TryToUpdateInvalidLocalEdgeCache(e)
      BY <2>3, <3>4, Zenon DEF TryToUpdateInvalidLocalEdgeCache, Jump
    <3> QED
      BY <1>5, <3>1, <3>2, <3>3, <3>4
  <2> QED
    BY <2>1, <2>2, <2>4, OwnMove
<1> QED
  BY <1>1, <1>2, <1>3, <1>4, <1>5 DEF Client, Read

\* The admission steps leave the lock alone.
LEMMA AdmitLocks ==
    ASSUME LockInv, IInv', NEW e \in Edges, Admit(e)
    PROVE  LockInv' /\ LockStep
<1>0. worker[e] \in WorkerType /\ meta \in MetaType
  BY Zenon DEF LockInv, IInv, TypeOK
<1>a. \A l : [worker[e] EXCEPT !.pc = l].pc = l
  BY <1>0 DEF WorkerType
<1>b. IdleWorker(e).pc = "idle"
  BY Zenon DEF IdleWorker
<1> USE DEF Holds, Holding
<1>1. CASE AfterRequest(e)
  <2>1. worker[e].pc = "decide" /\ UNCHANGED <<server, meta>>
    BY <1>1 DEF AfterRequest
  <2>2. ~Remote(e, worker[e].pc)
    BY <2>1 DEF Remote
  <2>3. PICK w : Enter(e, w, net) /\ w.pc \in {"idle", "admit"}
    BY <1>a, <1>b, <1>1, Zenon DEF AfterRequest, Jump
  <2> QED
    BY <2>1, <2>2, <2>3, OwnMove
<1>2. CASE AdmitLocalDirectory(e)
  <2>1. worker[e].pc = "admit" /\ UNCHANGED server
    BY <1>2 DEF AdmitLocalDirectory
  <2>2. ~Remote(e, worker[e].pc)
    BY <1>2 DEF AdmitLocalDirectory, Remote
  <2>3. PICK w : Enter(e, w, net) /\ w.pc \in {"installValid", "installInvalid"}
    BY <1>a, <1>2, Zenon DEF AdmitLocalDirectory, Jump
  <2>4. meta'.writeflag = meta.writeflag /\ meta'.blocklist = meta.blocklist
    BY <1>0, <1>2, Zenon DEF AdmitLocalDirectory, updateDirectoryTable, MetaType
  <2> QED
    BY <2>1, <2>2, <2>3, <2>4, OwnMove
<1>3. CASE AdmitBeaconDirectory(e)
  <2>1. worker[e].pc = "admit" /\ UNCHANGED <<server, meta>>
    BY <1>3 DEF AdmitBeaconDirectory
  <2>2. PICK m \in Responses(W(e), "admit") :
          \E w : /\ Enter(e, w, net \ {m})
                 /\ w.pc \in {"installValid", "installInvalid"}
    BY <1>a, <1>3, Zenon DEF AdmitBeaconDirectory, Jump
  <2>3. PICK w : /\ Enter(e, w, net \ {m})
                 /\ w.pc \in {"installValid", "installInvalid"}
    BY <2>2
  <2>4. m.type = "admit"
    BY <2>2, Zenon DEF Responses
  <2> QED
    BY <2>1, <2>3, <2>4, AnsweredMove DEF WorkerCalls
<1>4. CASE AdmitLocalEdgeCache(e)
  <2>1. /\ worker[e].pc \in {"installValid", "installInvalid"}
        /\ UNCHANGED <<server, meta>>
    BY <1>4, Zenon DEF AdmitLocalEdgeCache
  <2>2. ~Remote(e, worker[e].pc)
    BY <2>1, Zenon DEF Remote
  <2>3. Enter(e, IdleWorker(e), net)
    BY <1>4 DEF AdmitLocalEdgeCache
  <2> QED
    BY <1>b, <2>1, <2>2, <2>3, OwnMove, Zenon
<1> QED
  BY <1>1, <1>2, <1>3, <1>4 DEF Admit

\* The messages that a thread of the beacon sends to the edges are no calls
\* of a worker.
LEMMA EdgeCalls ==
    ASSUME NEW k, NEW type \in {"inv", "fin"}, NEW dsts, NEW ms,
           CallEdges(k, type, dsts, ms)
    PROVE  \E req : /\ net' = ms \cup req
                    /\ \A m \in req : m.type \notin WorkerCalls
<1> DEFINE s == CHOOSE s \in Unused(BeaconThread(k), ms) : TRUE
           req == Requests(BeaconThread(k), type, dsts \ {Beacon}, s, 0, 0)
<1>1. net' = ms \cup req
  BY DEF CallEdges, Call
<1>2. \A m \in req : m.type \notin WorkerCalls
  BY DEF Requests, WorkerCalls
<1> HIDE DEF req
<1> QED
  BY <1>1, <1>2

\* Messages that are no calls of a worker do not count.
LEMMA OwnOnly ==
    ASSUME NEW ms, NEW req, \A m \in req : m.type \notin WorkerCalls
    PROVE  /\ \A f \in Edges : Own(f, ms \cup req) = Own(f, ms)
           /\ Callers(ms) => Callers(ms \cup req)
BY DEF Own, Callers

\* The beacon's own worker takes the lock.
LEMMA AcquireLocks ==
    ASSUME LockInv, IInv', NEW e \in Edges, AcquireLocalWritelock(e)
    PROVE  LockInv' /\ LockStep
<1>0. worker[e] \in WorkerType /\ meta \in MetaType /\ worker[e].pc = "acquire"
  BY Zenon DEF LockInv, IInv, TypeOK, AcquireLocalWritelock
<1>1. ~Remote(e, worker[e].pc)
  BY Zenon DEF AcquireLocalWritelock, Remote
<1>2. CASE lockResult(meta) = "noneed"
  <2> DEFINE w == [worker[e] EXCEPT !.pc = "put", !.lock = "noneed"]
  <2>1. Enter(e, w, net) /\ UNCHANGED <<server, meta>>
    BY <1>2 DEF AcquireLocalWritelock, acquireLocalWritelockByCacheServer
  <2>2. w.pc = "put" /\ w.lock = "noneed"
    BY <1>0 DEF WorkerType
  <2> HIDE DEF w
  <2> QED
    BY <1>0, <1>1, <2>1, <2>2, OwnMove DEF Holds, Holding
<1>3. CASE lockResult(meta) = "success"
  <2> DEFINE w == [worker[e] EXCEPT !.pc = "invalidate", !.lock = "success"]
  <2>1. /\ worker' = [worker EXCEPT ![e] = w]
        /\ CallEdges("worker", "inv", dirinfos(meta), net)
        /\ UNCHANGED server
    BY <1>3, Zenon DEF AcquireLocalWritelock, LockInv, IInv, TypeOK
  <2>2. w.pc = "invalidate" /\ w.lock = "success"
    BY <1>0 DEF WorkerType
  <2>3. /\ ~meta.writeflag /\ meta'.writeflag
        /\ meta'.blocklist = meta.blocklist
    BY <1>0, <1>3 DEF lockResult, AcquireLocalWritelock, setWriteflag, MetaType,
                      acquireLocalWritelockByCacheServer
  <2> HIDE DEF w
  <2>4. PICK req : /\ net' = net \cup req
                   /\ \A m \in req : m.type \notin WorkerCalls
    BY <2>1, EdgeCalls
  <2>5. /\ \A f \in Edges : Own(f, net') = Own(f, net)
        /\ Callers(net')
    BY <2>4, OwnOnly, Zenon DEF LockInv
  <2>6. NextCall(e, w, {}) /\ net' = net' \cup {}
    BY Zenon DEF NextCall
  <2>7. Own(e, net') = {} /\ Own(e, server) = {}
    BY <1>1, <2>5, NoCall
  <2>8. /\ \A f \in Edges : Disciplined(f)'
        /\ \A f \in Edges : f # e => (Granted(f)' <=> Granted(f))
        /\ Granted(e)'
    BY <2>1, <2>2, <2>5, <2>6, <2>7, WorkerMoves, Zenon DEF Holding
  <2>9. Orderly
    BY <2>1, <2>5, <2>8, Zenon DEF Orderly, LockInv
  <2> QED
    BY <2>3, <2>8, <2>9, EdgeGains
<1> QED
  BY <1>2, <1>3 DEF AcquireLocalWritelock

\* The beacon's own worker releases the lock, which it holds.
LEMMA ReleaseLocks ==
    ASSUME LockInv, IInv', NEW e \in Edges, ReleaseLocalWritelock(e)
    PROVE  /\ LockInv' /\ LockStep
           /\ meta.writeflag /\ Beacon \notin meta.blocklist
<1> DEFINE w == [worker[e] EXCEPT !.pc = "notify"]
<1>0. /\ worker[e] \in WorkerType /\ meta \in MetaType
      /\ worker[e].pc = "written" /\ worker[e].lock = "success"
  BY Zenon DEF LockInv, IInv, TypeOK, ReleaseLocalWritelock
<1>1. ~Remote(e, worker[e].pc)
  BY <1>0 DEF Remote
<1>2. /\ worker' = [worker EXCEPT ![e] = w]
      /\ CallEdges("worker", "fin", meta.blocklist, net)
      /\ UNCHANGED server
  BY Zenon DEF ReleaseLocalWritelock, LockInv, IInv, TypeOK
<1>3. w.pc = "notify"
  BY <1>0 DEF WorkerType
<1>4. ~meta'.writeflag /\ meta'.blocklist = {}
  BY <1>0 DEF ReleaseLocalWritelock, releaseLocalWritelock, MetaType
<1> HIDE DEF w
<1>5. PICK req : /\ net' = net \cup req
                 /\ \A m \in req : m.type \notin WorkerCalls
  BY <1>2, EdgeCalls, Zenon
<1>6. /\ \A f \in Edges : Own(f, net') = Own(f, net)
      /\ Callers(net')
  BY <1>5, OwnOnly, Zenon DEF LockInv
<1>7. NextCall(e, w, {}) /\ net' = net' \cup {}
  BY DEF NextCall
<1>8. Own(e, net) = {} /\ Own(e, net') = {} /\ Own(e, server) = {}
  BY <1>1, <1>6, NoCall
<1>9. /\ \A f \in Edges : Disciplined(f)'
      /\ \A f \in Edges : f # e => (Granted(f)' <=> Granted(f))
      /\ ~Granted(e)'
  BY <1>2, <1>3, <1>6, <1>7, <1>8, WorkerMoves, Zenon DEF Holding
<1>10. Orderly
  BY <1>2, <1>6, <1>9, Zenon DEF Orderly, LockInv
<1>11. Granted(e)
  BY <1>0, <1>8, Zenon DEF Granted, Own, WorkerCalls
<1>12. meta.writeflag /\ Beacon \notin meta.blocklist
  BY <1>11, Zenon DEF LockInv, IInv, BeaconConsistent, FlagMeansHeld, Holders
<1> QED
  BY <1>4, <1>9, <1>10, <1>11, <1>12, EdgeLoses

\* The writing steps are steps of the lock.
LEMMA WriteLocks ==
    ASSUME LockInv, IInv', NEW e \in Edges, Write(e)
    PROVE  LockInv' /\ LockStep
<1>0. worker[e] \in WorkerType
  BY Zenon DEF LockInv, IInv, TypeOK
<1>a. /\ \A l : [worker[e] EXCEPT !.pc = l].pc = l
      /\ \A l : [worker[e] EXCEPT !.pc = l].lock = worker[e].lock
  BY <1>0 DEF WorkerType
<1> USE DEF Holds, Holding
<1>1. CASE AcquireBeaconWritelock(e)
  <2>1. worker[e].pc = "acquire" /\ UNCHANGED <<server, meta>>
    BY <1>1 DEF AcquireBeaconWritelock
  <2>2. PICK m \in Responses(W(e), "acquire") :
          IF m.arg = "failure" THEN Jump(e, "blocked", net \ {m})
          ELSE Enter(e, [worker[e] EXCEPT !.pc = "put", !.lock = m.arg],
                     net \ {m})
    BY <1>1, Zenon DEF AcquireBeaconWritelock
  <2>3. m.type = "acquire"
    BY Zenon DEF Responses
  <2>4. CASE m.arg = "failure"
    <3> DEFINE w == [worker[e] EXCEPT !.pc = "blocked"]
    <3>1. Enter(e, w, net \ {m}) /\ w.pc = "blocked"
      BY <1>a, <2>2, <2>4, Zenon DEF Jump
    <3> HIDE DEF w
    <3> QED
      BY <2>1, <2>3, <2>4, <3>1, AnsweredMove DEF WorkerCalls
  <2>5. CASE m.arg # "failure"
    <3> DEFINE w == [worker[e] EXCEPT !.pc = "put", !.lock = m.arg]
    <3>1. Enter(e, w, net \ {m})
      BY <2>2, <2>5
    <3>2. w.pc = "put" /\ w.lock = m.arg
      BY <1>0, Zenon DEF WorkerType
    <3> HIDE DEF w
    <3> QED
      BY <2>1, <2>3, <2>5, <3>1, <3>2, AnsweredMove DEF WorkerCalls
  <2> QED
    BY <2>4, <2>5
<1>2. CASE BlockForWritesByInterruption(e)
  <2>1. worker[e].pc = "blocked" /\ UNCHANGED <<server, meta>>
    BY <1>2 DEF BlockForWritesByInterruption
  <2>2. PICK m \in net, l \in {"lookup", "acquire"} :
          m.type = "fin" /\ Jump(e, l, (net \ {m}) \cup {Reply(m, "-")})
    BY <1>2, Zenon DEF BlockForWritesByInterruption
  <2> DEFINE ms == (net \ {m}) \cup {Reply(m, "-")}
  <2>3. Reply(m, "-").type = "fin"
    <3>1. m \in MessageType
      BY DEF LockInv, IInv, NetOK
    <3> QED
      BY <2>2, <3>1, Zenon DEF Reply, MessageType, Messages
  <2>4. \A f \in Edges : Own(f, ms) = Own(f, net)
    BY <2>2, <2>3 DEF Own, WorkerCalls
  <2>5. Callers(ms)
    BY <2>3, Zenon DEF Callers, WorkerCalls, LockInv
  <2>6. Own(e, net) = {} /\ Own(e, server) = {}
    BY <2>1, NoCall DEF Remote
  <2>7. PICK w : Enter(e, w, ms) /\ w.pc \in {"lookup", "acquire"}
    BY <1>a, <2>2, Zenon DEF Jump
  <2> HIDE DEF ms
  <2> QED
    BY <2>1, <2>4, <2>5, <2>6, <2>7, LocalMove, Zenon
<1>3. CASE ReleaseBeaconWritelock(e)
  <2>1. worker[e].pc = "release" /\ UNCHANGED <<server, meta>>
    BY <1>3, Zenon DEF ReleaseBeaconWritelock
  <2>2. PICK m \in Responses(W(e), worker[e].pc) : Jump(e, "decide", net \ {m})
    BY <1>3 DEF ReleaseBeaconWritelock
  <2>3. m.type = worker[e].pc
    BY DEF Responses
  <2> DEFINE w == [worker[e] EXCEPT !.pc = "decide"]
  <2>4. Enter(e, w, net \ {m}) /\ w.lock = worker[e].lock /\ w.pc = "decide"
    BY <1>a, <2>2, Zenon DEF Jump
  <2> HIDE DEF w
  <2> QED
    BY <2>1, <2>3, <2>4, AnsweredMove, Zenon DEF WorkerCalls, Holds, Holding
<1>6. CASE WriteDataToCloud(e)
  <2>1. worker[e].pc = "put" /\ UNCHANGED <<server, meta>>
    BY <1>6 DEF WriteDataToCloud
  <2>2. PICK m \in net : m.type = "put" /\ Jump(e, "update", net \ {m})
    BY <1>6 DEF WriteDataToCloud, Responses
  <2> DEFINE w == [worker[e] EXCEPT !.pc = "update"]
  <2>3. Enter(e, w, net \ {m}) /\ w.lock = worker[e].lock /\ w.pc = "update"
    BY <1>a, <2>2 DEF Jump
  <2> HIDE DEF w
  <2>4. Own(e, net) = {} /\ Own(e, server) = {}
    BY <2>1, NoCall
  <2>5. \A f \in Edges : Own(f, net \ {m}) = Own(f, net)
    BY <2>2 DEF Own, WorkerCalls
  <2>6. Callers(net \ {m})
    BY DEF Callers, LockInv
  <2>7. Holds(w) <=> Holds(worker[e])
    BY <2>1, <2>3, Zenon DEF Holds, Holding
  <2> QED
    BY <2>1, <2>3, <2>4, <2>5, <2>6, <2>7, LocalMove, Zenon
<1>4. CASE UpdateLocalEdgeCache(e)
  <2> DEFINE w == [worker[e] EXCEPT !.pc = "written"]
  <2>1. /\ worker[e].pc = "update" /\ UNCHANGED <<server, meta>>
        /\ Enter(e, w, net)
    BY <1>4 DEF UpdateLocalEdgeCache, Jump
  <2>2. w.pc = "written" /\ w.lock = worker[e].lock /\ ~Remote(e, worker[e].pc)
    BY <1>a, <2>1, Zenon DEF Remote
  <2> HIDE DEF w
  <2> QED
    BY <2>1, <2>2, OwnMove
<1>5. CASE FinishWrite(e)
  <2>1. worker[e].pc = "written" /\ UNCHANGED <<server, meta>>
    BY <1>5, Zenon DEF FinishWrite
  <2>2. PICK w : /\ Enter(e, w, net) /\ w.lock = worker[e].lock
                 /\ \/ w.lock = "noneed" /\ w.pc = "decide"
                    \/ w.lock = "success" /\ w.pc = "release"
    BY <1>a, <1>5, Zenon DEF FinishWrite, Jump
  <2>3. ~Remote(e, worker[e].pc)
    BY <2>1 DEF Remote
  <2> QED
    BY <2>1, <2>2, <2>3, OwnMove
<1> QED
  BY <1>1, <1>2, <1>3, <1>4, <1>5, <1>6, AcquireLocks, ReleaseLocks DEF Write

\* Evictions leave the lock alone.
LEMMA EvictLocks ==
    ASSUME LockInv, IInv', NEW e \in Edges, Evict(e)
    PROVE  LockInv' /\ LockStep
<1>1. /\ UNCHANGED <<worker, server>>
      /\ meta'.writeflag = meta.writeflag /\ meta'.blocklist = meta.blocklist
  <2>1. meta \in MetaType
    BY Zenon DEF LockInv, IInv, TypeOK
  <2> QED
    BY <2>1 DEF Evict, EvictLocalEdgeCache, EvictLocalDirectory,
                EvictBeaconDirectory, updateDirectoryTable, MetaType
<1>2. Callers(net') /\ \A f \in Edges : Own(f, net') = Own(f, net)
  <2>1. CASE UNCHANGED net
    BY <2>1 DEF LockInv
  <2>2. CASE Call(E(e), "evict", {e}, 0, net)
    <3> DEFINE s == CHOOSE s \in Unused(E(e), net) : TRUE
               req == Requests(E(e), "evict", {e}, s, 0, 0)
    <3>1. net' = net \cup req
      BY <2>2, Zenon DEF Call
    <3>2. \A m \in req : m.type \notin WorkerCalls
      BY SMTT(30) DEF Requests, WorkerCalls
    <3> HIDE DEF req
    <3> QED
      BY <3>1, <3>2, OwnOnly, Zenon DEF LockInv
  <2>3. CASE EvictBeaconDirectory(e)
    <3>1. PICK m \in net : m.type = "evict" /\ net' = net \ {m}
      BY <2>3, Zenon DEF EvictBeaconDirectory, Responses
    <3> QED
      BY <3>1, Zenon DEF Own, Callers, WorkerCalls, LockInv
  <2> QED
    BY <2>1, <2>2, <2>3, Zenon DEF Evict, EvictLocalEdgeCache, EvictLocalDirectory
<1>3. \A f \in Edges : Disciplined(f)' /\ (Granted(f)' <=> Granted(f))
  BY <1>1, <1>2, OthersMove, ZenonT(30)
<1>4. Orderly
  BY <1>1, <1>2, <1>3 DEF Orderly, LockInv
<1> QED
  BY <1>1, <1>3, <1>4, GrantsStay

\* A request of edge e that is a worker's call is a call of its worker.
LEMMA RequestOwn ==
    ASSUME LockInv, NEW e \in Edges, NEW types \in SUBSET WorkerCalls,
           NEW m \in BeaconRequests(e, types)
    PROVE  m \in Own(e, net) /\ ~m.rsp /\ m.type \in types /\ server = {}
<1>1. m \in net /\ m.type \in types /\ ~m.rsp /\ server = {} /\ m.th[2] = e
  BY Zenon DEF BeaconRequests
<1>2. PICK f \in Edges : m.th = W(f)
  BY <1>1 DEF LockInv, Callers
<1>3. f = e
  BY <1>1, <1>2, SMTT(30) DEF W
<1> QED
  BY <1>1, <1>2, <1>3 DEF Own

\* The holder has no other call under way than its release.
LEMMA CallerHolds ==
    ASSUME LockInv, NEW e \in Edges, NEW m \in Own(e, net), ~m.rsp
    PROVE  /\ Granted(e) => m.type = "release"
           /\ m.type = "release" => Granted(e)
<1>1. Own(e, net) = {m} /\ Own(e, server) = {} /\ m.type = worker[e].pc
  BY DEF LockInv, Disciplined
<1>2. m.type \in WorkerCalls
  BY Zenon DEF Own
<1>3. worker[e].pc = "release" => worker[e].lock = "success"
  BY DEF LockInv, Disciplined
<1> QED
  BY <1>1, <1>2, <1>3, Zenon DEF Granted, Own, WorkerCalls

\* The steps of the beacon server are steps of the lock.
LEMMA ServerLocks ==
    ASSUME LockInv, IInv', NEW e \in Edges, BeaconServer(e)
    PROVE  LockInv' /\ LockStep
<1>0. meta \in MetaType
  BY Zenon DEF LockInv, IInv, TypeOK
<1>1. CASE ProcessDirectoryLookupRequest(e)
  <2>1. PICK m \in BeaconRequests(e, {"lookup"}) :
          \E arg : net' = (net \ {m}) \cup {Reply(m, arg)}
    BY <1>1 DEF ProcessDirectoryLookupRequest
  <2>2. m \in Own(e, net) /\ ~m.rsp /\ m.type = "lookup"
    BY RequestOwn DEF WorkerCalls
  <2>3. UNCHANGED <<worker, server>> /\ meta' = lookupByBeaconServer(meta, e)
    BY <1>1 DEF ProcessDirectoryLookupRequest
  <2>4. /\ Callers(net')
        /\ \A f \in Edges : Disciplined(f)' /\ (Granted(f)' <=> Granted(f))
    BY <2>1, <2>2, <2>3, AnswerMoves
  <2>5. Orderly
    BY <2>3, <2>4, Zenon DEF Orderly, LockInv
  <2>6. CASE meta.writeflag
    <3>1. meta'.writeflag /\ meta'.blocklist = meta.blocklist \cup {e}
      BY <1>0, <2>3, <2>6 DEF lookupByBeaconServer, blockEdge, MetaType
    <3>2. ~Granted(e)
      BY <2>2, CallerHolds
    <3> QED
      BY <2>4, <2>5, <2>6, <3>1, <3>2, EdgeWaits, Zenon
  <2>7. CASE ~meta.writeflag
    <3>1. meta' = meta
      BY <2>3, <2>7, Zenon DEF lookupByBeaconServer
    <3> QED
      BY <2>4, <2>5, <3>1, GrantsStay
  <2> QED
    BY <2>6, <2>7
<1>2. CASE ProcessDirectoryUpdateRequest(e)
  <2>1. PICK m \in BeaconRequests(e, {"admit", "evict"}) :
          /\ meta' = updateDirectoryTable(meta, e, m.type = "admit")
          /\ \E arg : net' = (net \ {m}) \cup {Reply(m, arg)}
    BY <1>2 DEF ProcessDirectoryUpdateRequest
  <2>2. /\ UNCHANGED <<worker, server>>
        /\ meta'.writeflag = meta.writeflag /\ meta'.blocklist = meta.blocklist
    BY <1>0, <1>2, <2>1, Zenon
       DEF ProcessDirectoryUpdateRequest, updateDirectoryTable, MetaType
  <2>3. /\ Callers(net')
        /\ \A f \in Edges : Disciplined(f)' /\ (Granted(f)' <=> Granted(f))
    <3>1. CASE m.type = "admit"
      <4>1. m \in BeaconRequests(e, {"admit"})
        BY <3>1 DEF BeaconRequests
      <4>2. m \in Own(e, net) /\ ~m.rsp
        BY <4>1, RequestOwn, Zenon DEF WorkerCalls
      <4> QED
        BY <2>1, <2>2, <3>1, <4>2, AnswerMoves, Zenon
    <3>2. CASE m.type = "evict"
      <4>1. PICK arg : net' = (net \ {m}) \cup {Reply(m, arg)}
        BY <2>1, Zenon
      <4>2. m \in net /\ m \in MessageType
        BY Zenon DEF BeaconRequests, LockInv, IInv, NetOK
      <4>3. Reply(m, arg).type = "evict"
        BY <3>2, <4>2, Zenon DEF Reply, MessageType, Messages
      <4>4. Callers(net') /\ \A f \in Edges : Own(f, net') = Own(f, net)
        BY <3>2, <4>1, <4>3, Zenon DEF Own, Callers, WorkerCalls, LockInv
      <4> QED
        BY <2>2, <4>4, OthersMove, Zenon
    <3> QED
      BY <3>1, <3>2 DEF BeaconRequests
  <2>4. Orderly
    BY <2>2, <2>3, Zenon DEF Orderly, LockInv
  <2> QED
    BY <2>2, <2>3, <2>4, GrantsStay, Zenon
<1>3. CASE ProcessAcquireWritelockRequest(e)
  <2>1. PICK m \in BeaconRequests(e, {"acquire"}) :
          IF lockResult(meta) = "success"
            THEN /\ CallEdges("server", "inv", dirinfos(meta), net \ {m})
                 /\ server' = {m}
                 /\ fresh' = {}
            ELSE /\ net' = (net \ {m}) \cup {Reply(m, lockResult(meta))}
                 /\ UNCHANGED <<server, pending, seq, fresh>>
    BY <1>3 DEF ProcessAcquireWritelockRequest
  <2>2. m \in Own(e, net) /\ ~m.rsp /\ m.type = "acquire" /\ server = {}
    BY RequestOwn DEF WorkerCalls
  <2>3. worker' = worker /\ meta' = acquireLocalWritelockByBeaconServer(meta, e)
    BY <1>3, Zenon DEF ProcessAcquireWritelockRequest
  <2>4. CASE lockResult(meta) = "success"
    <3>1. server' = {m} /\ CallEdges("server", "inv", dirinfos(meta), net \ {m})
      BY <2>1, <2>4
    <3>2. PICK req : /\ net' = (net \ {m}) \cup req
                     /\ \A n \in req : n.type \notin WorkerCalls
      BY <3>1, EdgeCalls
    <3>3. /\ Callers(net') /\ Callers(server')
          /\ \A f \in Edges : Disciplined(f)'
          /\ \A f \in Edges : f # e => (Granted(f)' <=> Granted(f))
          /\ Granted(e)'
      BY <2>2, <2>3, <3>1, <3>2, TakeMoves, Zenon
    <3>4. /\ ~meta.writeflag /\ meta'.writeflag
          /\ meta'.blocklist = meta.blocklist
      BY <1>0, <2>3, <2>4 DEF acquireLocalWritelockByBeaconServer, lockResult,
                              setWriteflag, MetaType
    <3>5. Orderly
      BY <3>1, <3>3 DEF Orderly
    <3> QED
      BY <3>3, <3>4, <3>5, EdgeGains, Zenon
  <2>5. CASE lockResult(meta) # "success"
    <3>1. /\ net' = (net \ {m}) \cup {Reply(m, lockResult(meta))}
          /\ UNCHANGED server
      BY <2>1, <2>5
    <3>2. /\ Callers(net')
          /\ \A f \in Edges : Disciplined(f)' /\ (Granted(f)' <=> Granted(f))
      BY <2>2, <2>3, <2>5, <3>1, AnswerMoves
    <3>3. Orderly
      BY <3>1, <3>2, Zenon DEF Orderly, LockInv
    <3>4. CASE lockResult(meta) = "failure"
      <4>1. /\ meta.writeflag /\ meta'.writeflag
            /\ meta'.blocklist = meta.blocklist \cup {e}
        BY <1>0, <2>3, <3>4 DEF acquireLocalWritelockByBeaconServer, lockResult,
                                blockEdge, MetaType
      <4>2. ~Granted(e)
        BY <2>2, CallerHolds
      <4> QED
        BY <3>2, <3>3, <4>1, <4>2, EdgeWaits, Zenon
    <3>5. CASE lockResult(meta) # "failure"
      <4>1. meta' = meta
        BY <2>3, <2>5, <3>5, Zenon DEF acquireLocalWritelockByBeaconServer
      <4> QED
        BY <3>2, <3>3, <4>1, GrantsStay
    <3> QED
      BY <3>4, <3>5
  <2> QED
    BY <2>4, <2>5
<1>4. CASE ProcessReleaseWritelockRequest(e)
  <2>1. PICK m \in BeaconRequests(e, {"release"}) :
          /\ CallEdges("server", "fin", meta.blocklist, net \ {m})
          /\ server' = {m}
    BY <1>4 DEF ProcessReleaseWritelockRequest
  <2>2. m \in Own(e, net) /\ ~m.rsp /\ m.type = "release" /\ server = {}
    BY RequestOwn DEF WorkerCalls
  <2>3. worker' = worker /\ meta' = releaseLocalWritelock(meta, e)
    BY <1>4 DEF ProcessReleaseWritelockRequest
  <2>4. PICK req : /\ net' = (net \ {m}) \cup req
                   /\ \A n \in req : n.type \notin WorkerCalls
    BY <2>1, EdgeCalls, Zenon
  <2>5. /\ Callers(net') /\ Callers(server')
        /\ \A f \in Edges : Disciplined(f)'
        /\ \A f \in Edges : f # e => (Granted(f)' <=> Granted(f))
        /\ ~Granted(e)'
    BY <2>1, <2>2, <2>3, <2>4, TakeMoves, Zenon
  <2>6. Orderly
    BY <2>1, <2>5 DEF Orderly
  <2>7. ~meta'.writeflag /\ meta'.blocklist = {}
    BY <1>0, <2>3 DEF releaseLocalWritelock, MetaType
  <2>8. Granted(e)
    BY <2>2, CallerHolds
  <2> QED
    BY <2>5, <2>6, <2>7, <2>8, EdgeLoses
<1> QED
  BY <1>1, <1>2, <1>3, <1>4 DEF BeaconServer

\* The collection of acknowledgements, the invalidation processors and the
\* cloud leave the lock alone.
LEMMA CollectLocks ==
    ASSUME LockInv, IInv',
           \/ Collect \/ ProcessGlobalPutRequest
           \/ \E e \in Edges : ProcessInvalidationRequest(e)
    PROVE  LockInv' /\ LockStep
<1>a. ASSUME UNCHANGED <<worker, server, meta>>, Callers(net'),
             \A f \in Edges : Own(f, net') = Own(f, net)
      PROVE  LockInv' /\ LockStep
  <2>1. \A f \in Edges : Disciplined(f)' /\ (Granted(f)' <=> Granted(f))
    BY <1>a, OthersMove
  <2>2. Orderly
    BY <1>a, <2>1, Zenon DEF Orderly, LockInv
  <2> QED
    BY <1>a, <2>1, <2>2, GrantsStay
<1>b. ASSUME NEW m \in net, m.type \notin WorkerCalls
      PROVE  /\ \A f \in Edges : Own(f, net \ {m}) = Own(f, net)
             /\ Callers(net \ {m})
  BY <1>b, Zenon DEF Own, Callers, LockInv
<1>c. ASSUME NEW m \in net, m.type \notin WorkerCalls
      PROVE  /\ \A f \in Edges :
                  Own(f, (net \ {m}) \cup {Reply(m, "-")}) = Own(f, net)
             /\ Callers((net \ {m}) \cup {Reply(m, "-")})
  <2>1. m \in MessageType
    BY Zenon DEF LockInv, IInv, NetOK
  <2>2. Reply(m, "-").type = m.type
    BY <2>1, Zenon DEF Reply, MessageType, Messages
  <2> QED
    BY <1>c, <2>2, Zenon DEF Own, Callers, LockInv
<1>1. CASE \E k \in {"server", "worker"} : InvalidateOwnCopy(k)
  BY <1>a, <1>1 DEF InvalidateOwnCopy, LockInv
<1>2. CASE \E k \in {"server", "worker"} : ReceiveAck(k)
  <2>1. PICK m \in net : m.type \in {"inv", "fin"} /\ net' = net \ {m}
    BY <1>2, Zenon DEF ReceiveAck, Responses
  <2>2. UNCHANGED <<worker, server, meta>>
    BY <1>2, Zenon DEF ReceiveAck
  <2>3. m.type \notin WorkerCalls
    BY <2>1 DEF WorkerCalls
  <2> QED
    BY <1>a, <1>b, <2>1, <2>2, <2>3
<1>3. CASE ServerCollected
  <2>1. /\ Callers(net') /\ Callers(server')
        /\ \A f \in Edges : Disciplined(f)' /\ (Granted(f)' <=> Granted(f))
    BY <1>3, CollectedMoves
  <2>2. server' = {} /\ meta' = meta
    BY <1>3 DEF ServerCollected
  <2>3. Orderly
    BY <2>1, <2>2, Zenon DEF Orderly
  <2> QED
    BY <2>1, <2>2, <2>3, GrantsStay
<1>4. CASE WorkerCollected
  <2>0. worker[Beacon] \in WorkerType
    BY BeaconAssumption, Zenon DEF LockInv, IInv, TypeOK
  <2>1. /\ worker[Beacon].pc \in {"invalidate", "notify"}
        /\ UNCHANGED <<server, meta>>
        /\ Jump(Beacon, IF worker[Beacon].pc = "invalidate" THEN "put"
                        ELSE "decide", net)
    BY <1>4 DEF WorkerCollected, Collecting
  <2> DEFINE w == [worker[Beacon] EXCEPT !.pc =
                     IF worker[Beacon].pc = "invalidate" THEN "put" ELSE "decide"]
  <2>2. /\ Enter(Beacon, w, net) /\ w.lock = worker[Beacon].lock
        /\ w.pc = IF worker[Beacon].pc = "invalidate" THEN "put" ELSE "decide"
    BY <2>0, <2>1 DEF Jump, WorkerType
  <2>3. ~Remote(Beacon, worker[Beacon].pc)
    BY <2>1, Zenon DEF Remote
  <2> HIDE DEF w
  <2>4. Holds(w) <=> Holds(worker[Beacon])
    BY <2>1, <2>2 DEF Holds, Holding
  <2>5. w.pc # "release"
    BY <2>1, <2>2
  <2> QED
    BY <2>1, <2>2, <2>3, <2>4, <2>5, OwnMove, BeaconAssumption
<1>5. CASE ProcessGlobalPutRequest
  <2>1. PICK m \in net : /\ m.type = "put" /\ ~m.rsp
                         /\ net' = (net \ {m}) \cup {Reply(m, "-")}
    BY <1>5 DEF ProcessGlobalPutRequest
  <2>2. UNCHANGED <<worker, server, meta>>
    BY <1>5 DEF ProcessGlobalPutRequest
  <2>3. m.type \notin WorkerCalls
    BY <2>1 DEF WorkerCalls
  <2> QED
    BY <1>a, <1>c, <2>1, <2>2, <2>3
<1>6. CASE \E e \in Edges : ProcessInvalidationRequest(e)
  <2>1. PICK m \in net : /\ m.type = "inv"
                         /\ net' = (net \ {m}) \cup {Reply(m, "-")}
    BY <1>6 DEF ProcessInvalidationRequest
  <2>2. UNCHANGED <<worker, server, meta>>
    BY <1>6 DEF ProcessInvalidationRequest
  <2>3. m.type \notin WorkerCalls
    BY <2>1, Zenon DEF WorkerCalls
  <2> QED
    BY <1>a, <1>c, <2>1, <2>2, <2>3, Zenon
<1> QED
  BY <1>1, <1>2, <1>3, <1>4, <1>5, <1>6 DEF Collect

\* Initially nobody has called anybody and nobody holds the lock.
LEMMA InitLocks == Init => LockInv /\ Lock!Init
<1> SUFFICES ASSUME Init PROVE LockInv /\ Lock!Init
  OBVIOUS
<1>1. IInv
  BY InitIInv, Zenon
<1>2. net = {} /\ server = {} /\ ~meta.writeflag /\ meta.blocklist = {}
  BY Zenon DEF Init, InitMeta
<1>3. ASSUME NEW e \in Edges
      PROVE  worker[e].pc = "idle" /\ worker[e].lock = "none"
  BY Zenon DEF Init, IdleWorker
<1>4. ASSUME NEW e \in Edges
      PROVE  Disciplined(e) /\ ~Granted(e)
  BY <1>2, <1>3, Zenon DEF Disciplined, Own, Granted
<1>5. Holders = {}
  BY <1>4 DEF Holders
<1> QED
  BY <1>1, <1>2, <1>4, <1>5 DEF LockInv, Callers, FlagMeansHeld, Lock!Init

\* Every step keeps the lock's invariant and is a step of WriteLock.
LEMMA NextLocks == LockInv /\ [Next]_vars => LockInv' /\ LockStep
<1> SUFFICES ASSUME LockInv, [Next]_vars PROVE LockInv' /\ LockStep
  OBVIOUS
<1>0. IInv'
  BY NextIInv DEF LockInv
<1>1. CASE UNCHANGED vars
  <2>1. \A f \in Edges : Own(f, net') = Own(f, net)
    BY <1>1 DEF vars
  <2>2. Callers(net') /\ UNCHANGED <<worker, server, meta>>
    BY <1>1 DEF vars, LockInv
  <2>3. \A f \in Edges : Disciplined(f)' /\ (Granted(f)' <=> Granted(f))
    BY <2>1, <2>2, OthersMove
  <2>4. Orderly
    BY <1>0, <2>2, <2>3 DEF Orderly, LockInv
  <2> QED
    BY <2>2, <2>3, <2>4, GrantsStay
<1>2. CASE Next
  BY <1>0, <1>2, ReadLocks, AdmitLocks, WriteLocks, EvictLocks, ServerLocks,
     CollectLocks DEF Next
<1> QED
  BY <1>1, <1>2

\* The invariant holds in every reachable state.
LEMMA AlwaysLocks == Spec => []LockInv
BY InitLocks, NextLocks, PTL DEF Spec

\* The write flag is set exactly while an edge holds the lock, wherever the
\* grant is: in the beacon server, in a datagram or at the writer.
THEOREM FlagIsHeld == Spec => []FlagMeansHeld
<1>1. LockInv => FlagMeansHeld
  BY DEF LockInv
<1> QED
  BY <1>1, AlwaysLocks, PTL

\* The beacon's metadata, its server and the messages implement the abstract
\* lock: one edge holds it at a time, only edges that do not hold it wait, and
\* a release wakes them all.
THEOREM LockIsImplemented == Spec => ImplementsWriteLock
<1>1. LockStep => [Lock!Next]_<<Holders, meta.blocklist>>
  BY DEF LockStep
<1> QED
  BY <1>1, InitLocks, NextLocks, AlwaysLocks, PTL
     DEF Spec, ImplementsWriteLock, Lock!Spec
============================================================================
