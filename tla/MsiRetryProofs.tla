--------------------------- MODULE MsiRetryProofs ---------------------------
(***************************************************************************)
(* MsiTimeouts keeps what MsiProtocol promises, for every number of lost   *)
(* datagrams and of retries, as long as the answers of the calls that are  *)
(* not safe to repeat arrive: those that look up, acquire or release, and  *)
(* those of the edges that took a notice.                                  *)
(*                                                                         *)
(* Receivers keep no record of the requests they processed.  What saves    *)
(* the protocol is that a thread repeats its request only where neither    *)
(* the request nor its answer is under way, and that every message, other  *)
(* than a repeated write, belongs to the current call of its thread.       *)
(***************************************************************************)
EXTENDS MsiCopyProofs, MsiTimeouts

\* The losses and the early timeouts against which the protocol is safe.
Repeatable ==
    /\ Impatient \subseteq {"put"}
    /\ \A c \in {"lookup", "acquire", "release", "fin"} : <<c, TRUE>> \notin Lossy

\* A call to the beacon, or one of the beacon to an edge, is the current call of
\* its thread.
Current ==
    \A m \in net \cup server :
      m.type \in WorkerCalls \cup {"inv", "fin"} => m.seq = seq[m.th]

\* A report of an eviction is the current call of the evicting thread.
EvictsCurrent ==
    \A m \in EvictCalls(net) :
      m.seq = seq[m.th] /\ \E e \in Edges : m.th = E(e)

\* A write is the current call of its worker.
WritesCurrent == \A m \in PutCalls(net) : m.seq = seq[m.th]

----------------------------------------------------------------------------
(* The sequence numbers *)

\* Message m is n or its answer.
Same(n, m) == n.type = m.type /\ n.th = m.th /\ n.seq = m.seq

\* The messages ms are some of those under way, or their answers.
Derived(ms) == \A m \in ms : \E n \in net \cup server : Same(n, m)

\* Thread t has made the call at which it now waits.
Called(t) ==
    \/ \E e \in Edges :
         /\ t = W(e) /\ Remote(e, worker'[e].pc)
         /\ \E r \in net' : r.type = worker'[e].pc /\ r.th = t /\ r.seq = seq'[t]
    \/ \E k \in Collectors :
         /\ t = BeaconThread(k) /\ Collecting(k)'
         /\ \A d \in pending'[k] \ {Beacon} :
              \E r \in Rounds(net') : r.th = t /\ r.dst = d /\ r.seq = seq'[t]
    \/ \E e \in Edges :
         /\ t = E(e)
         /\ \E r \in net' : r.type = "evict" /\ r.th = t /\ r.seq = seq'[t]

\* The sequence numbers change by calls only, and so do the messages.
SeqsMove ==
    /\ \A t \in Threads : seq'[t] = seq[t] \/ Called(t)
    /\ \A m \in net' \cup server' :
         \/ \E n \in net \cup server : Same(n, m)
         \/ /\ m.seq = seq'[m.th]
            /\ m.type = "evict" => \E e \in Edges : m.th = E(e)

\* The requests of a call carry the thread's new sequence number.
LEMMA CallSeqs ==
    ASSUME LockInv, NEW t \in Threads, NEW type, NEW dsts, NEW ver, NEW ms,
           Call(t, type, dsts, ver, ms)
    PROVE  /\ \A u \in Threads : u # t => seq'[u] = seq[u]
           /\ \A m \in net' : \/ m \in ms
                              \/ m.type = type /\ m.th = t /\ m.seq = seq'[t]
           /\ \A d \in dsts : \E r \in net' : /\ r.type = type /\ r.th = t
                                              /\ r.dst = d /\ r.seq = seq'[t]
<1>0. seq \in [Threads -> Seqs]
  BY Zenon DEF LockInv, IInv, TypeOK
<1> DEFINE s == CHOOSE s \in Unused(t, ms) : TRUE
           r(d) == [type |-> type, rsp |-> FALSE, th |-> t, dst |-> d, seq |-> s,
                    copy |-> 0, arg |-> "-", ver |-> ver]
<1>1. seq' = [seq EXCEPT ![t] = s] /\ net' = ms \cup Requests(t, type, dsts, s, 0, ver)
  BY DEF Call
<1> HIDE DEF s
<1>2. seq'[t] = s /\ \A u \in Threads : u # t => seq'[u] = seq[u]
  BY <1>0, <1>1
<1>3. Requests(t, type, dsts, s, 0, ver) = {r(d) : d \in dsts}
  BY DEF Requests
<1>4. \A d : /\ r(d).type = type /\ r(d).th = t /\ r(d).dst = d /\ r(d).seq = s
  OBVIOUS
<1> HIDE DEF r
<1>5. /\ \A m \in net' : m \in ms \/ \E d \in dsts : m = r(d)
      /\ \A d \in dsts : r(d) \in net'
  BY <1>1, <1>3
<1> QED
  BY <1>2, <1>4, <1>5

\* A message is its own kind.
LEMMA DerivedStays ==
    ASSUME NEW ms, ms \subseteq net \cup server
    PROVE  Derived(ms)
BY DEF Derived, Same

\* An answer is of the kind of its request.
LEMMA ReplySame ==
    ASSUME LockInv, NEW m \in net \cup server, NEW arg
    PROVE  Same(m, Reply(m, arg))
<1>1. m \in MessageType
  BY Zenon DEF LockInv, IInv, TypeOK
<1> QED
  BY <1>1 DEF Same, Reply, MessageType, Messages

\* Messages of which one is replaced by its answer.
LEMMA DerivedAnswer ==
    ASSUME LockInv, NEW m \in net \cup server, NEW arg
    PROVE  /\ Derived((net \ {m}) \cup {Reply(m, arg)})
           /\ Derived(net \cup {Reply(m, arg)})
BY ReplySame DEF Derived, Same

\* A step that makes no call.
LEMMA StillSeqs ==
    ASSUME seq' = seq, Derived(net'), Derived(server')
    PROVE  SeqsMove
BY DEF SeqsMove, Derived

\* A worker moves.
LEMMA EnterSeqs ==
    ASSUME LockInv, NEW e \in Edges, NEW w, NEW ms, Enter(e, w, ms), Derived(ms),
           server' = server
    PROVE  SeqsMove
<1>0. worker'[e] = w /\ W(e) \in Threads /\ Derived(server')
  <2>1. worker \in [Edges -> WorkerType]
    BY Zenon DEF LockInv, IInv, TypeOK
  <2> QED
    BY <2>1, ThreadTypes, DerivedStays DEF Enter
<1>1. CASE ~Remote(e, w.pc)
  BY <1>0, <1>1, StillSeqs DEF Enter
<1>2. CASE Remote(e, w.pc)
  <2>1. PICK ver : Call(W(e), w.pc, {e}, ver, ms)
    BY <1>2 DEF Enter
  <2>2. /\ \A u \in Threads : u # W(e) => seq'[u] = seq[u]
        /\ \A m \in net' : \/ m \in ms
                           \/ m.type = w.pc /\ m.th = W(e) /\ m.seq = seq'[W(e)]
        /\ \E r \in net' : r.type = w.pc /\ r.th = W(e) /\ r.seq = seq'[W(e)]
    BY <1>0, <2>1, CallSeqs
  <2>3. Called(W(e))
    BY <1>0, <1>2, <2>2 DEF Called
  <2>4. w.pc # "evict"
    BY <1>2 DEF Remote
  <2> QED
    BY <1>0, <2>2, <2>3, <2>4 DEF SeqsMove, Derived
<1> QED
  BY <1>1, <1>2

\* A thread of the beacon calls the edges.
LEMMA RoundSeqs ==
    ASSUME LockInv, NEW k \in Collectors, NEW type \in {"inv", "fin"}, NEW dsts,
           NEW ms, CallEdges(k, type, dsts, ms), Derived(ms), Derived(server'),
           Collecting(k)'
    PROVE  SeqsMove
<1>0. pending'[k] = dsts /\ BeaconThread(k) \in Threads
  <2>1. pending \in [Collectors -> SUBSET Edges]
    BY Zenon DEF LockInv, IInv, TypeOK, Collectors
  <2> QED
    BY <2>1, BeaconAssumption DEF CallEdges, BeaconThread, Threads, Collectors
<1> DEFINE t == BeaconThread(k)
<1>1. Call(t, type, dsts \ {Beacon}, 0, ms)
  BY DEF CallEdges
<1> HIDE DEF t
<1>2. /\ \A u \in Threads : u # t => seq'[u] = seq[u]
      /\ \A m \in net' : m \in ms \/ (m.type = type /\ m.th = t /\ m.seq = seq'[t])
      /\ \A d \in dsts \ {Beacon} :
           \E r \in net' : r.type = type /\ r.th = t /\ r.dst = d /\ r.seq = seq'[t]
  BY <1>0, <1>1, CallSeqs DEF t
<1>3. Called(t)
  BY <1>0, <1>2 DEF Called, Rounds, t
<1> QED
  BY <1>2, <1>3 DEF SeqsMove, Derived

\* The steps of a worker.
LEMMA WorkerSeqs ==
    ASSUME LockInv, NEW e \in Edges, Client(e) \/ Read(e) \/ Admit(e) \/ Write(e)
    PROVE  SeqsMove
<1>0. worker \in [Edges -> WorkerType] /\ worker[e] \in WorkerType
  BY Zenon DEF LockInv, IInv, TypeOK
<1>a. ASSUME NEW w, NEW ms, Enter(e, w, ms), server' = server, ms \subseteq net
      PROVE  SeqsMove
  <2>1. Derived(ms)
    BY <1>a, DerivedStays
  <2> QED
    BY <1>a, <2>1, EnterSeqs, Zenon
<1>b. \A m : net \ {m} \subseteq net
  OBVIOUS
<1>c. server' = server
  BY Zenon DEF Client, Read, Admit, Write, Get, Put, LookupLocalDirectory,
     LookupBeaconDirectory, ProcessRedirectedGetRequest, RedirectGetToTarget,
     FetchDataFromCloud, TryToUpdateInvalidLocalEdgeCache, AfterRequest,
     AdmitLocalDirectory, AdmitBeaconDirectory, AdmitLocalEdgeCache,
     AcquireLocalWritelock, AcquireBeaconWritelock, BlockForWritesByInterruption,
     WriteDataToCloud, UpdateLocalEdgeCache, FinishWrite, ReleaseLocalWritelock,
     ReleaseBeaconWritelock
<1>d. Derived(net) /\ Derived(server')
  BY <1>c, DerivedStays
<1>1. CASE Client(e) \/ Read(e)
  BY <1>0, <1>1, <1>a, <1>c, ReadEnters, Zenon
<1>2. CASE Admit(e)
  <2>1. CASE AfterRequest(e)
    BY <1>a, <1>c, <2>1, Zenon DEF AfterRequest, Jump
  <2>2. CASE AdmitLocalDirectory(e)
    BY <1>a, <1>c, <2>2, Zenon DEF AdmitLocalDirectory, Jump
  <2>3. CASE AdmitBeaconDirectory(e)
    BY <1>a, <1>b, <1>c, <2>3, Zenon DEF AdmitBeaconDirectory, Jump
  <2>4. CASE AdmitLocalEdgeCache(e)
    BY <1>a, <1>c, <2>4, Zenon DEF AdmitLocalEdgeCache
  <2> QED
    BY <1>2, <2>1, <2>2, <2>3, <2>4, Zenon DEF Admit
<1>3. CASE AcquireLocalWritelock(e)
  <2>1. CASE Enter(e, [worker[e] EXCEPT !.pc = "put", !.lock = "noneed"], net)
    BY <1>a, <1>c, <2>1, Zenon
  <2>2. CASE /\ worker' = [worker EXCEPT ![e].pc = "invalidate", ![e].lock = "success"]
             /\ CallEdges("worker", "inv", dirinfos(meta), net)
    <3>1. worker'[e].pc = "invalidate" /\ e = Beacon
      BY <1>0, <1>3, <2>2 DEF WorkerType, AcquireLocalWritelock
    <3>2. Collecting("worker")' /\ "worker" \in Collectors
      BY <3>1 DEF Collecting, Collectors
    <3> QED
      BY <1>d, <2>2, <3>2, RoundSeqs
  <2> QED
    BY <1>3, <2>1, <2>2 DEF AcquireLocalWritelock
<1>4. CASE ReleaseLocalWritelock(e)
  <2>1. /\ worker' = [worker EXCEPT ![e].pc = "notify"] /\ e = Beacon
        /\ CallEdges("worker", "fin", meta.blocklist, net)
    BY <1>4, Zenon DEF ReleaseLocalWritelock
  <2>2. worker'[e].pc = "notify"
    BY <1>0, <2>1 DEF WorkerType
  <2>3. Collecting("worker")' /\ "worker" \in Collectors
    BY <2>1, <2>2 DEF Collecting, Collectors
  <2> QED
    BY <1>d, <2>1, <2>3, RoundSeqs
<1>5. CASE AcquireBeaconWritelock(e)
  BY <1>a, <1>b, <1>c, <1>5, Zenon DEF AcquireBeaconWritelock, Jump
<1>6. CASE BlockForWritesByInterruption(e)
  <2>1. PICK m \in net, l \in {"lookup", "acquire"} :
          Jump(e, l, (net \ {m}) \cup {Reply(m, "-")})
    BY <1>6, Zenon DEF BlockForWritesByInterruption
  <2>2. Derived((net \ {m}) \cup {Reply(m, "-")})
    BY DerivedAnswer, Zenon
  <2> QED
    BY <1>c, <2>1, <2>2, EnterSeqs DEF Jump
<1>7. CASE WriteDataToCloud(e) \/ ReleaseBeaconWritelock(e)
  BY <1>a, <1>b, <1>c, <1>7, Zenon DEF WriteDataToCloud, ReleaseBeaconWritelock, Jump
<1>8. CASE UpdateLocalEdgeCache(e)
  BY <1>a, <1>c, <1>8, Zenon DEF UpdateLocalEdgeCache, Jump
<1>9. CASE FinishWrite(e)
  BY <1>a, <1>c, <1>9, Zenon DEF FinishWrite, Jump
<1> QED
  BY <1>1, <1>2, <1>3, <1>4, <1>5, <1>6, <1>7, <1>8, <1>9, Zenon DEF Write

\* The steps of the evicting threads.
LEMMA EvictSeqs ==
    ASSUME LockInv, NEW e \in Edges, Evict(e)
    PROVE  SeqsMove
<1>1. server' = server
  BY Zenon DEF Evict, EvictLocalEdgeCache, EvictLocalDirectory, EvictBeaconDirectory
<1>2. Derived(server') /\ Derived(net) /\ E(e) \in Threads
  BY <1>1, DerivedStays, ThreadTypes
<1>3. CASE net' = net /\ seq' = seq
  BY <1>2, <1>3, StillSeqs, Zenon
<1>4. CASE Call(E(e), "evict", {e}, 0, net)
  <2>1. /\ \A u \in Threads : u # E(e) => seq'[u] = seq[u]
        /\ \A m \in net' : \/ m \in net
                           \/ m.type = "evict" /\ m.th = E(e) /\ m.seq = seq'[E(e)]
        /\ \E r \in net' : r.type = "evict" /\ r.th = E(e) /\ r.seq = seq'[E(e)]
    BY <1>2, <1>4, CallSeqs
  <2>2. Called(E(e))
    BY <2>1 DEF Called
  <2> QED
    BY <1>2, <2>1, <2>2, Zenon DEF SeqsMove, Derived
<1>5. CASE EvictBeaconDirectory(e)
  <2>1. PICK m : net' = net \ {m} /\ seq' = seq
    BY <1>5, Zenon DEF EvictBeaconDirectory
  <2>2. Derived(net')
    BY <2>1, DerivedStays
  <2> QED
    BY <1>2, <2>1, <2>2, StillSeqs
<1> QED
  BY <1>3, <1>4, <1>5, Zenon DEF Evict, EvictLocalEdgeCache, EvictLocalDirectory

\* The steps of the beacon server.
LEMMA ServerSeqs ==
    ASSUME LockInv, NEW e \in Edges, BeaconServer(e)
    PROVE  SeqsMove
<1>0. \A types : BeaconRequests(e, types) \subseteq net
  BY DEF BeaconRequests
<1>a. ASSUME NEW m \in net, NEW arg, net' = (net \ {m}) \cup {Reply(m, arg)},
             seq' = seq, server' = server
      PROVE  SeqsMove
  BY <1>a, DerivedAnswer, DerivedStays, StillSeqs, Zenon
<1>b. ASSUME NEW m \in net, NEW type \in {"inv", "fin"}, NEW dsts,
             CallEdges("server", type, dsts, net \ {m}), server' = {m}
      PROVE  SeqsMove
  <2>1. Derived(net \ {m}) /\ Derived(server')
    BY <1>b, DerivedStays
  <2>2. Collecting("server")' /\ "server" \in Collectors
    BY <1>b DEF Collecting, Collectors
  <2> QED
    BY <1>b, <2>1, <2>2, RoundSeqs
<1>1. CASE ProcessDirectoryLookupRequest(e)
  BY <1>0, <1>1, <1>a, Zenon DEF ProcessDirectoryLookupRequest
<1>2. CASE ProcessDirectoryUpdateRequest(e)
  BY <1>0, <1>2, <1>a, Zenon DEF ProcessDirectoryUpdateRequest
<1>3. CASE ProcessAcquireWritelockRequest(e)
  BY <1>0, <1>3, <1>a, <1>b, Zenon DEF ProcessAcquireWritelockRequest
<1>4. CASE ProcessReleaseWritelockRequest(e)
  BY <1>0, <1>4, <1>b, Zenon DEF ProcessReleaseWritelockRequest
<1> QED
  BY <1>1, <1>2, <1>3, <1>4 DEF BeaconServer

\* The steps by which acknowledgements are collected.
LEMMA CollectSeqs ==
    ASSUME LockInv, Collect
    PROVE  SeqsMove
<1>1. ASSUME NEW k, InvalidateOwnCopy(k) \/ ReceiveAck(k)
      PROVE  SeqsMove
  <2>1. net' \subseteq net /\ seq' = seq /\ server' = server
    BY <1>1, Zenon DEF InvalidateOwnCopy, ReceiveAck
  <2>2. Derived(net') /\ Derived(server')
    BY <2>1, DerivedStays
  <2> QED
    BY <2>1, <2>2, StillSeqs
<1>2. CASE ServerCollected
  <2>1. PICK m \in server, arg \in {"success", "-"} : net' = net \cup {Reply(m, arg)}
    BY <1>2, Zenon DEF ServerCollected
  <2>2. seq' = seq /\ server' = {}
    BY <1>2 DEF ServerCollected
  <2>3. Derived(net') /\ Derived(server')
    BY <2>1, <2>2, DerivedAnswer, Zenon DEF Derived
  <2> QED
    BY <2>2, <2>3, StillSeqs, Zenon
<1>3. CASE WorkerCollected
  <2>1. PICK l : Jump(Beacon, l, net)
    BY <1>3, Zenon DEF WorkerCollected
  <2>2. Derived(net) /\ server' = server
    BY <1>3, DerivedStays DEF WorkerCollected
  <2> QED
    BY <2>1, <2>2, EnterSeqs, BeaconAssumption DEF Jump
<1> QED
  BY <1>1, <1>2, <1>3 DEF Collect

\* Every step of the protocol moves the sequence numbers by calls.
LEMMA NextSeqs ==
    ASSUME LockInv, [Next]_vars
    PROVE  SeqsMove
<1>a. ASSUME NEW m \in net, net' = (net \ {m}) \cup {Reply(m, "-")},
             seq' = seq, server' = server
      PROVE  SeqsMove
  BY <1>a, DerivedAnswer, DerivedStays, StillSeqs, Zenon
<1>1. ASSUME NEW e \in Edges, ProcessInvalidationRequest(e)
      PROVE  SeqsMove
  BY <1>1, <1>a, Zenon DEF ProcessInvalidationRequest
<1>2. CASE ProcessGlobalPutRequest
  BY <1>2, <1>a, Zenon DEF ProcessGlobalPutRequest
<1>3. CASE UNCHANGED vars
  <2>1. net' = net /\ seq' = seq /\ server' = server
    BY <1>3 DEF vars
  <2> QED
    BY <2>1, DerivedStays, StillSeqs, Zenon
<1> QED
  BY <1>1, <1>2, <1>3, WorkerSeqs, EvictSeqs, ServerSeqs, CollectSeqs, Zenon DEF Next

----------------------------------------------------------------------------
(* Messages stay current *)

\* The threads of an edge are told apart.
LEMMA ThreadsApart ==
    ASSUME NEW e, NEW f, NEW k \in Collectors
    PROVE  /\ E(e) # W(f) /\ E(e) # BeaconThread(k)
           /\ BeaconThread(k) = W(e) => k = "worker" /\ e = Beacon
           /\ W(e)[2] = e /\ E(e)[2] = e
           /\ E(e) = E(f) => e = f
           /\ \A j \in Collectors : BeaconThread(k) = BeaconThread(j) => k = j
BY DEF W, E, BeaconThread, Collectors

\* A worker's call to the beacon is the one it made last.
LEMMA CallLatest ==
    ASSUME WakeInv', NEW m \in net' \cup server', m.type \in WorkerCalls, Called(m.th)
    PROVE  m.seq = seq'[m.th]
<1>0. NetOK(net') /\ NetOK(server') /\ Callers(net') /\ Callers(server')
  BY DEF WakeInv, LockInv, IInv
<1>1. PICK e \in Edges : m.th = W(e)
  BY <1>0 DEF Callers
<1>2. e # Beacon
  BY <1>0, <1>1, ThreadTypes, Zenon DEF NetOK, WorkerCalls
<1>3. /\ \A k \in Collectors : m.th # BeaconThread(k)
      /\ \A f \in Edges : m.th # E(f)
      /\ \A f \in Edges : m.th = W(f) => f = e
  BY <1>1, <1>2, ThreadsApart, OwnApart, SMTT(30) DEF Collectors
<1>4. PICK r \in net' : r.type = worker'[e].pc /\ r.th = m.th /\ r.seq = seq'[m.th]
  BY <1>3 DEF Called
<1>5. /\ \A n \in Own(e, net') \cup Own(e, server') : n.type = worker'[e].pc
      /\ \A n, o \in Own(e, net') : n = o
      /\ Own(e, net') = {} \/ Own(e, server') = {}
  BY DEF WakeInv, LockInv, Disciplined
<1>6. m \in Own(e, net') \cup Own(e, server')
  BY <1>1 DEF Own
<1>7. r \in Own(e, net')
  BY <1>1, <1>4, <1>5, <1>6, Zenon DEF Own
<1> QED
  BY <1>4, <1>5, <1>6, <1>7, Zenon

\* So is a call of the beacon to the edges.
LEMMA RoundLatest ==
    ASSUME WakeInv', NEW m \in net' \cup server', m.type \in {"inv", "fin"},
           Called(m.th)
    PROVE  m.seq = seq'[m.th]
<1>1. m \in Rounds(net')
  BY DEF WakeInv, LockInv, IInv, Rounds
<1>2. PICK k \in Collectors : m.th = BeaconThread(k)
  BY <1>1 DEF WakeInv, FromBeacon
<1>3. m \in Acks(k, net')
  BY <1>1, <1>2, Zenon DEF Acks
<1>4. /\ Collecting(k)' /\ m.dst \in pending'[k] /\ m.dst # Beacon
      /\ \A n \in Acks(k, net') : n.dst = m.dst => n = m
  BY <1>3, Zenon DEF WakeInv, Collected
<1>5. /\ \A f \in Edges : m.th # E(f)
      /\ \A f \in Edges : m.th = W(f) => k = "worker" /\ f = Beacon
      /\ \A j \in Collectors : m.th = BeaconThread(j) => j = k
  BY <1>2, ThreadsApart, Zenon
<1>6. k = "worker" => ~Remote(Beacon, worker'[Beacon].pc)
  BY <1>4, Zenon DEF Collecting, Remote
<1>7. PICK r \in Rounds(net') : r.th = m.th /\ r.dst = m.dst /\ r.seq = seq'[m.th]
  BY <1>4, <1>5, <1>6, Zenon DEF Called
<1>8. r \in Acks(k, net')
  BY <1>2, <1>7, Zenon DEF Acks
<1> QED
  BY <1>4, <1>7, <1>8, Zenon

\* Every message in flight or at the server has a thread.
LEMMA MessageThreads ==
    ASSUME LockInv', NEW m \in net' \cup server'
    PROVE  m.th \in Threads
BY DEF LockInv, IInv, NetOK, MessageType, Messages

\* Messages of the calls to the beacon and to the edges stay current.
LEMMA StaysCurrent ==
    ASSUME WakeInv', Current, SeqsMove
    PROVE  Current'
<1> SUFFICES ASSUME NEW m \in net' \cup server',
                    m.type \in WorkerCalls \cup {"inv", "fin"}
             PROVE  m.seq = seq'[m.th]
  BY DEF Current
<1>1. CASE \E n \in net \cup server : Same(n, m)
  <2>1. m.seq = seq[m.th]
    BY <1>1 DEF Same, Current
  <2>2. m.th \in Threads
    BY MessageThreads DEF WakeInv
  <2> QED
    BY <2>1, <2>2, CallLatest, RoundLatest, Zenon DEF SeqsMove
<1> QED
  BY <1>1 DEF SeqsMove

\* Reports of evictions stay current.
LEMMA EvictsStayCurrent ==
    ASSUME LockInv, CopyInv', EvictsCurrent, SeqsMove
    PROVE  EvictsCurrent'
<1> SUFFICES ASSUME NEW m \in EvictCalls(net')
             PROVE  m.seq = seq'[m.th] /\ \E e \in Edges : m.th = E(e)
  BY DEF EvictsCurrent
<1>0. m \in net' /\ m.type = "evict"
  BY DEF EvictCalls
<1>1. CASE \E n \in net \cup server : Same(n, m)
  <2>1. PICK n \in net \cup server : Same(n, m)
    BY <1>1
  <2>2. n \in EvictCalls(net)
    BY <1>0, <2>1 DEF Same, EvictCalls, LockInv, IInv
  <2>3. PICK e \in Edges : m.th = E(e) /\ m.seq = seq[m.th]
    BY <2>1, <2>2, Zenon DEF EvictsCurrent, Same
  <2>4. CASE Called(m.th)
    <3>1. /\ \A k \in Collectors : m.th # BeaconThread(k)
          /\ \A f \in Edges : m.th # W(f)
      BY <2>3, ThreadsApart, Zenon DEF Collectors
    <3>2. PICK r \in net' : r.type = "evict" /\ r.th = m.th /\ r.seq = seq'[m.th]
      BY <2>4, <3>1 DEF Called
    <3>3. m.th[2] = e /\ r.th[2] = e /\ r \in EvictCalls(net')
      BY <2>3, <3>2, ThreadTypes, Zenon DEF EvictCalls
    <3>4. Recorded(e)'
      BY DEF CopyInv
    <3>5. m = r
      BY <3>3, <3>4 DEF Recorded
    <3> QED
      BY <2>3, <3>2, <3>5, Zenon
  <2>5. m.th \in Threads
    BY <2>3, ThreadTypes
  <2> QED
    BY <2>3, <2>4, <2>5, Zenon DEF SeqsMove
<1> QED
  BY <1>0, <1>1 DEF SeqsMove

\* Writes stay current.
LEMMA WritesStayCurrent ==
    ASSUME LockInv, PutInv', WritesCurrent, SeqsMove
    PROVE  WritesCurrent'
<1> SUFFICES ASSUME NEW m \in PutCalls(net')
             PROVE  m.seq = seq'[m.th]
  BY DEF WritesCurrent
<1>0. m \in net' /\ m.type = "put"
  BY DEF PutCalls
<1>1. CASE \E n \in net \cup server : Same(n, m)
  <2>1. PICK n \in net \cup server : Same(n, m)
    BY <1>1
  <2>2. n \in PutCalls(net)
    BY <1>0, <2>1 DEF Same, PutCalls, LockInv, IInv
  <2>3. m.seq = seq[m.th]
    BY <2>1, <2>2 DEF WritesCurrent, Same
  <2>4. PICK e \in Edges : m.th = W(e) /\ worker'[e].pc = "put"
    BY DEF PutInv, PutsCurrent
  <2>5. CASE Called(m.th)
    <3>1. /\ \A f \in Edges : m.th # E(f)
          /\ \A f \in Edges : m.th = W(f) => f = e
          /\ \A k \in Collectors : m.th = BeaconThread(k) => ~Collecting(k)'
      BY <2>4, ThreadsApart, OwnApart, Zenon DEF Collectors, Collecting
    <3>2. PICK r \in net' : r.type = "put" /\ r.th = m.th /\ r.seq = seq'[m.th]
      BY <2>4, <2>5, <3>1, Zenon DEF Called
    <3>3. m = r
      BY <3>2 DEF PutInv, PutsCurrent, PutCalls
    <3> QED
      BY <3>2, <3>3, Zenon
  <2>6. m.th \in Threads
    BY <2>4, ThreadTypes, Zenon
  <2> QED
    BY <2>3, <2>5, <2>6, Zenon DEF SeqsMove
<1> QED
  BY <1>0, <1>1 DEF SeqsMove

----------------------------------------------------------------------------
(* Losses and repetitions: only the mail changes *)

MailOnly == UNCHANGED <<cloud, nver, cache, meta, worker, evictor, server, pending,
                        seq, fresh, fault>>

\* Mail that leaves the grants, what is due and the waiting edges.
LEMMA MailMoves ==
    ASSUME WakeInv, MailOnly, NetOK(net'), Callers(net'),
           \A f \in Edges : Disciplined(f)', \A f \in Edges : Granted(f)' <=> Granted(f),
           FromBeacon(net'), \A k \in Collectors : Collected(k)',
           \A e \in Edges : \A k \in Collectors : Due(k, e)' <=> Due(k, e),
           \A e \in Edges : Waiting(e)' <=> Waiting(e)
    PROVE  WakeInv' /\ LockStep /\ Steady
<1>0. /\ UNCHANGED <<cloud, nver, cache, meta, worker, evictor>>
      /\ UNCHANGED <<server, pending, seq, fresh, fault>>
  BY DEF MailOnly
<1>1. TypeOK'
  BY <1>0, Zenon DEF WakeInv, LockInv, IInv, TypeOK, NetOK
<1>2. /\ BeaconConsistent' /\ NetOK(server')
      /\ \A m \in server' : m.type \in {"acquire", "release"}
  BY <1>0, Zenon DEF WakeInv, LockInv, IInv, BeaconConsistent
<1>3. IInv'
  BY <1>1, <1>2, Zenon DEF IInv
<1>4. Callers(server') /\ \A m, n \in server' : m = n
  BY <1>0, Zenon DEF WakeInv, LockInv
<1>5. Orderly
  BY <1>3, <1>4, Zenon DEF Orderly
<1>6. LockInv' /\ LockStep
  BY <1>0, <1>5, GrantsStay, Zenon DEF WakeInv
<1> QED
  BY <1>0, <1>6, DuesStay, Zenon DEF Steady

\* A message is gone that is no answer the protocol depends on.
LEMMA MailLost ==
    ASSUME WakeInv, MailOnly, NEW m \in net, net' = net \ {m},
           m.rsp => m.type \notin {"lookup", "acquire", "release", "fin"}
    PROVE  WakeInv' /\ LockStep /\ Steady
<1>0. worker' = worker /\ server' = server /\ meta' = meta /\ pending' = pending
  BY Zenon DEF MailOnly
<1>1. NetOK(net') /\ Callers(net') /\ FromBeacon(net')
  BY DEF WakeInv, LockInv, IInv, NetOK, Callers, FromBeacon, Rounds
<1>2. ASSUME NEW f \in Edges
      PROVE  Disciplined(f)'
  <2>1. Own(f, net') \subseteq Own(f, net) /\ Disciplined(f)
    BY DEF Own, WakeInv, LockInv
  <2> QED
    BY <1>0, <2>1, Zenon DEF Disciplined
<1>3. ASSUME NEW f \in Edges
      PROVE  Granted(f)' <=> Granted(f)
  BY <1>0 DEF Granted
<1>4. ASSUME NEW f \in Edges
      PROVE  Waiting(f)' <=> Waiting(f)
  BY <1>0 DEF Waiting, Own
<1>5. ASSUME NEW k \in Collectors
      PROVE  /\ Collecting(k)' <=> Collecting(k)
             /\ CollectedCall(k)' = CollectedCall(k)
  BY <1>0, Zenon DEF Collecting, CollectedCall
<1>6. ASSUME NEW k \in Collectors
      PROVE  Collected(k)'
  <2>1. Acks(k, net') \subseteq Acks(k, net) /\ Collected(k)
    BY DEF Acks, Rounds, WakeInv
  <2> QED
    BY <1>0, <1>5, <2>1, Zenon DEF Collected
<1>7. ASSUME NEW e \in Edges, NEW k \in Collectors
      PROVE  Due(k, e)' <=> Due(k, e)
  BY <1>0, <1>5, Zenon DEF Due
<1> QED
  BY <1>1, <1>2, <1>3, <1>4, <1>6, <1>7, MailMoves, Zenon

\* Requests are sent again.
LEMMA MailRepeated ==
    ASSUME WakeInv, MailOnly, NEW req, net' = net \cup req, \A m \in req : ~m.rsp,
           NetOK(req), Callers(req), FromBeacon(req),
           \A f \in Edges : Disciplined(f)', \A k \in Collectors : Collected(k)'
    PROVE  WakeInv' /\ LockStep /\ Steady
<1>0. worker' = worker /\ server' = server /\ meta' = meta /\ pending' = pending
  BY Zenon DEF MailOnly
<1>1. NetOK(net') /\ Callers(net') /\ FromBeacon(net')
  BY Zenon DEF WakeInv, LockInv, IInv, NetOK, Callers, FromBeacon, Rounds
<1>2. ASSUME NEW f \in Edges
      PROVE  Granted(f)' <=> Granted(f)
  BY <1>0, Zenon DEF Granted
<1>3. ASSUME NEW f \in Edges
      PROVE  Waiting(f)' <=> Waiting(f)
  BY <1>0 DEF Waiting, Own
<1>4. ASSUME NEW k \in Collectors
      PROVE  /\ Collecting(k)' <=> Collecting(k)
             /\ CollectedCall(k)' = CollectedCall(k)
  BY <1>0, Zenon DEF Collecting, CollectedCall
<1>5. ASSUME NEW e \in Edges, NEW k \in Collectors
      PROVE  Due(k, e)' <=> Due(k, e)
  BY <1>0, <1>4 DEF Due
<1> QED
  BY <1>1, <1>2, <1>3, <1>5, MailMoves, Zenon

\* The request of t's current call, once for each of dsts.
Again(t, type, dsts, ver, req) ==
    /\ \A m \in req : /\ m.type = type /\ ~m.rsp /\ m.th = t /\ m.dst \in dsts
                      /\ m.seq = seq[t] /\ m.ver = ver
    /\ \A m, n \in req : m.dst = n.dst => m = n

\* What a timeout sends.
LEMMA ResendSends ==
    ASSUME LockInv, early \in Nat, NEW t \in Threads, NEW type \in Calls,
           NEW dsts \in SUBSET Edges, NEW ver \in Versions,
           type \in WorkerCalls => t[2] # Beacon, Resend(t, type, dsts, ver)
    PROVE  /\ MailOnly /\ early' \in Nat
           /\ UnderWay(t) => type \in Impatient
           /\ \E req : net' = net \cup req /\ NetOK(req) /\ Again(t, type, dsts, ver, req)
<1>1. early' \in Nat
  BY DEF Resend
<1>2. seq \in [Threads -> Seqs]
  BY Zenon DEF LockInv, IInv, TypeOK
<1> DEFINE s == seq[t]
           c == early'
           r(d) == [type |-> type, rsp |-> FALSE, th |-> t, dst |-> d, seq |-> s,
                    copy |-> c, arg |-> "-", ver |-> ver]
           req == Requests(t, type, dsts, s, c, ver)
<1>3. s \in Seqs /\ c \in Nat
  BY <1>1, <1>2, Zenon
<1>4. net' = net \cup req
  BY DEF Resend
<1> HIDE DEF s, c
<1>5. NetOK(req)
  BY <1>3, RequestsOK, Zenon DEF WorkerCalls
<1>6. req = {r(d) : d \in dsts}
  BY DEF Requests
<1>7. \A d : /\ r(d).type = type /\ ~r(d).rsp /\ r(d).th = t /\ r(d).dst = d
             /\ r(d).seq = s /\ r(d).ver = ver
  OBVIOUS
<1> HIDE DEF r, req
<1>8. Again(t, type, dsts, ver, req)
  BY <1>6, <1>7, SMTT(30) DEF Again, s
<1>9. MailOnly /\ (UnderWay(t) => type \in Impatient)
  BY DEF Resend, MailOnly
<1> QED
  BY <1>1, <1>4, <1>5, <1>8, <1>9, ZenonT(30) DEF c

\* Requests that are no calls to the beacon and none of the beacon.
LEMMA PlainRepeated ==
    ASSUME WakeInv, MailOnly, NEW req, net' = net \cup req, NetOK(req),
           \A m \in req : ~m.rsp /\ m.type \in {"put", "evict"}
    PROVE  WakeInv' /\ LockStep /\ Steady
<1>0. worker' = worker /\ server' = server /\ pending' = pending
  BY DEF MailOnly
<1>1. Callers(req) /\ FromBeacon(req)
  BY DEF Callers, FromBeacon, Rounds, WorkerCalls
<1>2. ASSUME NEW f \in Edges
      PROVE  Disciplined(f)'
  <2>1. Own(f, net') = Own(f, net) /\ Disciplined(f)
    BY DEF Own, WorkerCalls, WakeInv, LockInv
  <2> QED
    BY <1>0, <2>1, Zenon DEF Disciplined
<1>3. ASSUME NEW k \in Collectors
      PROVE  Collected(k)'
  <2>1. Acks(k, net') = Acks(k, net) /\ Collected(k)
    BY DEF Acks, Rounds, WakeInv
  <2>2. /\ Collecting(k)' <=> Collecting(k)
        /\ CollectedCall(k)' = CollectedCall(k)
    BY <1>0, Zenon DEF Collecting, CollectedCall
  <2> QED
    BY <1>0, <2>1, <2>2 DEF Collected
<1> QED
  BY <1>1, <1>2, <1>3, MailRepeated, Zenon

----------------------------------------------------------------------------
(* The steps of MsiTimeouts *)

\* What every behaviour keeps; the lock and the wake-ups are in WakeInv.
RetryInv == WakeInv /\ Current /\ early \in Nat

\* A worker sends its request again.
LEMMA WorkerRepeats ==
    ASSUME Repeatable, RetryInv, NEW e \in Edges, TimeoutWorker(e)
    PROVE  \E req :
             /\ MailOnly /\ early' \in Nat /\ net' = net \cup req /\ NetOK(req)
             /\ UnderWay(W(e)) => worker[e].pc \in Impatient
             /\ Again(W(e), worker[e].pc, {e},
                      IF worker[e].pc = "put" THEN worker[e].val ELSE 0, req)
             /\ Remote(e, worker[e].pc)
<1> DEFINE pc == worker[e].pc
           ver == IF worker[e].pc = "put" THEN worker[e].val ELSE 0
<1>1. Remote(e, pc) /\ Resend(W(e), pc, {e}, ver)
  BY DEF TimeoutWorker
<1>2. worker[e] \in WorkerType
  BY Zenon DEF RetryInv, WakeInv, LockInv, IInv, TypeOK
<1>3. ver \in Versions
  BY <1>2, VersionAssumption, SMTT(30) DEF WorkerType, Versions
<1>4. pc \in Calls /\ (pc \in WorkerCalls => W(e)[2] # Beacon) /\ W(e) \in Threads
  BY <1>1, ThreadTypes, Zenon DEF Remote, Calls, WorkerCalls
<1> HIDE DEF pc, ver
<1>5. /\ MailOnly /\ early' \in Nat /\ (UnderWay(W(e)) => pc \in Impatient)
      /\ \E req : net' = net \cup req /\ NetOK(req) /\ Again(W(e), pc, {e}, ver, req)
  BY <1>1, <1>3, <1>4, ResendSends, Zenon DEF RetryInv, WakeInv
<1> QED
  BY <1>1, <1>5, Zenon DEF pc, ver

\* A worker has its call under way at most once, again.
LEMMA WorkerTimesOut ==
    ASSUME Repeatable, RetryInv, NEW e \in Edges, TimeoutWorker(e)
    PROVE  WakeInv' /\ LockStep /\ Steady
<1>1. PICK req :
        /\ MailOnly /\ early' \in Nat /\ net' = net \cup req /\ NetOK(req)
        /\ UnderWay(W(e)) => worker[e].pc \in Impatient
        /\ Again(W(e), worker[e].pc, {e},
                 IF worker[e].pc = "put" THEN worker[e].val ELSE 0, req)
        /\ Remote(e, worker[e].pc)
  BY WorkerRepeats, Zenon
<1>2. \A m \in req : m.type = worker[e].pc /\ ~m.rsp /\ m.th = W(e)
  BY <1>1, Zenon DEF Again
<1>3. \A m, n \in req : m = n
  BY <1>1, Zenon DEF Again
<1>4. WakeInv /\ LockInv
  BY DEF RetryInv, WakeInv
<1>5. CASE worker[e].pc = "put"
  BY <1>1, <1>2, <1>4, <1>5, PlainRepeated, Zenon
<1>6. CASE worker[e].pc # "put"
  <2>1. worker[e].pc \in WorkerCalls
    BY <1>1, <1>6, Zenon DEF Remote, WorkerCalls
  <2>2. ~UnderWay(W(e))
    BY <1>1, <1>6, Zenon DEF Repeatable
  <2>3. Own(e, net) = {} /\ Own(e, server) = {}
    BY <2>2 DEF Own, RetryInv, Current, UnderWay
  <2>4. worker' = worker /\ server' = server /\ pending' = pending
    BY <1>1 DEF MailOnly
  <2>5. Callers(req) /\ FromBeacon(req)
    BY <1>2, <2>1, Zenon DEF Callers, FromBeacon, Rounds, WorkerCalls
  <2>6. ASSUME NEW f \in Edges
        PROVE  Disciplined(f)'
    <3>1. Disciplined(f)
      BY <1>4, Zenon DEF LockInv
    <3>2. CASE f = e
      <4>1. Own(e, net') = req
        BY <1>1, <1>2, <2>1, <2>3, Zenon DEF Own
      <4> QED
        BY <1>1, <1>2, <1>3, <2>3, <2>4, <3>1, <3>2, <4>1, ZenonT(30) DEF Disciplined
    <3>3. CASE f # e
      <4>1. Own(f, net') = Own(f, net)
        BY <1>1, <1>2, <3>3, OwnApart, Zenon DEF Own
      <4> QED
        BY <2>4, <3>1, <4>1, Zenon DEF Disciplined
    <3> QED
      BY <3>2, <3>3, Zenon
  <2>7. ASSUME NEW k \in Collectors
        PROVE  Collected(k)'
    <3>1. Acks(k, net') = Acks(k, net) /\ Collected(k)
      BY <1>1, <1>2, <1>4, <2>1, ZenonT(30) DEF Acks, Rounds, WakeInv, WorkerCalls
    <3>2. /\ Collecting(k)' <=> Collecting(k)
          /\ CollectedCall(k)' = CollectedCall(k)
      BY <2>4, Zenon DEF Collecting, CollectedCall
    <3> QED
      BY <2>4, <3>1, <3>2, Zenon DEF Collected
  <2> QED
    BY <1>1, <1>2, <1>4, <2>5, <2>6, <2>7, MailRepeated, Zenon
<1> QED
  BY <1>5, <1>6

\* An evicting thread sends its report again.
LEMMA EvictorRepeats ==
    ASSUME RetryInv, NEW e \in Edges, TimeoutEvictor(e)
    PROVE  \E req :
             /\ MailOnly /\ early' \in Nat /\ net' = net \cup req /\ NetOK(req)
             /\ UnderWay(E(e)) => "evict" \in Impatient
             /\ Again(E(e), "evict", {e}, 0, req)
             /\ evictor[e] = "evict" /\ e # Beacon
<1>1. Resend(E(e), "evict", {e}, 0) /\ evictor[e] = "evict" /\ e # Beacon
  BY DEF TimeoutEvictor
<1>2. /\ "evict" \in Calls /\ "evict" \notin WorkerCalls
      /\ E(e) \in Threads /\ 0 \in Versions
  BY ThreadTypes, VersionAssumption DEF Calls, WorkerCalls, Versions
<1> QED
  BY <1>1, <1>2, ResendSends, Zenon DEF RetryInv, WakeInv

\* The evicting threads are apart from the lock and the wake-ups.
LEMMA EvictorTimesOut ==
    ASSUME RetryInv, NEW e \in Edges, TimeoutEvictor(e)
    PROVE  WakeInv' /\ LockStep /\ Steady
<1>1. PICK req : /\ MailOnly /\ net' = net \cup req /\ NetOK(req)
                 /\ Again(E(e), "evict", {e}, 0, req)
  BY EvictorRepeats, Zenon
<1>2. \A m \in req : ~m.rsp /\ m.type \in {"put", "evict"}
  BY <1>1, Zenon DEF Again
<1> QED
  BY <1>1, <1>2, PlainRepeated, Zenon DEF RetryInv

\* A thread of the beacon asks the edges again that have not acknowledged.
LEMMA CollectorRepeats ==
    ASSUME Repeatable, RetryInv, NEW k \in Collectors, TimeoutCollector(k)
    PROVE  \E req :
             /\ MailOnly /\ early' \in Nat /\ net' = net \cup req /\ NetOK(req)
             /\ ~UnderWay(BeaconThread(k)) /\ Collecting(k)
             /\ Again(BeaconThread(k), CollectedCall(k), pending[k] \ {Beacon}, 0, req)
<1> DEFINE type == CollectedCall(k)
           dsts == pending[k] \ {Beacon}
<1>1. Collecting(k) /\ Resend(BeaconThread(k), type, dsts, 0)
  BY Zenon DEF TimeoutCollector
<1>2. pending \in [Collectors -> SUBSET Edges]
  BY Zenon DEF RetryInv, WakeInv, LockInv, IInv, TypeOK, Collectors
<1>3. dsts \in SUBSET Edges /\ 0 \in Versions /\ BeaconThread(k) \in Threads
  BY <1>2, BeaconAssumption, VersionAssumption, SMTT(30)
     DEF Versions, BeaconThread, Threads, Collectors
<1>4. type \in {"inv", "fin"}
  BY DEF CollectedCall
<1> HIDE DEF type, dsts
<1>5. type \in Calls /\ type \notin WorkerCalls /\ type \notin Impatient
  BY <1>4 DEF Calls, WorkerCalls, Repeatable
<1>6. /\ MailOnly /\ early' \in Nat /\ (UnderWay(BeaconThread(k)) => type \in Impatient)
      /\ \E req : net' = net \cup req /\ NetOK(req)
                  /\ Again(BeaconThread(k), type, dsts, 0, req)
  BY <1>1, <1>3, <1>5, ResendSends, Zenon DEF RetryInv, WakeInv
<1> QED
  BY <1>1, <1>5, <1>6, Zenon DEF type, dsts

\* An edge is asked at most once at a time, again.
LEMMA CollectorTimesOut ==
    ASSUME Repeatable, RetryInv, NEW k \in Collectors, TimeoutCollector(k)
    PROVE  WakeInv' /\ LockStep /\ Steady
<1>1. PICK req :
        /\ MailOnly /\ early' \in Nat /\ net' = net \cup req /\ NetOK(req)
        /\ ~UnderWay(BeaconThread(k)) /\ Collecting(k)
        /\ Again(BeaconThread(k), CollectedCall(k), pending[k] \ {Beacon}, 0, req)
  BY CollectorRepeats, Zenon
<1>2. /\ \A m \in req : /\ m.type = CollectedCall(k) /\ ~m.rsp
                        /\ m.th = BeaconThread(k) /\ m.dst \in pending[k] \ {Beacon}
      /\ \A m, n \in req : m.dst = n.dst => m = n
  BY <1>1 DEF Again
<1>3. WakeInv /\ LockInv
  BY Zenon DEF RetryInv, WakeInv
<1>4. Acks(k, net) = {}
  BY <1>1, Zenon DEF Acks, Rounds, RetryInv, Current, UnderWay
<1>5. worker' = worker /\ server' = server /\ pending' = pending
  BY <1>1 DEF MailOnly
<1>6. CollectedCall(k) \in {"inv", "fin"}
  BY DEF CollectedCall
<1>7. Callers(req) /\ FromBeacon(req)
  BY <1>2, <1>6, Zenon DEF Callers, FromBeacon, Rounds, WorkerCalls
<1>8. ASSUME NEW f \in Edges
      PROVE  Disciplined(f)'
  <2>1. Own(f, net') = Own(f, net) /\ Disciplined(f)
    BY <1>1, <1>2, <1>3, <1>6, Zenon DEF Own, WorkerCalls, LockInv
  <2> QED
    BY <1>5, <2>1, Zenon DEF Disciplined
<1>9. ASSUME NEW j \in Collectors
      PROVE  Collected(j)'
  <2>1. /\ Collecting(j)' <=> Collecting(j)
        /\ CollectedCall(j)' = CollectedCall(j)
    BY <1>5, Zenon DEF Collecting, CollectedCall
  <2>2. CASE j = k
    <3>1. Acks(k, net') = req
      BY <1>1, <1>2, <1>4, <1>6, Zenon DEF Acks, Rounds
    <3> QED
      BY <1>1, <1>2, <1>5, <2>1, <2>2, <3>1, Zenon DEF Collected
  <2>3. CASE j # k
    <3>1. BeaconThread(j) # BeaconThread(k)
      BY <2>3, ThreadsApart, Zenon
    <3>2. Acks(j, net') = Acks(j, net) /\ Collected(j)
      BY <1>1, <1>2, <1>3, <3>1, Zenon DEF Acks, Rounds, WakeInv
    <3> QED
      BY <1>5, <2>1, <3>2, Zenon DEF Collected
  <2> QED
    BY <2>2, <2>3, Zenon
<1> QED
  BY <1>1, <1>2, <1>3, <1>7, <1>8, <1>9, MailRepeated, ZenonT(30)

\* A datagram that may be lost is no answer the protocol depends on, and neither
\* is a stale one.
LEMMA LossMoves ==
    ASSUME Repeatable, RetryInv, Lose \/ DiscardStaleResponse
    PROVE  /\ WakeInv' /\ LockStep /\ Steady
           /\ MailOnly /\ early' \in Nat /\ net' \subseteq net
<1>1. MailOnly /\ early' \in Nat
  BY Zenon DEF Lose, DiscardStaleResponse, MailOnly, RetryInv
<1>2. PICK m \in net : /\ net' = net \ {m}
                       /\ <<m.type, m.rsp>> \in Lossy \/ (m.rsp /\ m.seq # seq[m.th])
  BY Zenon DEF Lose, DiscardStaleResponse
<1>3. m.rsp \in BOOLEAN
  BY DEF RetryInv, WakeInv, LockInv, IInv, NetOK, MessageType, Messages
<1>4. m.rsp => m.type \notin {"lookup", "acquire", "release", "fin"}
  <2>1. CASE <<m.type, m.rsp>> \in Lossy
    BY <1>3, <2>1, Zenon DEF Repeatable
  <2>2. CASE m.seq # seq[m.th]
    BY <2>2 DEF RetryInv, Current, WorkerCalls
  <2> QED
    BY <1>2, <2>1, <2>2, Zenon
<1> QED
  BY <1>1, <1>2, <1>4, MailLost, Zenon DEF RetryInv

\* A request that is sent again carries the current sequence number.
LEMMA AgainSeqs ==
    ASSUME MailOnly, NEW t, NEW type, NEW dsts, NEW ver, NEW req,
           net' = net \cup req, Again(t, type, dsts, ver, req),
           type = "evict" => \E e \in Edges : t = E(e)
    PROVE  SeqsMove
<1>1. seq' = seq /\ server' = server
  BY DEF MailOnly
<1>2. Derived(net) /\ Derived(server')
  BY <1>1, DerivedStays, Zenon
<1>3. \A m \in req : /\ m.seq = seq'[m.th]
                     /\ m.type = "evict" => \E e \in Edges : m.th = E(e)
  BY <1>1 DEF Again
<1> QED
  BY <1>1, <1>2, <1>3 DEF SeqsMove, Derived

\* A step of MsiTimeouts is one of the protocol, a loss or a repetition.
LEMMA RetryCases ==
    ASSUME RetryInv, [TNext]_tvars
    PROVE  \/ [Next]_vars /\ early' \in Nat
           \/ Lose \/ DiscardStaleResponse
           \/ \E e \in Edges : TimeoutWorker(e) \/ TimeoutEvictor(e)
           \/ \E k \in Collectors : TimeoutCollector(k)
<1>1. CASE UNCHANGED tvars
  BY <1>1 DEF tvars, RetryInv
<1> QED
  BY <1>1, Zenon DEF TNext, Timeout, Collectors, RetryInv

\* Every step keeps the lock and the wake-ups, and moves the sequence numbers by calls.
LEMMA RetryMoves ==
    ASSUME Repeatable, RetryInv, [TNext]_tvars
    PROVE  WakeInv' /\ LockStep /\ Steady /\ SeqsMove /\ early' \in Nat
<1>0. WakeInv /\ LockInv
  BY DEF RetryInv, WakeInv
<1>1. CASE [Next]_vars /\ early' \in Nat
  BY <1>0, <1>1, NextWakes, NextLocks, NextSteady, NextSeqs, Zenon
<1>2. CASE Lose \/ DiscardStaleResponse
  <2>1. /\ WakeInv' /\ LockStep /\ Steady
        /\ MailOnly /\ early' \in Nat /\ net' \subseteq net
    BY <1>2, LossMoves
  <2>2. seq' = seq /\ server' = server
    BY <2>1 DEF MailOnly
  <2>3. SeqsMove
    BY <2>1, <2>2, DerivedStays, StillSeqs, Zenon
  <2> QED
    BY <2>1, <2>3
<1>3. ASSUME NEW e \in Edges, TimeoutWorker(e)
      PROVE  WakeInv' /\ LockStep /\ Steady /\ SeqsMove /\ early' \in Nat
  <2>1. PICK req :
          /\ MailOnly /\ early' \in Nat /\ net' = net \cup req
          /\ Again(W(e), worker[e].pc, {e},
                   IF worker[e].pc = "put" THEN worker[e].val ELSE 0, req)
          /\ Remote(e, worker[e].pc)
    BY <1>3, WorkerRepeats, Zenon
  <2>2. worker[e].pc # "evict"
    BY <2>1, Zenon DEF Remote
  <2>3. SeqsMove
    BY <2>1, <2>2, AgainSeqs, Zenon
  <2> QED
    BY <1>3, <2>1, <2>3, WorkerTimesOut, Zenon
<1>4. ASSUME NEW e \in Edges, TimeoutEvictor(e)
      PROVE  WakeInv' /\ LockStep /\ Steady /\ SeqsMove /\ early' \in Nat
  <2>1. PICK req : /\ MailOnly /\ early' \in Nat /\ net' = net \cup req
                   /\ Again(E(e), "evict", {e}, 0, req)
    BY <1>4, EvictorRepeats, Zenon
  <2>2. SeqsMove
    BY <2>1, AgainSeqs, Zenon
  <2> QED
    BY <1>4, <2>1, <2>2, EvictorTimesOut, Zenon
<1>5. ASSUME NEW k \in Collectors, TimeoutCollector(k)
      PROVE  WakeInv' /\ LockStep /\ Steady /\ SeqsMove /\ early' \in Nat
  <2>1. PICK req :
          /\ MailOnly /\ early' \in Nat /\ net' = net \cup req
          /\ Again(BeaconThread(k), CollectedCall(k), pending[k] \ {Beacon}, 0, req)
    BY <1>5, CollectorRepeats, Zenon
  <2>2. CollectedCall(k) # "evict"
    BY Zenon DEF CollectedCall
  <2>3. SeqsMove
    BY <2>1, <2>2, AgainSeqs, Zenon
  <2> QED
    BY <1>5, <2>1, <2>3, CollectorTimesOut, Zenon
<1> QED
  BY <1>1, <1>2, <1>3, <1>4, <1>5, RetryCases, Zenon

\* The invariant is inductive.
LEMMA RetryKeeps ==
    ASSUME Repeatable
    PROVE  RetryInv /\ [TNext]_tvars => RetryInv' /\ LockStep
<1> SUFFICES ASSUME RetryInv, [TNext]_tvars
             PROVE  RetryInv' /\ LockStep
  OBVIOUS
<1>1. WakeInv' /\ LockStep /\ SeqsMove /\ early' \in Nat
  BY RetryMoves
<1>2. Current'
  BY <1>1, StaysCurrent, Zenon DEF RetryInv
<1> QED
  BY <1>1, <1>2, Zenon DEF RetryInv

\* No message is under way initially.
LEMMA InitRetries == TInit => RetryInv
BY InitWakes DEF TInit, RetryInv, Current, Init

\* The invariant holds in every reachable state.
LEMMA AlwaysRetries ==
    ASSUME Repeatable
    PROVE  TSpec => []RetryInv
BY InitRetries, RetryKeeps, PTL DEF TSpec

----------------------------------------------------------------------------
(* The lock and the wake-ups survive losses and retries *)

\* FlagMeansHeld: for every number of losses and retries that Repeatable allows, the
\* write flag is set exactly while an edge holds the lock.
THEOREM FlagIsHeldDespiteLoss ==
    ASSUME Repeatable
    PROVE  TSpec => []FlagMeansHeld
<1>1. RetryInv => FlagMeansHeld
  BY DEF RetryInv, WakeInv, LockInv
<1> QED
  BY <1>1, AlwaysRetries, PTL

\* ImplementsWriteLock: the protocol with its losses and retries still implements the
\* abstract lock, as a request sent again is never processed beside the first.
THEOREM LockIsImplementedDespiteLoss ==
    ASSUME Repeatable
    PROVE  TSpec => ImplementsWriteLock
<1>1. LockStep => [Lock!Next]_<<Holders, meta.blocklist>>
  BY DEF LockStep
<1>2. TInit => Lock!Init
  BY InitLocks, Zenon DEF TInit
<1> QED
  BY <1>1, <1>2, RetryKeeps, AlwaysRetries, PTL
     DEF TSpec, ImplementsWriteLock, Lock!Spec

\* NoAssertFails: no assertion of the code fails, in particular no edge acknowledges
\* a call twice although it may be asked twice.
THEOREM AssertionsHoldDespiteLoss ==
    ASSUME Repeatable
    PROVE  TSpec => []NoAssertFails
<1>1. RetryInv => NoAssertFails
  BY Zenon DEF RetryInv, WakeInv
<1> QED
  BY <1>1, AlwaysRetries, PTL

\* NoLostWakeup: an edge that a write blocked is still in the blocklist or is being
\* notified, whatever notices were lost.
THEOREM WakeupsArriveDespiteLoss ==
    ASSUME Repeatable
    PROVE  TSpec => []NoLostWakeup
<1>1. RetryInv => NoLostWakeup
  BY BlockedAwaited, Zenon DEF RetryInv
<1> QED
  BY <1>1, AlwaysRetries, PTL

----------------------------------------------------------------------------
(* The copies: where no edge has a second worker *)

CopyRetryInv == RetryInv /\ CopyInv /\ EvictsCurrent

\* Mail that brings no answer to an admission, no report of an eviction and no
\* acknowledgement leaves the copies.
LEMMA MailCopies ==
    ASSUME CopyInv, WakeInv', Steady, MailOnly, MailWithin(net')
    PROVE  CopyInv'
<1>1. UNCHANGED <<cache, worker, evictor, server, pending, fresh>> /\ meta' = meta
  BY DEF MailOnly
<1> QED
  BY <1>1, NothingCopied, Zenon

\* The repeated requests of the workers and of the beacon are such mail.
LEMMA AgainWithin ==
    ASSUME NEW t, NEW type, NEW dsts, NEW ver, NEW req, net' = net \cup req,
           Again(t, type, dsts, ver, req), type # "evict"
    PROVE  MailWithin(net')
<1>1. \A m \in req : ~m.rsp /\ m.type # "evict"
  BY Zenon DEF Again
<1> QED
  BY <1>1, Zenon DEF MailWithin, AdmitAnswers, EvictCalls, InvAcks

\* An edge's report of an eviction is under way at most once, again.
LEMMA EvictorCopies ==
    ASSUME Repeatable, CopyRetryInv, WakeInv', Steady, NEW e \in Edges,
           TimeoutEvictor(e)
    PROVE  CopyInv'
<1>0. RetryInv /\ CopyInv /\ EvictsCurrent
  BY DEF CopyRetryInv
<1>1. PICK req : /\ MailOnly /\ early' \in Nat /\ net' = net \cup req /\ NetOK(req)
                 /\ UnderWay(E(e)) => "evict" \in Impatient
                 /\ Again(E(e), "evict", {e}, 0, req)
                 /\ evictor[e] = "evict" /\ e # Beacon
  BY <1>0, EvictorRepeats, Zenon
<1>2. /\ UNCHANGED <<cache, meta, worker, evictor>>
      /\ UNCHANGED <<server, pending, fresh>>
  BY <1>1, Zenon DEF MailOnly
<1>3. ~UnderWay(E(e))
  BY <1>1, Zenon DEF Repeatable
<1>4. /\ \A m \in req : m.type = "evict" /\ ~m.rsp /\ m.th = E(e)
      /\ \A m, n \in req : m = n
  BY <1>1 DEF Again
<1>5. E(e)[2] = e
  BY ThreadTypes, Zenon
<1>6. ASSUME NEW m \in EvictCalls(net)
      PROVE  m.th[2] # e
  <2>1. PICK f \in Edges : m.th = E(f) /\ m.seq = seq[m.th]
    BY <1>0, Zenon DEF EvictsCurrent
  <2>2. m \in net /\ m.th[2] = f
    BY <2>1, ThreadTypes, Zenon DEF EvictCalls
  <2> QED
    BY <1>3, <2>1, <2>2, Zenon DEF UnderWay
<1>7. /\ EvictCalls(net') = EvictCalls(net) \cup req
      /\ AdmitAnswers(net') = AdmitAnswers(net) /\ InvAcks(net') = InvAcks(net)
  BY <1>1, <1>4, Zenon DEF EvictCalls, AdmitAnswers, InvAcks
<1>8. Recorded(e)'
  <2>1. Recorded(e)
    BY <1>0, Zenon DEF CopyInv
  <2>2. /\ \A m \in EvictCalls(net') : m.th[2] = e => evictor'[e] = "evict" /\ e # Beacon
        /\ \A m, n \in EvictCalls(net') : m.th[2] = e /\ n.th[2] = e => m = n
    BY <1>1, <1>2, <1>4, <1>6, <1>7, ZenonT(30)
  <2> QED
    BY <1>2, <1>7, <2>1, <2>2, ZenonT(30) DEF Recorded
<1>9. ASSUME ~MayFail
      PROVE  Served(e)'
  <2>1. Served(e)
    BY <1>0, <1>9, Zenon DEF CopyInv
  <2>2. \A m \in EvictCalls(net') : m.th[2] = e /\ m.rsp => meta'.dir[e] = "none"
    BY <1>4, <1>6, <1>7, Zenon
  <2>3. Unreleased(e)' => Unreleased(e)
    BY <1>2, Zenon DEF Unreleased, Steady
  <2> QED
    BY <1>2, <1>7, <2>1, <2>2, <2>3, ZenonT(30) DEF Served
<1>10. \A f \in Edges : f # e => MailStays(f)
  BY <1>4, <1>5, <1>7, Zenon DEF MailStays
<1> QED
  BY <1>0, <1>2, <1>7, <1>8, <1>9, <1>10, EdgeStep, Zenon

\* Every step keeps the copies recorded.
LEMMA RetryCopies ==
    ASSUME Repeatable, MultiWorker = {}
    PROVE  CopyRetryInv /\ [TNext]_tvars => CopyRetryInv'
<1> SUFFICES ASSUME CopyRetryInv, [TNext]_tvars
             PROVE  CopyRetryInv'
  OBVIOUS
<1>0. RetryInv /\ CopyInv /\ EvictsCurrent /\ LockInv
  BY DEF CopyRetryInv, RetryInv, WakeInv
<1>1. WakeInv' /\ Steady /\ SeqsMove /\ RetryInv'
  BY <1>0, RetryMoves, RetryKeeps, Zenon
<1>2. CopyInv'
  <2>1. CASE [Next]_vars
    BY <1>0, <2>1, NextCopies, Zenon
  <2>2. CASE Lose \/ DiscardStaleResponse
    <3>1. MailOnly /\ net' \subseteq net
      BY <1>0, <2>2, LossMoves, Zenon
    <3> QED
      BY <1>0, <1>1, <3>1, SomeWithin, MailCopies, Zenon
  <2>3. ASSUME NEW e \in Edges, TimeoutWorker(e)
        PROVE  CopyInv'
    <3>1. PICK req :
            /\ MailOnly /\ net' = net \cup req
            /\ Again(W(e), worker[e].pc, {e},
                     IF worker[e].pc = "put" THEN worker[e].val ELSE 0, req)
            /\ Remote(e, worker[e].pc)
      BY <1>0, <2>3, WorkerRepeats, Zenon
    <3>2. worker[e].pc # "evict"
      BY <3>1, Zenon DEF Remote
    <3>3. MailWithin(net')
      BY <3>1, <3>2, AgainWithin, Zenon
    <3> QED
      BY <1>0, <1>1, <3>1, <3>3, MailCopies, Zenon
  <2>4. ASSUME NEW e \in Edges, TimeoutEvictor(e)
        PROVE  CopyInv'
    BY <1>1, <2>4, EvictorCopies, Zenon
  <2>5. ASSUME NEW k \in Collectors, TimeoutCollector(k)
        PROVE  CopyInv'
    <3>1. PICK req :
            /\ MailOnly /\ net' = net \cup req
            /\ Again(BeaconThread(k), CollectedCall(k), pending[k] \ {Beacon}, 0, req)
      BY <1>0, <2>5, CollectorRepeats, ZenonT(30)
    <3>2. CollectedCall(k) # "evict"
      BY Zenon DEF CollectedCall
    <3>3. MailWithin(net')
      BY <3>1, <3>2, AgainWithin, Zenon
    <3> QED
      BY <1>0, <1>1, <3>1, <3>3, MailCopies, Zenon
  <2> QED
    BY <1>0, <2>1, <2>2, <2>3, <2>4, <2>5, RetryCases, Zenon
<1>3. EvictsCurrent'
  BY <1>0, <1>1, <1>2, EvictsStayCurrent, Zenon
<1> QED
  BY <1>1, <1>2, <1>3, Zenon DEF CopyRetryInv

\* The copies are recorded in every reachable state.
LEMMA AlwaysRetryCopies ==
    ASSUME Repeatable, MultiWorker = {}
    PROVE  TSpec => []CopyRetryInv
<1>1. TInit => CopyRetryInv
  BY InitRetries, InitCopies, Zenon
     DEF TInit, CopyRetryInv, EvictsCurrent, EvictCalls, Init
<1> QED
  BY <1>1, RetryCopies, PTL DEF TSpec

\* LocalCachedIsGlobalCached: an object in a local cache is recorded in the directory,
\* although reports of admissions and evictions, and their answers, are lost and
\* repeated.
THEOREM CopiesAreRecordedDespiteLoss ==
    ASSUME Repeatable, MultiWorker = {}
    PROVE  TSpec => []LocalCachedIsGlobalCached
<1>1. CopyRetryInv => LocalCachedIsGlobalCached
  BY Zenon DEF CopyRetryInv, CopyInv, Recorded, LocalCachedIsGlobalCached
<1> QED
  BY <1>1, AlwaysRetryCopies, PTL

\* InvalidatedBeforeWrite: while the lock's holder writes, every copy that is still
\* valid became valid after the grant, although invalidations and their
\* acknowledgements are lost and repeated.
THEOREM CopiesAreInvalidatedDespiteLoss ==
    ASSUME Repeatable, MultiWorker = {}
    PROVE  TSpec => []InvalidatedBeforeWrite
<1>1. CopyRetryInv => InvalidatedBeforeWrite
  BY WritersAlone DEF CopyRetryInv
<1> QED
  BY <1>1, AlwaysRetryCopies, PTL

\* TargetsServe: where no cache operation fails, the directory offers an edge only if
\* it has a valid copy, is about to install one, or is evicting it.
THEOREM TargetsServeDespiteLoss ==
    ASSUME Repeatable, MultiWorker = {}, MayFail = FALSE
    PROVE  TSpec => []TargetsServe
<1>1. CopyRetryInv => TargetsServe
  BY Zenon DEF CopyRetryInv, CopyInv, Served, TargetsServe
<1> QED
  BY <1>1, AlwaysRetryCopies, PTL

----------------------------------------------------------------------------
(* The writes: where no timeout expires too early *)

WriteRetryInv == RetryInv /\ PutsCurrent /\ WritesCurrent

\* A worker's write is under way at most once, again.
LEMMA WorkerWrites ==
    ASSUME Repeatable, Impatient = {}, WriteRetryInv, NEW e \in Edges,
           TimeoutWorker(e)
    PROVE  PutsCurrent'
<1>0. RetryInv /\ PutsCurrent /\ WritesCurrent
  BY DEF WriteRetryInv
<1>1. PICK req :
        /\ MailOnly /\ net' = net \cup req
        /\ UnderWay(W(e)) => worker[e].pc \in Impatient
        /\ Again(W(e), worker[e].pc, {e},
                 IF worker[e].pc = "put" THEN worker[e].val ELSE 0, req)
  BY <1>0, WorkerRepeats, ZenonT(30)
<1>2. worker' = worker /\ ~UnderWay(W(e))
  BY <1>1, ZenonT(30) DEF MailOnly
<1>3. /\ \A m \in req : m.type = worker[e].pc /\ m.th = W(e)
      /\ \A m \in req : worker[e].pc = "put" => m.ver = worker[e].val
      /\ \A m, n \in req : m = n
  BY <1>1, Zenon DEF Again
<1>4. \A m \in PutCalls(net) : m.th # W(e)
  BY <1>0, <1>2, Zenon DEF WritesCurrent, PutCalls, UnderWay
<1>5. \A m \in PutCalls(net') : m \in PutCalls(net) \/ (m \in req /\ worker[e].pc = "put")
  BY <1>1, <1>3, Zenon DEF PutCalls
<1>6. \A m \in PutCalls(net') :
        \E f \in Edges : /\ m.th = W(f) /\ worker'[f].pc = "put"
                         /\ ~m.rsp => m.ver = worker'[f].val
  BY <1>0, <1>2, <1>3, <1>5, ZenonT(30) DEF PutsCurrent
<1>7. \A m, n \in PutCalls(net') : m.th = n.th => m = n
  BY <1>0, <1>3, <1>4, <1>5, Zenon DEF PutsCurrent
<1> QED
  BY <1>6, <1>7, Zenon DEF PutsCurrent

\* The other mail holds no new write.
LEMMA MailWrites ==
    ASSUME WriteRetryInv, MailOnly, PutCalls(net') \subseteq PutCalls(net)
    PROVE  PutsCurrent'
<1>1. worker' = worker /\ PutInv
  BY DEF MailOnly, WriteRetryInv, RetryInv, WakeInv, PutInv
<1> QED
  BY <1>1, PutsStay, Zenon

\* Every step keeps the writes current.
LEMMA RetryWrites ==
    ASSUME Repeatable, Impatient = {}
    PROVE  WriteRetryInv /\ [TNext]_tvars => WriteRetryInv'
<1> SUFFICES ASSUME WriteRetryInv, [TNext]_tvars
             PROVE  WriteRetryInv'
  OBVIOUS
<1>0. RetryInv /\ PutInv /\ WritesCurrent /\ LockInv
  BY Zenon DEF WriteRetryInv, RetryInv, WakeInv, PutInv
<1>1. SeqsMove /\ RetryInv' /\ LockInv'
  BY <1>0, RetryMoves, RetryKeeps, Zenon DEF RetryInv, WakeInv
<1>2. PutsCurrent'
  <2>1. CASE [Next]_vars
    BY <1>0, <2>1, NextPuts, Zenon DEF PutInv
  <2>2. CASE Lose \/ DiscardStaleResponse
    <3>1. MailOnly /\ net' \subseteq net
      BY <1>0, <2>2, LossMoves, Zenon
    <3>2. PutCalls(net') \subseteq PutCalls(net)
      BY <3>1 DEF PutCalls
    <3> QED
      BY <3>1, <3>2, MailWrites, Zenon
  <2>3. ASSUME NEW e \in Edges, TimeoutEvictor(e)
        PROVE  PutsCurrent'
    <3>1. PICK req : /\ MailOnly /\ net' = net \cup req
                     /\ Again(E(e), "evict", {e}, 0, req)
      BY <1>0, <2>3, EvictorRepeats, ZenonT(30)
    <3>2. PutCalls(net') \subseteq PutCalls(net)
      BY <3>1, Zenon DEF PutCalls, Again
    <3> QED
      BY <3>1, <3>2, MailWrites, Zenon
  <2>4. ASSUME NEW k \in Collectors, TimeoutCollector(k)
        PROVE  PutsCurrent'
    <3>1. PICK req :
            /\ MailOnly /\ net' = net \cup req
            /\ Again(BeaconThread(k), CollectedCall(k), pending[k] \ {Beacon}, 0, req)
      BY <1>0, <2>4, CollectorRepeats, Zenon
    <3>2. CollectedCall(k) # "put"
      BY DEF CollectedCall
    <3>3. PutCalls(net') \subseteq PutCalls(net)
      BY <3>1, <3>2, Zenon DEF PutCalls, Again
    <3> QED
      BY <3>1, <3>3, MailWrites, Zenon
  <2> QED
    BY <1>0, <2>1, <2>2, <2>3, <2>4, WorkerWrites, RetryCases, Zenon
<1>3. PutInv'
  BY <1>1, <1>2, Zenon DEF PutInv
<1>4. WritesCurrent'
  BY <1>0, <1>1, <1>3, WritesStayCurrent, Zenon
<1> QED
  BY <1>1, <1>2, <1>4, Zenon DEF WriteRetryInv

\* The writes are current in every reachable state.
LEMMA AlwaysRetryWrites ==
    ASSUME Repeatable, Impatient = {}
    PROVE  TSpec => []WriteRetryInv
<1>1. TInit => WriteRetryInv
  BY InitRetries, Zenon DEF TInit, WriteRetryInv, PutsCurrent, WritesCurrent, PutCalls, Init
<1> QED
  BY <1>1, RetryWrites, PTL DEF TSpec

\* WritesTakeEffectInTime: where no timeout expires too early, a write that is repeated
\* because it or its answer was lost still changes the cloud's value only while its
\* worker waits for the cloud's answer.
THEOREM WritesAreInTimeDespiteLoss ==
    ASSUME Repeatable, Impatient = {}
    PROVE  TSpec => WritesTakeEffectInTime
<1>1. WriteRetryInv /\ [TNext]_tvars => [TakesEffectInTime]_vars
  <2> SUFFICES ASSUME WriteRetryInv, [TNext]_tvars, cloud' # cloud
               PROVE  \E e \in Edges : worker[e].pc = "put" /\ worker[e].val = cloud'
    BY DEF TakesEffectInTime
  <2>1. Next
    BY Zenon DEF TNext, tvars, vars, Lose, DiscardStaleResponse, Timeout, TimeoutWorker,
       TimeoutEvictor, TimeoutCollector, Resend
  <2>2. PICK m \in net : m.type = "put" /\ ~m.rsp /\ cloud' = m.ver
    BY <2>1, CloudStays, Zenon DEF ProcessGlobalPutRequest
  <2> QED
    BY <2>2, Zenon DEF WriteRetryInv, PutsCurrent, PutCalls
<1> QED
  BY <1>1, AlwaysRetryWrites, PTL DEF TSpec, WritesTakeEffectInTime
=============================================================================
