-------------------------- MODULE MsiWakeupProofs --------------------------
(***************************************************************************)
(* No wake-up is lost and no assertion fails in MsiProtocol, for every set *)
(* of edges, every beacon and every number of writes.                      *)
(*                                                                         *)
(* An edge waits from the answer that blocks it until it takes the notice  *)
(* that the write has ended.  All that time it is in the blocklist, or one *)
(* thread of the beacon has yet to learn that it took the notice, and      *)
(* never both; and no edge that is not waiting is in the blocklist or is   *)
(* to be notified.                                                         *)
(*                                                                         *)
(* A write that is on its way to the cloud is its worker's, which waits    *)
(* for the answer; so no write takes effect after its client was answered. *)
(***************************************************************************)
EXTENDS MsiProtocolProofs

Collectors == {"server", "worker"}
Rounds(ms) == {m \in ms : m.type \in {"inv", "fin"}}

\* The messages of thread k's calls to the edges.
Acks(k, ms) == {m \in Rounds(ms) : m.th = BeaconThread(k)}

FromBeacon(ms) ==
    \A m \in Rounds(ms) : \E k \in Collectors : m.th = BeaconThread(k)

\* Thread k has one message under way per edge at most, of the call whose
\* acknowledgements it collects, and awaits the edge's acknowledgement.
Collected(k) ==
    /\ \A m \in Acks(k, net) : /\ Collecting(k) /\ m.type = CollectedCall(k)
                               /\ m.dst \in pending[k] /\ m.dst # Beacon
    /\ \A m, n \in Acks(k, net) : m.dst = n.dst => m = n

\* Edge e is blocked, or is about to learn that it is.
Waiting(e) ==
    \/ worker[e].pc = "blocked"
    \/ \E m \in Own(e, net) : /\ m.rsp
                              /\ \/ m.type = "lookup" /\ m.arg = "written"
                                 \/ m.type = "acquire" /\ m.arg = "failure"

\* Thread k has to learn that edge e took its notice, and e has not taken it.
Due(k, e) ==
    /\ Collecting(k) /\ CollectedCall(k) = "fin" /\ e \in pending[k]
    /\ ~ \E m \in net : m.type = "fin" /\ m.rsp /\ m.dst = e /\ m.th = BeaconThread(k)

\* A waiting edge is in the blocklist or one thread is notifying it, not both,
\* and only waiting edges are.
Awaited(e) ==
    /\ Waiting(e) => e \in meta.blocklist \/ \E k \in Collectors : Due(k, e)
    /\ e \in meta.blocklist => Waiting(e)
    /\ \A k \in Collectors : Due(k, e) => Waiting(e) /\ e \notin meta.blocklist
    /\ \A k, j \in Collectors : Due(k, e) /\ Due(j, e) => k = j

WakeInv ==
    /\ LockInv
    /\ FromBeacon(net)
    /\ \A k \in Collectors : Collected(k)
    /\ \A e \in Edges : Awaited(e)
    /\ ~Waiting(Beacon)
    /\ NoAssertFails

----------------------------------------------------------------------------
(* Steps that leave the calls to the edges alone *)

\* The threads of the beacon collect what they collected before.
SameCollect ==
    /\ pending' = pending
    /\ \A k \in Collectors : /\ Collecting(k)' <=> Collecting(k)
                             /\ Collecting(k) => CollectedCall(k)' = CollectedCall(k)

SameRounds == Rounds(net') = Rounds(net) /\ SameCollect

\* A notice on its way to edge e is due.
LEMMA NoticeDue ==
    ASSUME WakeInv, NEW e \in Edges, NEW m \in net, m.type = "fin", ~m.rsp, m.dst = e
    PROVE  \E k \in Collectors : m.th = BeaconThread(k) /\ Due(k, e)
<1>1. PICK k \in Collectors : m.th = BeaconThread(k)
  BY DEF WakeInv, FromBeacon, Rounds
<1>2. m \in Acks(k, net) /\ Collected(k)
  BY <1>1 DEF WakeInv, Acks, Rounds
<1>3. Collecting(k) /\ CollectedCall(k) = "fin" /\ e \in pending[k]
  BY <1>2 DEF Collected
<1>4. ASSUME NEW n \in net, n.type = "fin", n.rsp, n.dst = e, n.th = BeaconThread(k)
      PROVE  FALSE
  <2>1. n \in Acks(k, net)
    BY <1>4 DEF Acks, Rounds
  <2> QED
    BY <1>2, <1>4, <2>1 DEF Collected
<1> QED
  BY <1>1, <1>3, <1>4 DEF Due

\* What is due to be acknowledged stays.
LEMMA RoundsStay ==
    ASSUME WakeInv, SameRounds
    PROVE  /\ FromBeacon(net') /\ \A k \in Collectors : Collected(k)'
           /\ \A e \in Edges : \A k \in Collectors : Due(k, e)' <=> Due(k, e)
<1>1. \A k \in Collectors : Acks(k, net)' = Acks(k, net)
  BY DEF SameRounds, SameCollect, Acks, BeaconThread
<1>2. FromBeacon(net')
  BY DEF SameRounds, SameCollect, FromBeacon, WakeInv
<1>3. ASSUME NEW k \in Collectors
      PROVE  Collected(k)'
  <2>1. Collected(k)
    BY DEF WakeInv
  <2> QED
    BY <1>1, <2>1 DEF Collected, SameRounds, SameCollect
<1>4. ASSUME NEW e \in Edges, NEW k \in Collectors
      PROVE  Due(k, e)' <=> Due(k, e)
  <2>1. (\E m \in net' : m.type = "fin" /\ m.rsp /\ m.dst = e
                          /\ m.th = BeaconThread(k))
          <=> (\E m \in net : m.type = "fin" /\ m.rsp /\ m.dst = e
                                /\ m.th = BeaconThread(k))
    BY DEF SameRounds, SameCollect, Rounds
  <2> QED
    BY <2>1 DEF Due, SameRounds, SameCollect
<1> QED
  BY <1>2, <1>3, <1>4

\* A step that leaves what is due, the blocklist and the waiting edges.
LEMMA DuesStay ==
    ASSUME WakeInv, LockInv', FromBeacon(net'), \A k \in Collectors : Collected(k)',
           \A e \in Edges : \A k \in Collectors : Due(k, e)' <=> Due(k, e),
           meta'.blocklist = meta.blocklist,
           \A e \in Edges : Waiting(e)' <=> Waiting(e), fault' = fault
    PROVE  WakeInv'
<1>1. ASSUME NEW e \in Edges
      PROVE  Awaited(e)'
  <2>1. Awaited(e)
    BY DEF WakeInv
  <2> QED
    BY <2>1, Zenon DEF Awaited
<1>2. ~Waiting(Beacon)' /\ NoAssertFails'
  BY BeaconAssumption DEF WakeInv, NoAssertFails
<1> QED
  BY <1>1, <1>2, Zenon DEF WakeInv

\* A step that leaves the collections, the blocklist and the waiting edges.
LEMMA NothingWakes ==
    ASSUME WakeInv, LockInv', SameRounds, meta'.blocklist = meta.blocklist,
           \A e \in Edges : Waiting(e)' <=> Waiting(e), fault' = fault
    PROVE  WakeInv'
BY RoundsStay, DuesStay

\* A worker that moves to state w is waiting there if w is the blocked state.
LEMMA MoveWaits ==
    ASSUME WakeInv, NEW e \in Edges, NEW w, NEW ms, Enter(e, w, ms),
           Own(e, ms) = {}, \A f \in Edges : f # e => Own(f, ms) = Own(f, net)
    PROVE  /\ \A f \in Edges : f # e => (Waiting(f)' <=> Waiting(f))
           /\ Waiting(e)' <=> w.pc = "blocked"
           /\ Rounds(net') = Rounds(ms)
           /\ worker'[e] = w
           /\ \A f \in Edges : f # e => worker'[f] = worker[f]
<1>1. PICK req : net' = ms \cup req /\ NextCall(e, w, req)
  BY EnterSends, Zenon
<1>2. \A m \in req : m.th = W(e) /\ ~m.rsp /\ m.type \in WorkerCalls \cup {"put"}
  BY <1>1 DEF NextCall
<1>3. /\ worker'[e] = w
      /\ \A f \in Edges : f # e => worker'[f] = worker[f]
  <2>1. worker \in [Edges -> WorkerType]
    BY Zenon DEF WakeInv, LockInv, IInv, TypeOK
  <2> QED
    BY <2>1 DEF Enter
<1>4. Own(e, net)' \subseteq req
  BY <1>1, <1>2 DEF Own
<1>5. \A f \in Edges : f # e => Own(f, net)' = Own(f, net)
  BY <1>1, <1>2, OwnApart DEF Own
<1>6. Rounds(net') = Rounds(ms)
  BY <1>1, <1>2 DEF Rounds, WorkerCalls
<1>7. Waiting(e)' <=> w.pc = "blocked"
  BY <1>2, <1>3, <1>4 DEF Waiting
<1>8. \A f \in Edges : f # e => (Waiting(f)' <=> Waiting(f))
  BY <1>3, <1>5 DEF Waiting
<1> QED
  BY <1>3, <1>6, <1>7, <1>8

\* The labels at which the beacon's worker collects acknowledgements.
CollectPoints == {"invalidate", "notify"}

\* At label l a worker neither is blocked nor collects.
Elsewhere(l) == l \in Labels \ ({"blocked"} \cup CollectPoints)

\* A worker that waits for nothing of the beacon, and is not blocked, moves.
LEMMA LocalWakes ==
    ASSUME WakeInv, LockInv', NEW e \in Edges,
           ~Remote(e, worker[e].pc) \/ worker[e].pc = "put",
           NEW w, NEW ms, Enter(e, w, ms), Elsewhere(worker[e].pc), Elsewhere(w.pc),
           Rounds(ms) = Rounds(net), \A f \in Edges : Own(f, ms) = Own(f, net),
           UNCHANGED <<server, pending, fault>>,
           meta'.blocklist = meta.blocklist
    PROVE  WakeInv'
<1>1. Own(e, net) = {}
  BY NoCall DEF WakeInv
<1>2. /\ \A f \in Edges : f # e => (Waiting(f)' <=> Waiting(f))
      /\ Waiting(e)' <=> w.pc = "blocked"
      /\ Rounds(net') = Rounds(ms)
      /\ worker'[e] = w
      /\ \A f \in Edges : f # e => worker'[f] = worker[f]
  BY <1>1, MoveWaits
<1>3. ~Waiting(e) /\ ~Waiting(e)'
  BY <1>1, <1>2 DEF Waiting, Elsewhere
<1>4. SameRounds
  BY <1>2, BeaconAssumption
     DEF SameRounds, SameCollect, Collectors, Collecting, CollectedCall, CollectPoints,
         Elsewhere
<1> QED
  BY <1>2, <1>3, <1>4, NothingWakes

\* LocalWakes for a worker that leaves the messages alone.
LEMMA OwnWakes ==
    ASSUME WakeInv, LockInv', NEW e \in Edges, ~Remote(e, worker[e].pc),
           NEW w, Enter(e, w, net), Elsewhere(worker[e].pc), Elsewhere(w.pc),
           UNCHANGED <<server, pending, fault>>,
           meta'.blocklist = meta.blocklist
    PROVE  WakeInv'
BY LocalWakes

\* The answer m makes the worker wait for the end of the write.
Blocks(m) == \/ m.type = "lookup" /\ m.arg = "written"
             \/ m.type = "acquire" /\ m.arg = "failure"

\* A worker takes the answer to its call and is blocked if the answer says so.
LEMMA AnsweredWakes ==
    ASSUME WakeInv, LockInv', NEW e \in Edges,
           NEW m \in Responses(W(e), worker[e].pc), worker[e].pc \in WorkerCalls,
           NEW w, Enter(e, w, net \ {m}), w.pc = "blocked" <=> Blocks(m),
           w.pc \notin CollectPoints, UNCHANGED <<server, pending, fault, meta>>
    PROVE  WakeInv'
<1>1. m \in Own(e, net) /\ m.rsp /\ m.type \in WorkerCalls
  BY DEF Own, Responses
<1>2. Own(e, net) = {m}
  BY <1>1 DEF WakeInv, LockInv, Disciplined
<1>3. Own(e, net \ {m}) = {}
  BY <1>2 DEF Own
<1>4. \A f \in Edges : f # e => Own(f, net \ {m}) = Own(f, net)
  BY <1>1, OwnApart DEF Own
<1>5. /\ \A f \in Edges : f # e => (Waiting(f)' <=> Waiting(f))
      /\ Waiting(e)' <=> w.pc = "blocked"
      /\ Rounds(net') = Rounds(net \ {m})
      /\ worker'[e] = w
      /\ \A f \in Edges : f # e => worker'[f] = worker[f]
  BY <1>3, <1>4, MoveWaits
<1>6. Waiting(e) <=> Blocks(m)
  BY <1>1, <1>2 DEF Waiting, Blocks, WorkerCalls
<1>7. Rounds(net \ {m}) = Rounds(net)
  BY <1>1 DEF Rounds, WorkerCalls
<1>8. SameRounds
  BY <1>5, <1>7, BeaconAssumption
     DEF SameRounds, SameCollect, Collectors, Collecting, CollectedCall, CollectPoints,
         WorkerCalls
<1> QED
  BY <1>5, <1>6, <1>8, NothingWakes

----------------------------------------------------------------------------
(* The steps *)

\* The client steps and the reading steps wake nobody.
LEMMA ReadWakes ==
    ASSUME WakeInv, LockInv', NEW e \in Edges, Client(e) \/ Read(e)
    PROVE  WakeInv'
<1>0. worker[e] \in WorkerType
  BY Zenon DEF WakeInv, LockInv, IInv, TypeOK
<1>a. \A l : [worker[e] EXCEPT !.pc = l].pc = l
  BY <1>0 DEF WorkerType
<1>b. UNCHANGED <<server, pending, fault, meta>>
  BY Zenon DEF Client, Read, Get, Put, LookupLocalDirectory,
     LookupBeaconDirectory, ProcessRedirectedGetRequest, RedirectGetToTarget,
     FetchDataFromCloud, TryToUpdateInvalidLocalEdgeCache
<1>1. CASE LookupBeaconDirectory(e)
  <2>1. PICK m \in Responses(W(e), "lookup") :
          CASE m.arg = "written" -> Jump(e, "blocked", net \ {m})
            [] m.arg = "none" -> Jump(e, "cloudget", net \ {m})
            [] OTHER -> Enter(e, [worker[e] EXCEPT !.pc = "redirect",
                                                   !.target = m.arg], net \ {m})
    BY <1>1, Zenon DEF LookupBeaconDirectory
  <2>2. m.type = "lookup" /\ worker[e].pc = "lookup"
    BY <1>1 DEF Responses, LookupBeaconDirectory
  <2>3. CASE m.arg = "written"
    <3> DEFINE w == [worker[e] EXCEPT !.pc = "blocked"]
    <3>1. Enter(e, w, net \ {m}) /\ w.pc = "blocked"
      BY <1>a, <2>1, <2>3 DEF Jump
    <3> HIDE DEF w
    <3> QED
      BY <1>b, <2>2, <2>3, <3>1, AnsweredWakes
         DEF WorkerCalls, CollectPoints, Blocks
  <2>4. CASE m.arg # "written"
    <3>1. [worker[e] EXCEPT !.pc = "redirect", !.target = m.arg].pc = "redirect"
      BY <1>0 DEF WorkerType
    <3>2. PICK w : Enter(e, w, net \ {m}) /\ w.pc \in {"cloudget", "redirect"}
      <4>1. CASE m.arg = "none"
        BY <1>a, <2>1, <2>4, <4>1, Zenon DEF Jump
      <4>2. CASE m.arg # "none"
        BY <2>1, <2>4, <3>1, <4>2, Zenon
      <4> QED
        BY <4>1, <4>2
    <3> QED
      BY <1>b, <2>2, <2>4, <3>2, AnsweredWakes
         DEF WorkerCalls, CollectPoints, Blocks
  <2> QED
    BY <2>3, <2>4
<1>2. CASE ~LookupBeaconDirectory(e)
  <2>1. PICK w : Enter(e, w, net) /\ Elsewhere(w.pc)
    <3>0. \A l \in {"fetched", "lookup", "acquire", "redirect", "cloudget",
                    "missed", "decide"} : Elsewhere(l)
      BY DEF Elsewhere, Labels, CollectPoints
    <3>1. CASE Get(e)
      <4>1. /\ [worker[e] EXCEPT !.pc = "fetched", !.op = "get",
                                 !.val = cache[e].val].pc = "fetched"
            /\ [worker[e] EXCEPT !.pc = "lookup", !.op = "get"].pc = "lookup"
        BY <1>0 DEF WorkerType
      <4> QED
        BY <3>0, <3>1, <4>1, Zenon DEF Get
    <3>2. CASE Put(e)
      <4>1. [worker[e] EXCEPT !.pc = "acquire", !.op = "put",
                              !.val = nver + 1].pc = "acquire"
        BY <1>0 DEF WorkerType
      <4> QED
        BY <3>0, <3>2, <4>1, Zenon DEF Put
    <3>3. CASE LookupLocalDirectory(e)
      <4>1. \A d : [worker[e] EXCEPT !.pc = "redirect", !.target = d].pc
                    = "redirect"
        BY <1>0 DEF WorkerType
      <4>2. Elsewhere("redirect") /\ Elsewhere("cloudget")
        BY <3>0
      <4>3. CASE lookupTargets(meta, e) = {}
        BY <1>a, <3>3, <4>2, <4>3, Zenon DEF LookupLocalDirectory, Jump
      <4>4. CASE lookupTargets(meta, e) # {}
        BY <3>3, <4>1, <4>2, <4>4, ZenonT(30) DEF LookupLocalDirectory
      <4> QED
        BY <4>3, <4>4
    <3>4. CASE ProcessRedirectedGetRequest(e) \/ FetchDataFromCloud(e)
      <4>1. \A v : [worker[e] EXCEPT !.pc = "fetched", !.val = v].pc = "fetched"
        BY <1>0 DEF WorkerType
      <4>2. Elsewhere("fetched") /\ Elsewhere("missed")
        BY <3>0
      <4>3. CASE ProcessRedirectedGetRequest(e)
        <5>1. CASE cache[worker[e].target].st = "valid"
          <6>1. PICK v : Enter(e, [worker[e] EXCEPT !.pc = "fetched", !.val = v],
                               net)
            BY <4>3, <5>1, Zenon DEF ProcessRedirectedGetRequest
          <6> QED
            BY <4>1, <4>2, <6>1, Zenon
        <5>2. CASE cache[worker[e].target].st # "valid"
          <6>1. Jump(e, "missed", net)
            BY <4>3, <5>2 DEF ProcessRedirectedGetRequest
          <6> QED
            BY <1>a, <4>2, <6>1, Zenon DEF Jump
        <5> QED
          BY <5>1, <5>2
      <4>4. CASE FetchDataFromCloud(e)
        BY <4>1, <4>2, <4>4, Zenon DEF FetchDataFromCloud
      <4> QED
        BY <3>4, <4>3, <4>4
    <3>5. CASE RedirectGetToTarget(e)
      <4>1. PICK l \in {"cloudget", "lookup"} : Jump(e, l, net)
        BY <3>5, Zenon DEF RedirectGetToTarget
      <4> QED
        BY <1>a, <3>0, <4>1, Zenon DEF Jump
    <3>6. CASE TryToUpdateInvalidLocalEdgeCache(e)
      BY <1>a, <3>0, <3>6, ZenonT(30) DEF TryToUpdateInvalidLocalEdgeCache, Jump
    <3> QED
      BY <1>2, <3>1, <3>2, <3>3, <3>4, <3>5, <3>6 DEF Client, Read
  <2>2. /\ worker[e].pc \in {"idle", "lookup", "redirect", "missed",
                            "cloudget", "fetched"}
        /\ worker[e].pc = "lookup" => e = Beacon
    BY <1>2, Zenon DEF Client, Read, Get, Put, LookupLocalDirectory,
       ProcessRedirectedGetRequest, RedirectGetToTarget, FetchDataFromCloud,
       TryToUpdateInvalidLocalEdgeCache
  <2>3. ~Remote(e, worker[e].pc) /\ Elsewhere(worker[e].pc)
    BY <2>2 DEF Remote, Elsewhere, Labels, CollectPoints
  <2> QED
    BY <1>b, <2>1, <2>3, OwnWakes
<1> QED
  BY <1>1, <1>2

\* The admission steps wake nobody.
LEMMA AdmitWakes ==
    ASSUME WakeInv, LockInv', NEW e \in Edges, Admit(e)
    PROVE  WakeInv'
<1>0. worker[e] \in WorkerType /\ meta \in MetaType
  BY Zenon DEF WakeInv, LockInv, IInv, TypeOK
<1>a. \A l : [worker[e] EXCEPT !.pc = l].pc = l
  BY <1>0 DEF WorkerType
<1>b. UNCHANGED <<server, pending, fault>> /\ meta'.blocklist = meta.blocklist
  BY <1>0 DEF Admit, AfterRequest, AdmitLocalDirectory, AdmitBeaconDirectory,
              AdmitLocalEdgeCache, updateDirectoryTable, MetaType
<1>c. \A l \in {"idle", "decide", "admit", "installValid", "installInvalid"} :
        Elsewhere(l) /\ (Remote(e, l) => l = "admit" /\ e # Beacon)
  BY DEF Elsewhere, Labels, CollectPoints, Remote
<1>1. CASE AfterRequest(e)
  <2>1. IdleWorker(e).pc = "idle" /\ worker[e].pc = "decide"
    BY <1>1 DEF IdleWorker, AfterRequest
  <2>2. PICK w : Enter(e, w, net) /\ w.pc \in {"idle", "admit"}
    BY <1>a, <1>1, <2>1, Zenon DEF AfterRequest, Jump
  <2> QED
    BY <1>b, <1>c, <2>1, <2>2, OwnWakes
<1>2. CASE AdmitLocalDirectory(e)
  <2>1. worker[e].pc = "admit" /\ e = Beacon
    BY <1>2 DEF AdmitLocalDirectory
  <2>2. PICK w : Enter(e, w, net) /\ w.pc \in {"installValid", "installInvalid"}
    BY <1>a, <1>2, Zenon DEF AdmitLocalDirectory, Jump
  <2> QED
    BY <1>b, <1>c, <2>1, <2>2, OwnWakes
<1>3. CASE AdmitBeaconDirectory(e)
  <2>1. worker[e].pc = "admit" /\ meta' = meta
    BY <1>3 DEF AdmitBeaconDirectory
  <2>2. PICK m \in Responses(W(e), "admit") :
          \E w : /\ Enter(e, w, net \ {m})
                 /\ w.pc \in {"installValid", "installInvalid"}
    BY <1>a, <1>3, Zenon DEF AdmitBeaconDirectory, Jump
  <2>3. m.type = "admit"
    BY DEF Responses
  <2> QED
    BY <1>b, <2>1, <2>2, <2>3, AnsweredWakes
       DEF WorkerCalls, CollectPoints, Blocks
<1>4. CASE AdmitLocalEdgeCache(e)
  <2>1. /\ worker[e].pc \in {"installValid", "installInvalid"}
        /\ Enter(e, IdleWorker(e), net) /\ IdleWorker(e).pc = "idle"
    BY <1>4 DEF AdmitLocalEdgeCache, IdleWorker
  <2> QED
    BY <1>b, <1>c, <2>1, OwnWakes
<1> QED
  BY <1>1, <1>2, <1>3, <1>4 DEF Admit

----------------------------------------------------------------------------
(* A thread of the beacon starts to call the edges *)

\* The requests req are those of thread k's call to the edges in dsts.
RoundCall(k, type, dsts, req) ==
    /\ \A m \in req : /\ m.type = type /\ ~m.rsp /\ m.th = BeaconThread(k)
                      /\ m.dst \in dsts \ {Beacon}
    /\ \A m, n \in req : m.dst = n.dst => m = n

\* The requests of a call to the edges.
LEMMA RoundSends ==
    ASSUME NEW k, NEW type, NEW dsts, NEW ms, CallEdges(k, type, dsts, ms)
    PROVE  \E req : net' = ms \cup req /\ RoundCall(k, type, dsts, req)
<1> DEFINE s == CHOOSE s \in Unused(BeaconThread(k), ms) : TRUE
           req == Requests(BeaconThread(k), type, dsts \ {Beacon}, s, 0, 0)
<1>1. net' = ms \cup req
  BY DEF CallEdges, Call
<1> DEFINE r(d) == [type |-> type, rsp |-> FALSE, th |-> BeaconThread(k),
                    dst |-> d, seq |-> s, copy |-> 0, arg |-> "-", ver |-> 0]
<1>a. \A m \in req : \E d \in dsts \ {Beacon} : m = r(d)
  BY DEF Requests
<1>b. \A d : /\ r(d).type = type /\ ~r(d).rsp /\ r(d).th = BeaconThread(k)
             /\ r(d).dst = d
  OBVIOUS
<1> HIDE DEF req, r
<1>2. RoundCall(k, type, dsts, req)
  BY <1>a, <1>b DEF RoundCall
<1> QED
  BY <1>1, <1>2, Zenon

\* Thread k, which was not collecting, calls the edges in dsts; the other
\* thread's collection goes on.
RoundStarts(k, type, dsts, ms) ==
    /\ CallEdges(k, type, dsts, ms) /\ Rounds(ms) = Rounds(net)
    /\ ~Collecting(k) /\ Collecting(k)' /\ CollectedCall(k)' = type
    /\ \A j \in Collectors : j # k =>
         /\ Collecting(j)' <=> Collecting(j)
         /\ Collecting(j) => CollectedCall(j)' = CollectedCall(j)

\* All edges of dsts other than the beacon are then being called.
LEMMA RoundBegins ==
    ASSUME WakeInv, NEW k \in Collectors, NEW type \in {"inv", "fin"},
           NEW dsts \in SUBSET Edges, NEW ms, RoundStarts(k, type, dsts, ms)
    PROVE  /\ FromBeacon(net') /\ \A j \in Collectors : Collected(j)'
           /\ \E req : net' = ms \cup req /\ RoundCall(k, type, dsts, req)
           /\ \A e \in Edges : ~Due(k, e) /\ (Due(k, e)' <=> type = "fin" /\ e \in dsts)
           /\ \A e \in Edges : \A j \in Collectors : j # k => (Due(j, e)' <=> Due(j, e))
<1>1. PICK req : net' = ms \cup req /\ RoundCall(k, type, dsts, req)
  BY RoundSends DEF RoundStarts
<1>2. pending'[k] = dsts /\ \A j \in Collectors : j # k => pending'[j] = pending[j]
  <2>1. pending \in [Collectors -> SUBSET Edges]
    BY Zenon DEF WakeInv, LockInv, IInv, TypeOK, Collectors
  <2> QED
    BY <2>1 DEF RoundStarts, CallEdges
<1>3. /\ Rounds(net') = Rounds(net) \cup req
      /\ Acks(k, net) = {} /\ Acks(k, net)' = req
      /\ \A j \in Collectors : j # k => Acks(j, net)' = Acks(j, net)
  <2>1. Rounds(net') = Rounds(net) \cup req
    BY <1>1 DEF RoundStarts, RoundCall, Rounds
  <2>2. Acks(k, net) = {}
    BY DEF WakeInv, Collected, RoundStarts
  <2>3. \A m \in req : m.th = BeaconThread(k) /\ m \in Rounds(net')
    BY <1>1, <2>1, Zenon DEF RoundCall
  <2>4. Acks(k, net)' = req
    BY <2>1, <2>2, <2>3 DEF Acks, BeaconThread
  <2>5. \A j \in Collectors : j # k => Acks(j, net)' = Acks(j, net)
    BY <2>1, <2>3 DEF Acks, BeaconThread
  <2> QED
    BY <2>1, <2>2, <2>4, <2>5
<1>4. FromBeacon(net')
  BY <1>1, <1>3, Zenon DEF WakeInv, FromBeacon, RoundCall
<1>5. Collected(k)'
  BY <1>1, <1>2, <1>3, Zenon DEF Collected, RoundStarts, RoundCall
<1>6. ASSUME NEW j \in Collectors, j # k
      PROVE  Collected(j)'
  <2>1. Collected(j)
    BY DEF WakeInv
  <2> QED
    BY <1>2, <1>3, <1>6, <2>1 DEF Collected, RoundStarts
<1>7. ASSUME NEW e \in Edges
      PROVE  ~Due(k, e) /\ (Due(k, e)' <=> type = "fin" /\ e \in dsts)
  <2>1. ~ \E m \in net' : m.type = "fin" /\ m.rsp /\ m.dst = e
                            /\ m.th = BeaconThread(k)
    BY <1>1, <1>3 DEF RoundCall, Acks, Rounds
  <2> QED
    BY <1>2, <2>1 DEF Due, RoundStarts
<1>8. ASSUME NEW e \in Edges, NEW j \in Collectors, j # k
      PROVE  Due(j, e)' <=> Due(j, e)
  <2>1. (\E m \in net' : m.type = "fin" /\ m.rsp /\ m.dst = e
                          /\ m.th = BeaconThread(j))
        <=> (\E m \in net : m.type = "fin" /\ m.rsp /\ m.dst = e
                             /\ m.th = BeaconThread(j))
    BY <1>3, <1>8 DEF Acks, Rounds
  <2> QED
    BY <1>2, <1>8, <2>1 DEF Due, RoundStarts
<1> QED
  BY <1>1, <1>4, <1>5, <1>6, <1>7, <1>8

\* The copies are being invalidated: nobody is woken.
LEMMA GrantWakes ==
    ASSUME WakeInv, LockInv', NEW k \in Collectors, NEW dsts \in SUBSET Edges,
           NEW ms, RoundStarts(k, "inv", dsts, ms),
           \A e \in Edges : Waiting(e)' <=> Waiting(e),
           meta'.blocklist = meta.blocklist, fault' = fault
    PROVE  WakeInv'
<1>1. /\ FromBeacon(net') /\ \A j \in Collectors : Collected(j)'
      /\ \A e \in Edges : ~Due(k, e) /\ ~Due(k, e)'
      /\ \A e \in Edges : \A j \in Collectors : j # k => (Due(j, e)' <=> Due(j, e))
  BY RoundBegins, Zenon
<1>2. \A e \in Edges : \A j \in Collectors : Due(j, e)' <=> Due(j, e)
  BY <1>1, Zenon
<1> QED
  BY <1>1, <1>2, DuesStay

\* Every edge of the blocklist is being notified when the list is emptied.
LEMMA ReleaseWakes ==
    ASSUME WakeInv, LockInv', NEW k \in Collectors, NEW ms,
           RoundStarts(k, "fin", meta.blocklist, ms),
           \A e \in Edges : Waiting(e)' <=> Waiting(e),
           meta'.blocklist = {}, fault' = fault
    PROVE  WakeInv'
<1>0. meta.blocklist \in SUBSET Edges
  BY Zenon DEF WakeInv, LockInv, IInv, TypeOK, MetaType
<1>1. /\ FromBeacon(net') /\ \A j \in Collectors : Collected(j)'
      /\ \A e \in Edges : ~Due(k, e) /\ (Due(k, e)' <=> e \in meta.blocklist)
      /\ \A e \in Edges : \A j \in Collectors : j # k => (Due(j, e)' <=> Due(j, e))
  BY <1>0, RoundBegins
<1>4. ASSUME NEW e \in Edges
      PROVE  Awaited(e)'
  <2>1. Awaited(e)
    BY DEF WakeInv
  <2>2. e \in meta.blocklist => \A j \in Collectors : ~Due(j, e)
    BY <2>1 DEF Awaited
  <2>3. \A j \in Collectors : Due(j, e)' <=> Due(j, e) \/ (j = k /\ e \in meta.blocklist)
    BY <1>1, Zenon
  <2> QED
    BY <1>1, <2>1, <2>2, <2>3 DEF Awaited
<1>5. ~Waiting(Beacon)' /\ NoAssertFails'
  BY BeaconAssumption DEF WakeInv, NoAssertFails
<1> QED
  BY <1>1, <1>4, <1>5 DEF WakeInv

\* The beacon's own worker takes the lock.
LEMMA AcquireLocalWakes ==
    ASSUME WakeInv, LockInv', NEW e \in Edges, AcquireLocalWritelock(e)
    PROVE  WakeInv'
<1>0. /\ worker[e] \in WorkerType /\ meta \in MetaType
      /\ worker[e].pc = "acquire" /\ e = Beacon
  BY Zenon DEF WakeInv, LockInv, IInv, TypeOK, AcquireLocalWritelock
<1>1. ~Remote(e, worker[e].pc) /\ UNCHANGED <<server, fault>>
  BY <1>0 DEF AcquireLocalWritelock, Remote
<1>2. CASE lockResult(meta) = "noneed"
  <2> DEFINE w == [worker[e] EXCEPT !.pc = "put", !.lock = "noneed"]
  <2>1. Enter(e, w, net) /\ UNCHANGED <<pending, meta>>
    BY <1>2 DEF AcquireLocalWritelock, acquireLocalWritelockByCacheServer
  <2>2. w.pc = "put"
    BY <1>0 DEF WorkerType
  <2> HIDE DEF w
  <2> QED
    BY <1>0, <1>1, <2>1, <2>2, OwnWakes DEF Elsewhere, Labels, CollectPoints
<1>3. CASE lockResult(meta) = "success"
  <2> DEFINE w == [worker[e] EXCEPT !.pc = "invalidate", !.lock = "success"]
  <2>1. /\ worker' = [worker EXCEPT ![e] = w]
        /\ CallEdges("worker", "inv", dirinfos(meta), net)
    BY <1>3, Zenon DEF AcquireLocalWritelock, WakeInv, LockInv, IInv, TypeOK
  <2>2. w.pc = "invalidate"
    BY <1>0 DEF WorkerType
  <2>3. meta'.blocklist = meta.blocklist /\ dirinfos(meta) \in SUBSET Edges
    BY <1>0, <1>3 DEF AcquireLocalWritelock, setWriteflag, MetaType, dirinfos,
                      acquireLocalWritelockByCacheServer
  <2> HIDE DEF w
  <2>4. worker'[e] = w /\ \A f \in Edges : f # e => worker'[f] = worker[f]
    BY <2>1, Zenon DEF WakeInv, LockInv, IInv, TypeOK
  <2>5. RoundStarts("worker", "inv", dirinfos(meta), net)
    BY <1>0, <1>1, <2>1, <2>2, <2>4
       DEF RoundStarts, Collecting, CollectedCall, Collectors
  <2>6. \A f \in Edges : Own(f, net') = Own(f, net)
    <3>1. PICK req : /\ net' = net \cup req
                     /\ \A m \in req : m.type \notin WorkerCalls
      BY <2>1, EdgeCalls
    <3> QED
      BY <3>1, OwnOnly, Zenon
  <2>7. \A f \in Edges : Waiting(f)' <=> Waiting(f)
    BY <1>0, <2>2, <2>4, <2>6 DEF Waiting, Own
  <2> QED
    BY <1>1, <2>3, <2>5, <2>7, GrantWakes DEF Collectors
<1> QED
  BY <1>2, <1>3 DEF AcquireLocalWritelock

\* The beacon's own worker releases the lock.
LEMMA ReleaseLocalWakes ==
    ASSUME WakeInv, LockInv', NEW e \in Edges, ReleaseLocalWritelock(e)
    PROVE  WakeInv'
<1> DEFINE w == [worker[e] EXCEPT !.pc = "notify"]
<1>0. /\ worker[e] \in WorkerType /\ meta \in MetaType /\ IInv'
      /\ worker[e].pc = "written" /\ e = Beacon
  BY Zenon DEF WakeInv, LockInv, IInv, TypeOK, ReleaseLocalWritelock
<1>1. /\ worker' = [worker EXCEPT ![e] = w]
      /\ CallEdges("worker", "fin", meta.blocklist, net)
      /\ UNCHANGED server
  BY Zenon DEF ReleaseLocalWritelock, WakeInv, LockInv, IInv, TypeOK
<1>2. w.pc = "notify"
  BY <1>0 DEF WorkerType
<1>3. meta'.blocklist = {}
  BY <1>0 DEF ReleaseLocalWritelock, releaseLocalWritelock, MetaType
<1>4. fault' = fault
  <2>1. meta.writeflag /\ Beacon \notin meta.blocklist
    BY <1>0, ReleaseLocks DEF WakeInv
  <2> QED
    BY <2>1 DEF ReleaseLocalWritelock, CheckRelease, Check
<1> HIDE DEF w
<1>5. worker'[e] = w /\ \A f \in Edges : f # e => worker'[f] = worker[f]
  BY <1>1, Zenon DEF WakeInv, LockInv, IInv, TypeOK
<1>6. RoundStarts("worker", "fin", meta.blocklist, net)
  BY <1>0, <1>1, <1>2, <1>5
     DEF RoundStarts, Collecting, CollectedCall, Collectors
<1>7. \A f \in Edges : Own(f, net') = Own(f, net)
  <2>1. PICK req : /\ net' = net \cup req
                   /\ \A m \in req : m.type \notin WorkerCalls
    BY <1>1, EdgeCalls, Zenon
  <2> QED
    BY <2>1, OwnOnly, Zenon
<1>8. \A f \in Edges : Waiting(f)' <=> Waiting(f)
  BY <1>0, <1>2, <1>5, <1>7 DEF Waiting, Own
<1> QED
  BY <1>3, <1>4, <1>6, <1>8, ReleaseWakes DEF Collectors

----------------------------------------------------------------------------
(* An edge acknowledges a call *)

\* The acknowledgement takes the place of the request m; only the edge that is
\* notified, if m notifies one, sees a difference.
LEMMA AckMoves ==
    ASSUME WakeInv, NEW m \in Rounds(net), ~m.rsp, SameCollect,
           Rounds(net') = (Rounds(net) \ {m}) \cup {Reply(m, "-")}
    PROVE  /\ FromBeacon(net') /\ \A k \in Collectors : Collected(k)'
           /\ \A f \in Edges : \A k \in Collectors :
                Due(k, f)' <=> /\ Due(k, f)
                               /\ m.type = "inv" \/ f # m.dst \/ m.th # BeaconThread(k)
<1> DEFINE r == Reply(m, "-")
<1>1. m \in MessageType /\ m \in net /\ m.type \in {"inv", "fin"}
  BY DEF WakeInv, LockInv, IInv, NetOK, Rounds
<1>2. r.type = m.type /\ r.th = m.th /\ r.dst = m.dst /\ r.rsp
  BY <1>1 DEF Reply, MessageType, Messages
<1>3. Rounds(net') = (Rounds(net) \ {m}) \cup {r}
  OBVIOUS
<1> HIDE DEF r
<1>4. FromBeacon(net')
  BY <1>2, <1>3 DEF WakeInv, FromBeacon
<1>5. ASSUME NEW k \in Collectors
      PROVE  Collected(k)'
  <2>1. Collected(k)
    BY DEF WakeInv
  <2>2. CASE m.th # BeaconThread(k)
    <3>1. Acks(k, net)' = Acks(k, net)
      BY <1>2, <1>3, <2>2 DEF Acks, BeaconThread
    <3> QED
      BY <2>1, <3>1 DEF Collected, SameCollect
  <2>3. CASE m.th = BeaconThread(k)
    <3>1. Acks(k, net)' = (Acks(k, net) \ {m}) \cup {r} /\ m \in Acks(k, net)
      BY <1>2, <1>3, <2>3 DEF Acks, BeaconThread
    <3>2. /\ Collecting(k) /\ m.type = CollectedCall(k)
          /\ m.dst \in pending[k] /\ m.dst # Beacon
      BY <2>1, <3>1 DEF Collected
    <3>3. \A n \in Acks(k, net)' : /\ Collecting(k)' /\ n.type = CollectedCall(k)'
                                   /\ n.dst \in pending'[k] /\ n.dst # Beacon
      BY <1>2, <2>1, <3>1, <3>2 DEF Collected, SameCollect
    <3>4. \A n, o \in Acks(k, net)' : n.dst = o.dst => n = o
      BY <1>2, <2>1, <3>1 DEF Collected
    <3> QED
      BY <3>3, <3>4 DEF Collected
  <2> QED
    BY <2>2, <2>3
<1>6. ASSUME NEW f \in Edges, NEW k \in Collectors
      PROVE  Due(k, f)' <=> /\ Due(k, f)
                            /\ m.type = "inv" \/ f # m.dst \/ m.th # BeaconThread(k)
  <2>1. \A n : n \in net' /\ n.type = "fin" <=> n \in Rounds(net') /\ n.type = "fin"
    BY DEF Rounds
  <2>2. \A n : n \in net /\ n.type = "fin" <=> n \in Rounds(net) /\ n.type = "fin"
    BY DEF Rounds
  <2>3. (\E n \in net' : n.type = "fin" /\ n.rsp /\ n.dst = f
                          /\ n.th = BeaconThread(k))
        <=> \/ \E n \in net : n.type = "fin" /\ n.rsp /\ n.dst = f
                               /\ n.th = BeaconThread(k)
            \/ m.type = "fin" /\ f = m.dst /\ m.th = BeaconThread(k)
    BY <1>2, <1>3, <2>1, <2>2
  <2> QED
    BY <1>1, <2>3 DEF Due, SameCollect
<1> QED
  BY <1>4, <1>5, <1>6

\* A blocked worker takes its notice.
LEMMA BlockWakes ==
    ASSUME WakeInv, LockInv', NEW e \in Edges, BlockForWritesByInterruption(e)
    PROVE  WakeInv'
<1>0. worker[e] \in WorkerType /\ worker[e].pc = "blocked"
  BY Zenon DEF WakeInv, LockInv, IInv, TypeOK, BlockForWritesByInterruption
<1>1. UNCHANGED <<server, pending, fault, meta>>
  BY DEF BlockForWritesByInterruption
<1>2. PICK m \in net, l \in {"lookup", "acquire"} :
        /\ m.type = "fin" /\ ~m.rsp /\ m.dst = e
        /\ Jump(e, l, (net \ {m}) \cup {Reply(m, "-")})
  BY Zenon DEF BlockForWritesByInterruption
<1> DEFINE ms == (net \ {m}) \cup {Reply(m, "-")}
           w == [worker[e] EXCEPT !.pc = l]
<1>3. Reply(m, "-").type = "fin"
  <2>1. m \in MessageType
    BY DEF WakeInv, LockInv, IInv, NetOK
  <2> QED
    BY <1>2, <2>1 DEF Reply, MessageType, Messages
<1>4. w.pc = l /\ Enter(e, w, ms)
  BY <1>0, <1>2 DEF WorkerType, Jump
<1>5. \A f \in Edges : Own(f, ms) = Own(f, net)
  BY <1>2, <1>3 DEF Own, WorkerCalls
<1>6. Own(e, net) = {}
  BY <1>0, NoCall DEF WakeInv, Remote
<1>7. Rounds(ms) = (Rounds(net) \ {m}) \cup {Reply(m, "-")}
  BY <1>2, <1>3 DEF Rounds
<1> HIDE DEF ms, w
<1>8. /\ \A f \in Edges : f # e => (Waiting(f)' <=> Waiting(f))
      /\ ~Waiting(e)'
      /\ Rounds(net') = Rounds(ms)
      /\ \A f \in Edges : f # e => worker'[f] = worker[f]
  BY <1>4, <1>5, <1>6, MoveWaits
<1>9. e # Beacon
  BY <1>0 DEF WakeInv, Waiting
<1>10. SameCollect
  BY <1>1, <1>8, <1>9, BeaconAssumption
     DEF SameCollect, Collecting, CollectedCall, Collectors
<1>11. m \in Rounds(net) /\ ~m.rsp /\ m.type = "fin" /\ m.dst = e
  BY <1>2 DEF Rounds
<1>12. /\ FromBeacon(net') /\ \A k \in Collectors : Collected(k)'
       /\ \A f \in Edges : \A k \in Collectors :
            Due(k, f)' <=> Due(k, f) /\ (f # e \/ m.th # BeaconThread(k))
  BY <1>7, <1>8, <1>10, <1>11, AckMoves, Zenon
<1>13. Awaited(e)'
  <2>1. PICK k \in Collectors : m.th = BeaconThread(k) /\ Due(k, e)
    BY <1>2, NoticeDue
  <2>2. \A j \in Collectors : ~Due(j, e)'
    BY <1>12, <2>1 DEF WakeInv, Awaited
  <2>3. e \notin meta.blocklist
    BY <2>1, Zenon DEF WakeInv, Awaited
  <2> QED
    BY <1>1, <1>8, <2>2, <2>3 DEF Awaited
<1>14. ASSUME NEW f \in Edges, f # e
       PROVE  Awaited(f)'
  BY <1>1, <1>8, <1>12, <1>14, Zenon DEF WakeInv, Awaited
<1>15. ~Waiting(Beacon)' /\ NoAssertFails'
  BY <1>1, <1>8, <1>9, BeaconAssumption DEF WakeInv, NoAssertFails
<1> QED
  BY <1>12, <1>13, <1>14, <1>15 DEF WakeInv

----------------------------------------------------------------------------
(* The remaining steps *)

\* The writing steps.
LEMMA WriteWakes ==
    ASSUME WakeInv, LockInv', NEW e \in Edges, Write(e)
    PROVE  WakeInv'
<1>0. worker[e] \in WorkerType
  BY Zenon DEF WakeInv, LockInv, IInv, TypeOK
<1>a. \A l : [worker[e] EXCEPT !.pc = l].pc = l
  BY <1>0 DEF WorkerType
<1>1. CASE AcquireBeaconWritelock(e)
  <2>1. worker[e].pc = "acquire" /\ UNCHANGED <<server, pending, fault, meta>>
    BY <1>1 DEF AcquireBeaconWritelock
  <2>2. PICK m \in Responses(W(e), "acquire") :
          IF m.arg = "failure" THEN Jump(e, "blocked", net \ {m})
          ELSE Enter(e, [worker[e] EXCEPT !.pc = "put", !.lock = m.arg],
                     net \ {m})
    BY <1>1, Zenon DEF AcquireBeaconWritelock
  <2>3. m.type = "acquire"
    BY DEF Responses
  <2>4. PICK w : /\ Enter(e, w, net \ {m})
                 /\ w.pc = IF m.arg = "failure" THEN "blocked" ELSE "put"
    <3>1. CASE m.arg = "failure"
      <4>1. Enter(e, [worker[e] EXCEPT !.pc = "blocked"], net \ {m})
        BY <2>2, <3>1 DEF Jump
      <4> QED
        BY <1>a, <3>1, <4>1, Zenon
    <3>2. CASE m.arg # "failure"
      <4>1. [worker[e] EXCEPT !.pc = "put", !.lock = m.arg].pc = "put"
        BY <1>0 DEF WorkerType
      <4>2. Enter(e, [worker[e] EXCEPT !.pc = "put", !.lock = m.arg], net \ {m})
        BY <2>2, <3>2
      <4> QED
        BY <3>2, <4>1, <4>2, Zenon
    <3> QED
      BY <3>1, <3>2
  <2> QED
    BY <2>1, <2>3, <2>4, AnsweredWakes DEF WorkerCalls, CollectPoints, Blocks
<1>2. CASE ReleaseBeaconWritelock(e)
  <2>1. worker[e].pc = "release" /\ UNCHANGED <<server, pending, fault, meta>>
    BY <1>2 DEF ReleaseBeaconWritelock
  <2>2. PICK m \in Responses(W(e), worker[e].pc) : Jump(e, "decide", net \ {m})
    BY <1>2 DEF ReleaseBeaconWritelock
  <2> DEFINE w == [worker[e] EXCEPT !.pc = "decide"]
  <2>3. m.type = worker[e].pc /\ w.pc = "decide" /\ Enter(e, w, net \ {m})
    BY <1>a, <2>2, Zenon DEF Responses, Jump
  <2> HIDE DEF w
  <2> QED
    BY <2>1, <2>2, <2>3, AnsweredWakes DEF WorkerCalls, CollectPoints, Blocks
<1>4. CASE WriteDataToCloud(e)
  <2>1. worker[e].pc = "put" /\ UNCHANGED <<server, pending, fault, meta>>
    BY <1>4 DEF WriteDataToCloud
  <2>2. PICK m \in net : m.type = "put" /\ Jump(e, "update", net \ {m})
    BY <1>4, Zenon DEF WriteDataToCloud, Responses
  <2> DEFINE w == [worker[e] EXCEPT !.pc = "update"]
  <2>3. w.pc = "update" /\ Enter(e, w, net \ {m})
    BY <1>a, <2>2 DEF Jump
  <2> HIDE DEF w
  <2>4. Elsewhere(worker[e].pc) /\ Elsewhere(w.pc)
    BY <2>1, <2>3 DEF Elsewhere, Labels, CollectPoints
  <2>5. Rounds(net \ {m}) = Rounds(net) /\ \A f \in Edges : Own(f, net \ {m}) = Own(f, net)
    BY <2>2 DEF Rounds, Own, WorkerCalls
  <2> QED
    BY <2>1, <2>3, <2>4, <2>5, LocalWakes
<1>3. CASE UpdateLocalEdgeCache(e) \/ FinishWrite(e)
  <2>1. /\ worker[e].pc \in {"update", "written"}
        /\ UNCHANGED <<server, pending, fault, meta>>
    BY <1>3 DEF UpdateLocalEdgeCache, FinishWrite
  <2>2. PICK l \in {"written", "decide", "release"} : Jump(e, l, net)
    BY <1>3 DEF UpdateLocalEdgeCache, FinishWrite
  <2> DEFINE w == [worker[e] EXCEPT !.pc = l]
  <2>3. w.pc = l /\ Enter(e, w, net)
    BY <1>a, <2>2 DEF Jump
  <2> HIDE DEF w
  <2>4. ~Remote(e, worker[e].pc) /\ Elsewhere(worker[e].pc) /\ Elsewhere(w.pc)
    BY <2>1, <2>3 DEF Remote, Elsewhere, Labels, CollectPoints
  <2> QED
    BY <2>1, <2>3, <2>4, OwnWakes
<1> QED
  BY <1>1, <1>2, <1>3, <1>4, AcquireLocalWakes, ReleaseLocalWakes, BlockWakes DEF Write

\* No thread that matters to the calls to the edges moves.
LEMMA OthersWake ==
    ASSUME WakeInv, LockInv', UNCHANGED <<worker, server, pending, fault>>,
           meta'.blocklist = meta.blocklist, Rounds(net') = Rounds(net),
           \A f \in Edges : Own(f, net') = Own(f, net)
    PROVE  WakeInv'
<1>1. \A f \in Edges : Waiting(f)' <=> Waiting(f)
  BY DEF Waiting, Own
<1>2. SameRounds
  BY DEF SameRounds, SameCollect, Collecting, CollectedCall
<1> QED
  BY <1>1, <1>2, NothingWakes

\* Evictions wake nobody.
LEMMA EvictWakes ==
    ASSUME WakeInv, LockInv', NEW e \in Edges, Evict(e)
    PROVE  WakeInv'
<1>1. /\ UNCHANGED <<worker, server, pending, fault>>
      /\ meta'.blocklist = meta.blocklist
  <2>1. meta \in MetaType
    BY Zenon DEF WakeInv, LockInv, IInv, TypeOK
  <2> QED
    BY <2>1 DEF Evict, EvictLocalEdgeCache, EvictLocalDirectory,
                EvictBeaconDirectory, updateDirectoryTable, MetaType
<1>2. Rounds(net') = Rounds(net) /\ \A f \in Edges : Own(f, net') = Own(f, net)
  <2>1. CASE UNCHANGED net
    BY <2>1
  <2>2. CASE Call(E(e), "evict", {e}, 0, net)
    <3> DEFINE s == CHOOSE s \in Unused(E(e), net) : TRUE
               req == Requests(E(e), "evict", {e}, s, 0, 0)
    <3>1. net' = net \cup req
      BY <2>2 DEF Call
    <3>2. \A m \in req : m.type = "evict"
      BY DEF Requests
    <3> HIDE DEF req
    <3> QED
      BY <3>1, <3>2 DEF Own, WorkerCalls, Rounds
  <2>3. CASE EvictBeaconDirectory(e)
    <3>1. PICK m \in net : m.type = "evict" /\ net' = net \ {m}
      BY <2>3 DEF EvictBeaconDirectory, Responses
    <3> QED
      BY <3>1 DEF Own, WorkerCalls, Rounds
  <2> QED
    BY <2>1, <2>2, <2>3, Zenon DEF Evict, EvictLocalEdgeCache, EvictLocalDirectory
<1> QED
  BY <1>1, <1>2, OthersWake

\* A worker's call is answered: its edge joins the blocklist exactly when the
\* answer makes it wait.
LEMMA AnswerWakes ==
    ASSUME WakeInv, LockInv', NEW e \in Edges, NEW m \in Own(e, net), ~m.rsp,
           NEW arg, net' = (net \ {m}) \cup {Reply(m, arg)},
           UNCHANGED <<worker, server, pending>>,
           meta'.blocklist = IF Blocks(Reply(m, arg)) THEN meta.blocklist \cup {e}
                             ELSE meta.blocklist,
           fault' = fault \/ CheckBlock(e)
    PROVE  WakeInv'
<1> DEFINE r == Reply(m, arg)
<1>1. m \in MessageType /\ m.type \in WorkerCalls /\ m.th = W(e)
  BY Zenon DEF WakeInv, LockInv, IInv, NetOK, Own
<1>2. r.type = m.type /\ r.th = m.th /\ r.rsp
  BY <1>1, Zenon DEF Reply, MessageType, Messages
<1>3. net' = (net \ {m}) \cup {r} /\ (Blocks(r) <=> Blocks(Reply(m, arg)))
  OBVIOUS
<1> HIDE DEF r
<1>4. Own(e, net) = {m} /\ m.type = worker[e].pc /\ Remote(e, m.type)
  BY ZenonT(30) DEF WakeInv, LockInv, Disciplined
<1>5. Own(e, net') = {r} /\ \A f \in Edges : f # e => Own(f, net') = Own(f, net)
  BY <1>1, <1>2, <1>3, <1>4, OwnApart DEF Own
<1>6. ~Waiting(e) /\ (Waiting(e)' <=> Blocks(r))
  BY <1>1, <1>2, <1>4, <1>5, Zenon DEF Waiting, Blocks, WorkerCalls, Own
<1>7. \A f \in Edges : f # e => (Waiting(f)' <=> Waiting(f))
  BY <1>5 DEF Waiting, Own
<1>8. SameRounds
  <2>1. Rounds(net') = Rounds(net)
    BY <1>1, <1>2, <1>3, Zenon DEF Rounds, WorkerCalls
  <2> QED
    BY <2>1 DEF SameRounds, SameCollect, Collecting, CollectedCall
<1>9. Awaited(e) /\ e \notin meta.blocklist /\ \A k \in Collectors : ~Due(k, e)
  BY <1>6, Zenon DEF WakeInv, Awaited
<1>10. fault' = fault
  BY <1>9 DEF CheckBlock, Check
<1>11. CASE ~Blocks(r)
  BY <1>3, <1>6, <1>7, <1>8, <1>10, <1>11, NothingWakes, Zenon
<1>12. CASE Blocks(r)
  <2>1. /\ FromBeacon(net') /\ \A k \in Collectors : Collected(k)'
        /\ \A f \in Edges : \A k \in Collectors : Due(k, f)' <=> Due(k, f)
    BY <1>8, RoundsStay
  <2>2. meta'.blocklist = meta.blocklist \cup {e}
    BY <1>3, <1>12, Zenon
  <2>3. Awaited(e)'
    BY <1>6, <1>9, <1>12, <2>1, <2>2, Zenon DEF Awaited
  <2>4. ASSUME NEW f \in Edges, f # e
        PROVE  Awaited(f)'
    BY <1>7, <2>1, <2>2, <2>4, Zenon DEF Awaited, WakeInv
  <2>5. e # Beacon
    BY <1>2, <1>4, <1>12 DEF Blocks, Remote
  <2>6. ~Waiting(Beacon)' /\ NoAssertFails'
    BY <1>7, <1>10, <2>5, BeaconAssumption, Zenon DEF WakeInv, NoAssertFails
  <2> QED
    BY <2>1, <2>3, <2>4, <2>6, Zenon DEF WakeInv
<1> QED
  BY <1>11, <1>12

\* The beacon server takes request m of edge e and calls the edges.
LEMMA TakeWakes ==
    ASSUME WakeInv, NEW e \in Edges, NEW m \in Own(e, net), ~m.rsp, server = {},
           m.type \in {"acquire", "release"}, server' = {m}, UNCHANGED worker,
           NEW dsts \in SUBSET Edges,
           CallEdges("server", IF m.type = "acquire" THEN "inv" ELSE "fin", dsts,
                     net \ {m})
    PROVE  /\ RoundStarts("server", IF m.type = "acquire" THEN "inv" ELSE "fin",
                          dsts, net \ {m})
           /\ \A f \in Edges : Waiting(f)' <=> Waiting(f)
<1>1. PICK req : /\ net' = (net \ {m}) \cup req
                 /\ \A n \in req : n.type \notin WorkerCalls
  BY EdgeCalls, Zenon
<1>2. \A f \in Edges : \A n : n \in Own(f, net') /\ n.rsp
                             <=> n \in Own(f, net) /\ n.rsp
  BY <1>1, Zenon DEF Own
<1>3. \A f \in Edges : Waiting(f)' <=> Waiting(f)
  BY <1>2 DEF Waiting, Own
<1>4. Rounds(net \ {m}) = Rounds(net)
  BY DEF Rounds
<1> QED
  BY <1>3, <1>4 DEF RoundStarts, Collectors, Collecting, CollectedCall

\* The steps of the beacon server.
LEMMA ServerWakes ==
    ASSUME WakeInv, LockInv', NEW e \in Edges, BeaconServer(e)
    PROVE  WakeInv'
<1>0. meta \in MetaType /\ LockInv
  BY Zenon DEF WakeInv, LockInv, IInv, TypeOK
<1>1. CASE ProcessDirectoryLookupRequest(e)
  <2>1. PICK m \in BeaconRequests(e, {"lookup"}) :
          \E arg \in IF meta.writeflag THEN {"written"}
                     ELSE IF lookupTargets(meta, e) = {} THEN {"none"}
                     ELSE lookupTargets(meta, e) :
            net' = (net \ {m}) \cup {Reply(m, arg)}
    BY <1>1 DEF ProcessDirectoryLookupRequest
  <2>2. PICK arg \in IF meta.writeflag THEN {"written"}
                     ELSE IF lookupTargets(meta, e) = {} THEN {"none"}
                     ELSE lookupTargets(meta, e) :
            net' = (net \ {m}) \cup {Reply(m, arg)}
    BY <2>1
  <2>3. m \in Own(e, net) /\ ~m.rsp /\ m.type = "lookup"
    BY <1>0, RequestOwn DEF WorkerCalls
  <2>4. /\ UNCHANGED <<worker, server, pending>> /\ CheckBlock(e)
        /\ meta' = lookupByBeaconServer(meta, e)
    BY <1>1 DEF ProcessDirectoryLookupRequest
  <2>5. arg = "written" <=> meta.writeflag
    <3>1. lookupTargets(meta, e) \subseteq Edges
      BY <1>0 DEF lookupTargets, MetaType, dirinfos
    <3> QED
      BY <2>2, <3>1, NamesAssumption
  <2>6. Blocks(Reply(m, arg)) <=> meta.writeflag
    <3>1. m \in MessageType
      BY <2>3 DEF WakeInv, LockInv, IInv, NetOK, Own
    <3>2. Reply(m, arg).type = "lookup" /\ Reply(m, arg).arg = arg
      BY <2>3, <3>1 DEF Reply, MessageType, Messages
    <3> QED
      BY <2>5, <3>2, ZenonT(30) DEF Blocks
  <2>7. meta'.blocklist = IF meta.writeflag THEN meta.blocklist \cup {e}
                          ELSE meta.blocklist
    BY <1>0, <2>4 DEF lookupByBeaconServer, blockEdge, MetaType
  <2> QED
    BY <2>2, <2>3, <2>4, <2>6, <2>7, AnswerWakes
<1>2. CASE ProcessDirectoryUpdateRequest(e)
  <2>1. PICK m \in BeaconRequests(e, {"admit", "evict"}) :
          /\ meta' = updateDirectoryTable(meta, e, m.type = "admit")
          /\ \E arg : net' = (net \ {m}) \cup {Reply(m, arg)}
    BY <1>2 DEF ProcessDirectoryUpdateRequest
  <2>2. PICK arg : net' = (net \ {m}) \cup {Reply(m, arg)}
    BY <2>1
  <2>3. /\ UNCHANGED <<worker, server, pending, fault>>
        /\ meta'.blocklist = meta.blocklist
    BY <1>0, <1>2, <2>1
       DEF ProcessDirectoryUpdateRequest, updateDirectoryTable, MetaType
  <2>4. /\ m \in net /\ m \in MessageType /\ m.type \in {"admit", "evict"}
        /\ ~m.rsp
    BY Zenon DEF BeaconRequests, WakeInv, LockInv, IInv, NetOK
  <2>5. Reply(m, arg).type = m.type
    BY <2>4 DEF Reply, MessageType, Messages
  <2>6. CASE m.type = "admit"
    <3>1. m \in BeaconRequests(e, {"admit"})
      BY <2>6 DEF BeaconRequests
    <3>2. m \in Own(e, net)
      BY <1>0, <3>1, RequestOwn DEF WorkerCalls
    <3>3. ~Blocks(Reply(m, arg))
      BY <2>5, <2>6 DEF Blocks
    <3> QED
      BY <2>2, <2>3, <2>4, <3>2, <3>3, AnswerWakes, Zenon
  <2>7. CASE m.type = "evict"
    <3>1. Rounds(net') = Rounds(net) /\ \A f \in Edges : Own(f, net') = Own(f, net)
      BY <2>2, <2>5, <2>7 DEF Own, WorkerCalls, Rounds
    <3> QED
      BY <2>3, <3>1, OthersWake
  <2> QED
    BY <2>4, <2>6, <2>7
<1>3. CASE ProcessAcquireWritelockRequest(e)
  <2>1. PICK m \in BeaconRequests(e, {"acquire"}) :
          IF lockResult(meta) = "success"
            THEN /\ CallEdges("server", "inv", dirinfos(meta), net \ {m})
                 /\ server' = {m}
                 /\ fresh' = {}
            ELSE /\ net' = (net \ {m}) \cup {Reply(m, lockResult(meta))}
                 /\ UNCHANGED <<server, pending, seq, fresh>>
    BY <1>3 DEF ProcessAcquireWritelockRequest
  <2>2. m \in Own(e, net) /\ ~m.rsp /\ m.type = "acquire" /\ server = {}
    BY <1>0, RequestOwn DEF WorkerCalls
  <2>3. /\ worker' = worker /\ meta' = acquireLocalWritelockByBeaconServer(meta, e)
        /\ IF lockResult(meta) = "failure" THEN CheckBlock(e) ELSE UNCHANGED fault
    BY <1>3, Zenon DEF ProcessAcquireWritelockRequest
  <2>4. CASE lockResult(meta) = "success"
    <3>1. server' = {m} /\ CallEdges("server", "inv", dirinfos(meta), net \ {m})
      BY <2>1, <2>4
    <3>2. dirinfos(meta) \in SUBSET Edges /\ meta'.blocklist = meta.blocklist
      BY <1>0, <2>3, <2>4, Zenon DEF acquireLocalWritelockByBeaconServer, setWriteflag,
                              MetaType, dirinfos
    <3>3. /\ RoundStarts("server", "inv", dirinfos(meta), net \ {m})
          /\ \A f \in Edges : Waiting(f)' <=> Waiting(f)
      BY <2>2, <2>3, <3>1, <3>2, TakeWakes, ZenonT(30)
    <3> QED
      BY <2>3, <2>4, <3>2, <3>3, GrantWakes DEF Collectors
  <2>5. CASE lockResult(meta) # "success"
    <3> DEFINE arg == lockResult(meta)
    <3>1. /\ net' = (net \ {m}) \cup {Reply(m, arg)}
          /\ UNCHANGED <<server, pending>>
      BY <2>1, <2>5
    <3>2. Blocks(Reply(m, arg)) <=> arg = "failure"
      <4>1. m \in MessageType
        BY <2>2, Zenon DEF WakeInv, LockInv, IInv, NetOK, Own
      <4>2. Reply(m, arg).type = "acquire" /\ Reply(m, arg).arg = arg
        BY <2>2, <4>1 DEF Reply, MessageType, Messages
      <4> QED
        BY <4>2 DEF Blocks
    <3>3. meta'.blocklist = IF arg = "failure" THEN meta.blocklist \cup {e}
                            ELSE meta.blocklist
      BY <1>0, <2>3, <2>5 DEF acquireLocalWritelockByBeaconServer, blockEdge,
                              MetaType
    <3>4. fault' = fault \/ CheckBlock(e)
      BY <2>3
    <3> HIDE DEF arg
    <3> QED
      BY <2>2, <2>3, <3>1, <3>2, <3>3, <3>4, AnswerWakes
  <2> QED
    BY <2>4, <2>5
<1>4. CASE ProcessReleaseWritelockRequest(e)
  <2>1. PICK m \in BeaconRequests(e, {"release"}) :
          /\ CallEdges("server", "fin", meta.blocklist, net \ {m})
          /\ server' = {m}
    BY <1>4 DEF ProcessReleaseWritelockRequest
  <2>2. m \in Own(e, net) /\ ~m.rsp /\ m.type = "release" /\ server = {}
    BY <1>0, RequestOwn DEF WorkerCalls
  <2>3. /\ worker' = worker /\ meta' = releaseLocalWritelock(meta, e)
        /\ CheckRelease
    BY <1>4 DEF ProcessReleaseWritelockRequest
  <2>4. meta'.blocklist = {} /\ meta.blocklist \in SUBSET Edges
    BY <1>0, <2>3, Zenon DEF releaseLocalWritelock, MetaType
  <2>5. /\ RoundStarts("server", "fin", meta.blocklist, net \ {m})
        /\ \A f \in Edges : Waiting(f)' <=> Waiting(f)
    BY <2>1, <2>2, <2>3, <2>4, TakeWakes
  <2>6. fault' = fault
    <3>1. Granted(e)
      BY <1>0, <2>2, CallerHolds, Zenon
    <3>2. meta.writeflag /\ Beacon \notin meta.blocklist
      BY <3>1, Zenon
         DEF WakeInv, LockInv, IInv, BeaconConsistent, FlagMeansHeld, Holders
    <3> QED
      BY <2>3, <3>2 DEF CheckRelease, Check
  <2> QED
    BY <2>4, <2>5, <2>6, ReleaseWakes, Zenon DEF Collectors
<1> QED
  BY <1>1, <1>2, <1>3, <1>4 DEF BeaconServer

\* Thread k has all acknowledgements and goes on.
LEMMA RoundEnds ==
    ASSUME WakeInv, LockInv', NEW k \in Collectors, pending[k] = {},
           ~Collecting(k)', Rounds(net') = Rounds(net), UNCHANGED <<pending, fault>>,
           \A j \in Collectors : j # k =>
             /\ Collecting(j)' <=> Collecting(j)
             /\ Collecting(j) => CollectedCall(j)' = CollectedCall(j),
           \A e \in Edges : Waiting(e)' <=> Waiting(e),
           meta'.blocklist = meta.blocklist
    PROVE  WakeInv'
<1>1. \A j \in Collectors : Acks(j, net)' = Acks(j, net)
  BY Zenon DEF Acks, BeaconThread
<1>2. FromBeacon(net')
  BY Zenon DEF WakeInv, FromBeacon
<1>3. Acks(k, net) = {}
  BY Zenon DEF WakeInv, Collected
<1>4. ASSUME NEW j \in Collectors
      PROVE  Collected(j)'
  <2>1. Collected(j)
    BY DEF WakeInv
  <2> QED
    BY <1>1, <1>3, <2>1, Zenon DEF Collected
<1>5. ASSUME NEW e \in Edges, NEW j \in Collectors
      PROVE  Due(j, e)' <=> Due(j, e)
  <2>1. \A n : n \in net' /\ n.type = "fin" <=> n \in net /\ n.type = "fin"
    BY Zenon DEF Rounds
  <2> QED
    BY <2>1, Zenon DEF Due
<1> QED
  BY <1>2, <1>4, <1>5, DuesStay, Zenon

\* Thread k takes the acknowledgement of edge d, or serves its own edge: the
\* messages ms, about edge d only, have been taken.
LEMMA AckTaken ==
    ASSUME WakeInv, LockInv', NEW k \in Collectors, NEW d \in Edges,
           pending' = [pending EXCEPT ![k] = @ \ {d}], Collecting(k),
           NEW ms \in SUBSET net, net' = net \ ms,
           \A m \in ms : m \in Acks(k, net) /\ m.rsp /\ m.dst = d,
           d = Beacon \/ ms # {}, UNCHANGED <<worker, server, meta, fault>>
    PROVE  WakeInv'
<1>0. \A j \in Collectors : /\ Collecting(j)' <=> Collecting(j)
                            /\ CollectedCall(j)' = CollectedCall(j)
  BY DEF Collecting, CollectedCall
<1>1. /\ pending'[k] = pending[k] \ {d}
      /\ \A j \in Collectors : j # k => pending'[j] = pending[j]
  <2>1. pending \in [Collectors -> SUBSET Edges]
    BY Zenon DEF WakeInv, LockInv, IInv, TypeOK, Collectors
  <2> QED
    BY <2>1
<1>2. \A j \in Collectors : /\ Acks(j, net)' = Acks(j, net) \ ms
                            /\ j # k => Acks(j, net)' = Acks(j, net)
  BY DEF Acks, Rounds, BeaconThread
<1>3. FromBeacon(net')
  BY DEF WakeInv, FromBeacon, Rounds
<1>4. ASSUME NEW j \in Collectors
      PROVE  Collected(j)'
  <2>1. Collected(j) /\ Collected(k)
    BY DEF WakeInv
  <2>2. \A m \in Acks(k, net) : m \notin ms => m.dst # d
    BY <2>1 DEF Collected
  <2>3. CASE j = k
    <3>1. Acks(k, net)' = Acks(k, net) \ ms
      BY <1>2, Zenon
    <3>2. \A m \in Acks(k, net)' : /\ Collecting(k)' /\ m.type = CollectedCall(k)'
                                   /\ m.dst \in pending'[k] /\ m.dst # Beacon
      BY <1>0, <1>1, <2>1, <2>2, <3>1, Zenon DEF Collected
    <3>3. \A m, n \in Acks(k, net)' : m.dst = n.dst => m = n
      BY <2>1, <3>1 DEF Collected
    <3> QED
      BY <2>3, <3>2, <3>3, Zenon DEF Collected
  <2>4. CASE j # k
    BY <1>0, <1>1, <1>2, <2>1, <2>4, Zenon DEF Collected
  <2> QED
    BY <2>3, <2>4
<1>5. \A f \in Edges : Waiting(f)' <=> Waiting(f)
  <2>1. \A f \in Edges : Own(f, net') = Own(f, net)
    BY DEF Own, WorkerCalls, Acks, Rounds
  <2> QED
    BY <2>1 DEF Waiting, Own
<1>6. ASSUME NEW f \in Edges, NEW j \in Collectors
      PROVE  Due(j, f)' <=> Due(j, f)
  <2>1. CASE j # k
    <3>1. (\E n \in net' : n.type = "fin" /\ n.rsp /\ n.dst = f
                            /\ n.th = BeaconThread(j))
          <=> (\E n \in net : n.type = "fin" /\ n.rsp /\ n.dst = f
                               /\ n.th = BeaconThread(j))
      BY <2>1, SMTT(30) DEF Acks, BeaconThread
    <3> QED
      BY <1>0, <1>1, <2>1, <3>1, Zenon DEF Due
  <2>2. CASE j = k /\ f # d
    <3>1. (\E n \in net' : n.type = "fin" /\ n.rsp /\ n.dst = f
                            /\ n.th = BeaconThread(k))
          <=> (\E n \in net : n.type = "fin" /\ n.rsp /\ n.dst = f
                               /\ n.th = BeaconThread(k))
      BY <2>2, SMTT(30)
    <3> QED
      BY <1>0, <1>1, <2>2, <3>1, Zenon DEF Due
  <2>3. CASE j = k /\ f = d
    <3>1. ~Due(k, d)'
      BY <1>1, Zenon DEF Due
    <3>2. CASE d = Beacon
      BY <2>3, <3>1, <3>2, Zenon DEF WakeInv, Awaited
    <3>3. CASE ms # {}
      <4>1. PICK m \in ms : m \in Acks(k, net) /\ m.rsp /\ m.dst = d
        BY <3>3, Zenon
      <4>2. m.type = CollectedCall(k) /\ m.th = BeaconThread(k) /\ m \in net
        BY <4>1 DEF WakeInv, Collected, Acks
      <4> QED
        BY <2>3, <3>1, <4>1, <4>2, Zenon DEF Due
    <3> QED
      BY <3>2, <3>3, Zenon
  <2> QED
    BY <2>1, <2>2, <2>3, Zenon
<1> QED
  BY <1>3, <1>4, <1>5, <1>6, DuesStay, Zenon

\* The collection of acknowledgements, the invalidation processors and the
\* cloud.
LEMMA CollectWakes ==
    ASSUME WakeInv, LockInv',
           \/ Collect \/ ProcessGlobalPutRequest
           \/ \E e \in Edges : ProcessInvalidationRequest(e)
    PROVE  WakeInv'
<1>1. CASE \E k \in {"server", "worker"} : InvalidateOwnCopy(k)
  <2>1. PICK k \in Collectors : InvalidateOwnCopy(k)
    BY <1>1 DEF Collectors
  <2>2. net' = net \ {}
    BY <2>1 DEF InvalidateOwnCopy
  <2>3. /\ pending' = [pending EXCEPT ![k] = @ \ {Beacon}] /\ Collecting(k)
        /\ UNCHANGED <<worker, server, meta, fault>>
    BY <2>1 DEF InvalidateOwnCopy
  <2> DEFINE ms == {}
  <2>4. /\ ms \in SUBSET net /\ net' = net \ ms
        /\ \A m \in ms : m \in Acks(k, net) /\ m.rsp /\ m.dst = Beacon
    BY <2>2
  <2> HIDE DEF ms
  <2> QED
    BY <2>3, <2>4, AckTaken, BeaconAssumption, Zenon
<1>2. CASE \E k \in {"server", "worker"} : ReceiveAck(k)
  <2>1. PICK k \in Collectors : ReceiveAck(k)
    BY <1>2 DEF Collectors
  <2>2. PICK m \in Responses(BeaconThread(k), "inv")
                    \cup Responses(BeaconThread(k), "fin") :
          /\ Check(m.dst \in pending[k], "acknowledged twice")
          /\ pending' = [pending EXCEPT ![k] = @ \ {m.dst}]
          /\ net' = net \ {m}
    BY <2>1, Zenon DEF ReceiveAck
  <2>3. m \in net /\ m \in Acks(k, net) /\ m.rsp
    BY DEF Responses, Acks, Rounds
  <2>4. m.dst \in pending[k] /\ m.dst \in Edges
    <3>1. m.dst \in pending[k]
      BY <2>3 DEF WakeInv, Collected
    <3>2. pending[k] \subseteq Edges
      BY Zenon DEF WakeInv, LockInv, IInv, TypeOK, Collectors
    <3> QED
      BY <3>1, <3>2, Zenon
  <2>5. UNCHANGED <<worker, server, meta, fault>> /\ Collecting(k)
    BY <2>1, <2>2, <2>4, Zenon DEF ReceiveAck, Check
  <2> DEFINE ms == {m}
             d == m.dst
  <2>6. /\ ms \in SUBSET net /\ net' = net \ ms /\ ms # {} /\ d \in Edges
        /\ \A n \in ms : n \in Acks(k, net) /\ n.rsp /\ n.dst = d
        /\ pending' = [pending EXCEPT ![k] = @ \ {d}]
    BY <2>2, <2>3, <2>4, Zenon
  <2> HIDE DEF ms, d
  <2> QED
    BY <2>5, <2>6, AckTaken, Zenon
<1>3. CASE ServerCollected
  <2>1. PICK m \in server :
          net' = net \cup {Reply(m, IF m.type = "acquire" THEN "success" ELSE "-")}
    BY <1>3 DEF ServerCollected
  <2> DEFINE r == Reply(m, IF m.type = "acquire" THEN "success" ELSE "-")
  <2>2. m \in MessageType /\ m.type \in {"acquire", "release"}
    BY Zenon DEF WakeInv, LockInv, IInv, NetOK
  <2>3. /\ r.type = m.type /\ r.rsp
        /\ r.arg = IF m.type = "acquire" THEN "success" ELSE "-"
    BY <2>2 DEF Reply, MessageType, Messages
  <2>4. net' = net \cup {r}
    BY <2>1
  <2> HIDE DEF r
  <2>5. /\ server' = {} /\ UNCHANGED <<worker, pending, meta, fault>>
        /\ pending["server"] = {}
    BY <1>3 DEF ServerCollected
  <2>6. Rounds(net') = Rounds(net)
    BY <2>2, <2>3, <2>4, Zenon DEF Rounds
  <2>7. ASSUME NEW e \in Edges
        PROVE  Waiting(e)' <=> Waiting(e)
    <3>1. Own(e, net') = Own(e, net) \/ Own(e, net') = Own(e, net) \cup {r}
      BY <2>4 DEF Own
    <3>2. ~(r.type = "lookup" /\ r.arg = "written")
          /\ ~(r.type = "acquire" /\ r.arg = "failure")
      BY <2>2, <2>3, Zenon
    <3> QED
      BY <2>5, <3>1, <3>2 DEF Waiting, Own
  <2> QED
    BY <2>5, <2>6, <2>7, RoundEnds, Zenon DEF Collectors, Collecting, CollectedCall
<1>4. CASE WorkerCollected
  <2>0. worker[Beacon] \in WorkerType
    BY BeaconAssumption, Zenon DEF WakeInv, LockInv, IInv, TypeOK
  <2>1. /\ worker[Beacon].pc \in {"invalidate", "notify"}
        /\ pending["worker"] = {} /\ UNCHANGED <<server, pending, meta, fault>>
    BY <1>4 DEF WorkerCollected, Collecting
  <2>2. PICK l \in {"put", "decide"} : Jump(Beacon, l, net)
    BY <1>4 DEF WorkerCollected
  <2> DEFINE w == [worker[Beacon] EXCEPT !.pc = l]
  <2>3. w.pc = l /\ Enter(Beacon, w, net)
    BY <2>0, <2>2, Zenon DEF Jump, WorkerType
  <2> HIDE DEF w
  <2>4. Own(Beacon, net) = {}
    <3>1. ~Remote(Beacon, worker[Beacon].pc)
      BY <2>1, Zenon DEF Remote
    <3> QED
      BY <3>1, NoCall, BeaconAssumption DEF WakeInv
  <2>5. /\ \A f \in Edges : f # Beacon => (Waiting(f)' <=> Waiting(f))
        /\ Waiting(Beacon)' <=> w.pc = "blocked"
        /\ Rounds(net') = Rounds(net)
        /\ worker'[Beacon] = w
    BY <2>3, <2>4, MoveWaits, BeaconAssumption, Zenon
  <2>6. ~Waiting(Beacon) /\ ~Waiting(Beacon)'
    BY <2>3, <2>5 DEF WakeInv
  <2> QED
    BY <2>1, <2>3, <2>5, <2>6, RoundEnds, Zenon DEF Collectors, Collecting, CollectedCall
<1>5. CASE ProcessGlobalPutRequest
  <2>1. PICK m \in net : /\ m.type = "put" /\ ~m.rsp
                         /\ net' = (net \ {m}) \cup {Reply(m, "-")}
    BY <1>5 DEF ProcessGlobalPutRequest
  <2>2. UNCHANGED <<worker, server, pending, meta, fault>>
    BY <1>5 DEF ProcessGlobalPutRequest
  <2>3. Reply(m, "-").type = "put"
    <3>1. m \in MessageType
      BY DEF WakeInv, LockInv, IInv, NetOK
    <3> QED
      BY <2>1, <3>1, Zenon DEF Reply, MessageType, Messages
  <2>4. Rounds(net') = Rounds(net) /\ \A f \in Edges : Own(f, net') = Own(f, net)
    BY <2>1, <2>3 DEF Rounds, Own, WorkerCalls
  <2> QED
    BY <2>2, <2>4, OthersWake
<1>6. CASE \E e \in Edges : ProcessInvalidationRequest(e)
  <2>1. PICK m \in net : /\ m.type = "inv" /\ ~m.rsp
                         /\ net' = (net \ {m}) \cup {Reply(m, "-")}
    BY <1>6 DEF ProcessInvalidationRequest
  <2>2. UNCHANGED <<worker, server, pending, meta, fault>>
    BY <1>6 DEF ProcessInvalidationRequest
  <2>3. Reply(m, "-").type = "inv"
    <3>1. m \in MessageType
      BY DEF WakeInv, LockInv, IInv, NetOK
    <3> QED
      BY <2>1, <3>1 DEF Reply, MessageType, Messages
  <2>4. m \in Rounds(net) /\ Rounds(net') = (Rounds(net) \ {m}) \cup {Reply(m, "-")}
    BY <2>1, <2>3 DEF Rounds
  <2>5. \A f \in Edges : Waiting(f)' <=> Waiting(f)
    <3>1. \A f \in Edges : Own(f, net') = Own(f, net)
      BY <2>1, <2>3 DEF Own, WorkerCalls
    <3> QED
      BY <2>2, <3>1 DEF Waiting, Own
  <2>6. SameCollect
    BY <2>2 DEF SameCollect, Collecting, CollectedCall
  <2>7. /\ FromBeacon(net') /\ \A k \in Collectors : Collected(k)'
        /\ \A f \in Edges : \A k \in Collectors : Due(k, f)' <=> Due(k, f)
    BY <2>1, <2>4, <2>6, AckMoves, Zenon
  <2> QED
    BY <2>2, <2>5, <2>7, DuesStay, Zenon
<1> QED
  BY <1>1, <1>2, <1>3, <1>4, <1>5, <1>6 DEF Collect

----------------------------------------------------------------------------
(* The theorems *)

\* Initially nobody waits and nobody collects.
LEMMA InitWakes == Init => WakeInv
<1> SUFFICES ASSUME Init PROVE WakeInv
  OBVIOUS
<1>1. LockInv
  BY InitLocks
<1>2. net = {} /\ meta.blocklist = {} /\ NoAssertFails
  BY Zenon DEF Init, InitMeta, NoAssertFails
<1>3. ASSUME NEW e \in Edges
      PROVE  ~Waiting(e) /\ \A k \in Collectors : ~Due(k, e)
  <2>1. worker[e].pc = "idle"
    BY Zenon DEF Init, IdleWorker
  <2> QED
    BY <1>2, <2>1, Zenon DEF Waiting, Own, Due, Init, Collectors
<1>4. FromBeacon(net) /\ \A k \in Collectors : Collected(k)
  BY <1>2 DEF FromBeacon, Rounds, Collected, Acks
<1> QED
  BY <1>1, <1>2, <1>3, <1>4, BeaconAssumption DEF WakeInv, Awaited

\* Every step keeps the invariant.
LEMMA NextWakes == WakeInv /\ [Next]_vars => WakeInv'
<1> SUFFICES ASSUME WakeInv, [Next]_vars PROVE WakeInv'
  OBVIOUS
<1>0. LockInv'
  BY NextLocks DEF WakeInv
<1>1. CASE UNCHANGED vars
  BY <1>0, <1>1, OthersWake DEF vars
<1>2. CASE Next
  BY <1>0, <1>2, ReadWakes, AdmitWakes, WriteWakes, EvictWakes, ServerWakes,
     CollectWakes DEF Next
<1> QED
  BY <1>1, <1>2

\* The invariant holds in every reachable state.
LEMMA AlwaysWakes == Spec => []WakeInv
BY InitWakes, NextWakes, PTL DEF Spec

\* No assertion of the code fails: the lock is held when it is released, no
\* edge is blocked twice and none acknowledges a call twice.
THEOREM AssertionsHold == Spec => []NoAssertFails
<1>1. WakeInv => NoAssertFails
  BY DEF WakeInv
<1> QED
  BY <1>1, AlwaysWakes, PTL

\* A blocked edge is awaited.
LEMMA BlockedAwaited == WakeInv => NoLostWakeup
<1> SUFFICES ASSUME WakeInv, NEW e \in Edges
             PROVE  /\ worker[e].pc = "blocked" =>
                         e \in meta.blocklist \/ Notifying(e)
                    /\ e \in meta.blocklist =>
                         \/ worker[e].pc = "blocked"
                         \/ \E m \in net : /\ m.rsp /\ m.th = W(e)
                                           /\ m.arg \in {"written", "failure"}
  BY Zenon DEF NoLostWakeup
<1>1. Awaited(e)
  BY DEF WakeInv
<1> QED
  BY <1>1, Zenon DEF Awaited, Waiting, Own, Due, Notifying, Collectors

\* No wake-up is lost: a blocked edge is in the blocklist or is being notified,
\* and the blocklist holds only edges that wait or are about to.
THEOREM WakeupsArrive == Spec => []NoLostWakeup
BY BlockedAwaited, AlwaysWakes, PTL

----------------------------------------------------------------------------
(* The writes *)

\* The labels at which a worker admits a copy.
Installs == {"installValid", "installInvalid"}
AdmitPoints == {"admit"} \cup Installs

\* What is left after a worker received a message.
LEMMA Fewer ==
    ASSUME TRUE
    PROVE  net \subseteq net /\ \A m : net \ {m} \subseteq net
OBVIOUS

\* The labels of the reading steps and of the steps that start a write.
PlainLabels == Labels \ (AdmitPoints \cup CollectPoints \cup {"written", "release"})

\* The client steps and the reading steps move the worker to such a label.
LEMMA ReadEnters ==
    ASSUME NEW e \in Edges, worker[e] \in WorkerType, Client(e) \/ Read(e)
    PROVE  \E w, ms : Enter(e, w, ms) /\ ms \subseteq net /\ w.pc \in PlainLabels
<1>a. \A l : [worker[e] EXCEPT !.pc = l].pc = l
  BY DEF WorkerType
<1>c. \A l \in {"fetched", "lookup", "acquire", "redirect", "cloudget", "missed",
                "decide", "blocked", "idle"} : l \in PlainLabels
  BY DEF PlainLabels, Labels, AdmitPoints, Installs, CollectPoints
<1>1. CASE Get(e)
  <2>1. /\ [worker[e] EXCEPT !.pc = "fetched", !.op = "get",
                             !.val = cache[e].val].pc = "fetched"
        /\ [worker[e] EXCEPT !.pc = "lookup", !.op = "get"].pc = "lookup"
    BY DEF WorkerType
  <2>2. "fetched" \in PlainLabels /\ "lookup" \in PlainLabels
    BY <1>c
  <2>3. CASE cache[e].st = "valid"
    <3>1. Enter(e, [worker[e] EXCEPT !.pc = "fetched", !.op = "get",
                                     !.val = cache[e].val], net)
      BY <1>1, <2>3 DEF Get
    <3> QED
      BY <2>1, <2>2, <3>1, Fewer, Zenon
  <2>4. CASE cache[e].st # "valid"
    <3>1. Enter(e, [worker[e] EXCEPT !.pc = "lookup", !.op = "get"], net)
      BY <1>1, <2>4 DEF Get
    <3> QED
      BY <2>1, <2>2, <3>1, Fewer, Zenon
  <2> QED
    BY <2>3, <2>4
<1>2. CASE Put(e)
  <2>1. [worker[e] EXCEPT !.pc = "acquire", !.op = "put",
                          !.val = nver + 1].pc = "acquire"
    BY DEF WorkerType
  <2>2. "acquire" \in PlainLabels
    BY <1>c
  <2> QED
    BY <1>2, <2>1, <2>2, Fewer, Zenon DEF Put
<1>3. CASE LookupLocalDirectory(e)
  <2>1. \A d : [worker[e] EXCEPT !.pc = "redirect", !.target = d].pc = "redirect"
    BY DEF WorkerType
  <2>2. "redirect" \in PlainLabels /\ "cloudget" \in PlainLabels
    BY <1>c
  <2>3. CASE lookupTargets(meta, e) = {}
    <3>1. Jump(e, "cloudget", net)
      BY <1>3, <2>3 DEF LookupLocalDirectory
    <3> QED
      BY <1>a, <2>2, <3>1, Fewer, Zenon DEF Jump
  <2>4. CASE lookupTargets(meta, e) # {}
    BY <1>3, <2>1, <2>2, <2>4, Fewer, Zenon DEF LookupLocalDirectory
  <2> QED
    BY <2>3, <2>4
<1>4. CASE LookupBeaconDirectory(e)
  <2>1. PICK m \in Responses(W(e), "lookup") :
          CASE m.arg = "written" -> Jump(e, "blocked", net \ {m})
            [] m.arg = "none" -> Jump(e, "cloudget", net \ {m})
            [] OTHER -> Enter(e, [worker[e] EXCEPT !.pc = "redirect",
                                                   !.target = m.arg], net \ {m})
    BY <1>4, Zenon DEF LookupBeaconDirectory
  <2>2. [worker[e] EXCEPT !.pc = "redirect", !.target = m.arg].pc = "redirect"
    BY DEF WorkerType
  <2>3. /\ "redirect" \in PlainLabels /\ "cloudget" \in PlainLabels
        /\ "blocked" \in PlainLabels
    BY <1>c
  <2>4. CASE m.arg = "written"
    BY <1>a, <2>1, <2>3, <2>4, Fewer, Zenon DEF Jump
  <2>5. CASE m.arg # "written" /\ m.arg = "none"
    BY <1>a, <2>1, <2>3, <2>5, Fewer, Zenon DEF Jump
  <2>6. CASE m.arg # "written" /\ m.arg # "none"
    BY <2>1, <2>2, <2>3, <2>6, Fewer, Zenon
  <2> QED
    BY <2>4, <2>5, <2>6
<1>5. CASE ProcessRedirectedGetRequest(e) \/ FetchDataFromCloud(e)
  <2>1. \A v : [worker[e] EXCEPT !.pc = "fetched", !.val = v].pc = "fetched"
    BY DEF WorkerType
  <2>2. "fetched" \in PlainLabels /\ "missed" \in PlainLabels
    BY <1>c, Zenon
  <2>3. CASE ProcessRedirectedGetRequest(e)
    <3>1. CASE cache[worker[e].target].st = "valid"
      <4>1. PICK v : Enter(e, [worker[e] EXCEPT !.pc = "fetched", !.val = v], net)
        BY <2>3, <3>1, Zenon DEF ProcessRedirectedGetRequest
      <4> QED
        BY <2>1, <2>2, <4>1, Fewer, Zenon
    <3>2. CASE cache[worker[e].target].st # "valid"
      <4>1. Jump(e, "missed", net)
        BY <2>3, <3>2 DEF ProcessRedirectedGetRequest
      <4> QED
        BY <1>a, <2>2, <4>1, Fewer, Zenon DEF Jump
    <3> QED
      BY <3>1, <3>2
  <2>4. CASE FetchDataFromCloud(e)
    BY <2>1, <2>2, <2>4, Fewer, Zenon DEF FetchDataFromCloud
  <2> QED
    BY <1>5, <2>3, <2>4
<1>6. CASE RedirectGetToTarget(e)
  <2>1. PICK l \in {"cloudget", "lookup"} : Jump(e, l, net)
    BY <1>6, Zenon DEF RedirectGetToTarget
  <2> QED
    BY <1>a, <1>c, <2>1, Fewer, Zenon DEF Jump
<1>7. CASE TryToUpdateInvalidLocalEdgeCache(e)
  BY <1>a, <1>c, <1>7, Fewer, ZenonT(30) DEF TryToUpdateInvalidLocalEdgeCache, Jump
<1> QED
  BY <1>1, <1>2, <1>3, <1>4, <1>5, <1>6, <1>7, Zenon DEF Client, Read

\* The writes on their way to the cloud and their answers.
PutCalls(ms) == {m \in ms : m.type = "put"}

\* A write is on its way at most once for each worker, which waits for its answer,
\* and it carries the worker's value.
PutsCurrent ==
    /\ \A m \in PutCalls(net) :
         \E e \in Edges : /\ m.th = W(e) /\ worker[e].pc = "put"
                          /\ ~m.rsp => m.ver = worker[e].val
    /\ \A m, n \in PutCalls(net) : m.th = n.th => m = n

PutInv == LockInv /\ PutsCurrent

\* The writes stay where no worker moves on with one.
LEMMA PutsStay ==
    ASSUME PutInv, PutCalls(net') \subseteq PutCalls(net),
           \A f \in Edges : /\ worker'[f].val = worker[f].val
                            /\ worker[f].pc = "put" => worker'[f].pc = "put"
    PROVE  PutsCurrent'
BY Zenon DEF PutInv, PutsCurrent

\* A worker that is not in the middle of a write has none under way.
LEMMA NoPut ==
    ASSUME PutInv, NEW e \in Edges, worker[e].pc # "put"
    PROVE  \A m \in PutCalls(net) : m.th # W(e)
BY OwnApart, Zenon DEF PutInv, PutsCurrent

\* A worker with no write under way sends its own value only.
LEMMA EnterPuts ==
    ASSUME PutInv, NEW e \in Edges, NEW w, NEW ms, Enter(e, w, ms),
           PutCalls(ms) \subseteq PutCalls(net), \A m \in PutCalls(ms) : m.th # W(e)
    PROVE  PutsCurrent'
<1>0. worker \in [Edges -> WorkerType]
  BY Zenon DEF PutInv, LockInv, IInv, TypeOK
<1>1. worker'[e] = w /\ \A f \in Edges : f # e => worker'[f] = worker[f]
  BY <1>0, Zenon DEF Enter
<1>2. PICK r : \A m \in PutCalls(net') :
                 \/ m \in PutCalls(ms)
                 \/ m = r /\ m.th = W(e) /\ w.pc = "put" /\ m.ver = w.val
  <2>1. CASE Remote(e, w.pc)
    <3> DEFINE s == CHOOSE s \in Unused(W(e), ms) : TRUE
               ver == IF w.pc = "put" THEN w.val ELSE 0
               r == [type |-> w.pc, rsp |-> FALSE, th |-> W(e), dst |-> e,
                     seq |-> s, copy |-> 0, arg |-> "-", ver |-> ver]
    <3>1. net' = ms \cup Requests(W(e), w.pc, {e}, s, 0, ver)
      BY <2>1, Zenon DEF Enter, Call
    <3>2. Requests(W(e), w.pc, {e}, s, 0, ver) = {r}
      BY Zenon DEF Requests
    <3>3. r.th = W(e) /\ r.type = w.pc /\ r.ver = ver
      OBVIOUS
    <3> HIDE DEF r, s
    <3>4. net' = ms \cup {r}
      BY <3>1, <3>2, Zenon
    <3> QED
      BY <3>3, <3>4, Zenon DEF PutCalls
  <2>2. CASE ~Remote(e, w.pc)
    BY <2>2, Zenon DEF Enter, PutCalls
  <2> QED
    BY <2>1, <2>2, Zenon
<1>3. \A m \in PutCalls(net') :
        \E f \in Edges : /\ m.th = W(f) /\ worker'[f].pc = "put"
                         /\ ~m.rsp => m.ver = worker'[f].val
  BY <1>1, <1>2, SMTT(30) DEF PutInv, PutsCurrent
<1>4. \A m, n \in PutCalls(net') : m.th = n.th => m = n
  BY <1>2 DEF PutInv, PutsCurrent
<1> QED
  BY <1>3, <1>4 DEF PutsCurrent

\* The answer to a write is one, the other answers are none.
LEMMA AnswerPuts ==
    ASSUME PutInv, NEW m \in net \cup server, NEW arg
    PROVE  Reply(m, arg).rsp /\ Reply(m, arg).type = m.type
<1>1. m \in MessageType
  BY Zenon DEF PutInv, LockInv, IInv, TypeOK
<1> QED
  BY <1>1 DEF Reply, MessageType, Messages

\* The calls of a thread of the beacon are no writes.
LEMMA RoundPuts ==
    ASSUME NEW k, NEW type \in {"inv", "fin"}, NEW dsts, NEW ms,
           CallEdges(k, type, dsts, ms)
    PROVE  PutCalls(net') = PutCalls(ms)
<1>1. PICK req : net' = ms \cup req /\ RoundCall(k, type, dsts, req)
  BY RoundSends, Zenon
<1> QED
  BY <1>1, Zenon DEF RoundCall, PutCalls

\* The steps of a worker keep PutsCurrent.
LEMMA WorkerPuts ==
    ASSUME PutInv, NEW e \in Edges,
           Client(e) \/ Read(e) \/ Admit(e) \/ Write(e)
    PROVE  PutsCurrent'
<1>0. worker \in [Edges -> WorkerType] /\ worker[e] \in WorkerType
  BY Zenon DEF PutInv, LockInv, IInv, TypeOK
<1>a. \A l : [worker[e] EXCEPT !.pc = l].pc = l
  BY <1>0 DEF WorkerType
<1>b. \A m : PutCalls(net \ {m}) \subseteq PutCalls(net)
  BY Zenon DEF PutCalls
<1>c. ASSUME NEW w, NEW ms, Enter(e, w, ms), PutCalls(ms) \subseteq PutCalls(net),
             worker[e].pc # "put"
      PROVE  PutsCurrent'
  <2>1. \A m \in PutCalls(ms) : m.th # W(e)
    BY <1>c, NoPut, Zenon
  <2> QED
    BY <1>c, <2>1, EnterPuts, ZenonT(30)
<1>d. ASSUME NEW w, Enter(e, w, net), worker[e].pc # "put"
      PROVE  PutsCurrent'
  BY <1>c, <1>d, Zenon
<1>1. CASE Client(e) \/ Read(e)
  <2>1. PICK w, ms : Enter(e, w, ms) /\ ms \subseteq net
    BY <1>0, <1>1, ReadEnters, Zenon
  <2>2. worker[e].pc # "put"
    BY <1>1, Zenon DEF Client, Read, Get, Put, LookupLocalDirectory,
       LookupBeaconDirectory, ProcessRedirectedGetRequest, RedirectGetToTarget,
       FetchDataFromCloud, TryToUpdateInvalidLocalEdgeCache
  <2>3. PutCalls(ms) \subseteq PutCalls(net)
    BY <2>1 DEF PutCalls
  <2> QED
    BY <1>c, <2>1, <2>2, <2>3
<1>2. CASE Admit(e)
  <2>1. worker[e].pc # "put"
    BY <1>2, Zenon DEF Admit, AfterRequest, AdmitLocalDirectory, AdmitBeaconDirectory,
                AdmitLocalEdgeCache
  <2>2. CASE AfterRequest(e)
    BY <1>b, <1>c, <1>d, <2>1, <2>2, Zenon DEF AfterRequest, Jump
  <2>3. CASE AdmitLocalDirectory(e)
    BY <1>b, <1>c, <1>d, <2>1, <2>3, Zenon DEF AdmitLocalDirectory, Jump
  <2>4. CASE AdmitBeaconDirectory(e)
    BY <1>b, <1>c, <1>d, <2>1, <2>4, Zenon DEF AdmitBeaconDirectory, Jump
  <2>5. CASE AdmitLocalEdgeCache(e)
    BY <1>b, <1>c, <1>d, <2>1, <2>5, Zenon DEF AdmitLocalEdgeCache
  <2> QED
    BY <1>2, <2>2, <2>3, <2>4, <2>5, Zenon DEF Admit
<1>3. CASE AcquireLocalWritelock(e)
  <2>1. worker[e].pc # "put"
    BY <1>3 DEF AcquireLocalWritelock
  <2>2. CASE Enter(e, [worker[e] EXCEPT !.pc = "put", !.lock = "noneed"], net)
    BY <1>b, <1>c, <1>d, <2>1, <2>2, Zenon
  <2>3. CASE /\ worker' = [worker EXCEPT ![e].pc = "invalidate", ![e].lock = "success"]
             /\ CallEdges("worker", "inv", dirinfos(meta), net)
    <3>1. \A f \in Edges : /\ worker'[f].val = worker[f].val
                           /\ worker[f].pc = "put" => worker'[f].pc = "put"
      BY <1>0, <2>1, <2>3 DEF WorkerType
    <3>2. PutCalls(net') = PutCalls(net)
      BY <2>3, RoundPuts, Zenon
    <3> QED
      BY <3>1, <3>2, PutsStay, Zenon
  <2> QED
    BY <1>3, <2>2, <2>3 DEF AcquireLocalWritelock
<1>4. CASE ReleaseLocalWritelock(e)
  <2>1. /\ worker' = [worker EXCEPT ![e].pc = "notify"] /\ worker[e].pc = "written"
        /\ CallEdges("worker", "fin", meta.blocklist, net)
    BY <1>4, Zenon DEF ReleaseLocalWritelock
  <2>2. \A f \in Edges : /\ worker'[f].val = worker[f].val
                         /\ worker[f].pc = "put" => worker'[f].pc = "put"
    BY <1>0, <2>1 DEF WorkerType
  <2>3. PutCalls(net') = PutCalls(net)
    BY <2>1, RoundPuts
  <2> QED
    BY <2>2, <2>3, PutsStay
<1>5. CASE AcquireBeaconWritelock(e)
  <2>1. PICK m \in Responses(W(e), "acquire") :
          IF m.arg = "failure" THEN Jump(e, "blocked", net \ {m})
          ELSE Enter(e, [worker[e] EXCEPT !.pc = "put", !.lock = m.arg], net \ {m})
    BY <1>5, Zenon DEF AcquireBeaconWritelock
  <2>2. worker[e].pc # "put"
    BY <1>5 DEF AcquireBeaconWritelock
  <2>3. CASE Enter(e, [worker[e] EXCEPT !.pc = "put", !.lock = m.arg], net \ {m})
    BY <1>b, <1>c, <1>d, <2>2, <2>3, Zenon
  <2>4. CASE Jump(e, "blocked", net \ {m})
    BY <1>b, <1>c, <1>d, <2>2, <2>4, Zenon DEF Jump
  <2> QED
    BY <2>1, <2>3, <2>4
<1>6. CASE BlockForWritesByInterruption(e)
  <2>1. PICK m \in net, l \in {"lookup", "acquire"} :
          m.type = "fin" /\ Jump(e, l, (net \ {m}) \cup {Reply(m, "-")})
    BY <1>6, Zenon DEF BlockForWritesByInterruption
  <2>2. worker[e].pc # "put"
    BY <1>6, Zenon DEF BlockForWritesByInterruption
  <2>3. PutCalls((net \ {m}) \cup {Reply(m, "-")}) \subseteq PutCalls(net)
    BY <2>1, AnswerPuts DEF PutCalls
  <2> QED
    BY <1>c, <2>1, <2>2, <2>3, Zenon DEF Jump
<1>7. CASE WriteDataToCloud(e)
  <2>1. PICK m \in Responses(W(e), "put") : Jump(e, "update", net \ {m})
    BY <1>7, Zenon DEF WriteDataToCloud
  <2>2. m \in PutCalls(net) /\ m.th = W(e)
    BY Zenon DEF Responses, PutCalls
  <2>3. \A n \in PutCalls(net \ {m}) : n.th # W(e)
    BY <2>2 DEF PutInv, PutsCurrent, PutCalls
  <2> QED
    BY <1>b, <2>1, <2>3, EnterPuts, Zenon DEF Jump
<1>8. CASE UpdateLocalEdgeCache(e)
  <2>1. worker[e].pc # "put"
    BY <1>8 DEF UpdateLocalEdgeCache
  <2> QED
    BY <1>b, <1>c, <1>d, <1>8, <2>1, Zenon DEF UpdateLocalEdgeCache, Jump
<1>9. CASE FinishWrite(e)
  <2>1. worker[e].pc # "put"
    BY <1>9, Zenon DEF FinishWrite
  <2> QED
    BY <1>b, <1>c, <1>d, <1>9, <2>1, ZenonT(30) DEF FinishWrite, Jump
<1>10. CASE ReleaseBeaconWritelock(e)
  <2>1. worker[e].pc # "put"
    BY <1>10 DEF ReleaseBeaconWritelock
  <2> QED
    BY <1>b, <1>c, <1>d, <1>10, <2>1, Zenon DEF ReleaseBeaconWritelock, Jump
<1> QED
  BY <1>1, <1>2, <1>3, <1>4, <1>5, <1>6, <1>7, <1>8, <1>9, <1>10, Zenon DEF Write

\* The other steps send no write and leave the workers, except for the one of the
\* beacon that has all acknowledgements.
LEMMA OtherPuts ==
    ASSUME PutInv,
           \/ \E e \in Edges : Evict(e) \/ ProcessInvalidationRequest(e)
                                 \/ BeaconServer(e)
           \/ Collect
    PROVE  PutsCurrent'
<1>0. worker \in [Edges -> WorkerType] /\ server \subseteq MessageType
  BY Zenon DEF PutInv, LockInv, IInv, TypeOK
<1>a. ASSUME worker' = worker, PutCalls(net') \subseteq PutCalls(net)
      PROVE  PutsCurrent'
  BY <1>a, PutsStay
<1>b. ASSUME NEW m \in net, m.type # "put", NEW arg,
             net' = (net \ {m}) \cup {Reply(m, arg)}
      PROVE  PutCalls(net') \subseteq PutCalls(net)
  BY <1>b, AnswerPuts DEF PutCalls
<1>c. ASSUME NEW m, net' = net \ {m}
      PROVE  PutCalls(net') \subseteq PutCalls(net)
  BY <1>c DEF PutCalls
<1>1. ASSUME NEW e \in Edges, Evict(e)
      PROVE  PutsCurrent'
  <2>1. worker' = worker
    BY <1>1, Zenon DEF Evict, EvictLocalEdgeCache, EvictLocalDirectory,
                       EvictBeaconDirectory
  <2>2. CASE net' = net
    BY <1>a, <2>1, <2>2, Zenon
  <2>3. CASE Call(E(e), "evict", {e}, 0, net)
    BY <1>a, <2>1, <2>3, SMTT(30) DEF Call, Requests, PutCalls
  <2>4. CASE EvictBeaconDirectory(e)
    BY <1>a, <1>c, <2>1, <2>4, Zenon DEF EvictBeaconDirectory
  <2> QED
    BY <1>1, <2>2, <2>3, <2>4, Zenon DEF Evict, EvictLocalEdgeCache, EvictLocalDirectory
<1>2. ASSUME NEW e \in Edges, ProcessInvalidationRequest(e)
      PROVE  PutsCurrent'
  <2>1. PICK m \in net : /\ m.type = "inv" /\ worker' = worker
                         /\ net' = (net \ {m}) \cup {Reply(m, "-")}
    BY <1>2, Zenon DEF ProcessInvalidationRequest
  <2> QED
    BY <1>a, <1>b, <2>1
<1>3. ASSUME NEW e \in Edges, BeaconServer(e)
      PROVE  PutsCurrent'
  <2>0. ASSUME NEW m \in BeaconRequests(e, {"lookup"})
                            \cup BeaconRequests(e, {"admit", "evict"})
                            \cup BeaconRequests(e, {"acquire"})
        PROVE  m \in net /\ m.type # "put"
    BY DEF BeaconRequests
  <2>1. CASE ProcessDirectoryLookupRequest(e)
    BY <1>a, <1>b, <2>0, <2>1, Zenon DEF ProcessDirectoryLookupRequest
  <2>2. CASE ProcessDirectoryUpdateRequest(e)
    BY <1>a, <1>b, <2>0, <2>2, Zenon DEF ProcessDirectoryUpdateRequest
  <2>3. CASE ProcessAcquireWritelockRequest(e)
    <3>1. worker' = worker
      BY <2>3, Zenon DEF ProcessAcquireWritelockRequest
    <3>2. PICK m \in BeaconRequests(e, {"acquire"}) :
            \/ CallEdges("server", "inv", dirinfos(meta), net \ {m})
            \/ net' = (net \ {m}) \cup {Reply(m, lockResult(meta))}
      BY <2>3, Zenon DEF ProcessAcquireWritelockRequest
    <3>3. CASE CallEdges("server", "inv", dirinfos(meta), net \ {m})
      <4>1. PutCalls(net') = PutCalls(net \ {m})
        BY <3>3, RoundPuts
      <4> QED
        BY <1>a, <3>1, <4>1, Zenon DEF PutCalls
    <3>4. CASE net' = (net \ {m}) \cup {Reply(m, lockResult(meta))}
      BY <1>a, <1>b, <2>0, <3>1, <3>4, Zenon
    <3> QED
      BY <3>2, <3>3, <3>4
  <2>4. CASE ProcessReleaseWritelockRequest(e)
    <3>1. PICK m : CallEdges("server", "fin", meta.blocklist, net \ {m})
      BY <2>4, Zenon DEF ProcessReleaseWritelockRequest
    <3>2. worker' = worker
      BY <2>4, Zenon DEF ProcessReleaseWritelockRequest
    <3>3. PutCalls(net') = PutCalls(net \ {m})
      BY <3>1, RoundPuts
    <3> QED
      BY <1>a, <3>2, <3>3 DEF PutCalls
  <2> QED
    BY <1>3, <2>1, <2>2, <2>3, <2>4, Zenon DEF BeaconServer
<1>4. ASSUME NEW k, InvalidateOwnCopy(k) \/ ReceiveAck(k)
      PROVE  PutsCurrent'
  <2>1. worker' = worker /\ PutCalls(net') \subseteq PutCalls(net)
    BY <1>c, <1>4, Zenon DEF InvalidateOwnCopy, ReceiveAck, PutCalls
  <2> QED
    BY <1>a, <2>1
<1>5. CASE ServerCollected
  <2>1. PICK m \in server, arg \in {"success", "-"} : net' = net \cup {Reply(m, arg)}
    BY <1>5, Zenon DEF ServerCollected
  <2>2. worker' = worker
    BY <1>5, Zenon DEF ServerCollected
  <2>3. Reply(m, arg).type # "put"
    BY AnswerPuts DEF PutInv, LockInv, IInv
  <2> QED
    BY <1>a, <2>1, <2>2, <2>3 DEF PutCalls
<1>6. CASE WorkerCollected
  <2>1. worker[Beacon].pc # "put"
    BY <1>6 DEF WorkerCollected, Collecting
  <2>2. PICK l : Jump(Beacon, l, net)
    BY <1>6, Zenon DEF WorkerCollected
  <2>3. \A m \in PutCalls(net) : m.th # W(Beacon)
    BY <2>1, NoPut, BeaconAssumption, Zenon
  <2> QED
    BY <2>2, <2>3, EnterPuts, BeaconAssumption, Zenon DEF Jump
<1> QED
  BY <1>1, <1>2, <1>3, <1>4, <1>5, <1>6, Zenon DEF Collect

\* The cloud answers a write.
LEMMA CloudPuts ==
    ASSUME PutInv, ProcessGlobalPutRequest
    PROVE  PutsCurrent'
<1>1. PICK m \in net : /\ m.type = "put" /\ worker' = worker
                       /\ net' = (net \ {m}) \cup {Reply(m, "-")}
  BY Zenon DEF ProcessGlobalPutRequest
<1> DEFINE r == Reply(m, "-")
<1>2. m \in MessageType
  BY Zenon DEF PutInv, LockInv, IInv, TypeOK
<1>3. r.type = "put" /\ r.rsp /\ r.th = m.th
  BY <1>1, <1>2 DEF Reply, MessageType, Messages
<1> HIDE DEF r
<1>4. PutCalls(net') = (PutCalls(net) \ {m}) \cup {r} /\ m \in PutCalls(net)
  BY <1>1, <1>3, Zenon DEF PutCalls, r
<1>5. \A n \in PutCalls(net') :
        \E e \in Edges : /\ n.th = W(e) /\ worker'[e].pc = "put"
                         /\ ~n.rsp => n.ver = worker'[e].val
  BY <1>1, <1>3, <1>4, ZenonT(30) DEF PutInv, PutsCurrent
<1>6. \A n, o \in PutCalls(net') : n.th = o.th => n = o
  BY <1>3, <1>4 DEF PutInv, PutsCurrent
<1> QED
  BY <1>5, <1>6 DEF PutsCurrent

\* Every step keeps the writes current.
LEMMA NextPuts == PutInv /\ [Next]_vars => PutInv'
<1> SUFFICES ASSUME PutInv, [Next]_vars
             PROVE  PutInv'
  OBVIOUS
<1>1. LockInv'
  BY NextLocks, Zenon DEF PutInv
<1>2. CASE UNCHANGED vars
  BY <1>1, <1>2 DEF vars, PutInv, PutsCurrent, PutCalls
<1> QED
  BY <1>1, <1>2, WorkerPuts, OtherPuts, CloudPuts, Zenon DEF Next, PutInv

\* Requests to write are always current.
LEMMA AlwaysPuts == Spec => []PutInv
<1>1. Init => PutInv
  BY InitLocks DEF PutInv, PutsCurrent, PutCalls, Init
<1> QED
  BY <1>1, NextPuts, PTL DEF Spec

\* Only the cloud's data server changes the cloud's value.
LEMMA CloudStays ==
    ASSUME Next, cloud' # cloud
    PROVE  ProcessGlobalPutRequest
<1>1. ASSUME NEW e \in Edges, Client(e) \/ Read(e)
      PROVE  cloud' = cloud
  BY <1>1, Zenon DEF Client, Read, Get, Put, LookupLocalDirectory,
     LookupBeaconDirectory, ProcessRedirectedGetRequest, RedirectGetToTarget,
     FetchDataFromCloud, TryToUpdateInvalidLocalEdgeCache
<1>2. ASSUME NEW e \in Edges, Admit(e) \/ Evict(e)
      PROVE  cloud' = cloud
  BY <1>2, Zenon DEF Admit, AfterRequest, AdmitLocalDirectory, AdmitBeaconDirectory,
     AdmitLocalEdgeCache, Evict, EvictLocalEdgeCache, EvictLocalDirectory,
     EvictBeaconDirectory
<1>3. ASSUME NEW e \in Edges, Write(e)
      PROVE  cloud' = cloud
  BY <1>3, Zenon DEF Write, AcquireLocalWritelock, AcquireBeaconWritelock,
     BlockForWritesByInterruption, WriteDataToCloud, UpdateLocalEdgeCache,
     FinishWrite, ReleaseLocalWritelock, ReleaseBeaconWritelock
<1>4. ASSUME NEW e \in Edges, ProcessInvalidationRequest(e) \/ BeaconServer(e)
      PROVE  cloud' = cloud
  BY <1>4, Zenon DEF ProcessInvalidationRequest, BeaconServer,
     ProcessDirectoryLookupRequest, ProcessDirectoryUpdateRequest,
     ProcessAcquireWritelockRequest, ProcessReleaseWritelockRequest
<1>5. ASSUME Collect
      PROVE  cloud' = cloud
  BY <1>5, Zenon DEF Collect, InvalidateOwnCopy, ReceiveAck, ServerCollected,
     WorkerCollected
<1> QED
  BY <1>1, <1>2, <1>3, <1>4, <1>5, Zenon DEF Next

\* WritesTakeEffectInTime: for every configuration, the cloud's value changes only
\* while the worker that wrote the new value waits for the cloud's answer, so that
\* no write takes effect after its client was told that it was done.
THEOREM WritesAreInTime == Spec => WritesTakeEffectInTime
<1>1. PutInv /\ [Next]_vars => [TakesEffectInTime]_vars
  <2> SUFFICES ASSUME PutInv, Next, cloud' # cloud
               PROVE  \E e \in Edges : worker[e].pc = "put" /\ worker[e].val = cloud'
    BY DEF TakesEffectInTime
  <2>1. PICK m \in net : m.type = "put" /\ ~m.rsp /\ cloud' = m.ver
    BY CloudStays DEF ProcessGlobalPutRequest
  <2> QED
    BY <2>1, Zenon DEF PutInv, PutsCurrent, PutCalls
<1> QED
  BY <1>1, AlwaysPuts, PTL DEF Spec, WritesTakeEffectInTime

=============================================================================
