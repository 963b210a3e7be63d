# Verification of DACO's cooperative edge cache

DACO (called COVERED in the code) is a cooperative edge cache.  Clients send
gets, puts and deletes to their closest edge node.  An edge that misses asks the
*beacon* edge of the key, which a consistent hash determines, for another edge
that caches the object, fetches it from there, or goes to the cloud.  Writes go
through to the cloud under a write lock that the beacon keeps per key; before a
lock is granted the beacon invalidates every recorded copy, and edges that need
the key during a write are blocked until it ends.

This directory holds TLA+ models of that system, TLC configurations that check
them on small instances, and TLAPS proofs for all instances.  Paths below are
relative to `src/src/`.

## The system's parts

| part | code | module |
|---|---|---|
| directory table, block tracker, write lock of a key | `cooperation/` | `Cooperation`, abstract lock `WriteLock` |
| cache server worker: gets, puts, blocking, admission | `edge/cache_server/*worker*.c` | `MsiProtocol` |
| invalidation and redirection processors | `edge/cache_server/*processor*.c` | `MsiProtocol` |
| beacon server (one thread) | `edge/beacon_server/` | `MsiProtocol` |
| fan-out of invalidations and finish-block notices | `edge/edge_wrapper_base.c` | `MsiProtocol` |
| directory admission and eviction | `edge/cache_server/cache_server_base.c` | `MsiProtocol` |
| local cache wrapper, validity of objects | `cache/cache_wrapper.c` | `MsiProtocol` |
| cloud data server | `cloud/data_server/` | `MsiProtocol` |
| timeouts, retries, sequence numbers, loss | `common/node_wrapper_base.c`, `network/` | `MsiTimeouts` |
| lock-free ring buffer | `concurrency/ring_buffer_impl.h` | `RingBuffer`, abstract queue `BoundedQueue` |
| blocking ring buffer, its provider and consumer | `concurrency/blocking_ring_buffer_impl.h`, `edge/cache_server/` | `BlockingRingBuffer` |
| message fragments | `network/udp_msg_socket_*.c`, `network/msg_frag_stats.c` | `UdpMessages` |
| propagation simulator and the whole way of a request | `network/propagation_simulator*.c` | `MessagePath` |
| victim synchronization | `core/victim/victimsync_monitor.c`, `core/victim/victim_syncset.c` | `VictimSync` |
| victim tracker | `core/victim_tracker.c` | `VictimTracker` |
| popularity aggregation | `core/popularity_aggregator.c` | `PopularityAggregator` |
| placement, and the DACO variants of worker and beacon around it | `core/covered_cache_manager.c`, `edge/covered_edge_wrapper.c`, `edge/**/covered_*.c` | `CacheManager` |
| per-key locks, directory metadata cache, weight tuner, evaluator and clients, caching policies, hashing, workloads, statistics, CLI, snapshots | see `PROJECT.json` | not modelled |

The parts meet in three places.  The coherence protocol (`MsiProtocol`) runs over
the network; `MsiTimeouts` composes it with loss and retries.  One datagram of it
takes the way that `MessagePath` composes from `RingBuffer`, `UdpMessages` and
`BlockingRingBuffer`.  Every control message of it carries a victim syncset
(`VictimSync`), and its lookups, admissions and evictions call the cache manager,
which `CacheManager` composes from `PopularityAggregator` and `VictimTracker`.

`PROJECT.json` lists the parts with their sources, the lines every definition
models, and the hazards of the code with the properties that address them.

## How the modules correspond to the code

**Cooperation** is the metadata of one key at its beacon, `meta`: the directory
record of every edge (`none`, `valid`, `invalid`), the write flag and the
blocklist.  Its operators keep the names of `CooperationWrapperBase`'s functions;
each function runs under the key's lock in the code and is one state change here.

**WriteLock** is the abstract promise: at most one holder, waiters only while
another edge holds the lock, a release that ends every wait.

**MsiProtocol** is the coherence protocol of one key over any set of edges.
`worker[e]` is the cache server worker that owns the key at edge `e`; its `pc`
names the point between two calls of `processLocalGetRequest_` or
`processLocalWriteRequest_` at which it stands.  There is one action per call
those functions make: `Get`, `LookupLocalDirectory`, `LookupBeaconDirectory`,
`ProcessRedirectedGetRequest` and `RedirectGetToTarget` (the two reads of the
target's redirection processor), `FetchDataFromCloud`,
`TryToUpdateInvalidLocalEdgeCache`, the admission (`AfterRequest`, `Admit...`), and
for writes `Put`, `Acquire...`, `BlockForWritesByInterruption`,
`WriteDataToCloud`, `UpdateLocalEdgeCache`, `FinishWrite`, `Release...`.
`evictor[e]` evicts the object from the local cache first and updates the
directory in a later step, as `evictForCapacity_` does.  `server` is the request
that the beacon server is processing; it serves the next request only after the
acknowledgements in `pending["server"]` have arrived, while `pending["worker"]`
belongs to the beacon's own worker, which takes the same path without messages
and polls instead of blocking.  `net` holds the datagrams, delivered in any order.
A failed `assert` is recorded in `fault`.

Data is abstracted to the number of the write that produced a value.  A delete
takes the path of a put.  The choice whether to admit and what to evict belongs to
the caching policy and is left open.  A redirected get and a get from the cloud
are read at one moment and delivered later, which is what the separate next step
of the worker expresses.

**MsiTimeouts** adds the network the code is written for: a datagram may be lost,
a thread whose socket times out sends its request again with the same sequence
number, responses with an old number are ignored, and receivers process a
repeated request as if it were new.

**RingBuffer** is the lock-free buffer in its hardest use, the propagation
simulator: many threads push under a lock, one thread pops without.  `head_`,
`tail_` and the slots are separate variables and every access is a step
(`FindRoom`, `WriteSlot`, `AdvanceHead`; `FindItem`, `CopySlot`, `ClearSlot`,
`AdvanceTail`), in program order, which the code may rely on as far as the two
indices are `volatile` (`ring_buffer.h:47`); reordering by the processor is not
modelled.  **BoundedQueue** is what it promises: a queue of one item less than
the buffer has slots, in which a push fails only when the queue is full.

**BlockingRingBuffer** has the receiving thread of the cache server as provider
and the invalidation processor as consumer, with mutex, predicate, notification
and spurious wakeups of the condition variable.  The flag `node_is_running_` is
reset outside the mutex.  A push into a full buffer fails the caller's assertion
and ends the provider (`PushFails`).

**UdpMessages** cuts messages into fragments, loses and reorders packets, and
reassembles with at most one partial message per source, as `MsgFragStats` does.

**MessagePath** composes the three: `StartSend` and `PushMessage` are the sending
threads, `PopMessage` and `IssueMessage` the propagation simulator,
`ReceiveFragment`, `ReceiveLast` and `ServerStep` the receiving thread,
`ProcessorStep` the processor.

**VictimSync** has, for each pair of edges, both sides of `VictimsyncMonitor`:
`SendSyncset` numbers a syncset and chooses one of the forms that `compress()` can
return, `ReceiveSyncset` is `updateForNeighborVictimSyncset()` with all it calls
(outdated, applicable, cached, or dropped with a request for a complete one), and
`RemoveVictim` is a placement that takes a victim away between two syncsets.

**PopularityAggregator** and **VictimTracker** are the operations of the two
classes, each one action because it runs under the class's lock.  Popularities and
benefits are nondeterministic choices; sizes are kept, because the capacity
decides what is discarded.

**CacheManager** is the order in which the threads of a beacon call them.
`thread[t]` holds the step and the local variables of a thread between two locks:
`LookupDirectory`, `Aggregate`, `GetPopularity`, `FindVictims`, `Preserve`,
`RemoveVictims` and `Deploy` are the life of a placement, `AdmitDirectory`,
`AdmitDirinfo` and `ClearPreserved` its end, `EvictDirectory` and `EvictDirinfo` an
eviction.  `deploying` counts the placements that are on their way to an edge.
`SyncNeighborVictims` is a syncset that a neighbor's message carries; which
syncsets are applied is the subject of `VictimSync`.

The **MC** modules name the edges, keys, threads and messages of the instances and
the datagrams that may be lost.  The **Proofs** modules hold the theorems.

## What is checked

| run | instance | properties |
|---|---|---|
| `locks` | beacon and two edges all write, one edge reads | `TypeOK`, `BeaconConsistent`, `NoAssertFails`, `FlagMeansHeld`, `NoLostWakeup`, `InvalidatedBeforeWrite`, `LocalCachedIsGlobalCached`, `TargetsServe`, `ImplementsWriteLock`, `WritesTakeEffectInTime` |
| `retry` | two edges write, one reads, caches may refuse objects; one lost datagram, one early timeout of a cloud write | `NoAssertFails`, `FlagMeansHeld`, `NoLostWakeup`, `LocalCachedIsGlobalCached` |
| `live_remote` | clients of two edges that are not the beacon; one lost datagram | `EveryRequestEnds` |
| `live_beacon` | clients of the beacon and of one other edge, three writes; nothing is lost | `LocalCachedIsGlobalCached`, `TargetsServe`, `EveryRequestEnds` |
| `message_path` | two threads, three messages of one or two fragments, a ring buffer for two and a blocking buffer for one; one lost packet | `RTypeOK`, `NeverNull`, `FragmentsAgree`, `WholeMessagesOnce`, `ArrivedIsReceived`, `NoSleepOnWork`, `ImplementsQueue`, `ProcessorStops`, `RequestsAreProcessed` |
| `victim_sync` | five syncsets one way, one the other way, a monitor that caches one; one lost syncset, any order | `ViewIsSent`, `MonitorAsserts`, `WaitingIsAnsweredIfNoneLost`, `NeverGoesBack` |
| `cache_manager` | beacon server and worker, two keys beaconed here and one elsewhere, one neighbor; one lost notification | `PreservedNotCounted`, `WithinCapacity`, `RefcntMatches`, `PreservedIsServed`, `DirinfoIsCurrent` |

`ImplementsWriteLock` is the refinement of `WriteLock`: the holders are the edges
whose lock was granted and whose release the beacon has not processed, wherever
the grant is at the moment (in the server, in a datagram, at the worker).
`ImplementsQueue` is the refinement of `BoundedQueue`: its queue are the slots from
`tail_` to `head_`, with the item that `pop()` has already cleared from its slot.

The runs that end in a violation show where a comment or an assertion of the code
does not hold; `PROJECT.json` quotes the lines.

| run | what happens |
|---|---|
| `no_stale_copy` | no edge caches the key, so a write needs no lock; an admission of the old value overlaps it and stays cached as valid |
| `multi_worker_eviction` | with several workers per edge, the directory update of an eviction arrives after the key was admitted again and removes the new record |
| `enforcement_lost` | the monitor asks for a complete syncset in one message and never again; the message is lost, and the monitor waits for an answer that nobody will send |
| `victims_gone` | two placements find the same victim before either removes it; the second removal gives back the reference of another edge's victim, whose directory set is erased |
| `finish_block_answer_lost` | the answer to a finish-block request is lost; the beacon server repeats the request to a worker that has left the block and waits for the beacon server |

`enforcement_lost` and `finish_block_answer_lost` need a lost datagram; the others
happen on a perfect network.
Beacon and workers do not recognise repeated requests, so other answers that are
lost or later than the socket timeout of five seconds have similar effects: a
repeated lookup or acquire blocks an edge twice, a repeated acquire blocks the
holder itself, a repeated release fails the "key MUST exist" assertion of
`cooperation/block_tracker.c:155`, a repeated invalidation is acknowledged twice.
The hazards of `PROJECT.json` name the lines.

One more behaviour limits the liveness runs.  A cache may refuse the new value of a
write (`cache/cache_wrapper.c:209`: "all methods could fail to update due to invalid
object size").  The copy is then invalid, but the release of the lock validates its
directory record, and a reader that is redirected to it looks up the directory
again, for ever if nothing evicts or writes the object.  With `MayFail = TRUE` in
`MsiLiveRemote.cfg` TLC shows this as a violation of `EveryRequestEnds`.

### Bounds

Three edges give a beacon and two remote edges: enough for a lock holder, a
blocked writer and a copy at a third place.  Two writes (`MaxVersion`) give a
write that overlaps another and a write after a write (`live_beacon`, with two
edges, has three).  Reads, admissions and
evictions are not bounded.  `Seqs` is a set from which an unused number is taken
for each call: one is enough when nothing is repeated, two when an old response
may still be under way.  Losses and early timeouts are bounded by `MaxLost` and
`MaxEarly`, one each.  `retry` and `live_remote` may lose every request, and
the answers of admissions, evictions, cloud writes and invalidations; the loss of
another answer is not always survived by the code (see the violations).  `locks`
and the liveness runs have caches that accept every object (`MayFail = FALSE`),
because a refused update of a write leaves a valid record for an invalid copy and
so breaks `TargetsServe` and `EveryRequestEnds`; `retry` has caches that may refuse.

In `message_path` the ring buffer has three slots, so that three messages fill it
and wrap both indices around, and the blocking buffer one, so that it is empty,
full and overfull.  Two messages of two fragments from one source overtake each
other; the third has one fragment and another source.

In `victim_sync` five syncsets are the shortest history with a complete one, one
missing, one cached, one dropped and the answer to the request it causes.  One key
with two infos gives a victim that stays, changes, comes and goes; keys are
compressed and recovered one by one.

In `cache_manager` the capacity (5) has room for the preserved edgesets of both
keys (2 each) and not for a popularity entry with its pair besides (2), so entries
are discarded.  `MaxRequests`, `MaxSyncs` and `MaxLost` bound the history; admissions
are bounded by the placements.  The keys beaconed here are symmetric.
`message_path`, `victim_sync` and `cache_manager` end when nothing is left to send,
so they are not checked for deadlock.

### Fairness

Every thread keeps running (weak fairness of the workers, processors, the cloud,
of the collection of acknowledgements, and of the directory update of an eviction
that has begun).  Clients need not send anything and nothing needs to be evicted.
The beacon server has strong fairness per edge, since it takes datagrams from its
socket in the order of their arrival.  In `MsiTimeouts` a thread that waits for a
lost datagram does time out.  The polling of the beacon's worker ends because the
number of writes is bounded; with writers that never pause it could starve.
Likewise a redirected reader is sent back to the directory if the object returns
to the target between the processor's two reads: the liveness runs have targets
that are filled by writes only, hence finitely often, because a target that is
evicted and filled again at just these moments for ever keeps the reader going
round.

In `MessagePath` (`FairSpec`) the receiving thread and the invalidation processor
keep running (weak fairness of `ServerStep` and of `ProcessorStep`).  Nothing is
assumed of the sender, the network, the end of the node or spurious wakeups.  The
safety properties of `VictimSync` and `CacheManager` need no fairness.

## What is proved

Every invariant and action property that the runs `locks`, `retry`, `message_path`,
`victim_sync` and `cache_manager` check is proved, and so are the two refinements;
what is not is listed at the end of this section.  All theorems
hold for every value of the constants that the named `ASSUME`s allow; TLC evaluates
these in the runs.  Apart from ranges they say that edges, keys and threads are
finite where they are counted, that `NULL` and `Absent` are no values, that what
goes through the ring buffer are messages (`ItemAssumption`), that syncsets list
victims of the keys (`ContentsAssumption`) and that one thread serves a neighbor
(`ServesAssumption`).  A theorem that needs more names it as a hypothesis.

**`MsiProtocolProofs`**, for every set of edges, bound on the writes and set of
sequence numbers, with and without refusing caches, with any number of workers:

* `TypeCorrect`: `Spec => []TypeOK`;
* `BeaconIsConsistent`: `Spec => []BeaconConsistent`.  While a key is being written
  the directory offers no valid copy, edges are blocked only during a write, and
  the beacon's own worker is never blocked.

Both follow from the inductive invariant `IInv`.  The type of `meta` and the clause
on the beacon's own worker depend on who sends which request, so `IInv` adds that
every lookup, admission, acquire or release in flight or in the server comes from a
worker of an edge other than the beacon (`NetOK`), and that the server holds only
acquires and releases.

The second half of the module, also without hypotheses on the constants:

* `FlagIsHeld`: `Spec => []FlagMeansHeld`;
* `LockIsImplemented`: `Spec => ImplementsWriteLock`, the refinement.

The invariant is `LockInv`.  A worker has at most one call to the beacon under way,
the one it waits for, and this call is at one place, a datagram or the server
(`Disciplined`; writes to the cloud are left out, so that they may be repeated); so a
grant is at one place too, from the moment the write flag is set until it is
reset.  Without that discipline two grants could come from one acquire.  One lemma
per group of actions shows that the invariant is kept and, together, that the step
is one of `WriteLock` or a stutter.

**`MsiWakeupProofs`**:

* `AssertionsHold`: `Spec => []NoAssertFails`;
* `WakeupsArrive`: `Spec => []NoLostWakeup`;
* `WritesAreInTime`: `Spec => WritesTakeEffectInTime`.

The invariant of the first two is `WakeInv`, on top of `LockInv`: an edge waits from the answer that
blocks it until it takes the notice; all that time it is in the blocklist or one
beacon thread has to learn that it took the notice (`Due`), never both (`Awaited`).
`Due` does not ask where the notice is, so that it may be lost on its way.  A beacon
thread has one message per edge under way, of the call it collects (`Collected`).
That the assertions hold and that wake-ups arrive depend on each other and are
proved together.  `WritesAreInTime` needs only `PutInv`: one request to write is in
flight for a worker at most, and it carries the value of the worker that waits for
it.

**`MsiCopyProofs`**, for every set of edges, every beacon and any number of writes:

* `CopiesAreRecorded`: `Spec => []LocalCachedIsGlobalCached`, if
  `MultiWorker = {}`;
* `CopiesAreInvalidated`: `Spec => []InvalidatedBeforeWrite`, if
  `MultiWorker = {}`;
* `TargetsAlwaysServe`: `Spec => []TargetsServe`, if `MultiWorker = {}` and
  `MayFail = FALSE`.

`MultiWorker = {}` says that every edge has one cache server worker.  The run
`multi_worker_eviction` shows that the first result is false without it.
`MayFail = FALSE` says that no cache refuses an object; a refused update leaves a
valid record for an invalid copy (see above).  The invariant is `CopyInv`, on top
of `WakeInv`.  An edge admits, updates and evicts its copy by one call at a time,
so its record at the beacon lags behind its cache by that one call; `Recorded` and
`Served` say for each place of the call (not sent, a datagram, the answer) what
the lag can be.  `Guarded` says that while a key is being written a valid copy is
newer than the grant, or a beacon thread still waits for its invalidation; when
the holder writes, nobody waits any more.  A worker at the end of its write keeps
its grant until the beacon takes the release and never gets it back in between
(`Unreleased`, `Steady`).

**`MsiRetryProofs`**, the same results for `MsiTimeouts`, where datagrams are lost and
threads send their requests again, for any number of losses and of retries.  All
assume `Repeatable`: the answers of lookups, acquires, releases and finished blocks
are not lost, and only the timeout of a write to the cloud expires while the request
or its answer is still under way.  These are the losses of the run `retry`.  The
hypothesis is needed: the run `finish_block_answer_lost` shows what the loss of a
finished block's answer does, and with a lost answer of a lookup, an acquire or a
release TLC finds `NoLostWakeup` or `FlagMeansHeld` violated.

* `FlagIsHeldDespiteLoss`, `LockIsImplementedDespiteLoss`,
  `AssertionsHoldDespiteLoss`, `WakeupsArriveDespiteLoss`: `TSpec` implies
  `[]FlagMeansHeld`, `ImplementsWriteLock`, `[]NoAssertFails` and `[]NoLostWakeup`,
  with any number of workers;
* `CopiesAreRecordedDespiteLoss`, `CopiesAreInvalidatedDespiteLoss`:
  `[]LocalCachedIsGlobalCached` and `[]InvalidatedBeforeWrite`, if
  `MultiWorker = {}`; `TargetsServeDespiteLoss`: `[]TargetsServe`, if also
  `MayFail = FALSE`;
* `WritesAreInTimeDespiteLoss`: `WritesTakeEffectInTime`, if `Impatient = {}`.  After
  an early timeout the second copy of a write can reach the cloud when its worker is
  done, and the property fails.

A receiver keeps no record of what it processed, so nothing in it tells a repeated
request from a new one.  The argument is that every message of a call to the beacon,
or of the beacon to an edge, has its thread's latest sequence number (`Current`).
Then a thread whose call is not under way has no such message anywhere, and sending
it again restores the discipline of `LockInv` and `WakeInv` instead of breaking it; a
stale answer that is discarded belongs to no such call.  `Current` itself is kept
because a thread makes its next call only when the messages of the last one are gone:
every step moves the sequence numbers by calls (`SeqsMove`), and after the call
`Disciplined` and `Collected` leave room for the new messages only.  `EvictsCurrent`
and `WritesCurrent` are the same facts for the reports of evictions and the writes.
Losses and repetitions change the mail only (`MailMoves`), so the invariants of the
three modules before are kept without being stated anew.

**`MessagePathProofs`**, first on the ring buffer alone, for every buffer size and
any number of producers:

* `RingBufferConsistent`: the invariant `RInv` (`RTypeOK` and `RConsistent`): the
  room a producer found is still there when it writes, the item the consumer found
  is still there when it copies, every slot from `tail_` to `head_` holds an item;
* `NeverNullAlways`: `RSpec => []NeverNull`;
* `RingBufferIsQueue`: `RSpec => ImplementsQueue`, the refinement.

then on the whole message path:

* `PathIsQueue` and `PathNeverNull` carry these over to the whole message path,
  because its steps are steps of the ring buffer or leave it alone;
* `ProcessorNeverSleepsOnWork`: `Spec => []NoSleepOnWork`, from `BConsistent`: the
  consumer holds the mutex from its predicate to its wait, so the provider cannot
  pass from a push, or from the end of the node, to its notification in between;
* `PathRingTyped`: `Spec => []RTypeOK`;
* `FragmentsAlwaysAgree`: `Spec => []FragmentsAgree`;
* `MessagesAreWholeOnce`: `Spec => []WholeMessagesOnce`;
* `ArrivedAlwaysReceived`: `Spec => []ArrivedIsReceived`.

The last three, for any number of messages, fragments, sources and losses, follow
from `PathInv`.  The ring buffer holds each message at one place only, and none that
has packets yet (`SenderInv`); therefore messages and sequence numbers determine
each other and a packet arrives at most once.  Each entry of the receiver holds some
but not all fragments of one message (`EntriesOK`), what `recv()` returned are
different messages of which nothing is still to come (`ReceivedOK`), and a packet
that arrived is tracked until its message is received or overtaken (`ArrivedOK`).

**`CacheManagerProofs`**, for any edges, keys, threads and capacity:

* `NoSecondPlacement`: `Spec => []PreservedNotCounted`;
* `RefcntCorrect`: `Spec => []RefcntMatches`;
* `DirinfoFollowsDirectory`: `Spec => []DirinfoIsCurrent`;
* `PreservedIsAlwaysServed`: `Spec => []PreservedIsServed`.

The invariant `Inv` adds the shapes of the threads' local variables, and that only
one thread processes the requests of a neighbor (`ServesAssumption`, the beacon
server): two updates of one neighbor's record are never under way together, which
is what keeps the tracker's set at most one request behind the table.

`PreservedIsAlwaysServed` adds `ServedInv`: the threads that process admissions of a
key from an edge are never more than the placements on their way to it, so an
admission acknowledges a placement of its own.

**`CacheCapacityProofs`**, on top of `CacheManagerProofs`:

* `SizeIsExact`: `Spec => []SizeMatches`;
* `CapacityIsKept`: `Spec => []WithinCapacity`, if `EnoughCapacity`.

Both add `CapacityInv`.  `EnoughCapacity` says that the
preserved edgesets of all keys the edge is the beacon of fit into the capacity.
Preserved edgesets are never discarded ("we should NOT discard preserved edge
nodes", `core/popularity_aggregator.c:524`), so without it the capacity is not kept
and the loop reaches its assertion on an empty table; that the size is exact needs
no such hypothesis.  The proof rests on lemmas about sums over finite sets: any
element may be counted first, and emptying some entries takes their sum away.

**`VictimSyncProofs`**, for any edges, keys, victims, cache limit and number of
syncsets and losses:

* `ViewAlwaysSent`: `Spec => []ViewIsSent`;
* `MonitorAssertsHold`: `Spec => []MonitorAsserts`;
* `ReorderingIsAnswered`: `Spec => []WaitingIsAnsweredIfNoneLost`;
* `TrackedNeverGoesBack`: `Spec => NeverGoesBack`.

The invariant `Inv` relates, for each pair of edges, the receiver's monitor, the
sender's monitor, the syncsets in flight and the history of what was sent.  A syncset
in flight or in the cache that is ahead of the tracked one was compressed from the
victims sent with its number, against those sent just before (`Faithful`).  So a
compressed syncset that follows the tracked one without a gap turns what is tracked
into what was sent, and by repetition so do the cached ones after it.

The library's induction theorems take an operator, which the provers cannot
instantiate.  What the recursive functions of `ClearContinuous` and of
`MapThenSumSet` compute is therefore proved by descent: that they exist and have the
stated property at every argument because there is no least one at which they fail.

**Only model-checked:**

* liveness (`EveryRequestEnds`, `ProcessorStops`, `RequestsAreProcessed`), which is
  outside the prover's reach.

## Not modelled

* Node start-up and shutdown (except the end of a node in `BlockingRingBuffer`),
  snapshots, bandwidth and latency accounting have no influence on the protocol
  state that the properties are about.
* The caching policies, popularities, benefits and eviction costs: what they decide
  (admit, victims, placement, discard) is a nondeterministic choice.
* Locks: the per-key and global locks wrap Boost's shared mutexes, and what they
  protect is one step.  Sharing one lock between keys only adds waiting.
* Several keys in one cache, and with them batches of victims in one parallel
  eviction: the coherence model is that of one key.
* Duplicated packets.  A duplicated packet of an incomplete message fails the
  assertion of `network/msg_frag_stats.c:75`, and a duplicated compressed syncset
  that of `core/victim/victimsync_monitor.c:318`; repeated requests are modelled.
* Lazy victim fetching, the metadata update messages for local uncached objects,
  the directory metadata cache, the weight tuner and the background counters: they
  hold hints and averages that the code allows to be stale.
* The directory sets that a neighbor's syncset carries are taken as they come;
  compressing them against a base follows the same rules as the cache infos.
* The evaluator and the clients, the workloads, statistics and the command line are
  the harness around the system.  The third-party caches and storage engines below
  `cache/` and `cloud/` are not part of the protocol.

The asserts of the code are modelled where a property mentions them; an execution is
continued after a failed one, which only adds behaviours, except in
`BlockingRingBuffer`, where the failed thread stops.
