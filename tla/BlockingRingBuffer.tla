------------------------ MODULE BlockingRingBuffer ------------------------
(* The blocking ring buffer of concurrency/blocking_ring_buffer_impl.h       *)
(* between its one provider, the cache server's receiving thread, and its    *)
(* one consumer, the cache server's invalidation processor.  The slots are   *)
(* only touched under condition_mutex_, so their content is a sequence here; *)
(* what is left to get wrong is the condition variable: the finish condition *)
(* reads a flag that changes outside the mutex.                              *)
EXTENDS Naturals, Sequences

CONSTANTS
  InCapacity,    \* buffer_size_ - 1
  Request        \* the requests recv() can return

ASSUME InCapacityAssumption == InCapacity \in Nat

VARIABLES
  running,        \* node_is_running_ of the edge
  items,          \* the content of the buffer, oldest first
  mutex,          \* condition_mutex_ is held, by the consumer
  ppc,            \* where the provider is
  request,        \* the request the provider pushes
  ccpc,           \* where the consumer is
  with_finish,    \* pop()'s with_finish_condition
  processed       \* the requests the consumer has taken, in order

bvars == <<running, items, mutex, ppc, request, ccpc, with_finish, processed>>
provider == <<ppc, request>>
consumer == <<ccpc, with_finish, processed>>

NoRequest == {}

BInit ==
  /\ running = TRUE
  /\ items = <<>>
  /\ mutex = FALSE
  /\ ppc = "loop"
  /\ request = NoRequest
  /\ ccpc = "loop"
  /\ with_finish = FALSE
  /\ processed = <<>>

\* The benchmark ends: the node's main thread resets the flag at any time.
StopNode ==
  /\ running
  /\ running' = FALSE
  /\ UNCHANGED <<items, mutex, provider, consumer>>

\* What a notification does to the consumer; without a waiter it is lost.
Notify == ccpc' = IF ccpc = "waiting" THEN "woken" ELSE ccpc

-----------------------------------------------------------------------------
(* The provider: receiveRequestsAndPartition_(), push() and notifyFinish() *)

CheckRunning ==
  /\ ppc = "loop"
  /\ ppc' = IF running THEN "recv" ELSE "finish"
  /\ UNCHANGED <<running, items, mutex, request, consumer>>

ReceiveTimeout ==
  /\ ppc = "recv"
  /\ ppc' = "loop"
  /\ UNCHANGED <<running, items, mutex, request, consumer>>

\* recv() returns a complete message r.
ReceiveRequest(r) ==
  /\ ppc = "recv"
  /\ request' = r
  /\ ppc' = "push"
  /\ UNCHANGED <<running, items, mutex, consumer>>

PushRequest ==
  /\ ppc = "push"
  /\ ~mutex
  /\ Len(items) < InCapacity
  /\ items' = Append(items, request)
  /\ request' = NoRequest
  /\ ppc' = "notify"
  /\ UNCHANGED <<running, mutex, consumer>>

\* The buffer is full: the assertion of partitionRequest_() fails.
PushFails ==
  /\ ppc = "push"
  /\ ~mutex
  /\ Len(items) = InCapacity
  /\ ppc' = "failed"
  /\ UNCHANGED <<running, items, mutex, request, consumer>>

\* Mutant: push() notifies nobody.
NotifyOne_Silent ==
  /\ ppc = "notify"
  /\ ppc' = "loop"
  /\ UNCHANGED <<running, items, mutex, request, consumer>>

NotifyOne ==
  /\ ppc = "notify"
  /\ Notify
  /\ ppc' = "loop"
  /\ UNCHANGED <<running, items, mutex, request, with_finish, processed>>

LockToFinish ==
  /\ ppc = "finish"
  /\ ~mutex
  /\ ppc' = "notifyall"
  /\ UNCHANGED <<running, items, mutex, request, consumer>>

NotifyAll ==
  /\ ppc = "notifyall"
  /\ Notify
  /\ ppc' = "done"
  /\ UNCHANGED <<running, items, mutex, request, with_finish, processed>>

-----------------------------------------------------------------------------
(* The consumer: start() of the invalidation processor and pop() *)

\* Mutant: the processor does not look at the flag again.
StartPop_Always ==
  /\ ccpc = "loop"
  /\ ccpc' = "entry"
  /\ with_finish' = FALSE
  /\ UNCHANGED <<running, items, mutex, provider, processed>>

StartPop ==
  /\ ccpc = "loop"
  /\ ccpc' = IF running THEN "entry" ELSE "done"
  /\ with_finish' = FALSE
  /\ UNCHANGED <<running, items, mutex, provider, processed>>

\* The predicate of wait() runs under the mutex and reads the flag first.
EvalPredicate ==
  /\ ccpc \in {"entry", "woken"}
  /\ ~mutex
  /\ mutex' = TRUE
  /\ with_finish' = ~running
  /\ ccpc' = "evaluated"
  /\ UNCHANGED <<running, items, provider, processed>>

\* Nothing to do: give up the mutex and wait, in one step.
Wait ==
  /\ ccpc = "evaluated"
  /\ ~with_finish
  /\ items = <<>>
  /\ mutex' = FALSE
  /\ ccpc' = "waiting"
  /\ UNCHANGED <<running, items, provider, with_finish, processed>>

\* The finish condition goes first: what is left in the buffer stays there.
PopFinish ==
  /\ ccpc = "evaluated"
  /\ with_finish
  /\ mutex' = FALSE
  /\ ccpc' = "loop"
  /\ UNCHANGED <<running, items, provider, with_finish, processed>>

\* Mutant: pop() returns without taking the request.
PopRequest_NotTaken ==
  /\ ccpc = "evaluated"
  /\ ~with_finish
  /\ items # <<>>
  /\ mutex' = FALSE
  /\ ccpc' = "loop"
  /\ UNCHANGED <<running, items, provider, with_finish, processed>>

PopRequest ==
  /\ ccpc = "evaluated"
  /\ ~with_finish
  /\ items # <<>>
  /\ processed' = Append(processed, Head(items))
  /\ items' = Tail(items)
  /\ mutex' = FALSE
  /\ ccpc' = "loop"
  /\ UNCHANGED <<running, provider, with_finish>>

\* A condition variable may wake its waiter for no reason.
SpuriousWakeup ==
  /\ ccpc = "waiting"
  /\ ccpc' = "woken"
  /\ UNCHANGED <<running, items, mutex, provider, with_finish, processed>>

-----------------------------------------------------------------------------
(* Properties *)

\* A request in the buffer never waits behind a sleeping consumer: if the
\* consumer waits while the buffer holds a request, or while the node has been
\* stopped, then the provider still owes it a notification.
NoSleepOnWork ==
  ccpc = "waiting" =>
    /\ items # <<>> => ppc = "notify"
    /\ ~running => ppc # "done"

\* Why: the consumer holds the mutex from the predicate to the wait, so the
\* provider cannot get from a full buffer, or from the stopped node, to its
\* notification in between.
BConsistent ==
  /\ mutex <=> ccpc = "evaluated"
  /\ ppc \in {"finish", "notifyall", "done"} => ~running
  /\ ppc \in {"notifyall", "done"} /\ ccpc = "evaluated" => with_finish
  /\ ppc = "done" => ccpc # "waiting"
  /\ items # <<>> /\ ccpc = "waiting" => ppc = "notify"

\* Stopping the node ends the invalidation processor (the dead consumer that
\* notifyFinish() takes the mutex against), unless the receiving thread has
\* failed the assertion on a full buffer before.
ProcessorStops == ~running ~> (ccpc = "done" \/ ppc = "failed")

\* A request that got into the buffer is taken out by the processor, unless
\* the node stops or fails first.
RequestsAreProcessed ==
  \A r \in Request :
    (\E i \in 1 .. Len(items) : items[i] = r)
      ~> (\/ \E i \in 1 .. Len(processed) : processed[i] = r
          \/ ~running \/ ppc = "failed")
=============================================================================
