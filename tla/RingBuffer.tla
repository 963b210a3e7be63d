---------------------------- MODULE RingBuffer ----------------------------
(* The lock-free ring buffer of concurrency/ring_buffer_impl.h in its        *)
(* hardest use, PropagationSimulatorParam (network/): all threads of a node  *)
(* push messages under a lock of their own, one propagation simulator pops   *)
(* them without any lock.  head_, tail_ and the slots are read and written   *)
(* in program order; every access to one of them is a step of its own, so    *)
(* that push and pop interleave between any two accesses.                    *)
EXTENDS Naturals, Sequences

CONSTANTS
  Producers,    \* the threads that push
  Item,         \* the messages
  NoItem,       \* default_element_: an item whose message pointer is NULL
  NoOne,        \* the lock is free
  BufferSize    \* buffer_size_

ASSUME BufferSizeAssumption == BufferSize \in Nat \ {0}
ASSUME NoItemAssumption == NoItem \notin Item
ASSUME NoOneAssumption == NoOne \notin Producers

VARIABLES
  ring_buffer, head, tail,
  lock,         \* rwlock_for_propagation_item_buffer_: its holder, or NoOne
  pc,           \* where each producer is in push()
  pushed,       \* the item each producer pushes
  cpc,          \* where the consumer is in pop() and in its loop
  element,      \* pop()'s out parameter
  message_ptr   \* the message the consumer issues, NoItem when it has none

pvars == <<lock, pc, pushed>>
cvars == <<cpc, element, message_ptr>>
rvars == <<ring_buffer, head, tail, lock, pc, pushed, cpc, element, message_ptr>>

Slots == 0 .. (BufferSize - 1)

\* Mutant: the index does not wrap around.
Succ_NoWrap(i) == i + 1

Succ(i) == (i + 1) % BufferSize

IsFull == Succ(head) = tail
IsEmpty == tail = head

\* getElementCnt(): head_ may have wrapped around.
ElementCnt == IF head >= tail THEN head - tail ELSE head + BufferSize - tail

RInit ==
  /\ ring_buffer = [i \in Slots |-> NoItem]
  /\ head = 0
  /\ tail = 0
  /\ lock = NoOne
  /\ pc = [p \in Producers |-> "idle"]
  /\ pushed = [p \in Producers |-> NoItem]
  /\ cpc = "poll"
  /\ element = NoItem
  /\ message_ptr = NoItem

-----------------------------------------------------------------------------
(* push(), called under the providers' lock *)

\* Mutant: push() without the providers' lock.
AcquireLock_NoLock(p, m) ==
  /\ pc[p] \in {"idle", "refused"}
  /\ lock' = p
  /\ pc' = [pc EXCEPT ![p] = "locked"]
  /\ pushed' = [pushed EXCEPT ![p] = m]
  /\ UNCHANGED <<ring_buffer, head, tail, cvars>>

AcquireLock(p, m) ==
  /\ pc[p] \in {"idle", "refused"}
  /\ lock = NoOne
  /\ lock' = p
  /\ pc' = [pc EXCEPT ![p] = "locked"]
  /\ pushed' = [pushed EXCEPT ![p] = m]
  /\ UNCHANGED <<ring_buffer, head, tail, cvars>>

\* The buffer is full: push() returns false and the lock is released.
FindFull(p) ==
  /\ pc[p] = "locked"
  /\ IsFull
  /\ pc' = [pc EXCEPT ![p] = "refused"]
  /\ lock' = NoOne
  /\ pushed' = [pushed EXCEPT ![p] = NoItem]
  /\ UNCHANGED <<ring_buffer, head, tail, cvars>>

FindRoom(p) ==
  /\ pc[p] = "locked"
  /\ ~IsFull
  /\ pc' = [pc EXCEPT ![p] = "room"]
  /\ UNCHANGED <<ring_buffer, head, tail, lock, pushed, cvars>>

WriteSlot(p) ==
  /\ pc[p] = "room"
  /\ ring_buffer' = [ring_buffer EXCEPT ![head] = pushed[p]]
  /\ pc' = [pc EXCEPT ![p] = "written"]
  /\ UNCHANGED <<head, tail, lock, pushed, cvars>>

\* Only now can the consumer see the item; then the lock is released.
AdvanceHead(p) ==
  /\ pc[p] = "written"
  /\ head' = Succ(head)
  /\ lock' = NoOne
  /\ pc' = [pc EXCEPT ![p] = "idle"]
  /\ pushed' = [pushed EXCEPT ![p] = NoItem]
  /\ UNCHANGED <<ring_buffer, tail, cvars>>

-----------------------------------------------------------------------------
(* pop(), called by the propagation simulator without a lock; on an empty    *)
(* buffer it returns false and the simulator polls again.                    *)

\* Mutant: pop() does not look whether the buffer is empty.
FindItem_Unchecked ==
  /\ cpc = "poll"
  /\ cpc' = "found"
  /\ UNCHANGED <<ring_buffer, head, tail, pvars, element, message_ptr>>

FindItem ==
  /\ cpc = "poll"
  /\ ~IsEmpty
  /\ cpc' = "found"
  /\ UNCHANGED <<ring_buffer, head, tail, pvars, element, message_ptr>>

CopySlot ==
  /\ cpc = "found"
  /\ element' = ring_buffer[tail]
  /\ cpc' = "copied"
  /\ UNCHANGED <<ring_buffer, head, tail, pvars, message_ptr>>

ClearSlot ==
  /\ cpc = "copied"
  /\ ring_buffer' = [ring_buffer EXCEPT ![tail] = NoItem]
  /\ cpc' = "cleared"
  /\ UNCHANGED <<head, tail, pvars, element, message_ptr>>

\* Only now can a producer use the slot again; pop() returns the element.
AdvanceTail ==
  /\ cpc = "cleared"
  /\ tail' = Succ(tail)
  /\ message_ptr' = element
  /\ cpc' = "use"
  /\ UNCHANGED <<ring_buffer, head, pvars, element>>

\* The simulator has issued the message; it deletes it and polls again.
ReleaseMessage ==
  /\ cpc = "use"
  /\ message_ptr' = NoItem
  /\ element' = NoItem
  /\ cpc' = "poll"
  /\ UNCHANGED <<ring_buffer, head, tail, pvars>>

RNext ==
  \/ \E p \in Producers :
        \/ \E m \in Item : AcquireLock(p, m)
        \/ FindFull(p) \/ FindRoom(p) \/ WriteSlot(p) \/ AdvanceHead(p)
  \/ FindItem \/ CopySlot \/ ClearSlot \/ AdvanceTail \/ ReleaseMessage

RSpec == RInit /\ [][RNext]_rvars

-----------------------------------------------------------------------------
(* Properties *)

\* head_ and tail_ stay indices of the buffer, also when they wrap around
\* (ring_buffer_impl.h:114 and :150), and the slots hold items or the default
\* element.
RTypeOK ==
  /\ ring_buffer \in [Slots -> Item \cup {NoItem}]
  /\ head \in Slots
  /\ tail \in Slots
  /\ lock \in Producers \cup {NoOne}
  /\ pc \in [Producers -> {"idle", "locked", "room", "written", "refused"}]
  /\ pushed \in [Producers -> Item \cup {NoItem}]
  /\ cpc \in {"poll", "found", "copied", "cleared", "use"}
  /\ element \in Item \cup {NoItem}
  /\ message_ptr \in Item \cup {NoItem}

\* Slot i is one from tail_ up to, not including, head_.
Live(i) ==
  IF tail <= head THEN tail <= i /\ i < head ELSE tail <= i \/ i < head

\* One producer at a time is between the check for room and the new head_, so
\* the room it found is still there when it writes; no consumer but the one
\* moves tail_, so the item it found is still there when it copies; and every
\* slot from tail_ up to head_ holds an item, except the one pop() has just
\* cleared and still holds in element.
RConsistent ==
  /\ \A p \in Producers :
       /\ pc[p] \in {"locked", "room", "written"} <=> lock = p
       /\ lock = p => pushed[p] \in Item
       /\ pc[p] \in {"room", "written"} => ~IsFull
       /\ pc[p] = "written" => ring_buffer[head] = pushed[p]
  /\ cpc \in {"found", "copied", "cleared"} => ~IsEmpty
  /\ cpc = "copied" => element = ring_buffer[tail]
  /\ cpc = "cleared" => element \in Item
  /\ cpc = "use" <=> message_ptr # NoItem
  /\ \A i \in Slots :
       Live(i) /\ (cpc = "cleared" => i # tail) => ring_buffer[i] \in Item

\* The buffer as a sequence: the slots from tail_ on, oldest first.  While
\* pop() has cleared its slot and not yet moved on, the item is in element.
Contents ==
  [i \in 1 .. ElementCnt |->
     IF i = 1 /\ cpc = "cleared" THEN element
     ELSE ring_buffer[(tail + (i - 1)) % BufferSize]]

Queue == INSTANCE BoundedQueue WITH
  Capacity <- BufferSize - 1,
  queue <- Contents,
  taken <- message_ptr,
  refused <- {p \in Producers : pc[p] = "refused"}

\* Pushes and pops that overlap at any of their accesses to head_, tail_ and
\* the slots still behave as a first-in first-out queue of BufferSize - 1
\* items: nothing is lost, doubled, reordered or handed out half written, and
\* a push fails only when that many items are really there.
ImplementsQueue == Queue!QSpec

\* The assertion of PropagationSimulator::start(): a successful pop() never
\* returns the default element, whose message pointer is NULL.
NeverNull == cpc = "use" => message_ptr # NoItem
=============================================================================
