--------------------------- MODULE BoundedQueue ---------------------------
(* What the ring buffers of concurrency/ promise: a first-in first-out queue *)
(* of at most Capacity items with many providers and one consumer.  A        *)
(* provider is refused only when the queue is full, and the consumer gets    *)
(* the items whole and in the order in which they went in.                   *)
EXTENDS Naturals, Sequences

CONSTANTS Producers, Item, NoItem, Capacity

VARIABLES
  queue,    \* the items in the buffer, oldest first
  taken,    \* the item in the consumer's hands, or NoItem
  refused   \* the providers whose last push failed

qvars == <<queue, taken, refused>>

QInit ==
  /\ queue = <<>>
  /\ taken = NoItem
  /\ refused = {}

Push(p, m) ==
  /\ Len(queue) < Capacity
  /\ queue' = Append(queue, m)
  /\ UNCHANGED <<taken, refused>>

Refuse(p) ==
  /\ Len(queue) = Capacity
  /\ refused' = refused \cup {p}
  /\ UNCHANGED <<queue, taken>>

\* A provider that was refused starts another push.
TryAgain(p) ==
  /\ p \in refused
  /\ refused' = refused \ {p}
  /\ UNCHANGED <<queue, taken>>

Pop ==
  /\ taken = NoItem
  /\ queue # <<>>
  /\ taken' = Head(queue)
  /\ queue' = Tail(queue)
  /\ UNCHANGED refused

Release ==
  /\ taken # NoItem
  /\ taken' = NoItem
  /\ UNCHANGED <<queue, refused>>

QNext ==
  \/ \E p \in Producers :
        \/ \E m \in Item : Push(p, m)
        \/ Refuse(p)
        \/ TryAgain(p)
  \/ Pop
  \/ Release

QSpec == QInit /\ [][QNext]_qvars
=============================================================================
