------------------------- MODULE MessagePathProofs -------------------------
(* The ring buffer implements the bounded queue, what is proved of it holds  *)
(* of it in the whole path, the processor never sleeps on work, and recv()   *)
(* returns whole messages, each once, and forgets none that has arrived; for *)
(* every buffer size, set of threads, set of messages, fragmentation and     *)
(* number of lost packets.                                                   *)
EXTENDS MessagePath, FiniteSetTheorems, SequenceTheorems, TLAPS

-----------------------------------------------------------------------------
(* The ring buffer *)

RInv == RTypeOK /\ RConsistent

\* The slot j places after slot i, without the remainder.
At(i, j) == IF i + j < BufferSize THEN i + j ELSE i + j - BufferSize

\* The remainder in every index expression of the buffer only wraps once.
LEMMA WrapOnce ==
  ASSUME NEW i \in Slots, NEW j \in Slots
  PROVE  (i + j) % BufferSize = At(i, j)
  BY BufferSizeAssumption, SMT DEF Slots, At

\* The next slot of slot i, without the remainder.
LEMMA SuccIs ==
  ASSUME NEW i \in Slots
  PROVE  /\ Succ(i) = IF i + 1 = BufferSize THEN 0 ELSE i + 1
         /\ Succ(i) \in Slots
  BY BufferSizeAssumption, SMT DEF Slots, Succ

\* The producers' and the consumer's bookkeeping are right at the start.
LEMMA InitHolds == RInit => RInv
  <1> SUFFICES ASSUME RInit PROVE RInv
    OBVIOUS
  <1>1. RTypeOK
    BY BufferSizeAssumption DEF RInit, RTypeOK, Slots
  <1>2. RConsistent
    BY BufferSizeAssumption, NoItemAssumption, NoOneAssumption, SMTT(30)
    DEF RInit, RConsistent, Slots, Live
  <1> QED
    BY <1>1, <1>2 DEF RInv

\* Every step keeps the variables in their types.
LEMMA TypeHolds == RTypeOK /\ [RNext]_rvars => RTypeOK'
  <1> SUFFICES ASSUME RTypeOK, [RNext]_rvars PROVE RTypeOK'
    OBVIOUS
  <1> USE NoItemAssumption DEF RTypeOK, pvars, cvars
  <1>1. ASSUME NEW p \in Producers, NEW m \in Item, AcquireLock(p, m)
        PROVE  RTypeOK'
    BY <1>1 DEF AcquireLock
  <1>2. ASSUME NEW p \in Producers, FindFull(p) PROVE RTypeOK'
    BY <1>2 DEF FindFull
  <1>3. ASSUME NEW p \in Producers, FindRoom(p) PROVE RTypeOK'
    BY <1>3 DEF FindRoom
  <1>4. ASSUME NEW p \in Producers, WriteSlot(p) PROVE RTypeOK'
    BY <1>4 DEF WriteSlot
  <1>5. ASSUME NEW p \in Producers, AdvanceHead(p) PROVE RTypeOK'
    BY <1>5, SuccIs DEF AdvanceHead
  <1>6. CASE FindItem
    BY <1>6 DEF FindItem
  <1>7. CASE CopySlot
    BY <1>7 DEF CopySlot
  <1>8. CASE ClearSlot
    BY <1>8 DEF ClearSlot
  <1>9. CASE AdvanceTail
    BY <1>9, SuccIs DEF AdvanceTail
  <1>10. CASE ReleaseMessage
    BY <1>10 DEF ReleaseMessage
  <1>11. CASE UNCHANGED rvars
    BY <1>11 DEF rvars
  <1> QED
    BY <1>1, <1>2, <1>3, <1>4, <1>5, <1>6, <1>7, <1>8, <1>9, <1>10, <1>11, Zenon
    DEF RNext

\* Every step keeps the bookkeeping right.
LEMMA ConsistentHolds == RInv /\ [RNext]_rvars => RConsistent'
  <1> SUFFICES ASSUME RInv, [RNext]_rvars PROVE RConsistent'
    OBVIOUS
  <1>0. RTypeOK /\ RTypeOK' /\ RConsistent
    BY TypeHolds DEF RInv
  <1>a. /\ Succ(head) = IF head + 1 = BufferSize THEN 0 ELSE head + 1
        /\ Succ(tail) = IF tail + 1 = BufferSize THEN 0 ELSE tail + 1
        /\ BufferSize \in Nat \ {0}
    BY <1>0, SuccIs, BufferSizeAssumption DEF RTypeOK
  <1> USE NoItemAssumption, NoOneAssumption DEF pvars, cvars
  <1>1. ASSUME NEW p \in Producers, NEW m \in Item, AcquireLock(p, m)
        PROVE  RConsistent'
    BY <1>0, <1>1
    DEF AcquireLock, RTypeOK, RConsistent, IsFull, IsEmpty, Live
  <1>2. ASSUME NEW p \in Producers, FindFull(p) PROVE RConsistent'
    BY <1>0, <1>2 DEF FindFull, RTypeOK, RConsistent, IsFull, IsEmpty, Live
  <1>3. ASSUME NEW p \in Producers, FindRoom(p) PROVE RConsistent'
    BY <1>0, <1>3 DEF FindRoom, RTypeOK, RConsistent, IsFull, IsEmpty, Live
  <1>4. ASSUME NEW p \in Producers, WriteSlot(p) PROVE RConsistent'
    BY <1>0, <1>a, <1>4
    DEF WriteSlot, RTypeOK, RConsistent, IsFull, IsEmpty, Live, Slots
  <1>5. ASSUME NEW p \in Producers, AdvanceHead(p) PROVE RConsistent'
    BY <1>0, <1>a, <1>5
    DEF AdvanceHead, RTypeOK, RConsistent, IsFull, IsEmpty, Live, Slots
  <1>6. CASE FindItem
    BY <1>0, <1>6 DEF FindItem, RTypeOK, RConsistent, IsFull, IsEmpty, Live
  <1>7. CASE CopySlot
    BY <1>0, <1>7 DEF CopySlot, RTypeOK, RConsistent, IsFull, IsEmpty, Live
  <1>8. CASE ClearSlot
    BY <1>0, <1>a, <1>8, SMTT(30)
    DEF ClearSlot, RTypeOK, RConsistent, IsFull, IsEmpty, Live, Slots
  <1>9. CASE AdvanceTail
    BY <1>0, <1>a, <1>9, SMTT(30)
    DEF AdvanceTail, RTypeOK, RConsistent, IsFull, IsEmpty, Live, Slots
  <1>10. CASE ReleaseMessage
    BY <1>0, <1>10
    DEF ReleaseMessage, RTypeOK, RConsistent, IsFull, IsEmpty, Live
  <1>11. CASE UNCHANGED rvars
    BY <1>0, <1>11 DEF rvars, RConsistent, IsFull, IsEmpty, Live
  <1> QED
    BY <1>1, <1>2, <1>3, <1>4, <1>5, <1>6, <1>7, <1>8, <1>9, <1>10, <1>11, Zenon
    DEF RNext

\* The bookkeeping of ring_buffer_impl.h is right in every reachable state.
THEOREM RingBufferConsistent == RSpec => []RInv
  <1>1. RInv /\ [RNext]_rvars => RInv'
    BY TypeHolds, ConsistentHolds DEF RInv
  <1> QED
    BY InitHolds, <1>1, PTL DEF RSpec

\* A successful pop() never hands out the default element, so the assertion
\* of PropagationSimulator::start() holds.
THEOREM NeverNullAlways == RSpec => []NeverNull
  <1>1. RInv => NeverNull
    BY DEF RInv, RConsistent, NeverNull
  <1> QED
    BY <1>1, RingBufferConsistent, PTL

-----------------------------------------------------------------------------
(* The refinement of BoundedQueue *)

\* The buffer read from tail_ on, without the remainder in the index.
ContentsOK ==
  /\ ElementCnt \in 0 .. (BufferSize - 1)
  /\ Contents = [i \in 1 .. ElementCnt |->
                    IF i = 1 /\ cpc = "cleared" THEN element
                    ELSE ring_buffer[At(tail, i - 1)]]
  /\ Contents \in Seq(Item)
  /\ Len(Contents) = ElementCnt

\* What the consumer will read is a sequence of ElementCnt items.
LEMMA ContentsIs == RInv => ContentsOK
  <1> SUFFICES ASSUME RInv PROVE ContentsOK
    OBVIOUS
  <1>0. RTypeOK /\ RConsistent /\ BufferSize \in Nat \ {0}
    BY BufferSizeAssumption DEF RInv
  <1>1. ElementCnt \in 0 .. (BufferSize - 1)
    BY <1>0 DEF RTypeOK, ElementCnt, Slots
  <1>2. \A i \in 1 .. ElementCnt : (tail + (i - 1)) % BufferSize = At(tail, i - 1)
    BY <1>0, <1>1, WrapOnce DEF RTypeOK, Slots
  <1>3. Contents = [i \in 1 .. ElementCnt |->
                      IF i = 1 /\ cpc = "cleared" THEN element
                      ELSE ring_buffer[At(tail, i - 1)]]
    BY <1>2 DEF Contents
  <1>4. ASSUME NEW i \in 1 .. ElementCnt PROVE Contents[i] \in Item
    <2>1. /\ At(tail, i - 1) \in Slots
          /\ Live(At(tail, i - 1))
          /\ At(tail, i - 1) = tail => i = 1
      BY <1>0, <1>1 DEF RTypeOK, Slots, At, Live, ElementCnt
    <2> QED
      BY <1>0, <1>3, <2>1 DEF RConsistent
  <1>5. Contents \in [1 .. ElementCnt -> Item]
    BY <1>3, <1>4
  <1> QED
    BY <1>1, <1>3, <1>5 DEF ContentsOK

\* The same in the state after a step.
LEMMA ContentsWillBe == RInv' => ContentsOK'
  BY ContentsIs, PTL

\* An empty buffer maps to the empty queue.
LEMMA InitRefines == RInit => Queue!QInit
  <1> SUFFICES ASSUME RInit PROVE Queue!QInit
    OBVIOUS
  <1>1. RInv /\ ElementCnt = 0
    BY InitHolds DEF RInit, ElementCnt
  <1>2. Contents = <<>>
    BY <1>1, ContentsIs DEF ContentsOK
  <1> QED
    BY <1>2 DEF RInit, Queue!QInit

\* Publishing the new head_ appends the item that was written.
LEMMA AdvanceHeadRefines ==
  ASSUME RInv, RInv', NEW p \in Producers, AdvanceHead(p)
  PROVE  Queue!Push(p, pushed[p]) /\ pushed[p] \in Item
  <1>0. RTypeOK /\ RConsistent /\ BufferSize \in Nat \ {0}
    BY BufferSizeAssumption DEF RInv
  <1>1. /\ Succ(head) = IF head + 1 = BufferSize THEN 0 ELSE head + 1
        /\ Succ(head) # tail
        /\ ring_buffer[head] = pushed[p]
        /\ pushed[p] \in Item
    BY <1>0, SuccIs DEF AdvanceHead, RTypeOK, RConsistent, IsFull
  <1>2. /\ ElementCnt < BufferSize - 1
        /\ ElementCnt' = ElementCnt + 1
        /\ At(tail, ElementCnt) = head
    BY <1>0, <1>1 DEF AdvanceHead, RTypeOK, ElementCnt, Slots, At
  <1>3. Contents' = Append(Contents, pushed[p])
    <2>1. /\ Contents' \in Seq(Item)
          /\ Len(Contents') = ElementCnt + 1
          /\ Contents \in Seq(Item)
          /\ Len(Contents) = ElementCnt
          /\ ElementCnt \in Nat
      BY <1>2, ContentsIs, ContentsWillBe DEF ContentsOK
    <2>2. Append(Contents, pushed[p]) \in Seq(Item)
      BY <1>1, <2>1
    <2>3. ASSUME NEW i \in 1 .. (ElementCnt + 1)
          PROVE  Contents'[i] = Append(Contents, pushed[p])[i]
      <3>1. Contents'[i] = IF i = 1 /\ cpc = "cleared" THEN element
                           ELSE ring_buffer[At(tail, i - 1)]
        BY <1>2, ContentsWillBe, cpc' = cpc, element' = element, tail' = tail,
           ring_buffer' = ring_buffer
        DEF ContentsOK, At, AdvanceHead, cvars
      <3>2. CASE i \in 1 .. ElementCnt
        BY <3>1, <3>2, <2>1, ContentsIs DEF ContentsOK
      <3>3. CASE i = ElementCnt + 1
        <4>1. ~(i = 1 /\ cpc = "cleared")
          BY <1>0, <3>3, <2>1 DEF RConsistent, IsEmpty, ElementCnt, RTypeOK, Slots
        <4> QED
          BY <1>1, <1>2, <2>1, <3>1, <3>3, <4>1
      <3> QED
        BY <2>1, <3>2, <3>3
    <2> QED
      BY <2>1, <2>2, <2>3
  <1>4. {q \in Producers : pc[q] = "refused"}'
          = {q \in Producers : pc[q] = "refused"}
    BY <1>0 DEF AdvanceHead, RTypeOK
  <1> QED
    BY <1>1, <1>2, <1>3, <1>4, ContentsIs
    DEF ContentsOK, Queue!Push, AdvanceHead, cvars

\* Moving tail_ on hands out the oldest item.
LEMMA AdvanceTailRefines ==
  ASSUME RInv, RInv', AdvanceTail
  PROVE  Queue!Pop
  <1>0. RTypeOK /\ RConsistent /\ BufferSize \in Nat \ {0}
    BY BufferSizeAssumption DEF RInv
  <1>1. /\ Succ(tail) = IF tail + 1 = BufferSize THEN 0 ELSE tail + 1
        /\ tail # head
        /\ tail' = Succ(tail)
        /\ cpc = "cleared" /\ cpc' = "use"
    BY <1>0, SuccIs DEF AdvanceTail, RTypeOK, RConsistent, IsEmpty
  <1>2. /\ ElementCnt > 0
        /\ ElementCnt' = ElementCnt - 1
    BY <1>0, <1>1 DEF AdvanceTail, RTypeOK, ElementCnt, Slots
  <1>3. /\ Contents \in Seq(Item)
        /\ Len(Contents) = ElementCnt
        /\ ElementCnt \in 1 .. (BufferSize - 1)
        /\ Contents' \in Seq(Item)
        /\ Len(Contents') = ElementCnt - 1
    BY <1>2, ContentsIs, ContentsWillBe DEF ContentsOK
  <1>4. Head(Contents) = element
    BY <1>1, <1>3, ContentsIs DEF ContentsOK
  <1>5. Contents' = Tail(Contents)
    <2>1. ASSUME NEW i \in 1 .. (ElementCnt - 1)
          PROVE  Contents'[i] = Tail(Contents)[i]
      <3>1. Contents'[i] = ring_buffer[At(tail', i - 1)]
        BY <1>1, <1>2, ContentsWillBe, ring_buffer' = ring_buffer
        DEF ContentsOK, At, AdvanceTail
      <3>2. At(tail', i - 1) = At(tail, (i + 1) - 1)
        BY <1>0, <1>1, <1>3 DEF RTypeOK, Slots, At
      <3>3. Contents[i + 1] = ring_buffer[At(tail, (i + 1) - 1)]
        BY <1>1, <1>3, ContentsIs DEF ContentsOK
      <3> QED
        BY <1>3, <3>1, <3>2, <3>3
    <2> QED
      BY <1>3, <2>1
  <1>6. {q \in Producers : pc[q] = "refused"}'
          = {q \in Producers : pc[q] = "refused"}
    BY DEF AdvanceTail, pvars
  <1>7. message_ptr = NoItem /\ message_ptr' = element
    BY <1>0, <1>1 DEF RConsistent, AdvanceTail
  <1> QED
    BY <1>3, <1>4, <1>5, <1>6, <1>7 DEF Queue!Pop

\* A step that keeps both ends and the live slots keeps the sequence.
LEMMA SameContents ==
  ASSUME RInv, RInv', UNCHANGED <<head, tail>>,
         \A i \in Slots : Live(i) /\ (cpc' = "cleared" => i # tail) =>
                            ring_buffer'[i] = ring_buffer[i],
         cpc' = "cleared" /\ head # tail =>
           element' = IF cpc = "cleared" THEN element ELSE ring_buffer[tail],
         cpc = "cleared" => cpc' = "cleared"
  PROVE  Contents' = Contents
  <1>0. RTypeOK /\ RConsistent /\ BufferSize \in Nat \ {0}
    BY BufferSizeAssumption DEF RInv
  <1>1. ElementCnt' = ElementCnt
    BY DEF ElementCnt
  <1>2. /\ Contents = [i \in 1 .. ElementCnt |->
                         IF i = 1 /\ cpc = "cleared" THEN element
                         ELSE ring_buffer[At(tail, i - 1)]]
        /\ Contents' = [i \in 1 .. ElementCnt |->
                         IF i = 1 /\ cpc' = "cleared" THEN element'
                         ELSE ring_buffer'[At(tail, i - 1)]]
        /\ ElementCnt \in 0 .. (BufferSize - 1)
    BY <1>1, ContentsIs, ContentsWillBe DEF ContentsOK, At
  <1>3. ASSUME NEW i \in 1 .. ElementCnt
        PROVE  (IF i = 1 /\ cpc' = "cleared" THEN element'
                ELSE ring_buffer'[At(tail, i - 1)])
               = (IF i = 1 /\ cpc = "cleared" THEN element
                  ELSE ring_buffer[At(tail, i - 1)])
    <2>1. /\ At(tail, i - 1) \in Slots
          /\ Live(At(tail, i - 1))
          /\ At(tail, i - 1) = tail <=> i = 1
          /\ head # tail
      BY <1>0, <1>2 DEF RTypeOK, Slots, At, Live, ElementCnt
    <2> QED
      BY <2>1
  <1> QED
    BY <1>2, <1>3

\* Every step of the ring buffer is a step of the queue or none at all.
LEMMA NextRefines ==
  RInv /\ RInv' /\ [RNext]_rvars => [Queue!QNext]_(Queue!qvars)
  <1> SUFFICES ASSUME RInv, RInv', [RNext]_rvars
               PROVE  [Queue!QNext]_(Queue!qvars)
    OBVIOUS
  <1>0. RTypeOK /\ RConsistent /\ BufferSize \in Nat \ {0}
    BY BufferSizeAssumption DEF RInv
  <1> DEFINE Refused == {q \in Producers : pc[q] = "refused"}
  <1>1. ASSUME NEW p \in Producers, NEW m \in Item, AcquireLock(p, m)
        PROVE  Queue!TryAgain(p) \/ UNCHANGED Queue!qvars
    <2>1. Contents' = Contents
      BY <1>1, SameContents DEF AcquireLock, cvars
    <2>2. Refused' = Refused \ {p}
      BY <1>0, <1>1 DEF AcquireLock, RTypeOK
    <2>3. message_ptr' = message_ptr
      BY <1>1 DEF AcquireLock, cvars
    <2> QED
      BY <2>1, <2>2, <2>3 DEF Queue!TryAgain, Queue!qvars
  <1>2. ASSUME NEW p \in Producers, FindFull(p) PROVE Queue!Refuse(p)
    <2>1. Contents' = Contents
      BY <1>2, SameContents DEF FindFull, cvars
    <2>2. Refused' = Refused \cup {p}
      BY <1>0, <1>2 DEF FindFull, RTypeOK
    <2>3. message_ptr' = message_ptr
      BY <1>2 DEF FindFull, cvars
    <2>4. Succ(head) = tail
      BY <1>2 DEF FindFull, IsFull
    <2>5. ElementCnt = BufferSize - 1
      BY <1>0, <2>4, SuccIs, SMTT(30) DEF RTypeOK, ElementCnt, Slots
    <2> QED
      BY <2>1, <2>2, <2>3, <2>5, ContentsIs DEF ContentsOK, Queue!Refuse
  <1>3. ASSUME NEW p \in Producers, FindRoom(p) PROVE UNCHANGED Queue!qvars
    <2>1. Contents' = Contents
      BY <1>3, SameContents DEF FindRoom, cvars
    <2>2. Refused' = Refused
      BY <1>0, <1>3 DEF FindRoom, RTypeOK
    <2> QED
      BY <1>3, <2>1, <2>2 DEF FindRoom, cvars, Queue!qvars
  <1>4. ASSUME NEW p \in Producers, WriteSlot(p) PROVE UNCHANGED Queue!qvars
    <2>1. Contents' = Contents
      <3>1. ~Live(head)
        BY <1>0 DEF RTypeOK, Slots, Live
      <3> QED
        BY <1>0, <1>4, <3>1, SameContents DEF WriteSlot, cvars, RTypeOK
    <2>2. Refused' = Refused
      BY <1>0, <1>4 DEF WriteSlot, RTypeOK
    <2> QED
      BY <1>4, <2>1, <2>2 DEF WriteSlot, cvars, Queue!qvars
  <1>5. ASSUME NEW p \in Producers, AdvanceHead(p) PROVE Queue!QNext
    BY <1>5, AdvanceHeadRefines DEF Queue!QNext
  <1>6. CASE FindItem
    <2>1. Contents' = Contents
      BY <1>6, SameContents DEF FindItem
    <2> QED
      BY <1>6, <2>1 DEF FindItem, pvars, Queue!qvars
  <1>7. CASE CopySlot
    <2>1. Contents' = Contents
      BY <1>7, SameContents DEF CopySlot
    <2> QED
      BY <1>7, <2>1 DEF CopySlot, pvars, Queue!qvars
  <1>8. CASE ClearSlot
    <2>1. Contents' = Contents
      BY <1>0, <1>8, SameContents DEF ClearSlot, RTypeOK, RConsistent
    <2> QED
      BY <1>8, <2>1 DEF ClearSlot, pvars, Queue!qvars
  <1>9. CASE AdvanceTail
    BY <1>9, AdvanceTailRefines, Zenon DEF Queue!QNext
  <1>10. CASE ReleaseMessage
    <2>1. Contents' = Contents
      BY <1>10, SameContents DEF ReleaseMessage
    <2> QED
      BY <1>0, <1>10, <2>1
      DEF ReleaseMessage, RConsistent, pvars, Queue!Release, Queue!QNext
  <1>11. CASE UNCHANGED rvars
    <2>1. Contents' = Contents
      BY <1>11, SameContents DEF rvars
    <2> QED
      BY <1>11, <2>1 DEF rvars, Queue!qvars
  <1> QED
    BY <1>1, <1>2, <1>3, <1>4, <1>5, <1>6, <1>7, <1>8, <1>9, <1>10, <1>11
    DEF RNext, Queue!QNext

\* push() and pop() of ring_buffer_impl.h, interleaved at every access to
\* head_, tail_ and the slots, are a first-in first-out queue of
\* BufferSize - 1 items.
THEOREM RingBufferIsQueue == RSpec => ImplementsQueue
  BY InitRefines, NextRefines, RingBufferConsistent, PTL
  DEF RSpec, ImplementsQueue, Queue!QSpec

-----------------------------------------------------------------------------
(* The ring buffer in the path *)

\* A step of the path is a step of the ring buffer or leaves it alone.
LEMMA PathStepsRing == [Next]_vars => [RNext]_rvars
  <1> SUFFICES ASSUME [Next]_vars PROVE [RNext]_rvars
    OBVIOUS
  <1>1. ASSUME NEW p \in Producers, NEW m \in Item, StartSend(p, m)
        PROVE  RNext
    BY <1>1 DEF StartSend, RNext
  <1>2. ASSUME NEW p \in Producers, PushMessage(p) PROVE RNext
    BY <1>2 DEF PushMessage, RNext
  <1>3. CASE PopMessage
    BY <1>3 DEF PopMessage, RNext
  <1>4. CASE IssueMessage
    BY <1>4 DEF IssueMessage, RNext
  <1>5. ASSUME NEW pkt \in network,
               Lose(pkt) \/ ReceiveFragment(pkt) \/ ReceiveLast(pkt)
        PROVE  UNCHANGED rvars
    BY <1>5 DEF Lose, ReceiveFragment, ReceiveLast
  <1>6. CASE ServerStep
    BY <1>6 DEF ServerStep
  <1>7. CASE ProcessorStep
    BY <1>7 DEF ProcessorStep
  <1>8. CASE Environment
    BY <1>8 DEF Environment
  <1>9. CASE UNCHANGED vars
    BY <1>9 DEF vars
  <1> QED
    BY <1>1, <1>2, <1>3, <1>4, <1>5, <1>6, <1>7, <1>8, <1>9 DEF Next

\* The path runs the ring buffer as specified.
THEOREM PathRunsRing == Spec => RSpec
  <1>1. Init => RInit
    BY DEF Init
  <1> QED
    BY <1>1, PathStepsRing, PTL DEF Spec, RSpec

\* Whatever the network and the receiver do, the buffer between the sending
\* threads and the propagation simulator is a first-in first-out queue.
THEOREM PathIsQueue == Spec => ImplementsQueue
  BY PathRunsRing, RingBufferIsQueue, PTL

\* The propagation simulator never finds a NULL message pointer.
THEOREM PathNeverNull == Spec => []NeverNull
  BY PathRunsRing, NeverNullAlways, PTL

-----------------------------------------------------------------------------
(* The condition variable *)

\* A step that leaves the blocking buffer alone keeps its invariant.
LEMMA OthersKeep == BConsistent /\ UNCHANGED bvars => BConsistent'
  BY SMTT(30) DEF BConsistent, bvars

\* Every step of the provider or the consumer keeps it.
LEMMA BufferKeeps ==
  ASSUME BConsistent,
         \/ StopNode \/ SpuriousWakeup
         \/ CheckRunning \/ ReceiveTimeout \/ (\E r : ReceiveRequest(r))
         \/ PushRequest \/ PushFails \/ NotifyOne \/ LockToFinish \/ NotifyAll
         \/ StartPop \/ EvalPredicate \/ Wait \/ PopFinish \/ PopRequest
  PROVE  BConsistent'
  <1> USE DEF BConsistent, provider, consumer, Notify
  <1>1. CASE StopNode
    BY <1>1 DEF StopNode
  <1>2. CASE SpuriousWakeup
    BY <1>2 DEF SpuriousWakeup
  <1>3. CASE CheckRunning
    BY <1>3 DEF CheckRunning
  <1>4. CASE ReceiveTimeout
    BY <1>4 DEF ReceiveTimeout
  <1>5. CASE \E r : ReceiveRequest(r)
    BY <1>5 DEF ReceiveRequest
  <1>6. CASE PushRequest
    BY <1>6 DEF PushRequest
  <1>7. CASE PushFails
    BY <1>7 DEF PushFails
  <1>8. CASE NotifyOne
    BY <1>8 DEF NotifyOne
  <1>9. CASE LockToFinish
    BY <1>9 DEF LockToFinish
  <1>10. CASE NotifyAll
    BY <1>10 DEF NotifyAll
  <1>11. CASE StartPop
    BY <1>11 DEF StartPop
  <1>12. CASE EvalPredicate
    BY <1>12, Zenon DEF EvalPredicate
  <1>13. CASE Wait
    BY <1>13 DEF Wait
  <1>14. CASE PopFinish
    BY <1>14 DEF PopFinish
  <1>15. CASE PopRequest
    BY <1>15 DEF PopRequest
  <1> QED
    BY <1>1, <1>2, <1>3, <1>4, <1>5, <1>6, <1>7, <1>8, <1>9, <1>10, <1>11,
       <1>12, <1>13, <1>14, <1>15, Zenon

\* The invalidation processor never sleeps while a request waits for it, or
\* after the node has stopped, without a notification still to come.
THEOREM ProcessorNeverSleepsOnWork == Spec => []NoSleepOnWork
  <1>1. Init => BConsistent
    BY DEF Init, BInit, BConsistent
  <1>2. BConsistent /\ [Next]_vars => BConsistent'
    <2> SUFFICES ASSUME BConsistent, [Next]_vars PROVE BConsistent'
      OBVIOUS
    <2>1. CASE ServerStep
      BY <2>1, BufferKeeps DEF ServerStep
    <2>2. CASE ProcessorStep
      BY <2>2, BufferKeeps DEF ProcessorStep
    <2>3. CASE Environment
      BY <2>3, BufferKeeps DEF Environment
    <2>4. ASSUME NEW pkt \in network, ReceiveLast(pkt) PROVE BConsistent'
      BY <2>4, BufferKeeps DEF ReceiveLast
    <2>5. ASSUME NEW pkt \in network, Lose(pkt) \/ ReceiveFragment(pkt)
          PROVE  BConsistent'
      BY <2>5, OthersKeep DEF Lose, ReceiveFragment
    <2>6. ASSUME NEW p \in Producers,
                 PushMessage(p) \/ \E m \in Item : StartSend(p, m)
          PROVE  BConsistent'
      BY <2>6, OthersKeep DEF PushMessage, StartSend
    <2>7. CASE PopMessage \/ IssueMessage \/ UNCHANGED vars
      BY <2>7, OthersKeep DEF PopMessage, IssueMessage, vars
    <2> QED
      BY <2>1, <2>2, <2>3, <2>4, <2>5, <2>6, <2>7 DEF Next
  <1>3. BConsistent => NoSleepOnWork
    BY DEF BConsistent, NoSleepOnWork
  <1> QED
    BY <1>1, <1>2, <1>3, PTL DEF Spec

\* head_ and tail_ stay indices of the buffer, and the slots hold messages.
THEOREM PathRingTyped == Spec => []RTypeOK
  BY PathRunsRing, RingBufferConsistent, PTL DEF RInv

-----------------------------------------------------------------------------
(* The ring buffer holds no message twice *)

\* Slot i holds an item that pop() has not taken yet.
Occupied(i) == Live(i) /\ (cpc = "cleared" => i # tail)

\* Message m is on its way from push() to the network.
InBuffer(m) ==
  \/ \E p \in Producers : lock = p /\ pushed[p] = m
  \/ \E i \in Slots : Occupied(i) /\ ring_buffer[i] = m
  \/ cpc = "cleared" /\ element = m
  \/ message_ptr = m

\* It is so in one place only.
BufferOnce ==
  /\ \A i, j \in Slots :
       Occupied(i) /\ Occupied(j) /\ ring_buffer[i] = ring_buffer[j] => i = j
  /\ \A p \in Producers :
       lock = p => /\ \A i \in Slots : Occupied(i) => ring_buffer[i] # pushed[p]
                   /\ cpc = "cleared" => element # pushed[p]
                   /\ message_ptr # pushed[p]
  /\ cpc = "cleared" =>
       \A i \in Slots : Occupied(i) => ring_buffer[i] # element
  /\ \A i \in Slots : Occupied(i) => ring_buffer[i] # message_ptr

\* Which slots are occupied after the provider has advanced head_.
LEMMA AdvanceHeadOccupies ==
  ASSUME RInv, NEW p \in Producers, AdvanceHead(p)
  PROVE  \A i \in Slots : Occupied(i)' <=> Occupied(i) \/ i = head
  <1>1. /\ Succ(head) = IF head + 1 = BufferSize THEN 0 ELSE head + 1
        /\ BufferSize \in Nat \ {0}
    BY SuccIs, BufferSizeAssumption DEF RInv, RTypeOK
  <1>2. /\ head \in Slots /\ tail \in Slots /\ Succ(head) # tail
        /\ head' = Succ(head) /\ UNCHANGED <<tail, cpc>>
        /\ cpc = "cleared" => tail # head
    BY DEF RInv, RTypeOK, RConsistent, AdvanceHead, IsFull, IsEmpty, cvars
  <1> QED
    BY <1>1, <1>2 DEF Occupied, Live, Slots

\* Which slots are occupied after the consumer has advanced tail_.
LEMMA AdvanceTailOccupies ==
  ASSUME RInv, AdvanceTail
  PROVE  \A i \in Slots : Occupied(i)' <=> Occupied(i)
  <1>1. /\ Succ(tail) = IF tail + 1 = BufferSize THEN 0 ELSE tail + 1
        /\ BufferSize \in Nat \ {0}
    BY SuccIs, BufferSizeAssumption DEF RInv, RTypeOK
  <1>2. /\ head \in Slots /\ tail \in Slots /\ tail # head
        /\ tail' = Succ(tail) /\ UNCHANGED head
        /\ cpc = "cleared" /\ cpc' = "use"
    BY DEF RInv, RTypeOK, RConsistent, AdvanceTail, IsEmpty
  <1> QED
    BY <1>1, <1>2 DEF Occupied, Live, Slots

\* A message that is handed to push() for the first time is then once in it.
LEMMA AcquireOnce ==
  ASSUME RInv, BufferOnce, NEW p \in Producers, NEW m \in Item,
         ~InBuffer(m), AcquireLock(p, m)
  PROVE  /\ BufferOnce'
         /\ \A x \in Item : InBuffer(x)' => InBuffer(x) \/ x = m
  <1> USE NoOneAssumption, NoItemAssumption
      DEF RInv, RTypeOK, AcquireLock, Occupied, Live, cvars
  <1>1. BufferOnce'
    BY DEF BufferOnce, InBuffer
  <1>2. \A x \in Item : InBuffer(x)' => InBuffer(x) \/ x = m
    BY DEF InBuffer
  <1> QED
    BY <1>1, <1>2, Zenon

\* push() and pop() move messages and double none.
LEMMA MoveOnce ==
  ASSUME RInv, BufferOnce,
         \/ \E p \in Producers : \/ FindFull(p) \/ FindRoom(p)
                                 \/ WriteSlot(p) \/ AdvanceHead(p)
         \/ FindItem \/ CopySlot \/ ClearSlot \/ AdvanceTail
         \/ UNCHANGED rvars
  PROVE  /\ BufferOnce'
         /\ \A x \in Item : InBuffer(x)' => InBuffer(x)
  <1> DEFINE Goal == BufferOnce' /\ \A x \in Item : InBuffer(x)' => InBuffer(x)
  <1> USE NoOneAssumption, NoItemAssumption
  <1>1. ASSUME NEW p \in Producers, FindFull(p) PROVE Goal
    BY <1>1 DEF RInv, RTypeOK, FindFull, Occupied, Live, cvars, BufferOnce,
                InBuffer
  <1>2. ASSUME NEW p \in Producers, FindRoom(p) PROVE Goal
    BY <1>2, Zenon DEF FindRoom, Occupied, Live, cvars, BufferOnce, InBuffer
  <1>3. ASSUME NEW p \in Producers, WriteSlot(p) PROVE Goal
    <2>1. \A i \in Slots : /\ Occupied(i)' <=> Occupied(i)
                           /\ Occupied(i) => ring_buffer'[i] = ring_buffer[i]
      BY <1>3 DEF RInv, RTypeOK, WriteSlot, Occupied, Live, cvars, Slots
    <2> QED
      BY <1>3, <2>1 DEF WriteSlot, cvars, BufferOnce, InBuffer
  <1>4. ASSUME NEW p \in Producers, AdvanceHead(p) PROVE Goal
    <2>1. /\ lock = p /\ ring_buffer[head] = pushed[p] /\ head \in Slots
          /\ lock' = NoOne /\ UNCHANGED <<ring_buffer, tail, cpc, element,
                                          message_ptr>>
      BY <1>4 DEF RInv, RTypeOK, RConsistent, AdvanceHead, cvars
    <2>2. \A i \in Slots : Occupied(i)' <=> Occupied(i) \/ i = head
      BY <1>4, AdvanceHeadOccupies, ZenonT(30)
    <2>3. BufferOnce'
      <3>1. /\ \A i \in Slots : Occupied(i) => ring_buffer[i] # ring_buffer[head]
            /\ cpc = "cleared" => element # ring_buffer[head]
            /\ message_ptr # ring_buffer[head]
        BY <2>1, Zenon DEF BufferOnce
      <3>2. \A i, j \in Slots :
              Occupied(i)' /\ Occupied(j)' /\ ring_buffer[i] = ring_buffer[j]
              => i = j
        BY <2>2, <3>1, Zenon DEF BufferOnce
      <3>3. \A q \in Producers : lock' # q
        BY <2>1, Zenon
      <3>4. /\ cpc = "cleared" =>
                 \A i \in Slots : Occupied(i)' => ring_buffer[i] # element
            /\ \A i \in Slots : Occupied(i)' => ring_buffer[i] # message_ptr
        BY <2>2, <3>1, Zenon DEF BufferOnce
      <3> QED
        BY <2>1, <3>2, <3>3, <3>4, Zenon DEF BufferOnce
    <2>4. \A x \in Item : InBuffer(x)' => InBuffer(x)
      BY <2>1, <2>2, Zenon DEF InBuffer
    <2> QED
      BY <2>3, <2>4, Zenon
  <1>5. CASE FindItem
    BY <1>5, ZenonT(30) DEF FindItem, Occupied, Live, pvars, BufferOnce, InBuffer
  <1>6. CASE CopySlot
    BY <1>6, Zenon DEF CopySlot, Occupied, Live, pvars, BufferOnce, InBuffer
  <1>7. CASE ClearSlot
    <2>1. /\ element = ring_buffer[tail] /\ tail \in Slots /\ Occupied(tail)
          /\ UNCHANGED <<lock, pushed, element, message_ptr>>
      BY <1>7 DEF RInv, RTypeOK, RConsistent, ClearSlot, Occupied, Live, Slots,
                  IsEmpty, pvars
    <2>2. \A i \in Slots : /\ Occupied(i)' <=> Occupied(i) /\ i # tail
                           /\ i # tail => ring_buffer'[i] = ring_buffer[i]
      BY <1>7, Zenon DEF RInv, RTypeOK, ClearSlot, Occupied, Live, Slots
    <2>3. BufferOnce'
      BY <2>1, <2>2, ZenonT(30) DEF BufferOnce
    <2>4. \A x \in Item : InBuffer(x)' => InBuffer(x)
      BY <2>1, <2>2, Zenon DEF InBuffer
    <2> QED
      BY <2>3, <2>4, Zenon
  <1>8. CASE AdvanceTail
    <2>1. /\ cpc = "cleared" /\ cpc' = "use" /\ message_ptr' = element
          /\ UNCHANGED <<ring_buffer, lock, pushed>>
      BY <1>8 DEF AdvanceTail, pvars
    <2>2. \A i \in Slots : Occupied(i)' <=> Occupied(i)
      BY <1>8, AdvanceTailOccupies, Zenon
    <2>3. BufferOnce'
      BY <2>1, <2>2, Zenon DEF BufferOnce
    <2>4. \A x \in Item : InBuffer(x)' => InBuffer(x)
      BY <2>1, <2>2, ZenonT(30) DEF InBuffer
    <2> QED
      BY <2>3, <2>4
  <1>9. CASE UNCHANGED rvars
    BY <1>9 DEF rvars, Occupied, Live, BufferOnce, InBuffer
  <1> QED
    BY <1>1, <1>2, <1>3, <1>4, <1>5, <1>6, <1>7, <1>8, <1>9, ZenonT(30)

\* A message that has been issued is nowhere in the buffer any more.
LEMMA ReleaseOnce ==
  ASSUME RInv, BufferOnce, ReleaseMessage
  PROVE  /\ message_ptr \in Item /\ InBuffer(message_ptr)
         /\ BufferOnce'
         /\ \A x \in Item : InBuffer(x)' => InBuffer(x) /\ x # message_ptr
  <1> USE NoItemAssumption
      DEF RInv, RTypeOK, RConsistent, ReleaseMessage, Occupied, pvars
  <1>1. message_ptr \in Item /\ InBuffer(message_ptr)
    BY DEF InBuffer
  <1>2. /\ cpc = "use" /\ cpc' = "poll" /\ message_ptr' = NoItem
        /\ UNCHANGED <<ring_buffer, lock, pushed>>
        /\ \A i \in Slots : /\ Occupied(i)' <=> Occupied(i)
                            /\ Occupied(i) => ring_buffer[i] \in Item
        /\ \A p \in Producers : lock = p => pushed[p] \in Item
    BY Zenon DEF Live
  <1>3. BufferOnce'
    BY <1>2, Zenon DEF BufferOnce
  <1>4. \A x \in Item : InBuffer(x)' => InBuffer(x) /\ x # message_ptr
    BY <1>2 DEF BufferOnce, InBuffer
  <1> QED
    BY <1>1, <1>3, <1>4, Zenon

-----------------------------------------------------------------------------
(* Every message is sent once, under a sequence number of its own *)

\* The packets that have been sent and not been lost.
Packets == network \cup arrived

\* A packet is a fragment of a message that was sent.
PacketOK(pkt) ==
  /\ pkt.payload \in sent
  /\ pkt.seqnum \in Nat
  /\ pkt.seqnum < msg_seqnum
  /\ pkt \in Fragments(pkt.payload, pkt.seqnum)

\* Messages and their sequence numbers determine each other, and a packet
\* arrives at most once.
PacketsOK ==
  /\ msg_seqnum \in Nat
  /\ sent \subseteq Item
  /\ \A pkt \in Packets : PacketOK(pkt)
  /\ \A x, y \in Packets : x.seqnum = y.seqnum <=> x.payload = y.payload
  /\ network \cap arrived = {}

\* A message in the ring buffer has not been sent over the network yet.
BufferOK ==
  \A m \in Item : InBuffer(m) =>
    m \in sent /\ \A pkt \in Packets : pkt.payload # m

SenderInv == BufferOnce /\ PacketsOK /\ BufferOK

\* What a fragment says of its message.
LEMMA FragmentIs ==
  ASSUME NEW m, NEW n, NEW pkt \in Fragments(m, n)
  PROVE  /\ pkt.payload = m /\ pkt.seqnum = n
         /\ pkt.source = SourceOf[m] /\ pkt.cnt = FragmentCnt[m]
         /\ pkt.idx \in 0 .. (FragmentCnt[m] - 1)
         /\ pkt = [idx |-> pkt.idx, cnt |-> FragmentCnt[m], seqnum |-> n,
                   source |-> SourceOf[m], payload |-> m]
  BY DEF Fragments

\* The number of fragments of a message that was sent.
LEMMA CntIs ==
  ASSUME NEW m \in Item PROVE FragmentCnt[m] \in Nat \ {0}
  BY ItemAssumption, FragmentCntAssumption

\* What a packet says of its message.
LEMMA PacketIs ==
  ASSUME PacketsOK, NEW pkt \in Packets
  PROVE  /\ pkt.payload \in sent /\ pkt.payload \in Item
         /\ pkt.seqnum \in Nat /\ pkt.seqnum < msg_seqnum
         /\ pkt.source = SourceOf[pkt.payload]
         /\ pkt.cnt = FragmentCnt[pkt.payload] /\ pkt.cnt \in Nat \ {0}
         /\ pkt.idx \in 0 .. (pkt.cnt - 1)
         /\ pkt = [idx |-> pkt.idx, cnt |-> FragmentCnt[pkt.payload],
                   seqnum |-> pkt.seqnum, source |-> SourceOf[pkt.payload],
                   payload |-> pkt.payload]
  <1>1. PacketOK(pkt) /\ sent \subseteq Item
    BY DEF PacketsOK
  <1>2. pkt \in Fragments(pkt.payload, pkt.seqnum)
    BY <1>1 DEF PacketOK
  <1> QED
    BY <1>1, <1>2, FragmentIs, CntIs DEF PacketOK

\* Two packets of one message with one index are the same packet.
LEMMA SamePacket ==
  ASSUME PacketsOK, NEW x \in Packets, NEW y \in Packets,
         x.payload = y.payload, x.idx = y.idx
  PROVE  x = y
  <1>1. x.seqnum = y.seqnum
    BY DEF PacketsOK
  <1> QED
    BY <1>1, PacketIs

\* Packets that are lost or arrive leave the sender's bookkeeping right.
LEMMA FewerPackets ==
  ASSUME PacketsOK, BufferOK, Packets' \subseteq Packets,
         network' \cap arrived' = {}, UNCHANGED msg_seqnum,
         sent \subseteq sent', sent' \subseteq Item,
         \A x \in Item : InBuffer(x)' => InBuffer(x)
  PROVE  PacketsOK' /\ BufferOK'
  <1>1. \A pkt \in Packets' : PacketOK(pkt)'
    BY DEF PacketsOK, PacketOK, Fragments
  <1>2. PacketsOK'
    BY <1>1 DEF PacketsOK
  <1>3. BufferOK'
    BY DEF BufferOK
  <1> QED
    BY <1>2, <1>3, Zenon

\* A thread hands a new message to push().
LEMMA StartSendKeeps ==
  ASSUME RInv, SenderInv, NEW p \in Producers, NEW m \in Item,
         StartSend(p, m)
  PROVE  SenderInv'
  <1>1. /\ ~InBuffer(m) /\ \A pkt \in Packets : pkt.payload # m
        /\ sent' = sent \cup {m}
        /\ AcquireLock(p, m)
        /\ UNCHANGED <<network, arrived, msg_seqnum>>
    BY DEF SenderInv, PacketsOK, PacketOK, BufferOK, StartSend, uvars
  <1>2. BufferOnce' /\ \A x \in Item : InBuffer(x)' => InBuffer(x) \/ x = m
    BY <1>1, AcquireOnce DEF SenderInv
  <1>3. Packets' = Packets
    BY <1>1 DEF Packets
  <1>4. \A pkt \in Packets' : PacketOK(pkt)'
    BY <1>1, <1>3, Zenon DEF SenderInv, PacketsOK, PacketOK, Fragments
  <1>5. PacketsOK'
    BY <1>1, <1>3, <1>4 DEF SenderInv, PacketsOK
  <1>6. BufferOK'
    BY <1>1, <1>2, <1>3 DEF SenderInv, BufferOK
  <1> QED
    BY <1>2, <1>5, <1>6, ZenonT(30) DEF SenderInv

\* The propagation simulator sends a message over the network.
LEMMA IssueKeeps ==
  ASSUME RInv, SenderInv, IssueMessage
  PROVE  SenderInv'
  <1> DEFINE m == message_ptr
             new == Fragments(m, msg_seqnum)
  <1>1. /\ m \in Item /\ InBuffer(m)
        /\ BufferOnce'
        /\ \A x \in Item : InBuffer(x)' => InBuffer(x) /\ x # m
    BY ReleaseOnce DEF SenderInv, IssueMessage
  <1>2. /\ network' = network \cup new
        /\ msg_seqnum' = msg_seqnum + 1
        /\ UNCHANGED <<arrived, sent>>
    BY DEF IssueMessage, Send
  <1>3. Packets' = Packets \cup new
    BY <1>2 DEF Packets
  <1>4. m \in sent /\ \A pkt \in Packets : pkt.payload # m
    BY <1>1 DEF SenderInv, BufferOK
  <1>5. \A pkt \in new : pkt.payload = m /\ pkt.seqnum = msg_seqnum
    BY FragmentIs, SMTT(30)
  <1> HIDE DEF m, new
  <1>6. \A pkt \in Packets : PacketOK(pkt)'
    <2> SUFFICES ASSUME NEW pkt \in Packets PROVE PacketOK(pkt)'
      OBVIOUS
    <2>1. PacketOK(pkt) /\ msg_seqnum \in Nat
      BY Zenon DEF SenderInv, PacketsOK
    <2> QED
      BY <1>2, <2>1 DEF PacketOK, Fragments
  <1>7. \A pkt \in new : PacketOK(pkt)'
    BY <1>2, <1>4, <1>5 DEF SenderInv, PacketsOK, PacketOK, Fragments, m, new
  <1>8. \A pkt \in Packets : pkt.seqnum \in Nat /\ pkt.seqnum < msg_seqnum
    BY DEF SenderInv, PacketsOK, PacketOK
  <1>9. \A x, y \in Packets' : x.seqnum = y.seqnum <=> x.payload = y.payload
    <2> SUFFICES ASSUME NEW x \in Packets', NEW y \in Packets'
                 PROVE  x.seqnum = y.seqnum <=> x.payload = y.payload
      OBVIOUS
    <2>1. msg_seqnum \in Nat
      BY DEF SenderInv, PacketsOK
    <2>2. CASE x \in Packets /\ y \in Packets
      BY <2>2 DEF SenderInv, PacketsOK
    <2>3. CASE x \in Packets /\ y \in new
      BY <2>1, <2>3, <1>4, <1>5, <1>8, SMTT(30)
    <2>4. CASE x \in new /\ y \in Packets
      BY <2>1, <2>4, <1>4, <1>5, <1>8, SMTT(30)
    <2>5. CASE x \in new /\ y \in new
      BY <2>5, <1>5
    <2> QED
      BY <1>3, <2>2, <2>3, <2>4, <2>5
  <1>10. network' \cap arrived' = {}
    BY <1>2, <1>4, <1>5 DEF SenderInv, PacketsOK, Packets
  <1>11. PacketsOK'
    BY <1>2, <1>3, <1>6, <1>7, <1>9, <1>10, SMTT(30) DEF SenderInv, PacketsOK
  <1>12. BufferOK'
    BY <1>1, <1>2, <1>3, <1>5, Zenon DEF SenderInv, BufferOK
  <1> QED
    BY <1>1, <1>11, <1>12 DEF SenderInv

\* A step that neither starts nor issues a message moves messages in the
\* buffer, loses a packet or lets one arrive.
LEMMA OtherStepsKeep ==
  ASSUME RInv, SenderInv, UNCHANGED <<sent, msg_seqnum>>,
         \/ UNCHANGED <<network, arrived>>
         \/ \E pkt \in network : /\ network' = network \ {pkt}
                                 /\ arrived' \in {arrived, arrived \cup {pkt}},
         \/ \E p \in Producers : \/ FindFull(p) \/ FindRoom(p)
                                 \/ WriteSlot(p) \/ AdvanceHead(p)
         \/ FindItem \/ CopySlot \/ ClearSlot \/ AdvanceTail
         \/ UNCHANGED rvars
  PROVE  SenderInv' /\ \A x \in Item : InBuffer(x)' => InBuffer(x)
  <1>1. BufferOnce' /\ \A x \in Item : InBuffer(x)' => InBuffer(x)
    BY MoveOnce DEF SenderInv
  <1>2. Packets' \subseteq Packets /\ network' \cap arrived' = {}
    BY DEF Packets, SenderInv, PacketsOK
  <1>3. sent \subseteq sent' /\ sent' \subseteq Item
    BY Zenon DEF SenderInv, PacketsOK
  <1> QED
    BY <1>1, <1>2, <1>3, FewerPackets, Zenon DEF SenderInv

-----------------------------------------------------------------------------
(* The partial messages of MsgFragStats *)

\* f is a fragment of message m, sent as number n, that has arrived.
FragOf(f, m, n) ==
  \E pkt \in arrived : pkt.payload = m /\ pkt.seqnum = n /\ f = Frag(pkt)

\* The entry of source s holds fragments of one message of s, not all of them.
EntryOK(s, e) ==
  /\ e \in [cnt : Nat, seqnum : Nat, frags : SUBSET [idx : Nat, payload : Item]]
  /\ IsFiniteSet(e.frags)
  /\ Cardinality(e.frags) < e.cnt
  /\ e.frags # {}
  /\ \E m \in sent : /\ SourceOf[m] = s
                     /\ e.cnt = FragmentCnt[m]
                     /\ \A f \in e.frags : FragOf(f, m, e.seqnum)

EntriesOK ==
  \A s \in DOMAIN srcaddr_entry_map : EntryOK(s, srcaddr_entry_map[s])

\* A packet with the number of its source's entry is a fragment of the
\* entry's message, and a new one.
LEMMA EntryAgrees ==
  ASSUME PacketsOK, NEW pkt \in network, NEW e, EntryOK(pkt.source, e),
         e.seqnum = pkt.seqnum
  PROVE  /\ pkt.cnt = e.cnt
         /\ ~IsTracked(e, pkt)
         /\ \A f \in e.frags : f.payload = pkt.payload
         /\ \A f \in e.frags : FragOf(f, pkt.payload, e.seqnum)
  <1>1. PICK m \in sent : /\ SourceOf[m] = pkt.source
                          /\ e.cnt = FragmentCnt[m]
                          /\ \A f \in e.frags : FragOf(f, m, e.seqnum)
    BY DEF EntryOK
  <1>2. pkt \in Packets /\ \A x \in arrived : x \in Packets /\ x # pkt
    BY DEF Packets, PacketsOK
  <1>3. PICK f \in e.frags : FragOf(f, m, e.seqnum)
    BY <1>1 DEF EntryOK
  <1>4. PICK x \in arrived : x.payload = m /\ x.seqnum = e.seqnum
    BY <1>3, Zenon DEF FragOf
  <1>5. pkt.payload = m
    BY <1>2, <1>4 DEF PacketsOK
  <1>6. pkt.cnt = e.cnt
    BY <1>1, <1>2, <1>5, PacketIs, Zenon
  <1>7. ASSUME NEW g \in e.frags PROVE g.payload = pkt.payload /\ g.idx # pkt.idx
    <2>1. PICK y \in arrived : y.payload = m /\ g = Frag(y)
      BY <1>1, <1>7, Zenon DEF FragOf
    <2>2. g.payload = y.payload /\ g.idx = y.idx
      BY <2>1, Zenon DEF Frag
    <2>3. y.idx # pkt.idx
      BY <1>2, <1>5, <2>1, SamePacket, Zenon
    <2> QED
      BY <1>5, <2>1, <2>2, <2>3, Zenon
  <1> QED
    BY <1>1, <1>5, <1>6, <1>7, ZenonT(30) DEF IsTracked

\* The assertions of insertFrag() follow.
LEMMA AgreementFollows ==
  ASSUME PacketsOK, EntriesOK PROVE FragmentsAgree
  BY EntryAgrees, Zenon DEF EntriesOK, FragmentsAgree, HasEntry, Entry

\* More messages and more arrived packets do not disturb an entry.
LEMMA EntryStays ==
  ASSUME NEW s, NEW e, EntryOK(s, e), sent \subseteq sent',
         arrived \subseteq arrived'
  PROVE  EntryOK(s, e)'
  <1>1. \A f, m, n : FragOf(f, m, n) => FragOf(f, m, n)'
    BY Zenon DEF FragOf, Frag
  <1>2. PICK m \in sent : /\ SourceOf[m] = s
                          /\ e.cnt = FragmentCnt[m]
                          /\ \A f \in e.frags : FragOf(f, m, e.seqnum)
    BY ZenonT(30) DEF EntryOK
  <1>3. m \in sent' /\ \A f \in e.frags : FragOf(f, m, e.seqnum)'
    BY <1>1, <1>2, Zenon
  <1> QED
    BY <1>2, <1>3 DEF EntryOK

\* The first fragment of a message makes a good entry.
LEMMA FirstFragOK ==
  ASSUME PacketsOK, NEW pkt \in network, pkt.cnt # 1, pkt \in arrived',
         UNCHANGED sent
  PROVE  EntryOK(pkt.source, FirstFrag(pkt))'
  <1>1. /\ pkt.payload \in sent /\ pkt.payload \in Item /\ pkt.seqnum \in Nat
        /\ pkt.source = SourceOf[pkt.payload]
        /\ pkt.cnt = FragmentCnt[pkt.payload] /\ pkt.cnt \in Nat \ {0}
        /\ pkt.idx \in Nat
    BY PacketIs DEF Packets
  <1> DEFINE e == FirstFrag(pkt)
  <1>2. e.cnt = pkt.cnt /\ e.seqnum = pkt.seqnum /\ e.frags = {Frag(pkt)}
    BY Zenon DEF FirstFrag
  <1>3. e \in [cnt : Nat, seqnum : Nat,
               frags : SUBSET [idx : Nat, payload : Item]]
    BY <1>1 DEF FirstFrag, Frag
  <1>4. IsFiniteSet(e.frags) /\ Cardinality(e.frags) = 1
    BY <1>2, FS_Singleton, Zenon
  <1>5. FragOf(Frag(pkt), pkt.payload, pkt.seqnum)'
    BY DEF FragOf, Frag
  <1>6. e' = e
    BY Zenon DEF FirstFrag, Frag
  <1> HIDE DEF e
  <1>7. EntryOK(pkt.source, e)'
    BY <1>1, <1>2, <1>3, <1>4, <1>5 DEF EntryOK
  <1> QED
    BY <1>6, <1>7 DEF e

\* So does a further fragment that is not the last one.
LEMMA NextFragOK ==
  ASSUME PacketsOK, NEW pkt \in network, NEW e, EntryOK(pkt.source, e),
         e.seqnum = pkt.seqnum, ~IsLastFrag(e, pkt),
         arrived' = arrived \cup {pkt}, UNCHANGED sent
  PROVE  EntryOK(pkt.source, [e EXCEPT !.frags = @ \cup {Frag(pkt)}])'
  <1>1. /\ pkt.payload \in sent /\ pkt.payload \in Item /\ pkt.seqnum \in Nat
        /\ pkt.source = SourceOf[pkt.payload]
        /\ pkt.cnt = FragmentCnt[pkt.payload] /\ pkt.cnt \in Nat \ {0}
        /\ pkt.idx \in Nat
    BY PacketIs, SMTT(30) DEF Packets
  <1>2. /\ pkt.cnt = e.cnt /\ ~IsTracked(e, pkt)
        /\ \A f \in e.frags : FragOf(f, pkt.payload, e.seqnum)
    BY EntryAgrees, ZenonT(30)
  <1>3. /\ e \in [cnt : Nat, seqnum : Nat,
                  frags : SUBSET [idx : Nat, payload : Item]]
        /\ IsFiniteSet(e.frags) /\ Cardinality(e.frags) < e.cnt
    BY Zenon DEF EntryOK
  <1>4. Frag(pkt) \in [idx : Nat, payload : Item] /\ Frag(pkt).idx = pkt.idx
    BY <1>1, ZenonT(30) DEF Frag
  <1>5. Frag(pkt) \notin e.frags
    BY <1>2, <1>4, Zenon DEF IsTracked
  <1> DEFINE n == [e EXCEPT !.frags = @ \cup {Frag(pkt)}]
  <1>6. /\ n \in [cnt : Nat, seqnum : Nat,
                  frags : SUBSET [idx : Nat, payload : Item]]
        /\ n.cnt = e.cnt /\ n.seqnum = e.seqnum
        /\ n.frags = e.frags \cup {Frag(pkt)}
    BY <1>3, <1>4
  <1>7. /\ IsFiniteSet(n.frags)
        /\ Cardinality(n.frags) = Cardinality(e.frags) + 1
    BY <1>3, <1>5, <1>6, FS_AddElement
  <1>8. Cardinality(n.frags) < n.cnt
    <2>1. Cardinality(e.frags) \in Nat /\ Cardinality(e.frags) # e.cnt - 1
      BY <1>2, <1>3, FS_CardinalityType DEF IsLastFrag
    <2> QED
      BY <1>3, <1>6, <1>7, <2>1, SMTT(30)
  <1>9. \A f \in n.frags : FragOf(f, pkt.payload, n.seqnum)'
    BY <1>2, <1>6, Zenon DEF FragOf, Frag
  <1>10. Frag(pkt)' = Frag(pkt)
    BY DEF Frag
  <1> HIDE DEF n
  <1>11. EntryOK(pkt.source, n)'
    BY <1>1, <1>2, <1>6, <1>7, <1>8, <1>9, Zenon DEF EntryOK
  <1> QED
    BY <1>10, <1>11 DEF n

\* What recv() does to the entries when a fragment is not the last one.
LEMMA TrackedMap ==
  ASSUME NEW pkt \in network, TrackFragment(pkt)
  PROVE  /\ DOMAIN srcaddr_entry_map' = DOMAIN srcaddr_entry_map \cup {pkt.source}
         /\ \A s \in DOMAIN srcaddr_entry_map :
              s # pkt.source => srcaddr_entry_map'[s] = srcaddr_entry_map[s]
         /\ HasEntry(pkt) =>
              srcaddr_entry_map'[pkt.source] = InsertFrag(Entry(pkt), pkt)
         /\ ~HasEntry(pkt) => srcaddr_entry_map'[pkt.source] = FirstFrag(pkt)
  <1>1. CASE HasEntry(pkt)
    <2>1. srcaddr_entry_map' = [srcaddr_entry_map EXCEPT ![pkt.source] =
                                  InsertFrag(srcaddr_entry_map[pkt.source], pkt)]
      BY <1>1, Zenon DEF TrackFragment
    <2> QED
      BY <1>1, <2>1 DEF HasEntry, Entry
  <1>2. CASE ~HasEntry(pkt)
    <2>1. srcaddr_entry_map' =
            [s \in DOMAIN srcaddr_entry_map \cup {pkt.source} |->
               IF s = pkt.source THEN FirstFrag(pkt) ELSE srcaddr_entry_map[s]]
      BY <1>2 DEF TrackFragment
    <2> QED
      BY <1>2, <2>1 DEF HasEntry, Entry
  <1> QED
    BY <1>1, <1>2, Zenon

\* What insertFrag() makes of an entry.
LEMMA InsertFragIs ==
  ASSUME NEW e, NEW pkt, e.seqnum \in Nat, pkt.seqnum \in Nat
  PROVE  /\ pkt.seqnum < e.seqnum =>
              InsertFrag(e, pkt) = e /\ GivenUp(e, pkt) = {pkt.payload}
         /\ pkt.seqnum > e.seqnum =>
              /\ InsertFrag(e, pkt) = FirstFrag(pkt)
              /\ GivenUp(e, pkt) = {f.payload : f \in e.frags}
         /\ pkt.seqnum = e.seqnum =>
              InsertFrag(e, pkt) = [e EXCEPT !.frags = @ \cup {Frag(pkt)}]
  BY DEF InsertFrag, GivenUp

\* A fragment that is not the last one leaves every entry right.
LEMMA TrackKeepsEntries ==
  ASSUME PacketsOK, EntriesOK, NEW pkt \in network, TrackFragment(pkt),
         UNCHANGED sent
  PROVE  EntriesOK'
  <1>1. arrived' = arrived \cup {pkt} /\ pkt.cnt # 1
    BY DEF TrackFragment, Completes
  <1>2. \A s, e : EntryOK(s, e) => EntryOK(s, e)'
    BY <1>1, EntryStays
  <1>3. EntryOK(pkt.source, FirstFrag(pkt))'
    BY <1>1, FirstFragOK, Zenon
  <1>4. EntryOK(pkt.source, srcaddr_entry_map[pkt.source])'
    <2>1. CASE ~HasEntry(pkt)
      BY <1>3, <2>1, TrackedMap, Zenon DEF FirstFrag, Frag
    <2>2. CASE HasEntry(pkt)
      <3> DEFINE e == Entry(pkt)
      <3>1. EntryOK(pkt.source, e) /\ ~IsLastFrag(e, pkt)
        BY <2>2 DEF EntriesOK, HasEntry, Entry, TrackFragment, Completes
      <3>2. e.seqnum \in Nat /\ pkt.seqnum \in Nat
        BY <3>1, PacketIs DEF EntryOK, Packets
      <3>3. srcaddr_entry_map'[pkt.source] = InsertFrag(e, pkt)
        BY <2>2, TrackedMap, Zenon
      <3> HIDE DEF e
      <3>4. CASE pkt.seqnum < e.seqnum
        BY <1>2, <3>1, <3>2, <3>3, <3>4, InsertFragIs, Zenon
      <3>5. CASE pkt.seqnum > e.seqnum
        BY <1>3, <3>2, <3>3, <3>5, InsertFragIs
      <3>6. CASE pkt.seqnum = e.seqnum
        BY <1>1, <3>1, <3>2, <3>3, <3>6, InsertFragIs, NextFragOK, SMTT(30)
      <3> QED
        BY <3>2, <3>4, <3>5, <3>6, SMTT(30)
    <2> QED
      BY <2>1, <2>2
  <1>5. ASSUME NEW s \in DOMAIN srcaddr_entry_map, s # pkt.source
        PROVE  EntryOK(s, srcaddr_entry_map[s])'
    BY <1>2, <1>5, TrackedMap, Zenon DEF EntriesOK
  <1> QED
    BY <1>4, <1>5, TrackedMap, Zenon DEF EntriesOK

\* So does the last one.
LEMMA CompleteKeepsEntries ==
  ASSUME EntriesOK, NEW pkt \in network, CompleteMessage(pkt), UNCHANGED sent
  PROVE  EntriesOK'
  <1>1. arrived \subseteq arrived'
    BY DEF CompleteMessage
  <1>2. /\ DOMAIN srcaddr_entry_map' \subseteq DOMAIN srcaddr_entry_map
        /\ \A s \in DOMAIN srcaddr_entry_map' :
             srcaddr_entry_map'[s] = srcaddr_entry_map[s]
    BY DEF CompleteMessage, Restrict
  <1>3. \A s, e : EntryOK(s, e) => EntryOK(s, e)'
    BY <1>1, EntryStays
  <1> QED
    BY <1>2, <1>3, Zenon DEF EntriesOK

-----------------------------------------------------------------------------
(* What recv() returns *)

\* A whole message has as many fragments as it was cut into.
LEMMA WholeCardinality ==
  ASSUME NEW m \in Item
  PROVE  IsFiniteSet(Whole(m)) /\ Cardinality(Whole(m)) = FragmentCnt[m]
  <1> DEFINE S == 0 .. (FragmentCnt[m] - 1)
             f == [i \in S |-> [idx |-> i, payload |-> m]]
  <1>1. FragmentCnt[m] \in Nat \ {0}
    BY CntIs
  <1>2. IsFiniteSet(S) /\ Cardinality(S) = FragmentCnt[m]
    <2>1. /\ 0 \in Int /\ FragmentCnt[m] - 1 \in Int /\ ~(0 > FragmentCnt[m] - 1)
          /\ FragmentCnt[m] - 1 - 0 + 1 = FragmentCnt[m]
      BY <1>1
    <2>2. /\ IsFiniteSet(S)
          /\ Cardinality(S) = IF 0 > FragmentCnt[m] - 1 THEN 0
                              ELSE FragmentCnt[m] - 1 - 0 + 1
      BY <2>1, FS_Interval, Zenon
    <2> QED
      BY <2>1, <2>2
  <1>3. f \in Bijection(S, Whole(m))
    <2>1. f \in [S -> Whole(m)]
      BY DEF Whole
    <2>2. \A i, j \in S : f[i] = f[j] => i = j
      OBVIOUS
    <2>3. \A w \in Whole(m) : \E i \in S : f[i] = w
      BY DEF Whole
    <2> QED
      BY <2>1, <2>2, <2>3, Zenon DEF Bijection, Injection, Surjection, IsInjective
  <1>4. ExistsBijection(S, Whole(m))
    BY <1>3 DEF ExistsBijection
  <1> QED
    BY <1>2, <1>4, FS_Bijection

\* Different messages differ as a whole.
LEMMA WholeInjective ==
  ASSUME NEW m \in Item, NEW n \in Item, Whole(m) = Whole(n) PROVE m = n
  <1>1. 0 \in 0 .. (FragmentCnt[m] - 1)
    BY CntIs, SMTT(30)
  <1>2. [idx |-> 0, payload |-> m] \in Whole(m)
    BY <1>1, Zenon DEF Whole
  <1>3. \A w \in Whole(n) : w.payload = n
    BY SMTT(30) DEF Whole
  <1> QED
    BY <1>2, <1>3

\* The fragment of a packet is one of its message.
LEMMA FragInWhole ==
  ASSUME PacketsOK, NEW pkt \in Packets PROVE Frag(pkt) \in Whole(pkt.payload)
  BY PacketIs DEF Frag, Whole

\* recv() returns the message of the last packet as a whole, and no other
\* packet of it is still in flight.
LEMMA CompleteIsWhole ==
  ASSUME PacketsOK, EntriesOK, NEW pkt \in network, Completes(pkt)
  PROVE  /\ Assemble(pkt) = Whole(pkt.payload)
         /\ \A x \in network : x.payload = pkt.payload => x = pkt
  <1> DEFINE m == pkt.payload
  <1>0. pkt \in Packets /\ \A x \in network \cup arrived : x \in Packets
    BY DEF Packets
  <1>1. /\ m \in Item /\ pkt.cnt = FragmentCnt[m] /\ pkt.cnt \in Nat \ {0}
        /\ pkt.idx \in 0 .. (pkt.cnt - 1)
    BY <1>0, PacketIs
  <1>2. CASE pkt.cnt = 1
    <2>1. 0 .. (FragmentCnt[m] - 1) = {0} /\ pkt.idx = 0
      BY <1>1, <1>2, SMTT(30)
    <2>2. Assemble(pkt) = Whole(pkt.payload)
      BY <1>2, <2>1, Zenon DEF Assemble, Whole, Frag
    <2>3. ASSUME NEW x \in network, x.payload = m PROVE x = pkt
      <3>1. x.idx = 0
        BY <1>0, <1>1, <1>2, <2>3, PacketIs, SMTT(30)
      <3> QED
        BY <1>0, <2>1, <2>3, <3>1, SamePacket, Zenon
    <2> QED
      BY <2>2, <2>3, Zenon
  <1>3. CASE pkt.cnt # 1
    <2> DEFINE e == Entry(pkt)
    <2>1. EntryOK(pkt.source, e) /\ IsLastFrag(e, pkt)
      BY <1>3, Zenon DEF Completes, EntriesOK, HasEntry, Entry
    <2>2. Assemble(pkt) = e.frags \cup {Frag(pkt)}
      BY <1>3, Zenon DEF Assemble
    <2> HIDE DEF e
    <2>3. /\ pkt.cnt = e.cnt /\ e.seqnum = pkt.seqnum
          /\ Cardinality(e.frags) = e.cnt - 1 /\ IsFiniteSet(e.frags)
          /\ \A f \in e.frags : f.idx # pkt.idx
          /\ \A f \in e.frags : FragOf(f, m, e.seqnum)
      BY <2>1, EntryAgrees, Zenon DEF IsLastFrag, EntryOK, IsTracked
    <2>4. Frag(pkt) \notin e.frags
      BY <2>3, ZenonT(30) DEF Frag
    <2>5. Cardinality(e.frags \cup {Frag(pkt)}) = FragmentCnt[m]
      <3>1. Cardinality(e.frags \cup {Frag(pkt)}) = Cardinality(e.frags) + 1
        BY <2>3, <2>4, FS_AddElement, Zenon
      <3> QED
        BY <1>1, <2>3, <3>1
    <2>6. e.frags \cup {Frag(pkt)} \subseteq Whole(m)
      BY <1>0, <2>3, FragInWhole, Zenon DEF FragOf
    <2>7. e.frags \cup {Frag(pkt)} = Whole(m)
      BY <1>1, <2>5, <2>6, FS_Subset, WholeCardinality, Zenon
    <2>8. ASSUME NEW x \in network, x.payload = m PROVE x = pkt
      <3>1. Frag(x) \in e.frags \cup {Frag(pkt)}
        BY <1>0, <2>7, <2>8, FragInWhole, Zenon
      <3>2. CASE Frag(x) = Frag(pkt)
        BY <1>0, <2>8, <3>2, SamePacket, Zenon DEF Frag
      <3>3. CASE Frag(x) \in e.frags
        <4>1. PICK y \in arrived : y.payload = m /\ Frag(x) = Frag(y)
          BY <2>3, <3>3, Zenon DEF FragOf
        <4>2. x = y
          BY <1>0, <2>8, <4>1, SamePacket DEF Frag
        <4> QED
          BY <4>1, <4>2, Zenon DEF PacketsOK
      <3> QED
        BY <3>1, <3>2, <3>3, Zenon
    <2> QED
      BY <2>2, <2>7, <2>8, Zenon
  <1> QED
    BY <1>2, <1>3

-----------------------------------------------------------------------------
(* The requests on their way to the invalidation processor *)

Wholes == {Whole(m) : m \in Item}

Pending == IF ppc = "push" THEN <<request>> ELSE <<>>

\* What the provider and the consumer hold are whole messages.
SeqOK ==
  /\ processed \in Seq(Wholes)
  /\ items \in Seq(Wholes)
  /\ ppc = "push" => request \in Wholes

\* The whole way is a sequence of whole messages.
LEMMA ReceivedIs ==
  ASSUME SeqOK
  PROVE  /\ Pending \in Seq(Wholes)
         /\ Received = (processed \o items) \o Pending
         /\ processed \o items \in Seq(Wholes)
         /\ Received \in Seq(Wholes)
  <1>1. Pending \in Seq(Wholes)
    BY DEF SeqOK, Pending
  <1>2. Received = (processed \o items) \o Pending
    BY DEF Received, Pending
  <1>3. processed \o items \in Seq(Wholes)
    BY ConcatProperties DEF SeqOK
  <1>4. (processed \o items) \o Pending \in Seq(Wholes)
    BY <1>1, <1>3, ConcatProperties, Zenon
  <1> QED
    BY <1>1, <1>2, <1>3, <1>4

\* recv() puts one more message at the end.
LEMMA ReceiveAppends ==
  ASSUME SeqOK, NEW r \in Wholes, ReceiveRequest(r)
  PROVE  SeqOK' /\ Received' = Append(Received, r)
  <1>1. /\ ppc = "recv" /\ ppc' = "push" /\ request' = r
        /\ UNCHANGED <<items, processed>>
    BY DEF ReceiveRequest, consumer
  <1>2. SeqOK'
    BY <1>1 DEF SeqOK
  <1>3. Pending = <<>> /\ Pending' = <<r>>
    BY <1>1 DEF Pending
  <1>4. /\ Received = (processed \o items) \o <<>>
        /\ Received' = (processed \o items) \o <<r>>
    BY <1>1, <1>2, <1>3, ReceivedIs DEF Received, Pending
  <1>5. Received = processed \o items
    BY <1>4, ReceivedIs, ConcatEmptySeq
  <1>6. Append(processed \o items, r) = (processed \o items) \o <<r>>
    BY ReceivedIs, AppendIsConcat, Zenon
  <1> QED
    BY <1>2, <1>4, <1>5, <1>6, Zenon

\* push() moves a message along.
LEMMA PushKeepsReceived ==
  ASSUME SeqOK, PushRequest PROVE SeqOK' /\ Received' = Received
  <1>1. /\ ppc = "push" /\ ppc' = "notify" /\ items' = Append(items, request)
        /\ UNCHANGED processed /\ request \in Wholes
    BY DEF SeqOK, PushRequest, consumer
  <1>2. SeqOK'
    BY <1>1, AppendProperties DEF SeqOK
  <1>3. Received = (processed \o items) \o <<request>>
    BY <1>1 DEF Received
  <1>4. Received' = (processed \o Append(items, request)) \o <<>>
    BY <1>1 DEF Received
  <1>5. Append(items, request) = items \o <<request>>
    BY <1>1, AppendIsConcat, Zenon DEF SeqOK
  <1>6. /\ <<request>> \in Seq(Wholes) /\ processed \in Seq(Wholes)
        /\ items \in Seq(Wholes) /\ Append(items, request) \in Seq(Wholes)
    BY <1>1, AppendProperties DEF SeqOK
  <1>7. (processed \o items) \o <<request>> = processed \o Append(items, request)
    BY <1>5, <1>6, ConcatAssociative, SMTT(30)
  <1>8. Received' = processed \o Append(items, request)
    BY <1>4, <1>6, ConcatProperties, ConcatEmptySeq
  <1> QED
    BY <1>2, <1>3, <1>7, <1>8, Zenon

\* So does pop().
LEMMA PopKeepsReceived ==
  ASSUME SeqOK, PopRequest PROVE SeqOK' /\ Received' = Received
  <1>1. /\ processed' = Append(processed, Head(items)) /\ items' = Tail(items)
        /\ items # <<>> /\ UNCHANGED <<ppc, request>>
    BY DEF PopRequest, provider
  <1>2. /\ Head(items) \in Wholes /\ Tail(items) \in Seq(Wholes)
        /\ processed \in Seq(Wholes) /\ items \in Seq(Wholes)
        /\ <<Head(items)>> \in Seq(Wholes)
    BY <1>1, HeadTailProperties, SMTT(30) DEF SeqOK
  <1>3. /\ Append(processed, Head(items)) = processed \o <<Head(items)>>
        /\ Append(processed, Head(items)) \in Seq(Wholes)
    BY <1>2, AppendIsConcat, AppendProperties
  <1>4. SeqOK'
    BY <1>1, <1>2, <1>3 DEF SeqOK
  <1>5. (processed \o <<Head(items)>>) \o Tail(items)
          = processed \o (<<Head(items)>> \o Tail(items))
    BY <1>2, ConcatAssociative, SMTT(30)
  <1>6. items = <<Head(items)>> \o Tail(items)
    <2> DEFINE t == <<Head(items)>> \o Tail(items)
    <2>1. /\ Len(items) \in Nat \ {0} /\ Len(Tail(items)) = Len(items) - 1
          /\ \A i \in 1 .. Len(Tail(items)) : Tail(items)[i] = items[i + 1]
      BY <1>1, <1>2, HeadTailProperties, EmptySeq, ZenonT(30)
    <2>2. /\ t \in Seq(Wholes) /\ Len(t) = 1 + Len(Tail(items))
          /\ \A i \in 1 .. 1 + Len(Tail(items)) :
               t[i] = IF i <= 1 THEN <<Head(items)>>[i] ELSE Tail(items)[i - 1]
      BY <1>2, ConcatProperties
    <2>3. Head(items) = items[1] /\ <<Head(items)>>[1] = Head(items)
      BY <1>2
    <2> HIDE DEF t
    <2>4. Len(t) = Len(items) /\ \A i \in 1 .. Len(items) : items[i] = t[i]
      <3>1. Len(t) = Len(items)
        BY <2>1, <2>2
      <3>2. ASSUME NEW i \in 1 .. Len(items) PROVE items[i] = t[i]
        <4>1. CASE i = 1
          BY <2>1, <2>2, <2>3, <4>1, SMTT(30)
        <4>2. CASE i # 1
          <5>1. i - 1 \in 1 .. Len(Tail(items)) /\ (i - 1) + 1 = i
            BY <2>1, <4>2
          <5>2. Tail(items)[i - 1] = items[i]
            BY <2>1, <5>1
          <5> QED
            BY <2>1, <2>2, <4>2, <5>2, SMTT(30)
        <4> QED
          BY <4>1, <4>2, Zenon
      <3> QED
        BY <3>1, <3>2
    <2> QED
      BY <1>2, <2>2, <2>4, SeqEqual, Zenon DEF t
  <1>7. processed' \o items' = processed \o items
    BY <1>1, <1>3, <1>5, <1>6, Zenon
  <1>8. Received' = Received
    BY <1>1, <1>7 DEF Received
  <1> QED
    BY <1>4, <1>8

\* The assertion on a full buffer loses the message at the end.
LEMMA FailTakesLast ==
  ASSUME SeqOK, PushFails
  PROVE  SeqOK' /\ Received' \in Seq(Wholes)
         /\ Received = Append(Received', request)
  <1>1. /\ ppc = "push" /\ ppc' = "failed" /\ request \in Wholes
        /\ UNCHANGED <<items, processed>>
    BY DEF SeqOK, PushFails, consumer
  <1>2. SeqOK'
    BY <1>1 DEF SeqOK
  <1>3. /\ Received = (processed \o items) \o <<request>>
        /\ Received' = (processed \o items) \o <<>>
    BY <1>1 DEF Received
  <1>4. Received' = processed \o items
    BY <1>3, ReceivedIs, ConcatEmptySeq
  <1>5. Append(processed \o items, request) = (processed \o items) \o <<request>>
    BY <1>1, ReceivedIs, AppendIsConcat
  <1> QED
    BY <1>2, <1>3, <1>4, <1>5, ReceivedIs, Zenon

\* The other steps of the two threads do not touch it.
LEMMA OtherKeepsReceived ==
  ASSUME SeqOK,
         \/ CheckRunning \/ ReceiveTimeout \/ NotifyOne \/ LockToFinish
         \/ NotifyAll \/ StartPop \/ EvalPredicate \/ Wait \/ PopFinish
         \/ StopNode \/ SpuriousWakeup \/ UNCHANGED bvars
  PROVE  SeqOK' /\ Received' = Received /\ (ppc = "failed" => ppc' = "failed")
  <1>1. /\ UNCHANGED <<items, processed, request>>
        /\ ppc = "push" <=> ppc' = "push"
        /\ ppc = "failed" => ppc' = "failed"
    BY DEF CheckRunning, ReceiveTimeout, NotifyOne, LockToFinish, NotifyAll,
           StartPop, EvalPredicate, Wait, PopFinish, StopNode, SpuriousWakeup,
           bvars, provider, consumer
  <1> QED
    BY <1>1, Zenon DEF SeqOK, Received

-----------------------------------------------------------------------------
(* No message is received twice, and none is forgotten *)

\* Nothing of message m is still to come.
Done(m) == ~InBuffer(m) /\ \A pkt \in network : pkt.payload # m

IsReceived(m) == \E i \in 1 .. Len(Received) : Received[i] = Whole(m)

\* What recv() returned are different whole messages of which nothing is
\* still to come.
ReceivedOK ==
  /\ \A i \in 1 .. Len(Received) :
       \E m \in sent : Received[i] = Whole(m) /\ Done(m)
  /\ \A i, j \in 1 .. Len(Received) : Received[i] = Received[j] => i = j

\* The entry of its source tracks packet pkt.
Tracked(pkt) ==
  /\ pkt.source \in DOMAIN srcaddr_entry_map
  /\ srcaddr_entry_map[pkt.source].seqnum = pkt.seqnum
  /\ Frag(pkt) \in srcaddr_entry_map[pkt.source].frags

\* A packet that arrived is tracked until its message is received or overtaken.
ArrivedOK ==
  \A pkt \in arrived : \/ pkt.payload \in overtaken \/ ppc = "failed"
                       \/ IsReceived(pkt.payload) \/ Tracked(pkt)

PathInv == SenderInv /\ EntriesOK /\ SeqOK /\ ReceivedOK /\ ArrivedOK

\* A message of which nothing is to come has been received at most once before.
LEMMA ReceivedIsDone ==
  ASSUME SenderInv, ReceivedOK, NEW m \in Item, IsReceived(m) PROVE Done(m)
  <1>1. PICK i \in 1 .. Len(Received) : Received[i] = Whole(m)
    BY DEF IsReceived
  <1>2. PICK n \in sent : Received[i] = Whole(n) /\ Done(n)
    BY DEF ReceivedOK
  <1>3. n \in Item
    BY DEF SenderInv, PacketsOK
  <1> QED
    BY <1>1, <1>2, <1>3, WholeInjective, Zenon

\* Steps that return no message keep what is said of the received ones.
LEMMA ReceivedStays ==
  ASSUME ReceivedOK, Received' = Received, sent \subseteq sent',
         \A m \in sent : Done(m) => Done(m)'
  PROVE  ReceivedOK'
  <1>1. \A m : Whole(m)' = Whole(m)
    BY Zenon DEF Whole
  <1> QED
    BY <1>1, ZenonT(30) DEF ReceivedOK

\* Steps by which no packet arrives keep what is said of the arrived ones.
LEMMA ArrivedStays ==
  ASSUME ArrivedOK, UNCHANGED <<arrived, srcaddr_entry_map, overtaken>>,
         \/ Received' = Received /\ (ppc = "failed" => ppc' = "failed")
         \/ ppc' = "failed"
  PROVE  ArrivedOK'
  <1>1. \A m : Whole(m)' = Whole(m)
    BY ZenonT(30) DEF Whole
  <1>2. \A pkt : Tracked(pkt) => Tracked(pkt)'
    BY Zenon DEF Tracked, Frag
  <1>3. Received' = Received => \A m : IsReceived(m) => IsReceived(m)'
    BY <1>1 DEF IsReceived
  <1> QED
    BY <1>2, <1>3, Zenon DEF ArrivedOK

\* The entries are not touched by what happens elsewhere.
LEMMA EntriesStay ==
  ASSUME EntriesOK, UNCHANGED <<arrived, srcaddr_entry_map>>,
         sent \subseteq sent'
  PROVE  EntriesOK'
  <1>1. \A s, e : EntryOK(s, e) => EntryOK(s, e)'
    BY EntryStays
  <1> QED
    BY <1>1 DEF EntriesOK

\* A new message is handed to push().
LEMMA StartSendPath ==
  ASSUME RInv, PathInv, NEW p \in Producers, NEW m \in Item, StartSend(p, m)
  PROVE  PathInv'
  <1>1. SenderInv'
    BY StartSendKeeps, Zenon DEF PathInv
  <1>2. /\ sent' = sent \cup {m} /\ m \notin sent
        /\ UNCHANGED <<network, arrived, srcaddr_entry_map, overtaken>>
        /\ UNCHANGED bvars
        /\ AcquireLock(p, m)
    BY DEF StartSend, uvars
  <1>3. SeqOK' /\ Received' = Received /\ (ppc = "failed" => ppc' = "failed")
    BY <1>2, OtherKeepsReceived DEF PathInv
  <1>4. ~InBuffer(m) /\ sent \subseteq Item
    BY <1>2 DEF PathInv, SenderInv, BufferOK, PacketsOK
  <1>5. \A x \in Item : InBuffer(x)' => InBuffer(x) \/ x = m
    BY <1>2, <1>4, AcquireOnce, Zenon DEF PathInv, SenderInv
  <1>6. \A x \in sent : Done(x) => Done(x)'
    BY <1>2, <1>4, <1>5, Zenon DEF Done
  <1>7. ReceivedOK' /\ ArrivedOK' /\ EntriesOK'
    BY <1>2, <1>3, <1>6, ReceivedStays, ArrivedStays, EntriesStay, Zenon DEF PathInv
  <1> QED
    BY <1>1, <1>3, <1>7 DEF PathInv

\* A message is sent over the network.
LEMMA IssuePath ==
  ASSUME RInv, PathInv, IssueMessage PROVE PathInv'
  <1>1. SenderInv'
    BY IssueKeeps DEF PathInv
  <1>2. /\ ReleaseMessage
        /\ network' = network \cup Fragments(message_ptr, msg_seqnum)
        /\ UNCHANGED <<sent, arrived, srcaddr_entry_map, overtaken>>
        /\ UNCHANGED bvars
    BY DEF IssueMessage, Send
  <1>3. SeqOK' /\ Received' = Received /\ (ppc = "failed" => ppc' = "failed")
    BY <1>2, OtherKeepsReceived DEF PathInv
  <1>4. /\ message_ptr \in Item /\ InBuffer(message_ptr)
        /\ \A x \in Item : InBuffer(x)' => InBuffer(x)
    BY <1>2, ReleaseOnce, Zenon DEF PathInv, SenderInv
  <1>5. /\ sent \subseteq Item
        /\ \A pkt \in Fragments(message_ptr, msg_seqnum) :
             pkt.payload = message_ptr
    BY FragmentIs DEF PathInv, SenderInv, PacketsOK
  <1>6. \A x \in sent : Done(x) => Done(x)'
    BY <1>2, <1>4, <1>5, Zenon DEF Done
  <1>7. ReceivedOK' /\ ArrivedOK' /\ EntriesOK'
    BY <1>2, <1>3, <1>6, ReceivedStays, ArrivedStays, EntriesStay, Zenon DEF PathInv
  <1> QED
    BY <1>1, <1>3, <1>7 DEF PathInv

\* Messages move in the ring buffer, or a packet is lost.
LEMMA MovePath ==
  ASSUME RInv, PathInv, UNCHANGED bvars,
         \/ \E p \in Producers : PushMessage(p)
         \/ PopMessage
         \/ \E pkt \in network : Lose(pkt)
         \/ UNCHANGED vars
  PROVE  PathInv'
  <1>1. /\ UNCHANGED <<sent, msg_seqnum, arrived, srcaddr_entry_map, overtaken>>
        /\ \/ UNCHANGED network
           \/ \E pkt \in network : network' = network \ {pkt}
        /\ \/ \E p \in Producers : \/ FindFull(p) \/ FindRoom(p)
                                   \/ WriteSlot(p) \/ AdvanceHead(p)
           \/ FindItem \/ CopySlot \/ ClearSlot \/ AdvanceTail
           \/ UNCHANGED rvars
    BY Zenon DEF PushMessage, PopMessage, Lose, LosePacket, vars, uvars
  <1>2. SenderInv' /\ \A x \in Item : InBuffer(x)' => InBuffer(x)
    BY <1>1, OtherStepsKeep DEF PathInv
  <1>3. SeqOK' /\ Received' = Received /\ (ppc = "failed" => ppc' = "failed")
    BY OtherKeepsReceived DEF PathInv
  <1>4. sent \subseteq Item /\ network' \subseteq network
    BY <1>1, Zenon DEF PathInv, SenderInv, PacketsOK
  <1>5. \A x \in sent : Done(x) => Done(x)'
    BY <1>2, <1>4, Zenon DEF Done
  <1>6. ReceivedOK' /\ ArrivedOK' /\ EntriesOK'
    BY <1>1, <1>3, <1>5, ReceivedStays, ArrivedStays, EntriesStay, Zenon DEF PathInv
  <1> QED
    BY <1>2, <1>3, <1>6, Zenon DEF PathInv

\* The provider and the processor pass the requests on.
LEMMA ThreadPath ==
  ASSUME RInv, PathInv, ServerStep \/ ProcessorStep \/ Environment
  PROVE  PathInv'
  <1>1. /\ UNCHANGED <<sent, msg_seqnum, network, arrived, srcaddr_entry_map,
                       overtaken>>
        /\ UNCHANGED rvars
    BY DEF ServerStep, ProcessorStep, Environment, uvars
  <1>2. SenderInv' /\ \A x \in Item : InBuffer(x)' => InBuffer(x)
    BY <1>1, OtherStepsKeep DEF PathInv
  <1>3. sent \subseteq Item
    BY DEF PathInv, SenderInv, PacketsOK
  <1>4. \A x \in sent : Done(x) => Done(x)'
    BY <1>1, <1>2, <1>3 DEF Done
  <1>5. EntriesOK'
    BY <1>1, EntriesStay DEF PathInv
  <1>6. CASE PushFails
    <2>1. /\ SeqOK' /\ Received' \in Seq(Wholes)
          /\ Received = Append(Received', request) /\ request \in Wholes
      BY <1>6, FailTakesLast, Zenon DEF PathInv, SeqOK, PushFails
    <2> DEFINE r == Received'
    <2>2. /\ Len(r) \in Nat /\ Len(Received) = Len(r) + 1
          /\ \A i \in 1 .. Len(r) : r[i] = Received[i]
      BY <2>1, AppendProperties, LenProperties, SMTT(30)
    <2>3. ReceivedOK'
      <3> HIDE DEF r
      <3>1. \A i \in 1 .. Len(r) : i \in 1 .. Len(Received)
        BY <2>2, SMTT(30)
      <3>2. \A m : Whole(m)' = Whole(m)
        BY Zenon DEF Whole
      <3>3. \A i \in 1 .. Len(r) : \E m \in sent : r[i] = Whole(m) /\ Done(m)'
        BY <1>4, <2>2, <3>1, Zenon DEF PathInv, ReceivedOK
      <3>4. \A i, j \in 1 .. Len(r) : r[i] = r[j] => i = j
        BY <2>2, <3>1, Zenon DEF PathInv, ReceivedOK
      <3> QED
        BY <1>1, <3>2, <3>3, <3>4, Zenon DEF ReceivedOK, r
    <2>4. ArrivedOK'
      BY <1>1, <1>6, ArrivedStays, Zenon DEF PathInv, PushFails
    <2> QED
      BY <1>2, <1>5, <2>1, <2>3, <2>4, Zenon DEF PathInv
  <1>7. CASE ~PushFails
    <2>1. SeqOK' /\ Received' = Received /\ (ppc = "failed" => ppc' = "failed")
      <3>1. CASE PushRequest
        BY <3>1, PushKeepsReceived DEF PathInv, PushRequest
      <3>2. CASE PopRequest
        BY <3>2, PopKeepsReceived, Zenon DEF PathInv, PopRequest, provider
      <3>3. CASE ~PushRequest /\ ~PopRequest
        BY <1>7, <3>3, OtherKeepsReceived, Zenon
        DEF PathInv, ServerStep, ProcessorStep, Environment
      <3> QED
        BY <3>1, <3>2, <3>3
    <2>2. ReceivedOK' /\ ArrivedOK'
      BY <1>1, <1>4, <2>1, ReceivedStays, ArrivedStays, Zenon DEF PathInv
    <2> QED
      BY <1>2, <1>5, <2>1, <2>2, Zenon DEF PathInv
  <1> QED
    BY <1>6, <1>7

\* A packet that the entry of another source, or an entry that stays, tracks
\* is still tracked.
LEMMA TrackedStays ==
  ASSUME PacketsOK, EntriesOK, NEW pkt \in network, TrackFragment(pkt),
         NEW x \in arrived, Tracked(x)
  PROVE  Tracked(x)' \/ x.payload \in overtaken'
  <1>1. CASE x.source # pkt.source
    BY <1>1, TrackedMap, Zenon DEF Tracked, Frag
  <1>2. CASE x.source = pkt.source
    <2> DEFINE e == Entry(pkt)
    <2>1. /\ HasEntry(pkt) /\ e.seqnum = x.seqnum /\ Frag(x) \in e.frags
          /\ EntryOK(pkt.source, e)
      BY <1>2, Zenon DEF Tracked, HasEntry, Entry, EntriesOK
    <2>2. /\ e.seqnum \in Nat /\ pkt.seqnum \in Nat
          /\ e \in [cnt : Nat, seqnum : Nat,
                    frags : SUBSET [idx : Nat, payload : Item]]
      BY <2>1, PacketIs DEF EntryOK, Packets
    <2>3. /\ pkt.source \in DOMAIN srcaddr_entry_map'
          /\ srcaddr_entry_map'[pkt.source] = InsertFrag(e, pkt)
          /\ overtaken' = overtaken \cup GivenUp(e, pkt)
      BY <2>1, TrackedMap, Zenon DEF TrackFragment
    <2> HIDE DEF e
    <2>4. CASE pkt.seqnum < e.seqnum
      <3>1. InsertFrag(e, pkt) = e
        BY <2>2, <2>4, InsertFragIs, ZenonT(30)
      <3> QED
        BY <1>2, <2>1, <2>3, <3>1, Zenon DEF Tracked, Frag
    <2>5. CASE pkt.seqnum > e.seqnum
      <3>1. GivenUp(e, pkt) = {f.payload : f \in e.frags}
        BY <2>2, <2>5, InsertFragIs, Zenon
      <3>2. Frag(x).payload = x.payload
        BY Zenon DEF Frag
      <3>3. x.payload \in {f.payload : f \in e.frags}
        BY <2>1, <3>2
      <3> QED
        BY <2>3, <3>1, <3>3
    <2>6. CASE pkt.seqnum = e.seqnum
      <3> DEFINE n == [e EXCEPT !.frags = @ \cup {Frag(pkt)}]
      <3>1. InsertFrag(e, pkt) = n
        BY <2>2, <2>6, InsertFragIs
      <3>2. n.seqnum = e.seqnum /\ n.frags = e.frags \cup {Frag(pkt)}
        BY <2>2
      <3> HIDE DEF n
      <3> QED
        BY <1>2, <2>1, <2>3, <3>1, <3>2, Zenon DEF Tracked, Frag
    <2> QED
      BY <2>2, <2>4, <2>5, <2>6, SMTT(30)
  <1> QED
    BY <1>1, <1>2

\* A fragment that is not the last one is tracked, or its message is overtaken.
LEMMA FragmentIsTracked ==
  ASSUME PacketsOK, EntriesOK, NEW pkt \in network, TrackFragment(pkt)
  PROVE  Tracked(pkt)' \/ pkt.payload \in overtaken'
  <1>1. FirstFrag(pkt).seqnum = pkt.seqnum /\ Frag(pkt) \in FirstFrag(pkt).frags
    BY DEF FirstFrag
  <1>2. CASE ~HasEntry(pkt)
    BY <1>1, <1>2, TrackedMap, Zenon DEF Tracked, Frag
  <1>3. CASE HasEntry(pkt)
    <2> DEFINE e == Entry(pkt)
    <2>1. /\ e.seqnum \in Nat /\ pkt.seqnum \in Nat
          /\ e \in [cnt : Nat, seqnum : Nat,
                    frags : SUBSET [idx : Nat, payload : Item]]
      BY <1>3, PacketIs DEF EntryOK, EntriesOK, Packets, HasEntry, Entry
    <2>2. /\ pkt.source \in DOMAIN srcaddr_entry_map'
          /\ srcaddr_entry_map'[pkt.source] = InsertFrag(e, pkt)
          /\ overtaken' = overtaken \cup GivenUp(e, pkt)
      BY <1>3, TrackedMap, Zenon DEF TrackFragment
    <2> HIDE DEF e
    <2>3. CASE pkt.seqnum < e.seqnum
      BY <2>1, <2>2, <2>3, InsertFragIs
    <2>4. CASE pkt.seqnum > e.seqnum
      <3>1. InsertFrag(e, pkt) = FirstFrag(pkt)
        BY <2>1, <2>4, InsertFragIs, ZenonT(30)
      <3> QED
        BY <1>1, <2>2, <3>1, Zenon DEF Tracked, Frag
    <2>5. CASE pkt.seqnum = e.seqnum
      <3> DEFINE n == [e EXCEPT !.frags = @ \cup {Frag(pkt)}]
      <3>1. InsertFrag(e, pkt) = n
        BY <2>1, <2>5, InsertFragIs
      <3>2. n.seqnum = e.seqnum /\ n.frags = e.frags \cup {Frag(pkt)}
        BY <2>1
      <3> HIDE DEF n
      <3> QED
        BY <2>2, <2>5, <3>1, <3>2 DEF Tracked, Frag
    <2> QED
      BY <2>1, <2>3, <2>4, <2>5, SMTT(30)
  <1> QED
    BY <1>2, <1>3, Zenon

\* recv() gets a fragment that is not the last one.
LEMMA FragmentPath ==
  ASSUME RInv, PathInv, NEW pkt \in network, ReceiveFragment(pkt)
  PROVE  PathInv'
  <1>0. PacketsOK /\ EntriesOK /\ sent \subseteq Item
    BY Zenon DEF PathInv, SenderInv, PacketsOK
  <1>1. /\ TrackFragment(pkt)
        /\ UNCHANGED <<sent, msg_seqnum>> /\ UNCHANGED rvars /\ UNCHANGED bvars
        /\ network' = network \ {pkt} /\ arrived' = arrived \cup {pkt}
    BY DEF ReceiveFragment, TrackFragment
  <1>2. overtaken \subseteq overtaken'
    <2>1. CASE HasEntry(pkt)
      BY <1>1, <2>1, Zenon DEF TrackFragment
    <2>2. CASE ~HasEntry(pkt)
      BY <1>1, <2>2, Zenon DEF TrackFragment
    <2> QED
      BY <2>1, <2>2, Zenon
  <1>3. SenderInv' /\ \A x \in Item : InBuffer(x)' => InBuffer(x)
    BY <1>1, OtherStepsKeep, Zenon DEF PathInv
  <1>4. EntriesOK'
    BY <1>0, <1>1, TrackKeepsEntries, Zenon
  <1>5. SeqOK' /\ Received' = Received /\ (ppc = "failed" => ppc' = "failed")
    BY <1>1, OtherKeepsReceived, Zenon DEF PathInv
  <1>6. \A x \in sent : Done(x) => Done(x)'
    BY <1>0, <1>1, <1>3, Zenon DEF Done
  <1>7. ReceivedOK'
    BY <1>1, <1>5, <1>6, ReceivedStays, Zenon DEF PathInv
  <1>8. ArrivedOK'
    <2>1. \A m : IsReceived(m) => IsReceived(m)'
      BY <1>5, Zenon DEF IsReceived, Whole
    <2>2. \A x \in arrived : Tracked(x) => Tracked(x)' \/ x.payload \in overtaken'
      BY <1>0, <1>1, TrackedStays, Zenon
    <2>3. Tracked(pkt)' \/ pkt.payload \in overtaken'
      BY <1>0, <1>1, FragmentIsTracked, Zenon
    <2> QED
      BY <1>1, <1>2, <1>5, <2>1, <2>2, <2>3, ZenonT(30) DEF PathInv, ArrivedOK
  <1> QED
    BY <1>3, <1>4, <1>5, <1>7, <1>8, Zenon DEF PathInv

\* recv() gets the last fragment and returns the message.
LEMMA LastPath ==
  ASSUME RInv, PathInv, NEW pkt \in network, ReceiveLast(pkt)
  PROVE  PathInv'
  <1> DEFINE m == pkt.payload
  <1>0. PacketsOK /\ EntriesOK /\ sent \subseteq Item /\ pkt \in Packets
    BY DEF PathInv, SenderInv, PacketsOK, Packets
  <1>1. /\ CompleteMessage(pkt) /\ Completes(pkt)
        /\ ReceiveRequest(Assemble(pkt)) /\ ppc = "recv"
        /\ UNCHANGED <<sent, msg_seqnum, overtaken>> /\ UNCHANGED rvars
        /\ network' = network \ {pkt} /\ arrived' = arrived \cup {pkt}
    BY Zenon DEF ReceiveLast, CompleteMessage, ReceiveRequest
  <1>2. m \in sent /\ m \in Item
    BY <1>0, PacketIs, Zenon
  <1>3. /\ Assemble(pkt) = Whole(m)
        /\ \A x \in network : x.payload = m => x = pkt
    BY <1>0, <1>1, CompleteIsWhole, Zenon
  <1>4. SenderInv' /\ \A x \in Item : InBuffer(x)' => InBuffer(x)
    BY <1>1, OtherStepsKeep, Zenon DEF PathInv
  <1>5. EntriesOK'
    BY <1>0, <1>1, CompleteKeepsEntries, Zenon
  <1>6. /\ SeqOK' /\ Received' = Append(Received, Whole(m))
        /\ Received \in Seq(Wholes) /\ Whole(m) \in Wholes
    BY <1>1, <1>2, <1>3, ReceiveAppends, ReceivedIs, ZenonT(30) DEF PathInv, Wholes
  <1> DEFINE r == Received'
  <1>7. /\ Len(Received) \in Nat /\ Len(r) = Len(Received) + 1
        /\ \A i \in 1 .. Len(Received) : r[i] = Received[i]
        /\ r[Len(Received) + 1] = Whole(m)
    BY <1>6, AppendProperties, LenProperties, SMTT(30)
  <1>8. ~IsReceived(m)
    BY <1>2, ReceivedIsDone, Zenon DEF PathInv, Done
  <1>9. Done(m)' /\ \A x \in sent : Done(x) => Done(x)'
    <2>1. ~InBuffer(m)
      BY <1>0, <1>2, Zenon DEF PathInv, SenderInv, BufferOK
    <2> QED
      BY <1>0, <1>1, <1>2, <1>3, <1>4, <2>1, Zenon DEF Done
  <1>10. \A n : Whole(n)' = Whole(n)
    BY DEF Whole
  <1> HIDE DEF m, r
  <1>11. ReceivedOK'
    <2>1. \A i \in 1 .. Len(r) : \/ i \in 1 .. Len(Received) /\ r[i] = Received[i]
                                 \/ i = Len(Received) + 1 /\ r[i] = Whole(m)
      BY <1>7
    <2>2. \A i \in 1 .. Len(Received) : Received[i] # Whole(m)
      BY <1>8, Zenon DEF IsReceived
    <2>3. \A i \in 1 .. Len(r) : \E n \in sent : r[i] = Whole(n) /\ Done(n)'
      BY <1>2, <1>9, <2>1, Zenon DEF PathInv, ReceivedOK
    <2>4. \A i, j \in 1 .. Len(r) : r[i] = r[j] => i = j
      BY <2>1, <2>2, Zenon DEF PathInv, ReceivedOK
    <2> QED
      BY <1>1, <1>10, <2>3, <2>4, Zenon DEF ReceivedOK, r
  <1>12. ArrivedOK'
    <2>1. \A n : IsReceived(n) => IsReceived(n)'
      BY <1>7, <1>10, SMTT(30) DEF IsReceived, r
    <2>2. IsReceived(m)'
      <3>1. Len(Received) + 1 \in 1 .. Len(r)
        BY <1>7
      <3> QED
        BY <1>7, <1>10, <3>1, Zenon DEF IsReceived, r
    <2>3. ASSUME NEW x \in arrived, Tracked(x), x.payload # m
          PROVE  Tracked(x)'
      <3>1. CASE pkt.cnt = 1
        BY <1>1, <2>3, <3>1, ZenonT(30) DEF CompleteMessage, Tracked, Frag
      <3>2. CASE pkt.cnt # 1
        <4>1. /\ DOMAIN srcaddr_entry_map' = DOMAIN srcaddr_entry_map \ {pkt.source}
              /\ \A s \in DOMAIN srcaddr_entry_map' :
                   srcaddr_entry_map'[s] = srcaddr_entry_map[s]
          BY <1>1, <3>2 DEF CompleteMessage, Restrict
        <4>2. x.source # pkt.source
          <5> SUFFICES ASSUME x.source = pkt.source PROVE FALSE
            BY Zenon
          <5>1. Frag(x) \in Whole(m)
            BY <1>3, <2>3, <3>2, Zenon DEF Tracked, Assemble, Entry
          <5> QED
            BY <2>3, <5>1, Zenon DEF Whole, Frag
        <4> QED
          BY <2>3, <4>1, <4>2, Zenon DEF Tracked, Frag
      <3> QED
        BY <3>1, <3>2
    <2>4. ASSUME NEW x \in arrived
          PROVE  (\/ x.payload \in overtaken \/ ppc = "failed"
                  \/ IsReceived(x.payload) \/ Tracked(x))'
      <3>1. \/ x.payload \in overtaken \/ ppc = "failed"
            \/ IsReceived(x.payload) \/ Tracked(x)
        BY DEF PathInv, ArrivedOK
      <3> QED
        BY <1>1, <2>1, <2>2, <2>3, <3>1, Zenon
    <2>5. IsReceived(pkt.payload)'
      BY <2>2 DEF m
    <2> QED
      BY <1>1, <2>4, <2>5, Zenon DEF ArrivedOK
  <1> QED
    BY <1>4, <1>5, <1>6, <1>11, <1>12, Zenon DEF PathInv

\* Nothing is sent or received at the start.
LEMMA PathInit == Init => RInv /\ PathInv
  <1> SUFFICES ASSUME Init PROVE RInv /\ PathInv
    OBVIOUS
  <1>1. RInv
    BY InitHolds, Zenon DEF Init
  <1>2. /\ lock = NoOne /\ cpc = "poll" /\ message_ptr = NoItem
        /\ \A i \in Slots : ~Occupied(i)
    BY BufferSizeAssumption, SMTT(30) DEF Init, RInit, Occupied, Live, Slots
  <1>3. BufferOnce /\ \A m \in Item : ~InBuffer(m)
    BY <1>2, NoOneAssumption, NoItemAssumption, Zenon DEF BufferOnce, InBuffer
  <1>4. PacketsOK /\ BufferOK
    BY <1>3 DEF Init, UInit, PacketsOK, BufferOK, Packets
  <1>5. EntriesOK /\ ArrivedOK
    BY DEF Init, UInit, EntriesOK, ArrivedOK
  <1>6. Received = (<<>> \o <<>>) \o <<>> /\ SeqOK
    BY DEF Init, BInit, Received, SeqOK
  <1>7. ReceivedOK
    BY <1>6, SMTT(30) DEF ReceivedOK
  <1> QED
    BY <1>1, <1>3, <1>4, <1>5, <1>6, <1>7, Zenon DEF PathInv, SenderInv

\* Every step of the path keeps its bookkeeping right.
LEMMA PathNext == RInv /\ PathInv /\ [Next]_vars => PathInv'
  <1> SUFFICES ASSUME RInv, PathInv, [Next]_vars PROVE PathInv'
    OBVIOUS
  <1>1. ASSUME NEW p \in Producers, NEW m \in Item, StartSend(p, m)
        PROVE  PathInv'
    BY <1>1, StartSendPath, Zenon
  <1>2. ASSUME NEW p \in Producers, PushMessage(p) PROVE PathInv'
    BY <1>2, MovePath, Zenon DEF PushMessage
  <1>3. CASE PopMessage
    BY <1>3, MovePath DEF PopMessage
  <1>4. CASE IssueMessage
    BY <1>4, IssuePath, Zenon
  <1>5. ASSUME NEW pkt \in network, Lose(pkt) PROVE PathInv'
    BY <1>5, MovePath DEF Lose
  <1>6. ASSUME NEW pkt \in network, ReceiveFragment(pkt) PROVE PathInv'
    BY <1>6, FragmentPath
  <1>7. ASSUME NEW pkt \in network, ReceiveLast(pkt) PROVE PathInv'
    BY <1>7, LastPath
  <1>8. CASE ServerStep \/ ProcessorStep \/ Environment
    BY <1>8, ThreadPath, Zenon
  <1>9. CASE UNCHANGED vars
    BY <1>9, MovePath DEF vars
  <1> QED
    BY <1>1, <1>2, <1>3, <1>4, <1>5, <1>6, <1>7, <1>8, <1>9, Zenon DEF Next

\* The bookkeeping of the path is right in every reachable state.
LEMMA PathAlways == Spec => []PathInv
  <1>1. Spec => []RInv
    BY PathRunsRing, RingBufferConsistent, PTL
  <1> QED
    BY <1>1, PathInit, PathNext, PTL DEF Spec

\* The two assertions of insertFrag() hold in every reachable state: the
\* fragments of one message agree on their number, and none is tracked twice.
THEOREM FragmentsAlwaysAgree == Spec => []FragmentsAgree
  <1>1. PathInv => FragmentsAgree
    BY AgreementFollows, Zenon DEF PathInv, SenderInv
  <1> QED
    BY <1>1, PathAlways, PTL

\* However packets are lost and reordered, recv() returns only whole messages
\* that were sent, and each at most once.
THEOREM MessagesAreWholeOnce == Spec => []WholeMessagesOnce
  <1>1. PathInv => WholeMessagesOnce
    BY Zenon DEF PathInv, ReceivedOK, WholeMessagesOnce
  <1> QED
    BY <1>1, PathAlways, PTL

\* A message whose fragments have all arrived, and that was neither received
\* nor overtaken, would be tracked completely, which no entry is.
LEMMA ArrivedFollows ==
  ASSUME PathInv PROVE ArrivedIsReceived
  <1> SUFFICES ASSUME NEW m \in sent, HasArrived(m), ppc # "failed",
                      m \notin overtaken, ~IsReceived(m)
               PROVE  FALSE
    BY DEF ArrivedIsReceived, IsReceived
  <1> DEFINE A == {pkt \in arrived : pkt.payload = m}
  <1>0. PacketsOK /\ m \in Item /\ FragmentCnt[m] \in Nat \ {0}
    BY CntIs, Zenon DEF PathInv, SenderInv, PacketsOK
  <1>1. Cardinality(A) = FragmentCnt[m]
    BY Zenon DEF HasArrived
  <1>2. \A pkt \in A : /\ Tracked(pkt) /\ pkt.source = SourceOf[m]
                       /\ pkt \in Packets /\ pkt \in arrived /\ pkt.payload = m
    BY <1>0, PacketIs DEF PathInv, ArrivedOK, Packets
  <1>3. PICK y \in A : TRUE
    <2>1. A # {}
      BY <1>0, <1>1, FS_EmptySet, Zenon
    <2> QED
      BY <2>1
  <1> DEFINE e == srcaddr_entry_map[SourceOf[m]]
  <1>4. /\ EntryOK(SourceOf[m], e)
        /\ \A pkt \in A : e.seqnum = pkt.seqnum /\ Frag(pkt) \in e.frags
    BY <1>2, <1>3, Zenon DEF Tracked, PathInv, EntriesOK
  <1> HIDE DEF e, A
  <1>5. PICK n \in sent : /\ e.cnt = FragmentCnt[n]
                          /\ \A f \in e.frags : FragOf(f, n, e.seqnum)
    BY <1>4, Zenon DEF EntryOK
  <1>6. n = m
    <2>1. PICK x \in arrived : x.payload = n /\ x.seqnum = e.seqnum
      BY <1>3, <1>4, <1>5, Zenon DEF FragOf
    <2> QED
      BY <1>0, <1>2, <1>3, <1>4, <2>1, ZenonT(30) DEF PacketsOK, Packets
  <1>7. IsFiniteSet(e.frags) /\ Cardinality(e.frags) < FragmentCnt[m]
    BY <1>4, <1>5, <1>6, Zenon DEF EntryOK
  <1> DEFINE g == [pkt \in A |-> Frag(pkt)]
  <1>8. g \in Injection(A, e.frags)
    <2>1. g \in [A -> e.frags]
      BY <1>4, ZenonT(30)
    <2>2. ASSUME NEW x \in A, NEW z \in A, g[x] = g[z] PROVE x = z
      <3>1. x.idx = z.idx
        BY <2>2 DEF Frag
      <3> QED
        BY <1>0, <1>2, <3>1, SamePacket, ZenonT(30)
    <2> QED
      BY <2>1, <2>2, Zenon DEF Injection, IsInjective
  <1>9. Cardinality(A) <= Cardinality(e.frags) /\ Cardinality(e.frags) \in Nat
    BY <1>7, <1>8, FS_Injection, FS_CardinalityType, Zenon
  <1> QED
    BY <1>0, <1>1, <1>7, <1>9, SMTT(30)

\* A message whose fragments have all arrived is on its way to the processor,
\* unless a later message of its source came in between or the provider has
\* failed the assertion on a full buffer.
THEOREM ArrivedAlwaysReceived == Spec => []ArrivedIsReceived
  <1>1. PathInv => ArrivedIsReceived
    BY ArrivedFollows
  <1> QED
    BY <1>1, PathAlways, PTL
=============================================================================
