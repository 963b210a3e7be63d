---------------------------- MODULE MessagePath ----------------------------
(* The way of a request from the threads of one edge to the invalidation     *)
(* processor of another: the sender's threads push it into the ring buffer   *)
(* of the edge-to-edge propagation simulator, which issues it over UDP; the  *)
(* receiver's cache server puts the fragments together and pushes the        *)
(* message into the blocking ring buffer of its invalidation processor.      *)
EXTENDS RingBuffer, UdpMessages, BlockingRingBuffer

CONSTANT MaxLost    \* how many packets the network may lose

\* What goes through the ring buffer is what goes over the network.
ASSUME ItemAssumption == Item \subseteq Message

VARIABLES
  sent,    \* the messages that the threads have tried to send
  lost     \* the number of lost packets

vars == <<rvars, uvars, bvars, sent, lost>>

Init ==
  /\ RInit
  /\ UInit
  /\ BInit
  /\ sent = {}
  /\ lost = 0

-----------------------------------------------------------------------------
(* The sending edge *)

StartSend(p, m) ==
  /\ m \notin sent
  /\ SourceOf[m] = p
  /\ AcquireLock(p, m)
  /\ sent' = sent \cup {m}
  /\ UNCHANGED <<uvars, bvars, lost>>

PushMessage(p) ==
  /\ FindFull(p) \/ FindRoom(p) \/ WriteSlot(p) \/ AdvanceHead(p)
  /\ UNCHANGED <<uvars, bvars, sent, lost>>

PopMessage ==
  /\ FindItem \/ CopySlot \/ ClearSlot \/ AdvanceTail
  /\ UNCHANGED <<uvars, bvars, sent, lost>>

IssueMessage ==
  /\ ReleaseMessage
  /\ Send(message_ptr)
  /\ UNCHANGED <<bvars, sent, lost>>

-----------------------------------------------------------------------------
(* The network and the receiving edge *)

Lose(pkt) ==
  /\ lost < MaxLost
  /\ LosePacket(pkt)
  /\ lost' = lost + 1
  /\ UNCHANGED <<rvars, bvars, sent>>

ReceiveFragment(pkt) ==
  /\ ppc = "recv"
  /\ TrackFragment(pkt)
  /\ UNCHANGED <<rvars, bvars, sent, lost>>

ReceiveLast(pkt) ==
  /\ CompleteMessage(pkt)
  /\ ReceiveRequest(Assemble(pkt))
  /\ UNCHANGED <<rvars, sent, lost>>

ServerStep ==
  /\ \/ CheckRunning \/ ReceiveTimeout
     \/ PushRequest \/ PushFails \/ NotifyOne \/ LockToFinish \/ NotifyAll
  /\ UNCHANGED <<rvars, uvars, sent, lost>>

ProcessorStep ==
  /\ StartPop \/ EvalPredicate \/ Wait \/ PopFinish \/ PopRequest
  /\ UNCHANGED <<rvars, uvars, sent, lost>>

Environment ==
  /\ StopNode \/ SpuriousWakeup
  /\ UNCHANGED <<rvars, uvars, sent, lost>>

Next ==
  \/ \E p \in Producers : (\E m \in Item : StartSend(p, m)) \/ PushMessage(p)
  \/ PopMessage
  \/ IssueMessage
  \/ \E pkt \in network : Lose(pkt) \/ ReceiveFragment(pkt) \/ ReceiveLast(pkt)
  \/ ServerStep
  \/ ProcessorStep
  \/ Environment

Spec == Init /\ [][Next]_vars

\* The receiving edge's two threads keep running; the sender, the network,
\* the end of the benchmark and spurious wakeups are left to chance.
FairSpec == Spec /\ WF_vars(ServerStep) /\ WF_vars(ProcessorStep)

-----------------------------------------------------------------------------
(* Properties *)

\* What the processor has taken and will take, in order.
Received == processed \o items \o (IF ppc = "push" THEN <<request>> ELSE <<>>)

\* recv() never puts fragments of two messages together, never returns an
\* incomplete one, and returns no message twice.
WholeMessagesOnce ==
  /\ \A i \in 1 .. Len(Received) : \E m \in sent : Received[i] = Whole(m)
  /\ \A i, j \in 1 .. Len(Received) : Received[i] = Received[j] => i = j

\* A message whose fragments have all arrived, in whatever order and mixed
\* with those of other messages, is not forgotten: it is on its way to the
\* processor, or fragments of a later message of its source came in between.
ArrivedIsReceived ==
  \A m \in sent :
    HasArrived(m) /\ ppc # "failed" =>
      m \in overtaken \/ \E i \in 1 .. Len(Received) : Received[i] = Whole(m)
=============================================================================
