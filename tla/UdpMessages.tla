---------------------------- MODULE UdpMessages ----------------------------
(* How a message crosses the UDP network: UdpMsgSocketClient::send() cuts it *)
(* into fragments, the network loses and reorders them, and                  *)
(* UdpMsgSocketServer::recv() puts them together again with MsgFragStats.    *)
(* The payload of a fragment is the message it was cut from.                 *)
EXTENDS Naturals, FiniteSets, Functions

CONSTANTS
  Message,
  Source,          \* the source addresses of messages
  SourceOf,        \* message -> its source address
  FragmentCnt      \* message -> the number of fragments it is cut into

ASSUME FragmentCntAssumption == FragmentCnt \in [Message -> Nat \ {0}]
ASSUME SourceOfAssumption == SourceOf \in [Message -> Source]

VARIABLES
  msg_seqnum,         \* of the sender's UdpMsgSocketClient
  network,            \* the packets in flight
  srcaddr_entry_map,  \* MsgFragStats: source -> its partial message, if any
  arrived,            \* the packets the server has received so far
  overtaken           \* messages thrown away or ignored for a later one

uvars == <<msg_seqnum, network, srcaddr_entry_map, arrived, overtaken>>

UInit ==
  /\ msg_seqnum = 0
  /\ network = {}
  /\ srcaddr_entry_map = <<>>
  /\ arrived = {}
  /\ overtaken = {}

\* The fragments of message m, with the header UdpFragHdr.
Fragments(m, seqnum) ==
  {[idx |-> i, cnt |-> FragmentCnt[m], seqnum |-> seqnum,
    source |-> SourceOf[m], payload |-> m] : i \in 0 .. (FragmentCnt[m] - 1)}

Send(m) ==
  /\ network' = network \cup Fragments(m, msg_seqnum)
  /\ msg_seqnum' = msg_seqnum + 1
  /\ UNCHANGED <<srcaddr_entry_map, arrived, overtaken>>

LosePacket(pkt) ==
  /\ network' = network \ {pkt}
  /\ UNCHANGED <<msg_seqnum, srcaddr_entry_map, arrived, overtaken>>

-----------------------------------------------------------------------------
(* MsgFragStats: at most one partial message for each source *)

HasEntry(pkt) == pkt.source \in DOMAIN srcaddr_entry_map
Entry(pkt) == srcaddr_entry_map[pkt.source]

Frag(pkt) == [idx |-> pkt.idx, payload |-> pkt.payload]
IsTracked(entry, pkt) == \E f \in entry.frags : f.idx = pkt.idx

FirstFrag(pkt) ==
  [cnt |-> pkt.cnt, seqnum |-> pkt.seqnum, frags |-> {Frag(pkt)}]

\* Mutants: the fragments of two messages are counted together; the message
\* is complete one fragment too late.
IsLastFrag_AnySeqnum(entry, pkt) ==
  /\ Cardinality(entry.frags) = entry.cnt - 1
  /\ ~IsTracked(entry, pkt)

IsLastFrag_Late(entry, pkt) ==
  /\ Cardinality(entry.frags) = entry.cnt
  /\ ~IsTracked(entry, pkt)
  /\ entry.seqnum = pkt.seqnum

IsLastFrag(entry, pkt) ==
  /\ Cardinality(entry.frags) = entry.cnt - 1
  /\ ~IsTracked(entry, pkt)
  /\ entry.seqnum = pkt.seqnum

\* Mutant: the fragments of the older message are kept.
InsertFrag_KeepOld(entry, pkt) ==
  CASE pkt.seqnum < entry.seqnum -> entry
    [] pkt.seqnum > entry.seqnum ->
         [FirstFrag(pkt) EXCEPT !.frags = entry.frags]
    [] OTHER -> [entry EXCEPT !.frags = @ \cup {Frag(pkt)}]

\* insertFrag() of an entry with a fragment: ignore a fragment of an older
\* message, drop the older message for a newer one, or track the fragment.
InsertFrag(entry, pkt) ==
  CASE pkt.seqnum < entry.seqnum -> entry
    [] pkt.seqnum > entry.seqnum -> FirstFrag(pkt)
    [] OTHER -> [entry EXCEPT !.frags = @ \cup {Frag(pkt)}]

\* The messages insertFrag() gives up by that.
GivenUp(entry, pkt) ==
  CASE pkt.seqnum < entry.seqnum -> {pkt.payload}
    [] pkt.seqnum > entry.seqnum -> {f.payload : f \in entry.frags}
    [] OTHER -> {}

\* insertEntry() finds that pkt completes its message; a message of one
\* fragment never looks at the entry of its source.
Completes(pkt) ==
  \/ pkt.cnt = 1
  \/ HasEntry(pkt) /\ IsLastFrag(Entry(pkt), pkt)

\* recv() puts the tracked fragments and the last one together.
Assemble(pkt) ==
  IF pkt.cnt = 1 THEN {Frag(pkt)} ELSE Entry(pkt).frags \cup {Frag(pkt)}

\* A fragment that does not complete its message: recv() goes on.
TrackFragment(pkt) ==
  /\ ~Completes(pkt)
  /\ network' = network \ {pkt}
  /\ arrived' = arrived \cup {pkt}
  /\ IF HasEntry(pkt)
     THEN /\ srcaddr_entry_map' = [srcaddr_entry_map EXCEPT ![pkt.source] =
                                     InsertFrag(@, pkt)]
          /\ overtaken' = overtaken \cup GivenUp(Entry(pkt), pkt)
     ELSE /\ srcaddr_entry_map' =
               [s \in DOMAIN srcaddr_entry_map \cup {pkt.source} |->
                  IF s = pkt.source THEN FirstFrag(pkt)
                  ELSE srcaddr_entry_map[s]]
          /\ UNCHANGED overtaken
  /\ UNCHANGED msg_seqnum

\* The last fragment: recv() removes the entry and returns the message.
CompleteMessage(pkt) ==
  /\ Completes(pkt)
  /\ network' = network \ {pkt}
  /\ arrived' = arrived \cup {pkt}
  /\ srcaddr_entry_map' =
       IF pkt.cnt = 1 THEN srcaddr_entry_map
       ELSE Restrict(srcaddr_entry_map, DOMAIN srcaddr_entry_map \ {pkt.source})
  /\ UNCHANGED <<msg_seqnum, overtaken>>

-----------------------------------------------------------------------------
(* Properties *)

\* Message m as the server should see it.
Whole(m) == {[idx |-> i, payload |-> m] : i \in 0 .. (FragmentCnt[m] - 1)}

\* All fragments of message m have been received.
HasArrived(m) ==
  Cardinality({pkt \in arrived : pkt.payload = m}) = FragmentCnt[m]

\* The two assertions of MsgFragStatsEntry::insertFrag(): fragments of one
\* message agree on their number, and a fragment is tracked only once.
FragmentsAgree ==
  \A pkt \in network :
    (/\ ~Completes(pkt)
     /\ HasEntry(pkt)
     /\ pkt.seqnum = Entry(pkt).seqnum) =>
       pkt.cnt = Entry(pkt).cnt /\ ~IsTracked(Entry(pkt), pkt)
=============================================================================
