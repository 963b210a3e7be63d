---------------------------- MODULE MsiTimeouts ----------------------------
(***************************************************************************)
(* MsiProtocol over UDP: datagrams can be lost, and a thread that waits    *)
(* for an answer longer than the socket timeout sends its request again    *)
(* under the same sequence number.  The receivers keep no record of the    *)
(* requests they have processed, so a repeated request is processed again. *)
(***************************************************************************)
EXTENDS MsiProtocol

CONSTANTS Lossy,      \* what can be lost, a set of <<call, is a response>>
          MaxLost,    \* bound on the number of losses
          Impatient,  \* the calls whose timeout can expire although the
                      \* request or its answer is still on the way
          MaxEarly    \* bound on the number of such timeouts

ASSUME LossAssumption == Lossy \subseteq Calls \X BOOLEAN /\ MaxLost \in Nat
ASSUME EarlyAssumption == Impatient \subseteq Calls /\ MaxEarly \in Nat

VARIABLES lost,   \* the number of datagrams lost
          early   \* the number of timeouts that expired too early

tvars == <<vars, lost, early>>

TInit == Init /\ lost = 0 /\ early = 0

Lose ==
    /\ lost < MaxLost
    /\ \E m \in net : <<m.type, m.rsp>> \in Lossy /\ net' = net \ {m}
    /\ lost' = lost + 1
    /\ UNCHANGED <<cloud, nver, cache, meta, worker, evictor, server, pending,
                   seq, fresh, fault, early>>

\* The request of the current call of t, or its answer, is still on the way.
UnderWay(t) == \E m \in net \cup server : m.th = t /\ m.seq = seq[t]

\* Thread t sends the request of its current call again.
Resend(t, type, dsts, ver) ==
    /\ \/ ~UnderWay(t) /\ early' = early
       \/ UnderWay(t) /\ type \in Impatient /\ early < MaxEarly
            /\ early' = early + 1
    /\ net' = net \cup Requests(t, type, dsts, seq[t], early', ver)
    /\ UNCHANGED <<cloud, nver, cache, meta, worker, evictor, server, pending,
                   seq, fresh, fault, lost>>

TimeoutWorker(e) ==
    LET w == worker[e]
    IN  /\ Remote(e, w.pc)
        /\ Resend(W(e), w.pc, {e}, IF w.pc = "put" THEN w.val ELSE 0)

TimeoutEvictor(e) ==
    /\ evictor[e] = "evict" /\ e # Beacon
    /\ Resend(E(e), "evict", {e}, 0)

\* Mutant: edges that have acknowledged are asked again too.
TimeoutCollector_All(k) ==
    /\ Collecting(k) /\ pending[k] \ {Beacon} # {}
    /\ Resend(BeaconThread(k), CollectedCall(k), dirinfos(meta) \ {Beacon}, 0)

\* Only the edges that have not acknowledged are asked again.
TimeoutCollector(k) ==
    /\ Collecting(k) /\ pending[k] \ {Beacon} # {}
    /\ Resend(BeaconThread(k), CollectedCall(k), pending[k] \ {Beacon}, 0)

\* A response with an old sequence number is read and ignored.
DiscardStaleResponse ==
    /\ \E m \in net : m.rsp /\ m.seq # seq[m.th] /\ net' = net \ {m}
    /\ UNCHANGED <<cloud, nver, cache, meta, worker, evictor, server, pending,
                   seq, fresh, fault, lost, early>>

Timeout == \/ \E e \in Edges : TimeoutWorker(e) \/ TimeoutEvictor(e)
           \/ \E k \in {"server", "worker"} : TimeoutCollector(k)

TNext == \/ Next /\ UNCHANGED <<lost, early>>
         \/ Lose \/ Timeout \/ DiscardStaleResponse

TSpec == TInit /\ [][TNext]_tvars

\* A thread that waits for a lost datagram times out.
TFairSpec ==
    /\ TSpec /\ Fairness
    /\ \A e \in Edges : /\ WF_tvars(TimeoutWorker(e))
                        /\ WF_tvars(TimeoutEvictor(e))
    /\ \A k \in {"server", "worker"} : WF_tvars(TimeoutCollector(k))
    /\ WF_tvars(DiscardStaleResponse)

=============================================================================
