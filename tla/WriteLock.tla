----------------------------- MODULE WriteLock -----------------------------
(***************************************************************************)
(* What the beacon promises to writers and readers of one key, without the *)
(* messages: a write lock that one edge holds at a time, edges that wait   *)
(* only while another edge holds it, and a release that ends every wait.   *)
(***************************************************************************)
CONSTANTS Edges

VARIABLES holders,  \* the edges that hold the lock
          waiting   \* the edges that wait for its release

Init == holders = {} /\ waiting = {}

Grant(e) == /\ holders = {} /\ waiting = {}
            /\ holders' = {e}
            /\ UNCHANGED waiting

Wait(e) == /\ holders # {} /\ e \notin holders
           /\ waiting' = waiting \cup {e}
           /\ UNCHANGED holders

Release == /\ holders # {}
           /\ holders' = {}
           /\ waiting' = {}

Next == Release \/ \E e \in Edges : Grant(e) \/ Wait(e)

Spec == Init /\ [][Next]_<<holders, waiting>>
=============================================================================
