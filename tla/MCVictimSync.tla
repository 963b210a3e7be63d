---------------------------- MODULE MCVictimSync ----------------------------
(* Two edges: s's victims change, r tracks them and has none of its own.     *)
EXTENDS VictimSync

CONSTANTS s, r, v1, v2

MCContents == [e \in Edges |-> IF e = s THEN Victims ELSE {NoVictims}]

\* A complete syncset, one missing, one cached, one dropped, and the answer.
MCMaxSeqnum == [e \in Edges |-> IF e = s THEN 5 ELSE 1]
Infos == Permutations({v1, v2})
=============================================================================
