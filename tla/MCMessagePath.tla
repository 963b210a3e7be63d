--------------------------- MODULE MCMessagePath ---------------------------
EXTENDS MessagePath, TLC

CONSTANTS p, q, a, b, c

\* Thread p sends two messages of two fragments, thread q one of one.
MCSourceOf == (a :> p) @@ (b :> p) @@ (c :> q)
MCFragmentCnt == (a :> 2) @@ (b :> 2) @@ (c :> 1)
MCRequest == {Whole(m) : m \in Item}
============================================================================
