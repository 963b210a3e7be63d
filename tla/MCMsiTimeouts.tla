--------------------------- MODULE MCMsiTimeouts ---------------------------
(* Instances of MsiTimeouts for TLC: the edges are model values. *)
EXTENDS MsiTimeouts

CONSTANTS b, x, y

\* Every request, and the answers of the calls that can be repeated safely.
RepeatableCalls == Calls \X {FALSE} \cup {"admit", "evict", "put", "inv"} \X {TRUE}

FinishBlockAnswers == {<<"fin", TRUE>>}
=============================================================================
