------------------------------- MODULE MCMsi -------------------------------
(* Instances of MsiProtocol for TLC: the edges are model values. *)
EXTENDS MsiProtocol

CONSTANTS b, x, y
=============================================================================
