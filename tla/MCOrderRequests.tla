--------------------------- MODULE MCOrderRequests ---------------------------
(* A small instance of OrderRequests for TLC. *)
EXTENDS OrderRequests, TLC

CONSTANTS c1, c2

MCCallers == {c1, c2}
MCSymmetry == Permutations(MCCallers)
=============================================================================
