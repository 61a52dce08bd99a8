---------------------------- MODULE MCEventSink ----------------------------
(* Instance of EventSink for TLC: two results of orders and one event that *)
(* is not.                                                                 *)
EXTENDS EventSink, TLC

CONSTANTS r1, r2, e1, nobody

MCResults == {r1, r2}
MCEvents == {r1, r2, e1}
MCSymmetry == Permutations(MCResults)
=============================================================================
