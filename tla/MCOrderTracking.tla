-------------------------- MODULE MCOrderTracking --------------------------
(* A small instance of OrderTracking for TLC. *)
EXTENDS OrderTracking

CONSTANTS c1, c2, o1

MCClients == {c1, c2}
MCOrders == {o1}
MCOwner == [o \in MCOrders |-> c1]
=============================================================================
