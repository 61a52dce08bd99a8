----------------------- MODULE MCOrderBookWebSocket -----------------------
(* A small instance of OrderBookWebSocket for TLC. *)
EXTENDS OrderBookWebSocket

CONSTANTS m1, m2, c1, c2

MCMarkets == {m1, m2}
MCCallers == {c1, c2}
MCSockets == 1..3
=============================================================================
