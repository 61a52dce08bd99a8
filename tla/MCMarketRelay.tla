---------------------------- MODULE MCMarketRelay ----------------------------
(* Small instances of MarketRelay for TLC: three clients who subscribe, and *)
(* two that are sent books.                                                 *)
EXTENDS MarketRelay, TLC

CONSTANTS c1, c2, c3, a1, a2

MCClients == {c1, c2, c3}
MCAssets == {a1, a2}
MCPair == {c1, c2}
MCAsset == {a1}
MCModes == BOOLEAN
MCSymmetry == Permutations(MCClients) \cup Permutations(MCAssets)
MCPairSymmetry == Permutations(MCPair)
=============================================================================
