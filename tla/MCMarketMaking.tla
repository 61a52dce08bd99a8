--------------------------- MODULE MCMarketMaking ---------------------------
(* Small instances of MarketMaking for TLC. *)
EXTENDS MarketMaking, TLC

CONSTANTS yes, no, o1, o2, o3

MCOutcomes == {yes, no}
MCQuoted == {yes}
MCIds == {o1, o2, o3}
\* Two books whose bids differ.
MCBooks == {[buy |-> 1, sell |-> 3], [buy |-> 2, sell |-> 3]}
\* More than max_position.
MCHoldings == {(yes :> 3 @@ no :> 1)}
\* A bid that is kept or cancelled, an ask that is cancelled.
MCFound == [outcome : {yes}, side : Sides, price : {2}, left : {2}]

\* Ids are interchangeable, and no liveness is checked.
MCSymmetry == Permutations(MCIds)
=============================================================================
