---------------------------- MODULE MarketMaking ----------------------------
(***************************************************************************)
(* The market making core: Strategy.log_status() and place_bbo_orders() of *)
(* base/strategy.py, once per tick, and Strategy.cleanup() at the end,     *)
(* through ExchangeClient, against a venue that fills orders whenever it   *)
(* likes.  Every call of the venue is a step, so a fill may come between   *)
(* any two of them; the strategy decides from snapshots it took earlier.   *)
(* A query of the session manager, get_status() or get_metrics(), calls    *)
(* refresh_state() of the same strategy in another thread and writes its   *)
(* snapshots over.  Holdings and open orders may be left from before; while *)
(* the strategy runs nobody else trades in its market with its account.    *)
(*                                                                         *)
(* Prices are ticks.  Cash is not kept: a quote may always be left out,    *)
(* for want of cash, of a valid book or of an answer to the call.          *)
(***************************************************************************)
EXTENDS Integers, FiniteSets, FiniteSetsExt, Functions

CONSTANTS Outcomes,     \* the outcomes of the market
          Quoted,       \* those with a token id: outcome_tokens
          Ids,          \* order ids; those of closed orders are used again
          Books,        \* the best bid and ask the book may show
          OrderSize,    \* Strategy.order_size
          MaxPosition,  \* Strategy.max_position
          MaxDelta,     \* Strategy.max_delta
          MaxFailures,  \* bound: how many calls of the venue may fail
          MaxWrites,    \* bound: how often a query may write a snapshot over
          Holdings,     \* what may be held at the start,
          MaxHeld,      \* of one outcome at most
          Found,        \* the orders that may be open at the start,
          MaxFound,     \* so many at most,
          Lot,          \* of that size at most
          NoOutcome     \* a blank

ASSUME MarketAssumption ==
    /\ IsFiniteSet(Outcomes) /\ IsFiniteSet(Ids)
    /\ Quoted \subseteq Outcomes /\ NoOutcome \notin Outcomes
    /\ Books \subseteq [buy : Int, sell : Int] /\ \A b \in Books : b.buy < b.sell
    /\ {OrderSize, MaxPosition, MaxDelta, Lot} \subseteq Nat \ {0}
    /\ {MaxFailures, MaxWrites, MaxHeld, MaxFound} \subseteq Nat
    /\ Holdings \subseteq [Outcomes -> 0..MaxHeld]
    /\ Found \subseteq [outcome : Outcomes, side : {"buy", "sell"}, price : Int, left : 1..Lot]

VARIABLES held,    \* the venue: shares held of each outcome
          live,    \* the venue: ids of the open orders
          order,   \* the venue: what each id stands for
          pos,     \* _positions: the outcomes the venue listed
          seen,    \* _open_orders, by id
          delta,   \* _delta_info: the positions it was computed from
          query,   \* the manager's thread in refresh_state(), and what it fetched
          at,      \* where the strategy thread is
          on,      \* the outcome it quotes
          side,    \* the side it quotes
          quote,   \* our_bid and our_ask
          position, mine, \* position; buy_orders and sell_orders
          stale,   \* orders it is about to cancel
          todo,    \* outcomes it has not come to yet
          failures, written \* history: calls of the strategy that failed, and
                            \* snapshots of a tick that queries wrote over

venue == <<held, live, order>>
local == <<on, side, quote, position, mine, stale, todo>>
past == <<failures, written>>
vars == <<venue, pos, seen, delta, query, at, local, past>>

Sides == {"buy", "sell"}

NoOrder == [outcome |-> NoOutcome, side |-> "buy", price |-> 0, left |-> 0]
NoQuote == [buy |-> 0, sell |-> 0]
NoneMine == [s \in Sides |-> {}]
NoQuery == [step |-> "none", pos |-> <<>>, seen |-> {}]

\* setup() cancels nothing and sells nothing.
Init ==
    /\ held \in Holdings
    /\ live \in {S \in SUBSET Ids : Cardinality(S) <= MaxFound}
    /\ \E f \in [live -> Found] : order = [i \in Ids |-> IF i \in live THEN f[i] ELSE NoOrder]
    /\ pos = <<>> /\ seen = {} /\ delta = <<>> /\ query = NoQuery
    /\ at = "positions"
    /\ on = NoOutcome /\ side = "buy" /\ quote = NoQuote
    /\ position = 0 /\ mine = NoneMine
    /\ stale = {} /\ todo = {}
    /\ failures = 0 /\ written = 0

Position(o) == IF o \in DOMAIN pos THEN pos[o] ELSE 0

\* The ids the threads hold.
Known == seen \cup stale \cup UNION {mine[s] : s \in Sides} \cup query.seen

Orders(o, s) == {i \in live : order[i].outcome = o /\ order[i].side = s}
-----------------------------------------------------------------------------
(* The venue *)

\* A trade of some or all that is left of an open order; shares sold are held.
Fill(i) ==
    /\ i \in live
    /\ \E n \in 1..order[i].left :
        LET o == order[i].outcome IN
        /\ order[i].side = "sell" => n <= held[o]
        /\ held' = [held EXCEPT ![o] = IF order[i].side = "buy" THEN @ + n ELSE @ - n]
        /\ order' = [order EXCEPT ![i] =
              IF n = order[i].left /\ i \notin Known
              THEN NoOrder ELSE [order[i] EXCEPT !.left = @ - n]]
        /\ live' = IF n = order[i].left THEN live \ {i} ELSE live
    /\ UNCHANGED <<pos, seen, delta, query, at, local, past>>

\* Orders that neither the venue nor a thread holds are blank.
Forget(known) ==
    order' = [i \in Ids |-> IF i \in live \cup query.seen \cup known THEN order[i] ELSE NoOrder]

\* So are snapshots that will not be read.
Clear(known) == pos' = <<>> /\ seen' = {} /\ delta' = <<>> /\ Forget(known)

\* The venue answers with an order under an id nobody holds.
Accept(o, s, price, size) ==
    \E i \in Ids \ (live \cup Known) :
        /\ live' = live \cup {i}
        /\ order' = [order EXCEPT ![i] =
              [outcome |-> o, side |-> s, price |-> price, left |-> size]]

Failure == failures < MaxFailures /\ failures' = failures + 1 /\ UNCHANGED written

\* Outcomes without shares are not listed.  Fault: they are, as zeros.
ListedAll == Outcomes
Listed == {o \in Outcomes : held[o] > 0}

\* fetch_positions_dict_for_market(): an outcome whose balance call fails, or all of
\* them, may be missing.
FetchPositions ==
    \E some \in SUBSET Listed :
        /\ pos' = Restrict(held, some)
        /\ IF some = Listed THEN UNCHANGED past ELSE Failure
-----------------------------------------------------------------------------
(* refresh_state(): positions, then orders and the delta, then the NAV *)

RefreshPositions ==
    /\ at = "positions" /\ at' = "orders"
    /\ FetchPositions
    /\ UNCHANGED <<venue, seen, delta, query, local>>

\* A failure reads as no orders.
RefreshOrders ==
    /\ at = "orders" /\ at' = "nav"
    /\ \/ seen' = live /\ UNCHANGED past
       \/ seen' = {} /\ Failure
    /\ delta' = pos
    /\ UNCHANGED <<venue, pos, query, local>>

RefreshNav ==
    /\ at = "nav" /\ at' = "next"
    /\ todo' = Quoted
    /\ UNCHANGED <<venue, pos, seen, delta, query, on, side, quote, position, mine, stale, past>>

\* A failure of calculate_nav() leaves on_tick(), and with it the run loop.
RefreshFails ==
    /\ at = "nav" /\ at' = "cancelAll"
    /\ Failure /\ Clear({})
    /\ UNCHANGED <<held, live, query, local>>
-----------------------------------------------------------------------------
(* _place_bbo_for_outcome(), one outcome after the other *)

\* The delta guard, over the listed positions: the largest of them exceeds the
\* smallest by more than max_delta, and the position of o is that large.
Guarded(o) ==
    \E a, b \in DOMAIN delta :
        /\ \A c \in DOMAIN delta : delta[c] <= delta[a]
        /\ delta[a] - delta[b] > MaxDelta
        /\ Position(o) = delta[a]

\* With the last outcome the snapshots have served.
Decide(o, known) ==
    /\ at = "next"
    /\ o \in todo /\ todo' = todo \ {o}
    /\ IF todo' = {} THEN Clear(known) ELSE UNCHANGED <<order, pos, seen, delta>>
    /\ UNCHANGED <<held, live, query, stale, past>>

\* No bid or ask, a crossed book, or the delta guard.
Skip(o) ==
    /\ Decide(o, {})
    /\ UNCHANGED <<at, on, side, quote, position, mine>>

\* A book that cannot be fetched ends the tick and the loop, and in
\* liquidate_positions() the cleanup.
BookFails ==
    /\ todo # {}
    /\ \/ at = "next" /\ at' = "cancelAll"
       \/ at = "liquidate" /\ at' = "aborted"
    /\ Failure /\ Clear({})
    /\ todo' = {}
    /\ UNCHANGED <<held, live, query, on, side, quote, position, mine, stale>>

\* get_orders_for_outcome().
OfSide(o, s) == {i \in seen : order[i].outcome = o /\ order[i].side = s}

\* What is decided for o is decided from the snapshots as they are now.
Quote(o) ==
    /\ Decide(o, UNION {OfSide(o, s) : s \in Sides})
    /\ ~Guarded(o)
    /\ at' = "side" /\ on' = o /\ side' = "buy"
    /\ quote' \in Books
    /\ position' = Position(o) /\ mine' = [s \in Sides |-> OfSide(o, s)]

HasOrderAtPrice == \E i \in mine[side] : order[i].price = quote[side]

Blank ==
    /\ on' = NoOutcome /\ side' = "buy" /\ quote' = NoQuote
    /\ position' = 0 /\ mine' = NoneMine

NextSide ==
    /\ IF side = "buy"
       THEN at' = "side" /\ side' = "sell" /\ UNCHANGED <<on, quote, position, mine>>
       ELSE at' = "next" /\ Blank
    /\ UNCHANGED todo

Keep ==
    /\ at = "side"
    /\ HasOrderAtPrice
    /\ NextSide
    /\ UNCHANGED <<venue, pos, seen, delta, query, stale, past>>

\* cancel_stale_orders().  Fault: none of them.
NothingStale(orders) == {}
Stale(orders) == orders

Requote ==
    /\ at = "side" /\ at' = "cancel"
    /\ ~HasOrderAtPrice
    /\ stale' = Stale(mine[side])
    /\ UNCHANGED <<venue, pos, seen, delta, query, on, side, quote, position, mine, todo, past>>

\* One cancel_order(), of cancel_stale_orders() or of cancel_all_orders(): an order
\* that is open no more cannot be cancelled; every failure is swallowed.
Cancel(i) ==
    /\ at \in {"cancel", "cancelRest"}
    /\ i \in stale /\ stale' = stale \ {i}
    /\ \/ live' = live \ {i} /\ UNCHANGED past
       \/ i \in live /\ Failure /\ UNCHANGED live
    /\ UNCHANGED <<held, order, pos, seen, delta, query, at, on, side, quote, position, mine, todo>>

\* What the snapshot allows.  Fault: the order itself is left out of the sum.
WithinLimitBefore == position <= MaxPosition
WithinLimit == position + OrderSize <= MaxPosition

MayPlace == IF side = "buy" THEN WithinLimit ELSE position >= OrderSize

Place ==
    /\ at = "cancel" /\ stale = {}
    /\ MayPlace
    /\ Accept(on, side, quote[side], OrderSize)
    /\ NextSide
    /\ UNCHANGED <<held, pos, seen, delta, query, stale, past>>

\* The limits, the cash or the venue say no.
PlaceNot ==
    /\ at = "cancel" /\ stale = {}
    /\ NextSide
    /\ UNCHANGED <<venue, pos, seen, delta, query, stale, past>>

\* The loop goes on, or ends by the flag or the duration.
TickEnd ==
    /\ at = "next" /\ todo = {}
    /\ at' \in {"positions", "cancelAll"}
    /\ Clear({})
    /\ UNCHANGED <<held, live, query, local, past>>
-----------------------------------------------------------------------------
(* refresh_state() once more, in the thread of the session manager *)

\* What it fetches while the loop may still read it, and while the bound allows to
\* write it.
Fetches == written < MaxWrites /\ at \in {"positions", "orders", "nav", "next", "side", "cancel"}

\* Its calls may fail, which reads as nothing.
QueryPositions ==
    /\ query.step = "none" /\ Fetches
    /\ \E some \in SUBSET Listed :
          query' = [step |-> "store positions", pos |-> Restrict(held, some), seen |-> {}]
    /\ UNCHANGED <<venue, pos, seen, delta, at, local, past>>

QueryOrders ==
    /\ query.step = "orders" /\ Fetches
    /\ \E some \in {live, {}} : query' = [step |-> "store orders", pos |-> <<>>, seen |-> some]
    /\ UNCHANGED <<venue, pos, seen, delta, at, local, past>>

\* Where what is written is read in the tick; elsewhere the strategy's own thread
\* writes it first.
ReadsOrders == at = "nav" \/ (at \in {"next", "side", "cancel"} /\ todo # {})
ReadsPositions == at = "orders" \/ ReadsOrders
Overwrites == written < MaxWrites /\ written' = written + 1 /\ UNCHANGED failures

StorePositions ==
    /\ query.step = "store positions" /\ query' = [NoQuery EXCEPT !.step = "orders"]
    /\ IF ReadsPositions THEN pos' = query.pos /\ Overwrites ELSE UNCHANGED <<pos, past>>
    /\ UNCHANGED <<venue, seen, delta, at, local>>

\* And the delta of the positions that are there by now.
StoreOrders ==
    /\ query.step = "store orders" /\ query' = NoQuery
    /\ IF ReadsOrders THEN seen' = query.seen /\ delta' = pos /\ Overwrites
                       ELSE UNCHANGED <<seen, delta, past>>
    /\ UNCHANGED <<venue, pos, at, local>>
-----------------------------------------------------------------------------
(* cleanup(): cancel_all_orders(), then liquidate_positions() *)

\* Nothing catches a failure of the first fetch, unless the venue's own code
\* turns it into an empty list.
CancelAll ==
    /\ at = "cancelAll" /\ at' = "cancelRest"
    /\ \/ stale' = live /\ UNCHANGED past
       \/ stale' = {} /\ Failure
    /\ UNCHANGED <<venue, pos, seen, delta, query, on, side, quote, position, mine, todo>>

CancelAllFails ==
    /\ at = "cancelAll" /\ at' = "aborted"
    /\ Failure
    /\ UNCHANGED <<venue, pos, seen, delta, query, local>>

\* What the orders to be cancelled are done with.  Fault: not awaited.
CancelledNot == TRUE
Cancelled == stale = {}

\* The positions are liquidate_positions()'s own.
LiquidateBegin ==
    /\ at = "cancelRest" /\ at' = "liquidate"
    /\ Cancelled
    /\ FetchPositions
    /\ todo' = Quoted \cap DOMAIN pos'
    /\ stale' = {} /\ Forget({})
    /\ UNCHANGED <<held, live, seen, delta, query, on, side, quote, position, mine>>

Liquidate(o) ==
    /\ at = "liquidate"
    /\ o \in todo /\ todo' = todo \ {o}
    /\ \/ \E book \in Books : Accept(o, "sell", book.buy, pos[o])
       \/ UNCHANGED <<live, order>>
    /\ UNCHANGED <<held, pos, seen, delta, query, at, on, side, quote, position, mine, stale, past>>

Done ==
    /\ at = "liquidate" /\ at' = "done"
    /\ todo = {}
    /\ pos' = <<>>
    /\ UNCHANGED <<venue, seen, delta, query, local, past>>
-----------------------------------------------------------------------------
Tick ==
    \/ RefreshPositions \/ RefreshOrders \/ RefreshNav \/ RefreshFails
    \/ BookFails \/ Keep \/ Requote \/ Place \/ PlaceNot \/ TickEnd
    \/ \E o \in Quoted : Skip(o) \/ Quote(o)
    \/ \E i \in Ids : Cancel(i)

Cleanup ==
    \/ CancelAll \/ CancelAllFails \/ LiquidateBegin \/ Done
    \/ \E o \in Quoted : Liquidate(o)

Query == QueryPositions \/ StorePositions \/ QueryOrders \/ StoreOrders

Next == Tick \/ Cleanup \/ Query \/ \E i \in Ids : Fill(i)

Spec == Init /\ [][Next]_vars
-----------------------------------------------------------------------------
(* Properties *)

Places == {"positions", "orders", "nav", "next", "side", "cancel",
           "cancelAll", "cancelRest", "liquidate", "aborted", "done"}

Queries == {"none", "store positions", "orders", "store orders"}

\* Types; what is left of an order is positive as long as it is open.
TypeOK ==
    /\ held \in [Outcomes -> Nat]
    /\ live \subseteq Ids /\ seen \subseteq Ids /\ stale \subseteq Ids
    /\ order \in [Ids -> [outcome : Outcomes \cup {NoOutcome}, side : Sides,
                          price : Int, left : Nat]]
    /\ \A i \in live : order[i].outcome \in Outcomes /\ order[i].left > 0
    /\ DOMAIN pos \subseteq Outcomes /\ \A o \in DOMAIN pos : pos[o] \in Nat \ {0}
    /\ query.step \in Queries /\ query.seen \subseteq Ids
    /\ DOMAIN query.pos \subseteq Outcomes
    /\ \A o \in DOMAIN query.pos : query.pos[o] \in Nat \ {0}
    /\ at \in Places /\ on \in Outcomes \cup {NoOutcome} /\ side \in Sides
    /\ quote \in Books \cup {NoQuote}
    /\ position \in Nat /\ mine \in [Sides -> SUBSET Ids]
    /\ todo \subseteq Quoted /\ failures \in 0..MaxFailures /\ written \in 0..MaxWrites

\* What may come between the strategy and its snapshots.
Slips == failures + written
Larger(a, b) == IF a > b THEN a ELSE b

\* The strategy means to have one open order for an outcome and side.  Each call
\* of it that fails and each snapshot that a query writes over adds one at most,
\* to that or to those found at the start, whatever is filled in between.
FewQuotes ==
    \A o \in Outcomes, s \in Sides : Cardinality(Orders(o, s)) <= Larger(1, MaxFound) + Slips

\* max_position does not bound what is held: the guard adds the new order to the
\* positions fetched at the start of the tick, not to what was bought or is open
\* since.  Holdings and open buys exceed max_position, or what was held at the
\* start, by what FewQuotes lets be open.
Exposure(o) == held[o] + MapThenSumSet(LAMBDA i : order[i].left, Orders(o, "buy"))

ExposureBound ==
    \A o \in Outcomes :
       Exposure(o) <= Larger(MaxPosition, MaxHeld)
                         + (Larger(1, MaxFound) + Slips) * Larger(OrderSize, Lot)

\* When no call has failed, cleanup() leaves open only sells of what is held.
CleanupCovered ==
    (at = "done" /\ failures = 0) => \A i \in live :
        order[i].side = "sell" /\ order[i].left <= held[order[i].outcome]
=============================================================================
