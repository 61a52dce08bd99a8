------------------------- MODULE MarketMaking_proofs -------------------------
(* Theorems about MarketMaking, for any market, books, limits and failures, *)
(* and about StrategySessions, the sessions that strategies run in.         *)
EXTENDS MarketMaking, StrategySessions, FiniteSetTheorems, WellFoundedInduction, TLAPS

(* Type correctness.  TypeOK alone is not inductive: an order is placed for *)
(* the outcome being quoted, or sells a position that was listed.           *)

IAt ==
    /\ at \in {"side", "cancel"} => on \in Quoted /\ on \notin todo
    /\ at = "liquidate" => todo \subseteq DOMAIN pos

\* What an accepted order adds.
LEMMA AcceptType ==
    ASSUME TypeOK, NEW o \in Outcomes, NEW s \in Sides, NEW p \in Int, NEW n \in Nat,
           n > 0, Accept(o, s, p, n)
    PROVE  /\ live' \subseteq Ids
           /\ order' \in [Ids -> [outcome : Outcomes \cup {NoOutcome}, side : Sides,
                                  price : Int, left : Nat]]
           /\ \A i \in live' : order'[i].outcome \in Outcomes /\ order'[i].left > 0
<1>1. PICK i \in Ids \ (live \cup Known) :
        /\ live' = live \cup {i}
        /\ order' = [order EXCEPT ![i] =
              [outcome |-> o, side |-> s, price |-> p, left |-> n]]
  BY DEF Accept
<1>2. [outcome |-> o, side |-> s, price |-> p, left |-> n]
        \in [outcome : Outcomes \cup {NoOutcome}, side : Sides, price : Int, left : Nat]
  OBVIOUS
<1>3. QED
  BY <1>1, <1>2 DEF TypeOK

\* Ids of closed orders blank out.
LEMMA ForgetType ==
    ASSUME TypeOK, NEW known, Forget(known), live' = live
    PROVE  /\ order' \in [Ids -> [outcome : Outcomes \cup {NoOutcome}, side : Sides,
                                  price : Int, left : Nat]]
           /\ \A i \in live' : order'[i].outcome \in Outcomes /\ order'[i].left > 0
<1>1. NoOrder \in [outcome : Outcomes \cup {NoOutcome}, side : Sides, price : Int, left : Nat]
  BY DEF NoOrder, Sides
<1>2. QED
  BY <1>1 DEF TypeOK, Forget

\* What a fetch of positions leaves in the snapshot.
LEMMA FetchType ==
    ASSUME TypeOK, FetchPositions
    PROVE  /\ DOMAIN pos' \subseteq Outcomes /\ \A o \in DOMAIN pos' : pos'[o] \in Nat \ {0}
           /\ failures' \in 0..MaxFailures /\ written' \in 0..MaxWrites
<1>1. PICK some \in SUBSET Listed :
        /\ pos' = Restrict(held, some)
        /\ IF some = Listed THEN UNCHANGED past ELSE Failure
  BY DEF FetchPositions
<1>2. failures' \in 0..MaxFailures /\ written' \in 0..MaxWrites
  BY <1>1, MarketAssumption DEF TypeOK, Failure, past
<1>3. DOMAIN pos' = some /\ \A o \in some : pos'[o] = held[o]
  BY <1>1 DEF Restrict
<1>4. \A o \in some : held[o] \in Nat \ {0}
  BY DEF TypeOK, Listed
<1>5. QED
  BY <1>2, <1>3, <1>4 DEF Listed

LEMMA InitTypeOK == Init => TypeOK /\ IAt
<1> SUFFICES ASSUME Init
             PROVE  TypeOK /\ IAt
  OBVIOUS
<1>1. held \in [Outcomes -> Nat]
  BY MarketAssumption DEF Init
<1>2. live \subseteq Ids
  BY DEF Init
<1>3. PICK f \in [live -> Found] : order = [i \in Ids |-> IF i \in live THEN f[i] ELSE NoOrder]
  BY DEF Init
<1>4. \A i \in live : /\ f[i] \in [outcome : Outcomes, side : Sides, price : Int, left : Nat]
                     /\ f[i].left > 0
  BY MarketAssumption DEF Sides
<1>5. NoOrder \in [outcome : Outcomes \cup {NoOutcome}, side : Sides, price : Int, left : Nat]
  BY DEF NoOrder, Sides
<1>6. order \in [Ids -> [outcome : Outcomes \cup {NoOutcome}, side : Sides,
                        price : Int, left : Nat]]
  BY <1>3, <1>4, <1>5
<1>7. \A i \in live : order[i].outcome \in Outcomes /\ order[i].left > 0
  BY <1>2, <1>3, <1>4
<1>8. QED
  BY <1>1, <1>2, <1>6, <1>7, MarketAssumption
     DEF Init, TypeOK, IAt, NoQuote, NoQuery, NoneMine, Queries, Sides, Places

LEMMA NoneMineType == NoneMine \in [Sides -> SUBSET Ids]
BY DEF NoneMine

LEMMA StepTypeOK == TypeOK /\ IAt /\ [Next]_vars => TypeOK' /\ IAt'
<1> SUFFICES ASSUME TypeOK, IAt, [Next]_vars
             PROVE  TypeOK' /\ IAt'
  OBVIOUS
<1>a. /\ Quoted \subseteq Outcomes /\ NoOutcome \notin Outcomes
      /\ OrderSize \in Nat /\ OrderSize > 0 /\ MaxFailures \in Nat /\ MaxWrites \in Nat
      /\ \A b \in Books : b.buy \in Int /\ b.sell \in Int
  BY MarketAssumption
<1>b. UNCHANGED past \/ Failure \/ Overwrites =>
         failures' \in 0..MaxFailures /\ written' \in 0..MaxWrites
  BY <1>a DEF Failure, Overwrites, past, TypeOK
<1>c. \A s \in Sides : quote[s] \in Int
  BY <1>a DEF TypeOK, NoQuote, Sides
<1>1. ASSUME NEW i \in Ids, Fill(i)
      PROVE  TypeOK' /\ IAt'
  <2>1. i \in live
    BY <1>1 DEF Fill
  <2>2. PICK n \in 1..order[i].left :
          LET o == order[i].outcome IN
          /\ order[i].side = "sell" => n <= held[o]
          /\ held' = [held EXCEPT ![o] = IF order[i].side = "buy" THEN @ + n ELSE @ - n]
          /\ order' = [order EXCEPT ![i] =
                IF n = order[i].left /\ i \notin Known
                THEN NoOrder ELSE [order[i] EXCEPT !.left = @ - n]]
          /\ live' = IF n = order[i].left THEN live \ {i} ELSE live
    BY <1>1 DEF Fill
  <2>3. order[i] \in [outcome : Outcomes, side : Sides, price : Int, left : Nat]
    BY <2>1 DEF TypeOK
  <2>4. held' \in [Outcomes -> Nat]
    BY <2>2, <2>3 DEF TypeOK, Sides
  <2>5. [order[i] EXCEPT !.left = @ - n]
          \in [outcome : Outcomes \cup {NoOutcome}, side : Sides, price : Int, left : Nat]
    BY <2>2, <2>3
  <2>6. NoOrder \in [outcome : Outcomes \cup {NoOutcome}, side : Sides, price : Int, left : Nat]
    BY DEF NoOrder, Sides
  <2>7. order' \in [Ids -> [outcome : Outcomes \cup {NoOutcome}, side : Sides,
                            price : Int, left : Nat]]
    BY <2>2, <2>5, <2>6 DEF TypeOK
  <2>8. ASSUME NEW j \in live'
        PROVE  order'[j].outcome \in Outcomes /\ order'[j].left > 0
    <3>1. CASE j = i
      <4>1. n # order[i].left
        BY <2>2, <2>8, <3>1
      <4>2. order'[i] = [order[i] EXCEPT !.left = @ - n]
        BY <2>2, <4>1 DEF TypeOK
      <4>3. QED
        BY <2>2, <2>3, <3>1, <4>1, <4>2
    <3>2. CASE j # i
      BY <2>2, <2>8, <3>2 DEF TypeOK
    <3>3. QED
      BY <3>1, <3>2
  <2>9. live' \subseteq Ids
    BY <2>2 DEF TypeOK
  <2>10. QED
    BY <1>1, <1>b, <2>4, <2>7, <2>8, <2>9 DEF Fill, TypeOK, IAt, local
<1>d. ASSUME NEW known, Clear(known), live' = live
      PROVE  /\ DOMAIN pos' \subseteq Outcomes /\ \A o \in DOMAIN pos' : pos'[o] \in Nat \ {0}
             /\ seen' \subseteq Ids
             /\ order' \in [Ids -> [outcome : Outcomes \cup {NoOutcome}, side : Sides,
                                    price : Int, left : Nat]]
             /\ \A i \in live' : order'[i].outcome \in Outcomes /\ order'[i].left > 0
  BY <1>d, ForgetType DEF Clear
<1>e. ASSUME NEW o, NEW known, Decide(o, known)
      PROVE  /\ DOMAIN pos' \subseteq Outcomes /\ \A a \in DOMAIN pos' : pos'[a] \in Nat \ {0}
             /\ seen' \subseteq Ids /\ todo' \subseteq Quoted
             /\ order' \in [Ids -> [outcome : Outcomes \cup {NoOutcome}, side : Sides,
                                    price : Int, left : Nat]]
             /\ \A i \in live' : order'[i].outcome \in Outcomes /\ order'[i].left > 0
             /\ UNCHANGED <<held, live, query, stale, past>>
  <2>1. live' = live /\ UNCHANGED <<held, live, query, stale, past>> /\ todo' = todo \ {o}
    BY <1>e DEF Decide
  <2>2. CASE todo' = {}
    BY <1>e, <1>d, <2>1, <2>2 DEF Decide, TypeOK
  <2>3. CASE todo' # {}
    BY <1>e, <2>1, <2>3 DEF Decide, TypeOK
  <2>4. QED
    BY <2>2, <2>3
<1>f. DOMAIN <<>> = {}
  OBVIOUS
<1>2. CASE RefreshPositions
  BY <1>2, FetchType DEF RefreshPositions, TypeOK, IAt, Places, venue, local
<1>3. CASE RefreshOrders
  BY <1>3, <1>b DEF RefreshOrders, TypeOK, IAt, Places, venue, local
<1>4. CASE RefreshNav
  BY <1>4, <1>b DEF RefreshNav, TypeOK, IAt, Places, venue
<1>5. CASE RefreshFails
  BY <1>5, <1>b, <1>d DEF RefreshFails, TypeOK, IAt, Places, local
<1>6. CASE BookFails
  BY <1>6, <1>b, <1>d DEF BookFails, TypeOK, IAt, Places
<1>7. CASE Keep
  BY <1>7, <1>a, <1>b, NoneMineType DEF Keep, NextSide, Blank, TypeOK, IAt, Places, Sides, venue
<1>8. CASE Requote
  BY <1>8, <1>b DEF Requote, Stale, TypeOK, IAt, Places, venue
<1>9. CASE Place
  <2>1. on \in Outcomes /\ quote[side] \in Int
    BY <1>9, <1>a, <1>c DEF Place, IAt, TypeOK
  <2>2. /\ live' \subseteq Ids
        /\ order' \in [Ids -> [outcome : Outcomes \cup {NoOutcome}, side : Sides,
                               price : Int, left : Nat]]
        /\ \A i \in live' : order'[i].outcome \in Outcomes /\ order'[i].left > 0
    BY <1>9, <1>a, <2>1, AcceptType DEF Place, TypeOK
  <2>3. QED
    BY <1>9, <1>b, <2>2, NoneMineType DEF Place, NextSide, Blank, TypeOK, IAt, Places, Sides
<1>10. CASE PlaceNot
  BY <1>10, <1>b, NoneMineType DEF PlaceNot, NextSide, Blank, TypeOK, IAt, Places, Sides, venue
<1>11. CASE TickEnd
  BY <1>11, <1>b, <1>d DEF TickEnd, TypeOK, IAt, Places, local
<1>12. ASSUME NEW o \in Quoted, Skip(o)
       PROVE  TypeOK' /\ IAt'
  BY <1>12, <1>b, <1>e DEF Skip, Decide, TypeOK, IAt
<1>13. ASSUME NEW o \in Quoted, Quote(o)
       PROVE  TypeOK' /\ IAt'
  <2>1. mine' \in [Sides -> SUBSET Ids] /\ position' \in Nat
    BY <1>13 DEF Quote, OfSide, Position, TypeOK
  <2>2. PICK known : Decide(o, known)
    BY <1>13 DEF Quote
  <2>3. o \notin todo' /\ at' = "side" /\ on' = o /\ side' = "buy" /\ quote' \in Books
    BY <1>13, <2>2 DEF Quote, Decide
  <2>4. QED
    BY <1>a, <1>b, <1>e, <2>1, <2>2, <2>3 DEF TypeOK, IAt, Places, Sides
<1>14. ASSUME NEW i \in Ids, Cancel(i)
       PROVE  TypeOK' /\ IAt'
  BY <1>14, <1>b DEF Cancel, TypeOK, IAt
<1>15. CASE CancelAll
  BY <1>15, <1>b DEF CancelAll, TypeOK, IAt, Places, venue
<1>16. CASE CancelAllFails
  BY <1>16, <1>b DEF CancelAllFails, TypeOK, IAt, Places, venue, local
<1>17. CASE LiquidateBegin
  BY <1>17, FetchType, ForgetType DEF LiquidateBegin, TypeOK, IAt, Places
<1>18. CASE Done
  BY <1>18, <1>b DEF Done, TypeOK, IAt, Places, venue, local
<1>19. ASSUME NEW o \in Quoted, Liquidate(o)
       PROVE  TypeOK' /\ IAt'
  <2>1. o \in DOMAIN pos /\ pos[o] \in Nat /\ pos[o] > 0
    BY <1>19 DEF Liquidate, IAt, TypeOK
  <2>2. /\ live' \subseteq Ids
        /\ order' \in [Ids -> [outcome : Outcomes \cup {NoOutcome}, side : Sides,
                               price : Int, left : Nat]]
        /\ \A i \in live' : order'[i].outcome \in Outcomes /\ order'[i].left > 0
    <3>1. CASE UNCHANGED <<live, order>>
      BY <3>1 DEF TypeOK
    <3>2. CASE \E best \in Books : Accept(o, "sell", best.buy, pos[o])
      BY <3>2, <1>a, <2>1, AcceptType DEF Sides
    <3>3. QED
      BY <1>19, <3>1, <3>2 DEF Liquidate
  <2>3. QED
    BY <1>19, <1>b, <2>2 DEF Liquidate, TypeOK, IAt
<1>20. CASE QueryPositions
  <2>1. PICK some \in SUBSET Listed :
          query' = [step |-> "store positions", pos |-> Restrict(held, some), seen |-> {}]
    BY <1>20 DEF QueryPositions
  <2>2. /\ DOMAIN Restrict(held, some) \subseteq Outcomes
        /\ \A o \in DOMAIN Restrict(held, some) : Restrict(held, some)[o] \in Nat \ {0}
    BY DEF Restrict, Listed, TypeOK
  <2>3. query'.step = "store positions" /\ query'.pos = Restrict(held, some) /\ query'.seen = {}
    BY <2>1
  <2>4. UNCHANGED <<held, live, order, pos, seen, at, on, side, quote, position, mine, stale,
                    todo, past>>
    BY <1>20 DEF QueryPositions, venue, local
  <2>5. QED
    BY <1>b, <2>2, <2>3, <2>4 DEF TypeOK, IAt, Queries
<1>21. CASE StorePositions
  <2>1. query'.step = "orders" /\ query'.pos = <<>> /\ query'.seen = {}
    BY <1>21 DEF StorePositions, NoQuery
  <2>2. /\ UNCHANGED <<held, live, order, seen, at, on, side, quote, position, mine, stale, todo>>
        /\ UNCHANGED past \/ Overwrites
        /\ (pos' = query.pos /\ ReadsPositions) \/ pos' = pos
    BY <1>21 DEF StorePositions, venue, local
  <2>3. TypeOK'
    BY <1>b, <1>f, <2>1, <2>2 DEF TypeOK, Queries
  <2>4. IAt'
    BY <2>2 DEF IAt, ReadsPositions, ReadsOrders
  <2>5. QED
    BY <2>3, <2>4
<1>22. CASE QueryOrders
  <2>0. PICK some \in {live, {}} :
          query' = [step |-> "store orders", pos |-> <<>>, seen |-> some]
    BY <1>22 DEF QueryOrders
  <2>1. query'.step = "store orders" /\ query'.pos = <<>> /\ query'.seen \in {live, {}}
    BY <2>0
  <2>2. UNCHANGED <<held, live, order, pos, seen, at, on, side, quote, position, mine, stale,
                    todo, past>>
    BY <1>22 DEF QueryOrders, venue, local
  <2>3. QED
    BY <1>b, <1>f, <2>1, <2>2 DEF TypeOK, IAt, Queries
<1>23. CASE StoreOrders
  <2>1. query'.step = "none" /\ query'.pos = <<>> /\ query'.seen = {}
    BY <1>23 DEF StoreOrders, NoQuery
  <2>2. /\ UNCHANGED <<held, live, order, pos, at, on, side, quote, position, mine, stale, todo>>
        /\ UNCHANGED past \/ Overwrites
        /\ seen' \in {query.seen, seen}
    BY <1>23 DEF StoreOrders, venue, local
  <2>3. QED
    BY <1>b, <1>f, <2>1, <2>2 DEF TypeOK, IAt, Queries
<1>24. CASE UNCHANGED vars
  BY <1>24, <1>b DEF vars, venue, local, TypeOK, IAt
<1>25. QED
  BY <1>1, <1>2, <1>3, <1>4, <1>5, <1>6, <1>7, <1>8, <1>9, <1>10, <1>11, <1>12, <1>13,
     <1>14, <1>15, <1>16, <1>17, <1>18, <1>19, <1>20, <1>21, <1>22, <1>23, <1>24
     DEF Next, Tick, Cleanup, Query

\* Every reachable state of the strategy and of the venue is well typed: open
\* orders are orders of the market with something left, and holdings stay
\* natural numbers, because only held shares are sold.
THEOREM TypeCorrect == Spec => []TypeOK
<1>1. QED
  BY InitTypeOK, StepTypeOK, PTL DEF Spec
-----------------------------------------------------------------------------
(* FewQuotes.  An order is placed when the open ones of its outcome and side *)
(* are fewer than the bound so far.  Until the tick comes to the outcome     *)
(* that holds or the snapshot has them all; then that, or they are among     *)
(* those it goes by; while they are being cancelled, that, or all of them    *)
(* are still to be cancelled.  A snapshot that a query writes over raises    *)
(* the bound by the one order that may be placed for want of it.             *)

Base == Larger(1, MaxFound)

Few(o, s) == Cardinality(Orders(o, s)) <= Base - 1 + Slips

\* The tick has not yet come to outcome o.
Waits(o) == at = "nav" \/ (at \in {"next", "side", "cancel"} /\ o \in todo)

\* It is at o and has not yet decided for side s.
Quotes(o, s) ==
    /\ o = on
    /\ \/ at = "side" /\ (side = "buy" \/ s = side)
       \/ at = "cancel" /\ side = "buy" /\ s = "sell"

IQuotes ==
    /\ FewQuotes
    /\ \A o \in Outcomes, s \in Sides :
          /\ Waits(o) => Few(o, s) \/ Orders(o, s) \subseteq seen
          /\ Quotes(o, s) => Few(o, s) \/ Orders(o, s) \subseteq mine[s]
          /\ at = "cancel" /\ o = on /\ s = side => Few(o, s) \/ Orders(o, s) \subseteq stale
          /\ at = "cancelRest" => Few(o, s) \/ Orders(o, s) \subseteq stale
          /\ at = "liquidate" /\ o \in todo /\ s = "sell" => Few(o, s)

LEMMA BaseType == Base \in Nat /\ Base >= 1 /\ MaxFound <= Base
BY MarketAssumption DEF Base, Larger

LEMMA SlipsType == TypeOK => Slips \in Nat /\ failures \in Nat /\ written \in Nat
BY MarketAssumption DEF TypeOK, Slips

LEMMA IdsFinite ==
    ASSUME NEW S \in SUBSET Ids
    PROVE  IsFiniteSet(S) /\ Cardinality(S) \in Nat
BY MarketAssumption, FS_Subset, FS_CardinalityType

LEMMA OrdersFinite ==
    ASSUME TypeOK, NEW o, NEW s
    PROVE  IsFiniteSet(Orders(o, s)) /\ Cardinality(Orders(o, s)) \in Nat
BY IdsFinite DEF TypeOK, Orders

\* A step that adds no order keeps the bounds, and a slip pays for one more.
LEMMA NoneAdded ==
    ASSUME TypeOK, TypeOK', FewQuotes, UNCHANGED past \/ Failure \/ Overwrites,
           \A o \in Outcomes, s \in Sides : Orders(o, s)' \subseteq Orders(o, s)
    PROVE  /\ FewQuotes'
           /\ \A o \in Outcomes, s \in Sides :
                 /\ Few(o, s) => Few(o, s)'
                 /\ Failure \/ Overwrites => Few(o, s)'
<1>1. ASSUME NEW o \in Outcomes, NEW s \in Sides
      PROVE  /\ Cardinality(Orders(o, s)') \in Nat /\ Cardinality(Orders(o, s)) \in Nat
             /\ Cardinality(Orders(o, s)') <= Cardinality(Orders(o, s))
  <2>1. IsFiniteSet(Orders(o, s)) /\ Orders(o, s)' \in SUBSET Orders(o, s)
    BY OrdersFinite
  <2>2. QED
    BY <2>1, FS_Subset, FS_CardinalityType
<1>2. Slips \in Nat
  BY SlipsType
<1>3. /\ Slips' \in {Slips, Slips + 1}
      /\ Failure \/ Overwrites => Slips' = Slips + 1
  BY SlipsType DEF Slips, Failure, Overwrites, past
<1>4. \A o \in Outcomes, s \in Sides : Cardinality(Orders(o, s)) <= Base + Slips
  BY DEF FewQuotes, Base
<1>5. \A o \in Outcomes, s \in Sides :
         /\ Cardinality(Orders(o, s)') <= Base + Slips'
         /\ Few(o, s) => Cardinality(Orders(o, s)') <= Base - 1 + Slips'
         /\ Failure \/ Overwrites => Cardinality(Orders(o, s)') <= Base - 1 + Slips'
  BY <1>1, <1>2, <1>3, <1>4, BaseType DEF Few
<1>6. QED
  BY <1>5 DEF FewQuotes, Few, Base

\* An accepted order is one more of its outcome and side.
LEMMA OneAdded ==
    ASSUME TypeOK, NEW o \in Outcomes, NEW s \in Sides, NEW p, NEW n, Accept(o, s, p, n)
    PROVE  /\ Cardinality(Orders(o, s)') \in Nat
           /\ Cardinality(Orders(o, s)') <= Cardinality(Orders(o, s)) + 1
           /\ \A o2 \in Outcomes, s2 \in Sides :
                 o2 # o \/ s2 # s => Orders(o2, s2)' = Orders(o2, s2)
<1>1. PICK i \in Ids \ (live \cup Known) :
        /\ live' = live \cup {i}
        /\ order' = [order EXCEPT ![i] =
              [outcome |-> o, side |-> s, price |-> p, left |-> n]]
  BY DEF Accept
<1>2. order'[i].outcome = o /\ order'[i].side = s /\ \A j \in live : order'[j] = order[j]
  BY <1>1 DEF TypeOK
<1>3. Orders(o, s)' = Orders(o, s) \cup {i}
  BY <1>1, <1>2 DEF Orders
<1>4. \A o2 \in Outcomes, s2 \in Sides :
         o2 # o \/ s2 # s => Orders(o2, s2)' = Orders(o2, s2)
  BY <1>1, <1>2 DEF Orders
<1>5. IsFiniteSet(Orders(o, s)) /\ Cardinality(Orders(o, s)) \in Nat
  BY OrdersFinite
<1>6. /\ Cardinality(Orders(o, s) \cup {i}) \in Nat
      /\ Cardinality(Orders(o, s) \cup {i}) <= Cardinality(Orders(o, s)) + 1
  <2> DEFINE S == Orders(o, s)
  <2> HIDE DEF S
  <2>1. IsFiniteSet(S) /\ Cardinality(S) \in Nat
    BY <1>5 DEF S
  <2>2. Cardinality(S \cup {i}) = IF i \in S THEN Cardinality(S) ELSE Cardinality(S) + 1
    BY <2>1, FS_AddElement
  <2>3. Cardinality(S \cup {i}) \in Nat /\ Cardinality(S \cup {i}) <= Cardinality(S) + 1
    BY <2>1, <2>2
  <2>4. QED
    BY <2>3 DEF S
<1>7. QED
  BY <1>3, <1>4, <1>6

LEMMA InitQuotes == Init => IQuotes
<1> SUFFICES ASSUME Init
             PROVE  IQuotes
  OBVIOUS
<1>1. ASSUME NEW o \in Outcomes, NEW s \in Sides
      PROVE  Cardinality(Orders(o, s)) <= Base + Slips
  <2>1. live \in SUBSET Ids /\ Cardinality(live) <= MaxFound
    BY DEF Init
  <2>2. IsFiniteSet(live) /\ Orders(o, s) \in SUBSET live
    BY <2>1, IdsFinite DEF Orders
  <2>3. Cardinality(Orders(o, s)) \in Nat /\ Cardinality(Orders(o, s)) <= Cardinality(live)
    BY <2>2, FS_Subset, FS_CardinalityType
  <2>4. Cardinality(live) \in Nat /\ Slips = 0
    BY <2>2, FS_CardinalityType DEF Init, Slips
  <2>5. QED
    BY <2>1, <2>3, <2>4, BaseType, MarketAssumption
<1>2. FewQuotes
  BY <1>1 DEF FewQuotes, Base
<1>3. at = "positions"
  BY DEF Init
<1>4. QED
  BY <1>2, <1>3 DEF IQuotes, Waits, Quotes

LEMMA StepQuotes ==
    TypeOK /\ IAt /\ IQuotes /\ TypeOK' /\ [Next]_vars => IQuotes'
<1> SUFFICES ASSUME TypeOK, IAt, IQuotes, TypeOK', [Next]_vars
             PROVE  IQuotes'
  OBVIOUS
<1>a. FewQuotes /\ Quoted \subseteq Outcomes /\ Slips \in Nat
  BY MarketAssumption, SlipsType DEF IQuotes
<1>b. ASSUME UNCHANGED past \/ Failure \/ Overwrites,
             \A o \in Outcomes, s \in Sides : Orders(o, s)' \subseteq Orders(o, s)
      PROVE  /\ FewQuotes'
             /\ \A o \in Outcomes, s \in Sides :
                   /\ Few(o, s) => Few(o, s)'
                   /\ Failure \/ Overwrites => Few(o, s)'
  BY <1>a, <1>b, NoneAdded
<1>c. UNCHANGED venue => \A o \in Outcomes, s \in Sides : Orders(o, s)' = Orders(o, s)
  BY DEF venue, Orders
<1>d. ASSUME NEW known, Forget(known), live' = live
      PROVE  \A o \in Outcomes, s \in Sides : Orders(o, s)' = Orders(o, s)
  BY <1>d DEF Forget, Orders, TypeOK
<1>e. ASSUME NEW o \in Outcomes, NEW s \in Sides, Orders(o, s) \subseteq {}
      PROVE  Few(o, s)
  <2>1. Cardinality(Orders(o, s)) = 0
    BY <1>e, FS_EmptySet
  <2>2. QED
    BY <1>a, <2>1, BaseType DEF Few
<1>f. ASSUME NEW o \in Quoted, NEW known, Decide(o, known)
      PROVE  /\ \A a \in Outcomes, s \in Sides : Orders(a, s)' = Orders(a, s)
             /\ at = "next" /\ todo' = todo \ {o} /\ UNCHANGED past
             /\ todo' # {} => seen' = seen
  <2>1. /\ at = "next" /\ todo' = todo \ {o} /\ UNCHANGED past /\ live' = live
        /\ todo' # {} => seen' = seen /\ order' = order
        /\ todo' = {} => Forget(known)
    BY <1>f DEF Decide, Clear
  <2>2. CASE todo' = {}
    BY <1>d, <2>1, <2>2
  <2>3. CASE todo' # {}
    BY <2>1, <2>3 DEF Orders
  <2>4. QED
    BY <2>1, <2>2, <2>3
<1>1. ASSUME NEW i \in Ids, Fill(i)
      PROVE  IQuotes'
  <2>1. live' \subseteq live
    BY <1>1 DEF Fill
  <2>2. \A j \in live' : order'[j].outcome = order[j].outcome /\ order'[j].side = order[j].side
    <3>1. PICK n \in 1..order[i].left :
            /\ order' = [order EXCEPT ![i] =
                  IF n = order[i].left /\ i \notin Known
                  THEN NoOrder ELSE [order[i] EXCEPT !.left = @ - n]]
            /\ live' = IF n = order[i].left THEN live \ {i} ELSE live
      BY <1>1 DEF Fill
    <3>2. i \in live' => order'[i] = [order[i] EXCEPT !.left = @ - n]
      BY <3>1 DEF TypeOK
    <3>3. order[i] \in [outcome : Outcomes \cup {NoOutcome}, side : Sides, price : Int, left : Nat]
      BY DEF TypeOK
    <3>4. i \in live' => order'[i].outcome = order[i].outcome /\ order'[i].side = order[i].side
      BY <3>2, <3>3
    <3>5. \A j \in live' : j # i => order'[j] = order[j]
      BY <3>1, <2>1 DEF TypeOK
    <3>6. QED
      BY <3>4, <3>5
  <2>3. \A o \in Outcomes, s \in Sides : Orders(o, s)' \subseteq Orders(o, s)
    BY <2>1, <2>2 DEF Orders
  <2>4. UNCHANGED <<seen, at, local, past>>
    BY <1>1 DEF Fill
  <2>5. \A o \in Outcomes, s \in Sides :
           Waits(o)' = Waits(o) /\ Quotes(o, s)' = Quotes(o, s)
    BY <2>4 DEF Waits, Quotes, local
  <2>6. QED
    BY <1>b, <2>3, <2>4, <2>5 DEF IQuotes, local
<1>2. CASE RefreshPositions
  <2>1. (UNCHANGED past \/ Failure) /\ UNCHANGED venue /\ at' = "orders"
    BY <1>2 DEF RefreshPositions, FetchPositions
  <2>2. QED
    BY <1>b, <1>c, <2>1 DEF IQuotes, Waits, Quotes
<1>3. CASE RefreshOrders
  <2>1. /\ \A o \in Outcomes, s \in Sides : Orders(o, s)' \subseteq live
        /\ at' = "nav" /\ UNCHANGED venue
        /\ (seen' = live /\ UNCHANGED past) \/ Failure
    BY <1>3 DEF RefreshOrders, Orders, venue
  <2>2. \A o \in Outcomes, s \in Sides : Few(o, s)' \/ Orders(o, s)' \subseteq seen'
    BY <1>b, <1>c, <2>1
  <2>3. FewQuotes'
    BY <1>b, <1>c, <2>1
  <2>4. QED
    BY <2>1, <2>2, <2>3 DEF IQuotes, Quotes
<1>4. CASE RefreshNav
  <2>1. at = "nav" /\ at' = "next" /\ UNCHANGED <<venue, seen, past>>
    BY <1>4 DEF RefreshNav
  <2>2. QED
    BY <1>b, <1>c, <2>1 DEF IQuotes, Waits, Quotes
<1>5. CASE RefreshFails
  <2>1. at' = "cancelAll" /\ Failure /\ Forget({}) /\ live' = live
    BY <1>5 DEF RefreshFails, Clear
  <2>2. QED
    BY <1>b, <1>d, <2>1 DEF IQuotes, Waits, Quotes
<1>6. CASE BookFails
  <2>1. at' \in {"cancelAll", "aborted"} /\ Failure /\ Forget({}) /\ live' = live
    BY <1>6 DEF BookFails, Clear
  <2>2. QED
    BY <1>b, <1>d, <2>1 DEF IQuotes, Waits, Quotes
<1>7. CASE Keep
  <2>1. at' \in {"side", "next"} /\ UNCHANGED <<venue, seen, past>>
    BY <1>7 DEF Keep, NextSide
  <2>2. \A o \in Outcomes, s \in Sides :
           /\ Waits(o)' => Waits(o)
           /\ Quotes(o, s)' => Quotes(o, s) /\ mine' = mine
    BY <1>7 DEF Keep, NextSide, Blank, Waits, Quotes, Sides
  <2>3. QED
    BY <1>b, <1>c, <2>1, <2>2 DEF IQuotes
<1>8. CASE Requote
  <2>1. /\ at = "side" /\ at' = "cancel" /\ stale' = mine[side]
        /\ UNCHANGED <<venue, seen, on, side, mine, todo, past>>
    BY <1>8 DEF Requote, Stale
  <2>2. \A o \in Outcomes, s \in Sides :
           (Waits(o)' => Waits(o)) /\ (Quotes(o, s)' => Quotes(o, s))
    BY <2>1 DEF Waits, Quotes
  <2>3. Few(on, side) \/ Orders(on, side) \subseteq mine[side]
    BY <1>a, <2>1 DEF IQuotes, Quotes, IAt, TypeOK
  <2>4. \A o \in Outcomes, s \in Sides :
           o = on /\ s = side => Few(o, s)' \/ Orders(o, s)' \subseteq stale'
    BY <1>b, <1>c, <2>1, <2>3
  <2>5. QED
    BY <1>b, <1>c, <2>1, <2>2, <2>4 DEF IQuotes
<1>9. CASE Place
  <2>1. on \in Outcomes /\ side \in Sides /\ on \notin todo
    BY <1>9, <1>a DEF Place, IAt, TypeOK
  <2>2. /\ Cardinality(Orders(on, side)) \in Nat
        /\ Cardinality(Orders(on, side)) <= Base - 1 + Slips
    BY <1>9, <1>e, <2>1, OrdersFinite DEF Place, IQuotes, Few
  <2>3. PICK o1 \in Outcomes, s1 \in Sides :
          o1 = on /\ s1 = side /\ Accept(o1, s1, quote[side], OrderSize)
    BY <1>9, <2>1 DEF Place
  <2>4. at' \in {"side", "next"} /\ UNCHANGED <<seen, past>>
    BY <1>9 DEF Place, NextSide
  <2>5. Slips' = Slips
    BY <2>4 DEF Slips, past
  <2>6. /\ Cardinality(Orders(o1, s1)') <= Base + Slips'
        /\ \A o \in Outcomes, s \in Sides :
              o # o1 \/ s # s1 => Orders(o, s)' = Orders(o, s)
    BY <1>a, <2>2, <2>3, <2>5, OneAdded, BaseType
  <2>7. \A o \in Outcomes, s \in Sides :
          /\ Waits(o)' => Waits(o) /\ o # o1
          /\ Quotes(o, s)' => Quotes(o, s) /\ (o # o1 \/ s # s1) /\ mine' = mine
    BY <1>9, <2>1, <2>3 DEF Place, NextSide, Blank, Waits, Quotes, Sides
  <2>8. FewQuotes'
    BY <1>a, <2>5, <2>6 DEF FewQuotes, Base
  <2>9. \A o \in Outcomes, s \in Sides :
          /\ Waits(o)' => Few(o, s)' \/ Orders(o, s)' \subseteq seen'
          /\ Quotes(o, s)' => Few(o, s)' \/ Orders(o, s)' \subseteq mine'[s]
    BY <2>4, <2>5, <2>6, <2>7 DEF IQuotes, Few
  <2>10. QED
    BY <2>4, <2>8, <2>9 DEF IQuotes
<1>10. CASE PlaceNot
  <2>1. at' \in {"side", "next"} /\ UNCHANGED <<venue, seen, past>>
    BY <1>10 DEF PlaceNot, NextSide
  <2>2. \A o \in Outcomes, s \in Sides :
           /\ Waits(o)' => Waits(o)
           /\ Quotes(o, s)' => Quotes(o, s) /\ mine' = mine
    BY <1>10 DEF PlaceNot, NextSide, Blank, Waits, Quotes, Sides
  <2>3. QED
    BY <1>b, <1>c, <2>1, <2>2 DEF IQuotes
<1>11. CASE TickEnd
  <2>1. /\ at = "next" /\ at' \in {"positions", "cancelAll"} /\ UNCHANGED past
        /\ Forget({}) /\ live' = live
    BY <1>11 DEF TickEnd, Clear
  <2>2. QED
    BY <1>b, <1>d, <2>1 DEF IQuotes, Waits, Quotes
<1>12. ASSUME NEW o \in Quoted, Skip(o)
       PROVE  IQuotes'
  <2>1. Decide(o, {}) /\ at' = at
    BY <1>12 DEF Skip
  <2>2. /\ \A a \in Outcomes, s \in Sides : Orders(a, s)' = Orders(a, s)
        /\ at = "next" /\ todo' = todo \ {o} /\ UNCHANGED past
        /\ todo' # {} => seen' = seen
    BY <1>f, <2>1
  <2>3. \A a \in Outcomes, s \in Sides :
           (Waits(a)' => Waits(a) /\ seen' = seen) /\ ~ Quotes(a, s)'
    BY <2>1, <2>2 DEF Waits, Quotes
  <2>4. QED
    BY <1>b, <2>1, <2>2, <2>3 DEF IQuotes
<1>13. ASSUME NEW o \in Quoted, Quote(o)
       PROVE  IQuotes'
  <2>1. PICK known : Decide(o, known)
    BY <1>13 DEF Quote
  <2>2. at' = "side" /\ on' = o /\ mine' = [s \in Sides |-> OfSide(o, s)] /\ o \in todo
    BY <1>13, <2>1 DEF Quote, Decide
  <2>3. /\ \A a \in Outcomes, s \in Sides : Orders(a, s)' = Orders(a, s)
        /\ at = "next" /\ todo' = todo \ {o} /\ UNCHANGED past
        /\ todo' # {} => seen' = seen
    BY <1>f, <2>1
  <2>4. \A a \in Outcomes, s \in Sides :
           (Waits(a)' => Waits(a) /\ seen' = seen) /\ (Quotes(a, s)' => a = o)
    BY <2>2, <2>3 DEF Waits, Quotes
  <2>5. \A s \in Sides : Few(o, s) \/ Orders(o, s) \subseteq mine'[s]
    <3>1. \A s \in Sides : Few(o, s) \/ Orders(o, s) \subseteq seen
      BY <1>a, <2>2, <2>3 DEF IQuotes, Waits
    <3>2. \A s \in Sides : Orders(o, s) \subseteq seen => Orders(o, s) \subseteq mine'[s]
      BY <2>2 DEF OfSide, Orders
    <3>3. QED
      BY <3>1, <3>2
  <2>6. QED
    BY <1>b, <2>2, <2>3, <2>4, <2>5 DEF IQuotes
<1>14. ASSUME NEW i \in Ids, Cancel(i)
       PROVE  IQuotes'
  <2>1. /\ at \in {"cancel", "cancelRest"} /\ stale' = stale \ {i}
        /\ UNCHANGED <<order, seen, at, on, side, mine, todo>>
    BY <1>14 DEF Cancel
  <2>2. \/ live' = live \ {i} /\ UNCHANGED past
        \/ Failure /\ UNCHANGED live
    BY <1>14 DEF Cancel
  <2>3. \A o \in Outcomes, s \in Sides : Orders(o, s)' \subseteq Orders(o, s)
    BY <2>1, <2>2 DEF Orders
  <2>4. \A o \in Outcomes, s \in Sides :
           Waits(o)' = Waits(o) /\ Quotes(o, s)' = Quotes(o, s)
    BY <2>1 DEF Waits, Quotes
  <2>5. ASSUME NEW o \in Outcomes, NEW s \in Sides, Few(o, s) \/ Orders(o, s) \subseteq stale
        PROVE  Few(o, s)' \/ Orders(o, s)' \subseteq stale'
    <3>1. CASE live' = live \ {i} /\ UNCHANGED past
      <4>1. i \notin Orders(o, s)'
        BY <3>1 DEF Orders
      <4>2. QED
        BY <1>b, <2>1, <2>3, <2>5, <3>1, <4>1
    <3>2. CASE Failure
      BY <1>b, <2>3, <3>2
    <3>3. QED
      BY <2>2, <3>1, <3>2
  <2>6. QED
    BY <1>b, <2>1, <2>2, <2>3, <2>4, <2>5 DEF IQuotes
<1>15. CASE CancelAll
  <2>1. /\ at' = "cancelRest" /\ UNCHANGED venue
        /\ \/ stale' = live /\ UNCHANGED past
           \/ Failure
    BY <1>15 DEF CancelAll
  <2>2. \A o \in Outcomes, s \in Sides : Orders(o, s) \subseteq live
    BY DEF Orders
  <2>3. \A o \in Outcomes, s \in Sides : Few(o, s)' \/ Orders(o, s)' \subseteq stale'
    BY <1>b, <1>c, <2>1, <2>2
  <2>4. QED
    BY <1>b, <1>c, <2>1, <2>3 DEF IQuotes, Waits, Quotes
<1>16. CASE CancelAllFails
  <2>1. at' = "aborted" /\ UNCHANGED venue /\ Failure
    BY <1>16 DEF CancelAllFails
  <2>2. QED
    BY <1>b, <1>c, <2>1 DEF IQuotes, Waits, Quotes
<1>17. CASE LiquidateBegin
  <2>1. /\ at = "cancelRest" /\ at' = "liquidate" /\ stale = {}
        /\ Forget({}) /\ live' = live
        /\ UNCHANGED past \/ Failure
    BY <1>17 DEF LiquidateBegin, Cancelled, FetchPositions
  <2>2. \A o \in Outcomes, s \in Sides : Few(o, s)
    BY <1>e, <2>1 DEF IQuotes
  <2>3. QED
    BY <1>b, <1>d, <2>1, <2>2 DEF IQuotes, Waits, Quotes
<1>18. CASE Done
  <2>1. at' = "done" /\ UNCHANGED <<venue, past>>
    BY <1>18 DEF Done
  <2>2. QED
    BY <1>b, <1>c, <2>1 DEF IQuotes, Waits, Quotes
<1>19. ASSUME NEW o \in Quoted, Liquidate(o)
       PROVE  IQuotes'
  <2>1. /\ at = "liquidate" /\ at' = "liquidate" /\ o \in todo /\ todo' = todo \ {o}
        /\ UNCHANGED past /\ o \in Outcomes
    BY <1>19, <1>a DEF Liquidate
  <2>2. CASE UNCHANGED <<live, order>>
    <3>1. \A a \in Outcomes, s \in Sides : Orders(a, s)' = Orders(a, s)
      BY <2>2 DEF Orders
    <3>2. QED
      BY <1>b, <2>1, <3>1 DEF IQuotes, Waits, Quotes
  <2>3. CASE \E best \in Books : Accept(o, "sell", best.buy, pos[o])
    <3>1. Few(o, "sell") /\ Cardinality(Orders(o, "sell")) \in Nat
      BY <2>1, OrdersFinite DEF IQuotes, Sides
    <3>2. Slips' = Slips
      BY <2>1 DEF Slips, past
    <3>3. /\ Cardinality(Orders(o, "sell")') <= Base + Slips'
          /\ \A a \in Outcomes, s \in Sides :
                a # o \/ s # "sell" => Orders(a, s)' = Orders(a, s)
      BY <1>a, <2>1, <2>3, <3>1, <3>2, OneAdded, BaseType DEF Few, Sides
    <3>4. FewQuotes'
      BY <1>a, <3>2, <3>3 DEF FewQuotes, Base
    <3>5. QED
      BY <2>1, <3>2, <3>3, <3>4 DEF IQuotes, Waits, Quotes, Few
  <2>4. QED
    BY <1>19, <2>2, <2>3 DEF Liquidate
<1>20. CASE StoreOrders
  <2>1. /\ UNCHANGED <<venue, at, on, side, mine, stale, todo>>
        /\ UNCHANGED <<seen, past>> \/ Overwrites
    BY <1>20 DEF StoreOrders, local
  <2>2. \A o \in Outcomes, s \in Sides :
           Waits(o)' = Waits(o) /\ Quotes(o, s)' = Quotes(o, s)
    BY <2>1 DEF Waits, Quotes
  <2>3. CASE Overwrites
    BY <1>b, <1>c, <2>1, <2>3 DEF IQuotes
  <2>4. CASE UNCHANGED <<seen, past>>
    BY <1>b, <1>c, <2>1, <2>2, <2>4 DEF IQuotes
  <2>5. QED
    BY <2>1, <2>3, <2>4
<1>21. CASE QueryPositions \/ StorePositions \/ QueryOrders \/ UNCHANGED vars
  <2>1. /\ UNCHANGED <<venue, seen, at, on, side, mine, stale, todo>>
        /\ UNCHANGED past \/ Overwrites
    BY <1>21 DEF QueryPositions, StorePositions, QueryOrders, vars, local
  <2>2. \A o \in Outcomes, s \in Sides :
           Waits(o)' = Waits(o) /\ Quotes(o, s)' = Quotes(o, s)
    BY <2>1 DEF Waits, Quotes
  <2>3. QED
    BY <1>b, <1>c, <2>1, <2>2 DEF IQuotes
<1>22. QED
  BY <1>1, <1>2, <1>3, <1>4, <1>5, <1>6, <1>7, <1>8, <1>9, <1>10, <1>11, <1>12, <1>13,
     <1>14, <1>15, <1>16, <1>17, <1>18, <1>19, <1>20, <1>21 DEF Next, Tick, Cleanup, Query

\* For any limits, books, orders found at the start and number of slips: however
\* fills, failing calls and the queries of another thread fall between the steps of
\* ticks and of cleanup, at most one order is open per outcome and side, or those
\* found, and one more for each call that failed and each snapshot written over.
THEOREM OneQuotePerSide == Spec => []FewQuotes
<1>1. Init => TypeOK /\ IAt /\ IQuotes
  BY InitTypeOK, InitQuotes
<1>2. TypeOK /\ IAt /\ IQuotes /\ [Next]_vars => TypeOK' /\ IAt' /\ IQuotes'
  BY StepTypeOK, StepQuotes
<1>3. IQuotes => FewQuotes
  BY DEF IQuotes
<1>4. QED
  BY <1>1, <1>2, <1>3, PTL DEF Spec
-----------------------------------------------------------------------------
(* CleanupCovered.  Without a failed call every open order is among those to  *)
(* be cancelled, none is left when liquidation begins, and each outcome is     *)
(* sold once, for what was held of it then.                                    *)

Covers(i) ==
    LET o == order[i].outcome IN
    /\ order[i].side = "sell" /\ order[i].left <= held[o]
    /\ at = "liquidate" => o \notin todo
    /\ \A j \in live : order[j].outcome = o => j = i

ICovers ==
    /\ at = "cancelRest" => live \subseteq stale
    /\ at \in {"liquidate", "done"} => \A i \in live : Covers(i)
    /\ at = "liquidate" => \A o \in todo : pos[o] <= held[o]

ICovered == failures = 0 => ICovers

LEMMA FillCovers ==
    ASSUME TypeOK, IAt, ICovers, NEW i \in Ids, Fill(i)
    PROVE  ICovers'
<1> DEFINE o == order[i].outcome
<1>1. PICK n \in 1..order[i].left :
        /\ order[i].side = "sell" => n <= held[o]
        /\ held' = [held EXCEPT ![o] = IF order[i].side = "buy" THEN @ + n ELSE @ - n]
        /\ order' = [order EXCEPT ![i] =
              IF n = order[i].left /\ i \notin Known
              THEN NoOrder ELSE [order[i] EXCEPT !.left = @ - n]]
        /\ live' = IF n = order[i].left THEN live \ {i} ELSE live
  BY DEF Fill
<1>2. /\ i \in live /\ UNCHANGED <<pos, at, todo, stale, seen>>
      /\ o \in Outcomes /\ order[i].left \in Nat /\ n \in Nat /\ n <= order[i].left
      /\ order[i] \in [outcome : Outcomes \cup {NoOutcome}, side : Sides, price : Int, left : Nat]
  BY <1>1 DEF Fill, TypeOK, local
<1>3. live' \subseteq live /\ live \subseteq Ids
  BY <1>1 DEF TypeOK
<1>4. CASE at = "cancelRest"
  BY <1>2, <1>3, <1>4 DEF ICovers
<1>5. CASE at \in {"liquidate", "done"}
  <2>1. /\ order[i].side = "sell" /\ order[i].left <= held[o]
        /\ at = "liquidate" => o \notin todo
        /\ \A j \in live : order[j].outcome = o => j = i
    BY <1>2, <1>5 DEF ICovers, Covers
  <2>2. /\ held' = [held EXCEPT ![o] = held[o] - n] /\ held'[o] = held[o] - n /\ held[o] \in Nat
        /\ \A a \in Outcomes \ {o} : held'[a] = held[a]
    BY <1>1, <1>2, <2>1 DEF TypeOK
  <2>3. /\ \A j \in Ids \ {i} : order'[j] = order[j]
        /\ i \in live' => order'[i].outcome = o /\ order'[i].side = "sell"
                          /\ order'[i].left = order[i].left - n
    <3>1. i \in live' => n # order[i].left
      BY <1>1, <1>2
    <3>2. order \in [Ids -> [outcome : Outcomes \cup {NoOutcome}, side : Sides,
                             price : Int, left : Nat]]
      BY DEF TypeOK
    <3>3. QED
      BY <1>1, <1>2, <2>1, <3>1, <3>2
  <2>4. ASSUME NEW j \in live'
        PROVE  Covers(j)'
    <3>1. j \in live /\ j \in Ids /\ Covers(j) /\ order[j].outcome \in Outcomes
      BY <1>3, <1>5 DEF ICovers, TypeOK
    <3>2. \A k \in live' : order'[k].outcome = order[k].outcome
      BY <1>3, <2>3
    <3>3. CASE j = i
      <4>1. order'[j].left <= held'[o]
        BY <1>2, <2>1, <2>2, <2>3, <3>3
      <4>2. QED
        BY <1>2, <1>3, <2>1, <2>3, <3>2, <3>3, <4>1 DEF Covers
    <3>4. CASE j # i
      <4>1. order[j].outcome # o /\ order'[j] = order[j]
        BY <2>1, <2>3, <3>1, <3>4
      <4>2. held'[order[j].outcome] = held[order[j].outcome]
        BY <2>2, <3>1, <4>1
      <4>3. QED
        BY <1>2, <1>3, <3>1, <3>2, <4>1, <4>2 DEF Covers
    <3>5. QED
      BY <3>3, <3>4
  <2>5. at = "liquidate" => \A a \in todo : pos'[a] <= held'[a]
    <3>1. at = "liquidate" => \A a \in todo : a \in Outcomes /\ a # o
      BY <2>1, MarketAssumption DEF TypeOK
    <3>2. QED
      BY <1>2, <2>2, <3>1 DEF ICovers
  <2>6. QED
    BY <1>2, <1>5, <2>4, <2>5 DEF ICovers
<1>6. QED
  BY <1>2, <1>4, <1>5 DEF ICovers

\* A step slips once at most.
LEMMA PastStep == [Next]_vars => UNCHANGED past \/ Failure \/ Overwrites
<1> SUFFICES ASSUME [Next]_vars
             PROVE  UNCHANGED past \/ Failure \/ Overwrites
  OBVIOUS
<1>1. CASE Tick
  BY <1>1 DEF Tick, RefreshPositions, RefreshOrders, RefreshNav, RefreshFails,
              BookFails, Keep, Requote, Place, PlaceNot, TickEnd, Skip, Quote, Decide,
              Cancel, FetchPositions
<1>2. CASE Cleanup
  BY <1>2 DEF Cleanup, CancelAll, CancelAllFails, LiquidateBegin, Done, Liquidate,
              FetchPositions
<1>3. CASE (\E i \in Ids : Fill(i)) \/ UNCHANGED vars
  BY <1>3 DEF Fill, vars
<1>4. CASE Query
  BY <1>4 DEF Query, QueryPositions, StorePositions, QueryOrders, StoreOrders
<1>5. QED
  BY <1>1, <1>2, <1>3, <1>4 DEF Next

\* No call that has not failed has failed before.
LEMMA FailuresGrow ==
    TypeOK /\ [Next]_vars => failures' = failures \/ (failures' = failures + 1 /\ failures' # 0)
BY PastStep, SlipsType DEF Failure, Overwrites, past

LEMMA StepCovered == TypeOK /\ IAt /\ ICovered /\ [Next]_vars => ICovered'
<1> SUFFICES ASSUME TypeOK, IAt, ICovered, [Next]_vars, failures' = 0
             PROVE  ICovers'
  BY DEF ICovered
<1>1. failures \in Nat /\ failures = 0 /\ ICovers /\ ~Failure
  BY MarketAssumption, FailuresGrow DEF TypeOK, ICovered, Failure
<1>2. ASSUME at' \notin {"cancelRest", "liquidate", "done"}
      PROVE  ICovers'
  BY <1>2 DEF ICovers
<1>3. CASE \E i \in Ids : Fill(i)
  BY <1>1, <1>3, FillCovers
<1>4. ASSUME NEW i \in Ids, Cancel(i)
      PROVE  ICovers'
  <2>1. /\ at' = at /\ at \in {"cancel", "cancelRest"}
        /\ live' = live \ {i} /\ stale' = stale \ {i}
    BY <1>1, <1>4 DEF Cancel
  <2>2. QED
    BY <1>1, <2>1 DEF ICovers
<1>5. ASSUME NEW o \in Quoted, Skip(o) \/ Quote(o)
      PROVE  ICovers'
  BY <1>5 DEF Skip, Quote, Decide, ICovers
<1>6. CASE \/ RefreshPositions \/ RefreshOrders \/ RefreshNav \/ RefreshFails
           \/ BookFails \/ Keep \/ Requote \/ Place \/ PlaceNot \/ TickEnd
  BY <1>1, <1>2, <1>6 DEF RefreshPositions, RefreshOrders, RefreshNav, RefreshFails,
                    BookFails, Keep, Requote, Place, PlaceNot, TickEnd, NextSide
<1>7. CASE CancelAll \/ CancelAllFails
  BY <1>1, <1>7 DEF CancelAll, CancelAllFails, ICovers, venue
<1>8. CASE LiquidateBegin
  <2>1. /\ at = "cancelRest" /\ at' = "liquidate" /\ stale = {} /\ FetchPositions
        /\ todo' = Quoted \cap DOMAIN pos' /\ UNCHANGED <<held, live>>
    BY <1>8 DEF LiquidateBegin, Cancelled
  <2>2. live' = {}
    BY <1>1, <2>1 DEF ICovers
  <2>3. pos' = Restrict(held, Listed)
    BY <1>1, <2>1 DEF FetchPositions
  <2>4. \A o \in todo' : pos'[o] = held'[o]
    BY <2>1, <2>3 DEF Restrict
  <2>5. \A o \in todo' : pos'[o] <= held'[o]
    <3>1. DOMAIN pos' \subseteq Outcomes
      BY <2>1, FetchType
    <3>2. QED
      BY <2>1, <2>4, <3>1 DEF TypeOK
  <2>6. QED
    BY <2>1, <2>2, <2>5 DEF ICovers
<1>9. ASSUME NEW o \in Quoted, Liquidate(o)
      PROVE  ICovers'
  <2>1. /\ at = "liquidate" /\ at' = at /\ o \in todo /\ todo' = todo \ {o}
        /\ UNCHANGED <<held, pos>> /\ o \in Outcomes
    BY <1>9, MarketAssumption DEF Liquidate
  <2>2. \A a \in todo' : pos'[a] <= held'[a]
    BY <1>1, <2>1 DEF ICovers
  <2>3. \A j \in live : Covers(j) /\ order[j].outcome # o
    BY <1>1, <2>1 DEF ICovers, Covers
  <2>4. CASE UNCHANGED <<live, order>>
    <3>1. \A j \in live' : Covers(j)'
      BY <2>1, <2>3, <2>4 DEF Covers
    <3>2. QED
      BY <2>1, <2>2, <3>1 DEF ICovers
  <2>5. CASE \E best \in Books : Accept(o, "sell", best.buy, pos[o])
    <3>1. PICK best \in Books, i \in Ids \ (live \cup Known) :
            /\ live' = live \cup {i}
            /\ order' = [order EXCEPT ![i] =
                 [outcome |-> o, side |-> "sell", price |-> best.buy, left |-> pos[o]]]
      BY <2>5 DEF Accept
    <3>2. /\ \A j \in live : order'[j] = order[j] /\ j # i
          /\ order'[i] = [outcome |-> o, side |-> "sell", price |-> best.buy, left |-> pos[o]]
      BY <3>1 DEF TypeOK
    <3>3. /\ order'[i].outcome = o /\ order'[i].side = "sell" /\ order'[i].left = pos[o]
      BY <3>2
    <3>4. pos[o] <= held[o]
      BY <1>1, <2>1 DEF ICovers
    <3>5. Covers(i)'
      BY <2>1, <2>3, <3>1, <3>2, <3>3, <3>4 DEF Covers
    <3>6. \A j \in live : Covers(j)'
      BY <2>1, <2>3, <3>1, <3>2, <3>3 DEF Covers
    <3>7. QED
      BY <2>1, <2>2, <3>1, <3>5, <3>6 DEF ICovers
  <2>6. QED
    BY <1>9, <2>4, <2>5 DEF Liquidate
<1>10. CASE Done
  <2>1. at = "liquidate" /\ at' = "done" /\ UNCHANGED <<held, live, order, todo>>
    BY <1>10 DEF Done, venue, local
  <2>2. \A j \in live' : Covers(j)'
    BY <1>1, <2>1 DEF ICovers, Covers
  <2>3. QED
    BY <2>1, <2>2 DEF ICovers
<1>11. CASE Query \/ UNCHANGED vars
  <2>1. /\ UNCHANGED <<held, live, order, at, stale, todo>>
        /\ at = "liquidate" => pos' = pos
    BY <1>11 DEF Query, QueryPositions, StorePositions, QueryOrders, StoreOrders, ReadsPositions,
                 ReadsOrders, vars, venue, local
  <2>2. QED
    BY <1>1, <2>1 DEF ICovers, Covers
<1>12. QED
  BY <1>3, <1>4, <1>5, <1>6, <1>7, <1>8, <1>9, <1>10, <1>11 DEF Next, Tick, Cleanup

\* A cleanup in which no call failed leaves open only sells of what is held, for
\* any market and fills at any moment.
THEOREM CleanupLeavesCovered == Spec => []CleanupCovered
<1>1. Init => TypeOK /\ IAt /\ ICovered
  <2>1. Init => ICovered
    BY DEF Init, ICovered, ICovers
  <2>2. QED
    BY <2>1, InitTypeOK
<1>2. TypeOK /\ IAt /\ ICovered /\ [Next]_vars => TypeOK' /\ IAt' /\ ICovered'
  BY StepTypeOK, StepCovered
<1>3. ICovered => CleanupCovered
  BY DEF ICovered, ICovers, Covers, CleanupCovered
<1>4. QED
  BY <1>1, <1>2, <1>3, PTL DEF Spec
-----------------------------------------------------------------------------
(* Sums.  What is open of an outcome is a sum over a set of orders, which the *)
(* library computes by recursion over the set.  A smallest counterexample     *)
(* stands for induction: what follows of a sum is shown of a set from the     *)
(* same of that set without an element.                                       *)

\* A set of naturals has a least element.
LEMMA LeastNat ==
    ASSUME NEW T \in SUBSET Nat, T # {}
    PROVE  \E x \in T : \A y \in T : x <= y
<1> DEFINE R == OpToRel(<, Nat)
<1>1. IsWellFoundedOn(R, Nat)
  BY NatLessThanWellFounded
<1>2. \A x, y \in Nat : <<y, x>> \in R <=> y < x
  BY DEF OpToRel
<1>3. \E x \in T : \A y \in T : ~ (<<y, x>> \in R)
  <2> HIDE DEF R
  <2> QED
    BY <1>1, WFMin
<1> HIDE DEF R
<1>4. PICK x \in T : \A y \in T : ~ (<<y, x>> \in R)
  BY <1>3
<1>5. ASSUME NEW y \in T
      PROVE  x <= y
  <2>1. x \in Nat /\ y \in Nat /\ ~(y < x)
    BY <1>2, <1>4
  <2>2. QED
    BY <2>1
<1>6. QED
  BY <1>5

\* Of some finite sets one is the smallest.
LEMMA SmallestSet ==
    ASSUME NEW C, C # {}, \A s \in C : IsFiniteSet(s)
    PROVE  \E s \in C : \A t \in C : Cardinality(s) <= Cardinality(t)
<1> DEFINE T == {Cardinality(s) : s \in C}
<1>1. T \in SUBSET Nat /\ T # {}
  BY FS_CardinalityType
<1>2. PICK n \in T : \A y \in T : n <= y
  <2> HIDE DEF T
  <2> QED
    BY <1>1, LeastNat
<1>3. PICK s \in C : n = Cardinality(s)
  BY <1>2
<1>4. QED
  BY <1>2, <1>3

\* What is left of the orders S, and the function the library sums it with: the
\* sums of all subsets, each from that of the subset without a chosen element.
Left(m, S) == MapThenSumSet(LAMBDA i : m[i].left, S)

Chosen(s) == CHOOSE x \in s : TRUE
LeftBody(m, g, s) == IF s = {} THEN 0 ELSE m[Chosen(s)].left + g[s \ {Chosen(s)}]
Sums(m, g, S) == g = [s \in SUBSET S |-> LeftBody(m, g, s)]

LEMMA LeftIs ==
    ASSUME NEW m, NEW S
    PROVE Left(m, S) = (CHOOSE g : Sums(m, g, S))[S]
BY DEF Left, MapThenSumSet, MapThenFoldSet, Sums, LeftBody, Chosen

LEMMA ChosenIn ==
    ASSUME NEW s, s # {}
    PROVE  Chosen(s) \in s
BY DEF Chosen

LEMMA OneLess ==
    ASSUME NEW s, IsFiniteSet(s), NEW x \in s
    PROVE  /\ IsFiniteSet(s \ {x}) /\ Cardinality(s) \in Nat /\ Cardinality(s \ {x}) \in Nat
           /\ Cardinality(s \ {x}) = Cardinality(s) - 1
BY FS_RemoveElement, FS_CardinalityType

\* Two such functions agree where both are defined, ...
LEMMA SumsUnique ==
    ASSUME NEW m, NEW S, NEW U \in SUBSET S, IsFiniteSet(S), NEW g, NEW h, Sums(m, g, S), Sums(m, h, U)
    PROVE  \A s \in SUBSET U : g[s] = h[s]
<1> DEFINE C == {s \in SUBSET U : g[s] # h[s]}
<1>1. SUFFICES ASSUME C # {}
               PROVE  FALSE
  OBVIOUS
<1>2. \A s \in C : IsFiniteSet(s)
  BY FS_Subset
<1>3. PICK s \in C : \A t \in C : Cardinality(s) <= Cardinality(t)
  <2> HIDE DEF C
  <2> QED
    BY <1>1, <1>2, SmallestSet
<1>4. g[s] = LeftBody(m, g, s) /\ h[s] = LeftBody(m, h, s)
  BY DEF Sums
<1>5. s # {}
  BY <1>3, <1>4 DEF LeftBody
<1>6. Chosen(s) \in s
  BY <1>5, ChosenIn
<1>7. s \ {Chosen(s)} \in SUBSET U /\ s \ {Chosen(s)} \notin C
  <2>1. Cardinality(s \ {Chosen(s)}) < Cardinality(s)
    BY <1>2, <1>6, OneLess
  <2>2. Cardinality(s \ {Chosen(s)}) \in Nat /\ Cardinality(s) \in Nat
    BY <1>2, <1>6, OneLess
  <2>3. s \ {Chosen(s)} \notin C
    BY <1>3, <2>1, <2>2
  <2>4. QED
    BY <1>3, <2>3
<1>8. QED
  BY <1>3, <1>4, <1>7 DEF LeftBody

\* ... and there is one, built up by the size of the subsets.
LEMMA SumsExist ==
    ASSUME NEW m, NEW S, IsFiniteSet(S)
    PROVE  \E g : Sums(m, g, S)
<1> DEFINE Small(n) == {s \in SUBSET S : Cardinality(s) <= n}
           Upto(n, g) == g = [s \in Small(n) |-> LeftBody(m, g, s)]
           T == {n \in Nat : ~ \E g : Upto(n, g)}
<1>a. \A s \in SUBSET S : IsFiniteSet(s) /\ Cardinality(s) \in Nat /\ Cardinality(s) <= Cardinality(S)
  BY FS_Subset, FS_CardinalityType
<1>1. T = {}
  <2>1. SUFFICES ASSUME T # {}
                 PROVE  FALSE
    OBVIOUS
  <2>2. PICK n \in T : \A k \in T : n <= k
    <3>1. T \in SUBSET Nat
      OBVIOUS
    <3> HIDE DEF T
    <3>2. QED
      BY <2>1, <3>1, LeastNat
  <2>3. CASE n = 0
    <3> DEFINE g == [s \in Small(0) |-> 0]
    <3>1. \A s \in Small(0) : s = {}
      BY <1>a, FS_EmptySet
    <3>2. Upto(0, g)
      BY <3>1 DEF LeftBody
    <3>3. QED
      BY <2>2, <2>3, <3>2
  <2>4. CASE n # 0
    <3>1. n - 1 \in Nat /\ n - 1 \notin T
      <4>1. n \in Nat
        BY <2>2
      <4> HIDE DEF T
      <4>2. QED
        BY <2>2, <2>4, <4>1
    <3>2. PICK g : Upto(n - 1, g)
      BY <3>1
    <3> DEFINE h == [s \in Small(n) |-> LeftBody(m, g, s)]
    <3>3. \A s \in Small(n - 1) : s \in Small(n) /\ h[s] = g[s]
      BY <1>a, <3>1, <3>2
    <3>4. ASSUME NEW s \in Small(n)
          PROVE  LeftBody(m, g, s) = LeftBody(m, h, s)
      <4>1. CASE s = {}
        BY <4>1 DEF LeftBody
      <4>2. CASE s # {}
        <5>1. Chosen(s) \in s
          BY <4>2, ChosenIn
        <5>2. Cardinality(s \ {Chosen(s)}) = Cardinality(s) - 1 /\ Cardinality(s) \in Nat
          BY <1>a, <5>1, OneLess
        <5>3. s \ {Chosen(s)} \in Small(n - 1)
          BY <3>1, <5>2
        <5>4. QED
          BY <3>3, <5>3 DEF LeftBody
      <4>3. QED
        BY <4>1, <4>2
    <3>5. Upto(n, h)
      BY <3>4
    <3>6. QED
      BY <2>2, <3>5
  <2>5. QED
    BY <2>3, <2>4
<1>2. Cardinality(S) \in Nat /\ Small(Cardinality(S)) = SUBSET S
  BY <1>a
<1>3. PICK g : Upto(Cardinality(S), g)
  BY <1>1, <1>2
<1>4. Sums(m, g, S)
  BY <1>2, <1>3 DEF Sums
<1>5. QED
  BY <1>4

\* So the sum is computed as the library means it to be.
LEMMA LeftStep ==
    ASSUME NEW m, NEW S, IsFiniteSet(S)
    PROVE  /\ Left(m, {}) = 0
           /\ S # {} => Left(m, S) = m[Chosen(S)].left + Left(m, S \ {Chosen(S)})
<1> DEFINE f(U) == CHOOSE g : Sums(m, g, U)
<1>1. ASSUME NEW U, IsFiniteSet(U)
      PROVE  Sums(m, f(U), U) /\ Left(m, U) = f(U)[U] /\ f(U)[U] = LeftBody(m, f(U), U)
  <2>1. Sums(m, f(U), U)
    BY <1>1, SumsExist
  <2>2. f(U)[U] = LeftBody(m, f(U), U)
    <3> HIDE DEF f
    <3> QED
      BY <2>1 DEF Sums
  <2>3. QED
    BY <2>1, <2>2, LeftIs
<1> HIDE DEF f
<1>2. Left(m, {}) = 0
  BY <1>1, FS_EmptySet DEF LeftBody
<1>3. ASSUME S # {}
      PROVE  Left(m, S) = m[Chosen(S)].left + Left(m, S \ {Chosen(S)})
  <2> DEFINE U == S \ {Chosen(S)}
  <2>1. U \in SUBSET S /\ IsFiniteSet(U)
    BY <1>3, ChosenIn, OneLess
  <2>2. f(S)[U] = f(U)[U]
    <3>1. Sums(m, f(S), S) /\ Sums(m, f(U), U)
      BY <1>1, <2>1
    <3> HIDE DEF U
    <3>2. QED
      BY <2>1, <3>1, SumsUnique
  <2>3. Left(m, S) = m[Chosen(S)].left + f(S)[U]
    BY <1>1, <1>3 DEF LeftBody
  <2>4. Left(m, U) = f(U)[U]
    BY <1>1, <2>1
  <2>5. QED
    BY <2>2, <2>3, <2>4
<1>4. QED
  BY <1>2, <1>3

\* A minimal counterexample to what holds of the sums of all subsets.
LEMMA SmallestSubset ==
    ASSUME NEW S, IsFiniteSet(S), NEW C \in SUBSET SUBSET S, C # {}, {} \notin C
    PROVE  \E s \in C : /\ s # {} /\ IsFiniteSet(s) /\ Chosen(s) \in s
                        /\ \A x \in s : s \ {x} \in SUBSET S /\ s \ {x} \notin C
<1>1. \A s \in C : IsFiniteSet(s)
  BY FS_Subset
<1>2. PICK s \in C : \A t \in C : Cardinality(s) <= Cardinality(t)
  BY <1>1, SmallestSet
<1>3. s # {} /\ IsFiniteSet(s) /\ Chosen(s) \in s
  BY <1>1, <1>2, ChosenIn
<1>4. ASSUME NEW x \in s
      PROVE  s \ {x} \in SUBSET S /\ s \ {x} \notin C
  <2>1. /\ Cardinality(s) \in Nat /\ Cardinality(s \ {x}) \in Nat
        /\ Cardinality(s \ {x}) = Cardinality(s) - 1
    BY <1>3, OneLess
  <2>2. ~(Cardinality(s) <= Cardinality(s \ {x}))
    BY <2>1
  <2>3. QED
    BY <1>2, <2>2
<1>5. QED
  BY <1>2, <1>3, <1>4

LEMMA LeftType ==
    ASSUME NEW m, NEW S, IsFiniteSet(S), \A i \in S : m[i].left \in Nat
    PROVE  Left(m, S) \in Nat
<1> DEFINE C == {s \in SUBSET S : Left(m, s) \notin Nat}
<1>1. SUFFICES ASSUME C # {}
               PROVE  FALSE
  OBVIOUS
<1>2. Left(m, {}) = 0
  BY LeftStep
<1>3. PICK s \in C : /\ s # {} /\ IsFiniteSet(s) /\ Chosen(s) \in s
                     /\ \A x \in s : s \ {x} \in SUBSET S /\ s \ {x} \notin C
  <2>1. C \in SUBSET SUBSET S /\ {} \notin C
    BY <1>2
  <2> HIDE DEF C
  <2>2. QED
    BY <1>1, <2>1, SmallestSubset
<1>4. Left(m, s) = m[Chosen(s)].left + Left(m, s \ {Chosen(s)})
  BY <1>3, LeftStep
<1>5. Left(m, s \ {Chosen(s)}) \in Nat /\ m[Chosen(s)].left \in Nat
  BY <1>3
<1>6. QED
  BY <1>3, <1>4, <1>5

LEMMA LeftSame ==
    ASSUME NEW m, NEW n, NEW S, IsFiniteSet(S), \A i \in S : m[i].left = n[i].left
    PROVE  Left(m, S) = Left(n, S)
<1> DEFINE C == {s \in SUBSET S : Left(m, s) # Left(n, s)}
<1>1. SUFFICES ASSUME C # {}
               PROVE  FALSE
  OBVIOUS
<1>2. Left(m, {}) = Left(n, {})
  BY LeftStep
<1>3. PICK s \in C : /\ s # {} /\ IsFiniteSet(s) /\ Chosen(s) \in s
                     /\ \A x \in s : s \ {x} \in SUBSET S /\ s \ {x} \notin C
  <2>1. C \in SUBSET SUBSET S /\ {} \notin C
    BY <1>2
  <2> HIDE DEF C
  <2>2. QED
    BY <1>1, <2>1, SmallestSubset
<1>4. /\ Left(m, s) = m[Chosen(s)].left + Left(m, s \ {Chosen(s)})
      /\ Left(n, s) = n[Chosen(s)].left + Left(n, s \ {Chosen(s)})
  BY <1>3, LeftStep
<1>5. Left(m, s \ {Chosen(s)}) = Left(n, s \ {Chosen(s)}) /\ m[Chosen(s)].left = n[Chosen(s)].left
  BY <1>3
<1>6. QED
  BY <1>3, <1>4, <1>5

\* Whichever element is taken out first.
LEMMA LeftRemove ==
    ASSUME NEW m, NEW S, IsFiniteSet(S), \A i \in S : m[i].left \in Nat, NEW x \in S
    PROVE  Left(m, S) = m[x].left + Left(m, S \ {x})
<1> DEFINE Splits(s, y) == Left(m, s) = m[y].left + Left(m, s \ {y})
           C == {s \in SUBSET S : \E y \in s : ~Splits(s, y)}
<1>1. SUFFICES ASSUME C # {}
               PROVE  FALSE
  OBVIOUS
<1>2. PICK s \in C : /\ s # {} /\ IsFiniteSet(s) /\ Chosen(s) \in s
                     /\ \A y \in s : s \ {y} \in SUBSET S /\ s \ {y} \notin C
  <2>1. C \in SUBSET SUBSET S /\ {} \notin C
    OBVIOUS
  <2> HIDE DEF C
  <2>2. QED
    BY <1>1, <2>1, SmallestSubset
<1>3. PICK y \in s : ~Splits(s, y)
  BY <1>2
<1> DEFINE c == Chosen(s)
<1>4. Splits(s, c)
  BY <1>2, LeftStep
<1>5. c # y /\ c \in s
  BY <1>2, <1>3, <1>4
<1>6. Splits(s \ {c}, y) /\ Splits(s \ {y}, c)
  <2>1. y \in s \ {c} /\ c \in s \ {y}
    BY <1>3, <1>5
  <2>2. s \ {c} \notin C /\ s \ {y} \notin C /\ s \ {c} \in SUBSET S /\ s \ {y} \in SUBSET S
    BY <1>2, <1>5
  <2> HIDE DEF Splits
  <2>3. QED
    BY <2>1, <2>2
<1>7. (s \ {c}) \ {y} = (s \ {y}) \ {c}
  OBVIOUS
<1>8. Left(m, (s \ {c}) \ {y}) \in Nat /\ m[c].left \in Nat /\ m[y].left \in Nat
  <2>1. (s \ {c}) \ {y} \in SUBSET S /\ c \in S /\ y \in S
    BY <1>2, <1>5
  <2>2. IsFiniteSet((s \ {c}) \ {y})
    BY <2>1, FS_Subset
  <2>3. QED
    BY <2>1, <2>2, LeftType
<1>9. /\ Left(m, s) = m[c].left + (m[y].left + Left(m, (s \ {c}) \ {y}))
      /\ Left(m, s \ {y}) = m[c].left + Left(m, (s \ {c}) \ {y})
  BY <1>4, <1>6, <1>7
<1>10. Left(m, s) = m[y].left + Left(m, s \ {y})
  <2> HIDE DEF c
  <2> QED
    BY <1>8, <1>9
<1>11. QED
  BY <1>3, <1>10

\* As much as all of them at most.
LEMMA LeftBound ==
    ASSUME NEW m, NEW S, IsFiniteSet(S), NEW z \in Nat, \A i \in S : m[i].left \in 0..z
    PROVE  Left(m, S) <= Cardinality(S) * z
<1> DEFINE C == {s \in SUBSET S : ~(Left(m, s) <= Cardinality(s) * z)}
<1>1. SUFFICES ASSUME C # {}
               PROVE  FALSE
  OBVIOUS
<1>2. Left(m, {}) = 0 /\ Cardinality({}) = 0
  BY LeftStep, FS_EmptySet
<1>3. PICK s \in C : /\ s # {} /\ IsFiniteSet(s) /\ Chosen(s) \in s
                     /\ \A x \in s : s \ {x} \in SUBSET S /\ s \ {x} \notin C
  <2>1. C \in SUBSET SUBSET S /\ {} \notin C
    BY <1>2
  <2> HIDE DEF C
  <2>2. QED
    BY <1>1, <2>1, SmallestSubset
<1> DEFINE c == Chosen(s)
           k == Cardinality(s \ {c})
<1>4. Left(m, s) = m[c].left + Left(m, s \ {c})
  BY <1>3, LeftStep
<1>5. Left(m, s \ {c}) \in Nat /\ m[c].left \in 0..z /\ Left(m, s \ {c}) <= k * z
  <2>1. s \ {c} \in SUBSET S /\ IsFiniteSet(s \ {c}) /\ c \in S
    BY <1>3, FS_Subset
  <2>2. Left(m, s \ {c}) \in Nat
    BY <2>1, LeftType
  <2>3. Left(m, s \ {c}) <= k * z
    BY <1>3
  <2>4. QED
    BY <2>1, <2>2, <2>3
<1>6. k \in Nat /\ Cardinality(s) = k + 1
  <2>1. Cardinality(s) \in Nat /\ k \in Nat /\ k = Cardinality(s) - 1
    BY <1>3, OneLess
  <2> HIDE DEF k
  <2>2. QED
    BY <2>1
<1>7. Cardinality(s) * z = k * z + z
  <2> HIDE DEF k
  <2> QED
    BY <1>6
<1>8. k * z \in Nat
  <2> HIDE DEF k
  <2> QED
    BY <1>6
<1>9. Left(m, s) <= Cardinality(s) * z
  BY <1>4, <1>5, <1>7, <1>8
<1>10. QED
  BY <1>3, <1>9
-----------------------------------------------------------------------------
(* ExposureBound.  The buy of an outcome is placed from the positions fetched  *)
(* at the start of the tick.  From then to the buy, what is held and open only *)
(* shrinks or moves from the one to the other, and FewQuotes bounds the buys   *)
(* that were open at the fetch.  Positions that a query writes over raise the  *)
(* bound by the one order that may be placed by them.                          *)

\* What the open buys of o have left.
Buys(o) == Left(order, Orders(o, "buy"))

\* The largest order.
Big == Larger(OrderSize, Lot)

\* What FewQuotes lets be open.
Open == (Base + Slips) * Big

\* The bound of ExposureBound.
Allowed == Larger(MaxPosition, MaxHeld) + Open

\* The tick has fetched the positions but not come to outcome o.
Fresh(o) ==
    \/ at \in {"orders", "nav"}
    \/ at \in {"next", "side", "cancel"} /\ o \in todo

\* It is at the buy of o.
Buying(o) == at \in {"side", "cancel"} /\ o = on /\ side = "buy"

\* Before the buy of o is placed: room for one more order, unless the position p
\* it goes by already shows that there is none.
Spare(o, p) == Exposure(o) <= Allowed - Big \/ Exposure(o) <= p + Open

\* The inductive invariant.
IExposure ==
    /\ \A i \in live : order[i].side = "buy" => order[i].left <= Big
    /\ \A o \in Outcomes :
          /\ Exposure(o) <= Allowed
          /\ Fresh(o) => Spare(o, Position(o))
          /\ Buying(o) => Spare(o, position)

\* A step after which the buys go by what they would have gone by before.
Steady ==
    \A o \in Outcomes :
       /\ Fresh(o)' => Fresh(o) /\ Position(o)' = Position(o)
       /\ Buying(o)' => \/ Buying(o) /\ position' = position
                        \/ Fresh(o) /\ position' = Position(o)

\* Exposure is what is held plus a sum of naturals over a finite set.
LEMMA ExposureIs ==
    ASSUME TypeOK, NEW o \in Outcomes
    PROVE  /\ Exposure(o) = held[o] + Buys(o) /\ held[o] \in Nat /\ Buys(o) \in Nat
           /\ Exposure(o) \in Nat
           /\ IsFiniteSet(Orders(o, "buy")) /\ \A i \in Orders(o, "buy") : order[i].left \in Nat
<1>1. IsFiniteSet(Orders(o, "buy")) /\ \A i \in Orders(o, "buy") : order[i].left \in Nat
  <2>1. \A i \in Orders(o, "buy") : order[i].left \in Nat
    BY DEF TypeOK, Orders
  <2>2. QED
    BY <2>1, OrdersFinite
<1>2. Buys(o) \in Nat
  BY <1>1, LeftType DEF Buys
<1>3. Exposure(o) = held[o] + Buys(o)
  BY DEF Exposure, Buys, Left
<1>4. QED
  BY <1>1, <1>2, <1>3 DEF TypeOK

\* The same after the step.
LEMMA ExposureIsThen ==
    ASSUME TypeOK', NEW o \in Outcomes
    PROVE  Exposure(o)' = held'[o] + Buys(o)' /\ held'[o] \in Nat /\ Buys(o)' \in Nat
<1>1. IsFiniteSet(Orders(o, "buy")') /\ \A i \in Orders(o, "buy")' : order'[i].left \in Nat
  <2>1. Orders(o, "buy")' \subseteq Ids /\ \A i \in Orders(o, "buy")' : order'[i].left \in Nat
    BY DEF TypeOK, Orders
  <2>2. QED
    BY <2>1, IdsFinite
<1>2. Buys(o)' = Left(order', Orders(o, "buy")')
  BY DEF Buys
<1>3. Buys(o)' \in Nat
  BY <1>1, <1>2, LeftType
<1>4. Exposure(o)' = held'[o] + Buys(o)'
  BY DEF Exposure, Buys, Left
<1>5. QED
  BY <1>3, <1>4 DEF TypeOK

\* What is open for an outcome stays when neither its buys nor what is left of
\* them changes.
LEMMA BuysSame ==
    ASSUME TypeOK, NEW o \in Outcomes, Orders(o, "buy")' = Orders(o, "buy"),
           \A i \in Orders(o, "buy") : order'[i].left = order[i].left
    PROVE  Buys(o)' = Buys(o)
<1>1. Buys(o)' = Left(order', Orders(o, "buy")')
  BY DEF Buys
<1>2. Left(order', Orders(o, "buy")) = Left(order, Orders(o, "buy"))
  BY ExposureIs, LeftSame
<1>3. QED
  BY <1>1, <1>2 DEF Buys

\* A fill of a buy moves shares from what is open to what is held; a fill of a
\* sell takes from what is held.
LEMMA FillExposes ==
    ASSUME TypeOK, TypeOK', NEW i \in Ids, Fill(i)
    PROVE  \A o \in Outcomes : Exposure(o)' <= Exposure(o)
<1>0. PICK o : o = order[i].outcome
  OBVIOUS
<1>1. PICK n \in 1..order[i].left :
        /\ order[i].side = "sell" => n <= held[o]
        /\ held' = [held EXCEPT ![o] = IF order[i].side = "buy" THEN @ + n ELSE @ - n]
        /\ order' = [order EXCEPT ![i] =
              IF n = order[i].left /\ i \notin Known
              THEN NoOrder ELSE [order[i] EXCEPT !.left = @ - n]]
        /\ live' = IF n = order[i].left THEN live \ {i} ELSE live
  BY <1>0 DEF Fill
<1>2. /\ i \in live /\ o \in Outcomes /\ order[i].side \in Sides /\ order[i].left \in Nat
      /\ order[i] \in [outcome : Outcomes \cup {NoOutcome}, side : Sides, price : Int, left : Nat]
  BY <1>0 DEF Fill, TypeOK
<1>3. \A j \in Ids : j # i => order'[j] = order[j]
  BY <1>1 DEF TypeOK
<1>4. ASSUME n # order[i].left
      PROVE  order'[i].outcome = o /\ order'[i].side = order[i].side /\ order'[i].left = order[i].left - n
  BY <1>0, <1>1, <1>2, <1>4 DEF TypeOK
<1>5. ASSUME NEW a \in Outcomes, a # o \/ order[i].side = "sell"
      PROVE  Exposure(a)' <= Exposure(a)
  <2>1. i \notin Orders(a, "buy")
    BY <1>0, <1>5 DEF Orders
  <2>2. Orders(a, "buy")' = Orders(a, "buy") /\ \A j \in Orders(a, "buy") : order'[j].left = order[j].left
    BY <1>1, <1>2, <1>3, <1>4, <1>5, <2>1, <1>0 DEF Orders, TypeOK
  <2>3. Buys(a)' = Buys(a)
    BY <2>2, BuysSame
  <2>4. held'[a] <= held[a]
    BY <1>1, <1>2, <1>5 DEF TypeOK
  <2>5. QED
    BY <2>3, <2>4, ExposureIs, ExposureIsThen
<1>6. ASSUME order[i].side = "buy"
      PROVE  Exposure(o)' <= Exposure(o)
  <2> DEFINE S == Orders(o, "buy")
  <2>1. i \in S /\ Buys(o) = order[i].left + Left(order, S \ {i})
    <3>1. i \in S
      BY <1>0, <1>2, <1>6 DEF Orders
    <3>2. Left(order, S) = order[i].left + Left(order, S \ {i})
      BY <1>2, <3>1, ExposureIs, LeftRemove
    <3>3. QED
      BY <3>1, <3>2 DEF Buys
  <2>2. held'[o] = held[o] + n /\ held[o] \in Nat
    BY <1>1, <1>2, <1>6 DEF TypeOK
  <2>a. IsFiniteSet(S \ {i}) /\ Left(order, S \ {i}) \in Nat
    BY ExposureIs, <1>2, FS_RemoveElement, LeftType
  <2>3. Left(order', S \ {i}) = Left(order, S \ {i})
    BY <1>3, <2>a, LeftSame DEF Orders, TypeOK
  <2>4. Buys(o)' = Left(order', Orders(o, "buy")')
    BY DEF Buys
  <2>5. CASE n = order[i].left
    <3>1. Orders(o, "buy")' = S \ {i}
      BY <1>1, <1>2, <1>3, <2>5 DEF Orders, TypeOK
    <3>2. Buys(o)' = Left(order, S \ {i})
      BY <2>3, <2>4, <3>1
    <3>3. QED
      <4> HIDE DEF S
      <4>1. QED
      BY <1>2, <2>1, <2>2, <2>5, <2>a, <3>2, ExposureIs, ExposureIsThen
  <2>6. CASE n # order[i].left
    <3>1. Orders(o, "buy")' = S
      BY <1>1, <1>2, <1>3, <1>4, <1>6, <2>6 DEF Orders, TypeOK
    <3>2. Left(order', S) = order'[i].left + Left(order', S \ {i})
      <4>1. \A j \in S : order'[j].left \in Nat
        BY <1>1, <1>2, <1>3, <1>4, <2>6, ExposureIs DEF Orders, TypeOK
      <4>2. QED
        BY <1>2, <2>1, <4>1, ExposureIs, LeftRemove
    <3>3. Buys(o)' = (order[i].left - n) + Left(order, S \ {i})
      BY <1>4, <2>3, <2>4, <2>6, <3>1, <3>2
    <3>4. QED
      <4> HIDE DEF S
      <4>1. QED
      BY <1>2, <2>1, <2>2, <2>a, <3>3, ExposureIs, ExposureIsThen
  <2>7. QED
    BY <2>5, <2>6
<1>7. QED
  BY <1>0, <1>2, <1>5, <1>6 DEF Sides

\* An accepted order adds to the buys of its outcome if it is one.
LEMMA AcceptExposes ==
    ASSUME TypeOK, TypeOK', held' = held, NEW o \in Outcomes, NEW s \in Sides, NEW p \in Int,
           NEW n \in Nat, Accept(o, s, p, n)
    PROVE  /\ \A a \in Outcomes : s = "sell" \/ a # o => Exposure(a)' = Exposure(a)
           /\ s = "buy" => Exposure(o)' = Exposure(o) + n
           /\ \A i \in live' : \/ i \in live /\ order'[i] = order[i]
                               \/ order'[i].side = s /\ order'[i].left = n
<1>1. PICK i \in Ids \ (live \cup Known) :
        /\ live' = live \cup {i}
        /\ order' = [order EXCEPT ![i] =
              [outcome |-> o, side |-> s, price |-> p, left |-> n]]
  BY DEF Accept
<1>2. /\ order'[i].outcome = o /\ order'[i].side = s /\ order'[i].left = n
      /\ \A j \in live : order'[j] = order[j] /\ j # i
  BY <1>1 DEF TypeOK
<1>3. ASSUME NEW a \in Outcomes, s = "sell" \/ a # o
      PROVE  Exposure(a)' = Exposure(a)
  <2>1. /\ Orders(a, "buy")' = Orders(a, "buy")
        /\ \A j \in Orders(a, "buy") : order'[j].left = order[j].left
    BY <1>1, <1>2, <1>3 DEF Orders
  <2>2. QED
    BY <2>1, BuysSame, ExposureIs, ExposureIsThen
<1>4. ASSUME s = "buy"
      PROVE  Exposure(o)' = Exposure(o) + n
  <2>1. Orders(o, "buy")' = Orders(o, "buy") \cup {i} /\ i \notin Orders(o, "buy")
    BY <1>1, <1>2, <1>4 DEF Orders
  <2>2. IsFiniteSet(Orders(o, "buy")') /\ \A j \in Orders(o, "buy")' : order'[j].left \in Nat
    <3>1. IsFiniteSet(Orders(o, "buy") \cup {i})
      BY ExposureIs, FS_AddElement
    <3>2. QED
      BY <1>2, <2>1, <3>1, ExposureIs DEF Orders
  <2>3. Left(order', Orders(o, "buy")') = n + Left(order', Orders(o, "buy")' \ {i})
    BY <1>2, <2>1, <2>2, LeftRemove
  <2>4. Orders(o, "buy")' \ {i} = Orders(o, "buy")
    BY <2>1
  <2>5. Left(order', Orders(o, "buy")) = Left(order, Orders(o, "buy"))
    <3>1. \A j \in Orders(o, "buy") : order'[j].left = order[j].left
      BY <1>2 DEF Orders
    <3>2. QED
      BY <3>1, ExposureIs, LeftSame
  <2>6. Buys(o)' = Left(order', Orders(o, "buy")')
    BY DEF Buys
  <2>7. Buys(o)' = n + Buys(o)
    BY <2>3, <2>4, <2>5, <2>6 DEF Buys
  <2>8. QED
    BY <2>7, ExposureIs, ExposureIsThen
<1>5. \A j \in live' : \/ j \in live /\ order'[j] = order[j]
                       \/ order'[j].side = s /\ order'[j].left = n
  BY <1>1, <1>2
<1>6. QED
  BY <1>3, <1>4, <1>5

\* Whatever leaves the holdings and opens no order exposes to no more.
LEMMA NoneOpened ==
    ASSUME TypeOK, TypeOK', held' = held, live' = live \/ \E i \in live : live' = live \ {i},
           \A i \in live' : order'[i] = order[i]
    PROVE  \A o \in Outcomes : Exposure(o)' <= Exposure(o)
<1> SUFFICES ASSUME NEW o \in Outcomes
             PROVE  Exposure(o)' <= Exposure(o)
  OBVIOUS
<1>1. CASE Orders(o, "buy")' = Orders(o, "buy")
  <2>1. \A i \in Orders(o, "buy") : order'[i].left = order[i].left
    BY <1>1 DEF Orders
  <2>2. QED
    BY <1>1, <2>1, BuysSame, ExposureIs, ExposureIsThen
<1>2. CASE Orders(o, "buy")' # Orders(o, "buy")
  <2>1. PICK i \in Orders(o, "buy") : Orders(o, "buy")' = Orders(o, "buy") \ {i}
    BY <1>2 DEF Orders
  <2> DEFINE S == Orders(o, "buy")
  <2>2. Left(order, S) = order[i].left + Left(order, S \ {i}) /\ order[i].left \in Nat
    BY ExposureIs, LeftRemove
  <2>3. IsFiniteSet(S \ {i}) /\ \A j \in S \ {i} : order[j].left \in Nat
    BY ExposureIs, FS_RemoveElement
  <2>4. \A j \in S \ {i} : order'[j].left = order[j].left
    BY <2>1 DEF Orders
  <2>5. Left(order', S \ {i}) = Left(order, S \ {i}) /\ Left(order, S \ {i}) \in Nat
    BY <2>3, <2>4, LeftSame, LeftType
  <2>6. Buys(o)' = Left(order', Orders(o, "buy")') /\ Buys(o) = Left(order, S)
    BY DEF Buys
  <2>7. Buys(o)' <= Buys(o)
    <3>1. Buys(o)' = Left(order, S \ {i})
      BY <2>1, <2>5, <2>6
    <3>2. Buys(o) = order[i].left + Left(order, S \ {i})
      BY <2>2, <2>6
    <3>3. QED
      BY <2>2, <2>5, <3>1, <3>2
  <2>8. QED
    BY <2>7, ExposureIs, ExposureIsThen
<1>3. QED
  BY <1>1, <1>2

LEMMA BigType ==
    /\ Big \in Nat /\ OrderSize \in Nat /\ Lot \in Nat /\ OrderSize <= Big /\ Lot <= Big
    /\ Larger(MaxPosition, MaxHeld) \in Nat /\ MaxPosition \in Nat /\ MaxHeld \in Nat
    /\ MaxPosition <= Larger(MaxPosition, MaxHeld) /\ MaxHeld <= Larger(MaxPosition, MaxHeld)
BY MarketAssumption DEF Big, Larger

\* A slip allows one more order.
LEMMA AllowedGrows ==
    ASSUME TypeOK, TypeOK'
    PROVE  /\ Allowed \in Nat /\ Open \in Nat /\ Allowed = Larger(MaxPosition, MaxHeld) + Open
           /\ Slips' = Slips => Allowed' = Allowed /\ Open' = Open
           /\ Slips' = Slips + 1 => Allowed' = Allowed + Big /\ Open' = Open + Big
<1>1. Slips \in Nat /\ Base \in Nat
  BY SlipsType, BaseType
<1>2. \A b, f, z \in Nat : (b + f) * z \in Nat /\ (b + (f + 1)) * z = (b + f) * z + z
  OBVIOUS
<1>3. Open \in Nat /\ (Base + (Slips + 1)) * Big = Open + Big
  BY <1>1, <1>2, BigType DEF Open
<1>4. Open' = (Base + Slips') * Big /\ Allowed' = Larger(MaxPosition, MaxHeld) + Open'
  BY DEF Open, Allowed, Base, Big, Larger
<1>5. Slips' = Slips => Open' = Open
  BY <1>4 DEF Open
<1>6. Slips' = Slips + 1 => Open' = Open + Big
  BY <1>3, <1>4
<1>7. QED
  BY <1>3, <1>4, <1>5, <1>6, BigType DEF Allowed

\* A step that exposes no outcome to more keeps the bounds, if the buys go by what
\* they would have gone by before, or it slips.
LEMMA NoMore ==
    ASSUME TypeOK, TypeOK', IExposure, Slips' = Slips \/ Slips' = Slips + 1,
           \A o \in Outcomes : Exposure(o)' <= Exposure(o),
           \A i \in live' : order'[i].side = "buy" =>
              \/ order'[i].left <= Big
              \/ i \in live /\ order[i].side = "buy" /\ order'[i].left <= order[i].left,
           Slips' = Slips + 1 \/ Steady
    PROVE  IExposure'
<1>0. Big' = Big
  BY DEF Big, Larger
<1>1. ASSUME NEW i \in live', order'[i].side = "buy"
      PROVE  order'[i].left <= Big
  <2>1. Big \in Nat /\ order'[i].left \in Nat /\ (i \in live => order[i].left \in Nat)
    BY BigType DEF TypeOK
  <2>2. QED
    BY <1>1, <2>1 DEF IExposure
<1>2. ASSUME NEW o \in Outcomes
      PROVE  /\ Exposure(o)' <= Allowed'
             /\ Fresh(o)' => Spare(o, Position(o))'
             /\ Buying(o)' => Spare(o, position)'
  <2>1. Exposure(o) \in Nat /\ Exposure(o)' \in Nat /\ Exposure(o)' <= Exposure(o) /\ Exposure(o) <= Allowed
    BY ExposureIs, ExposureIsThen DEF IExposure
  <2>2. CASE Slips' = Slips + 1
    <3>1. Allowed' = Allowed + Big /\ Allowed \in Nat /\ Big \in Nat
      BY <2>2, AllowedGrows, BigType
    <3>2. Exposure(o)' <= Allowed' /\ Exposure(o)' <= Allowed' - Big'
      BY <1>0, <2>1, <3>1
    <3>3. QED
      BY <3>2 DEF Spare
  <2>3. CASE Slips' = Slips
    <3>1. Allowed' = Allowed /\ Open' = Open /\ Allowed \in Nat /\ Open \in Nat /\ Big \in Nat
      BY <2>3, AllowedGrows, BigType
    <3>2. Steady
      BY <2>3, SlipsType
    <3>3. Position(o) \in Nat /\ position \in Nat
      BY DEF Position, TypeOK
    <3>4. ASSUME NEW p \in Nat, Spare(o, p)
          PROVE  Exposure(o)' <= Allowed' - Big' \/ Exposure(o)' <= p + Open'
      BY <1>0, <2>1, <3>1, <3>4 DEF Spare
    <3>5. Fresh(o)' => Spare(o, Position(o))'
      BY <3>2, <3>3, <3>4 DEF Steady, IExposure, Spare
    <3>6. Buying(o)' => Spare(o, position)'
      BY <3>2, <3>3, <3>4 DEF Steady, IExposure, Spare
    <3>7. QED
      BY <2>1, <3>1, <3>5, <3>6
  <2>4. QED
    BY <2>2, <2>3
<1>3. QED
  BY <1>0, <1>1, <1>2 DEF IExposure

\* So many orders are so large together.
LEMMA BuysBound ==
    ASSUME TypeOK, NEW o \in Outcomes, NEW n \in Nat, Cardinality(Orders(o, "buy")) <= n,
           \A i \in live : order[i].side = "buy" => order[i].left <= Big
    PROVE  Buys(o) <= n * Big
<1>1. IsFiniteSet(Orders(o, "buy")) /\ Cardinality(Orders(o, "buy")) \in Nat
  BY OrdersFinite
<1>2. \A i \in Orders(o, "buy") : order[i].left \in 0..Big
  <2>1. ASSUME NEW i \in Orders(o, "buy")
        PROVE  order[i].left \in Nat /\ order[i].left <= Big
    BY ExposureIs DEF Orders
  <2>2. QED
    BY <2>1, BigType
<1>3. Buys(o) <= Cardinality(Orders(o, "buy")) * Big
  BY <1>1, <1>2, BigType, LeftBound DEF Buys
<1>4. Cardinality(Orders(o, "buy")) * Big <= n * Big
  <2>1. \A k, l, z \in Nat : k <= l => k * z <= l * z
    OBVIOUS
  <2>2. QED
    BY <1>1, <2>1, BigType
<1>5. Cardinality(Orders(o, "buy")) * Big \in Nat /\ n * Big \in Nat
  <2>1. \A k, z \in Nat : k * z \in Nat
    OBVIOUS
  <2>2. QED
    BY <1>1, <2>1, BigType
<1>6. QED
  BY <1>3, <1>4, <1>5, ExposureIs

\* What is found at the start is within the bounds.
LEMMA InitExposure == Init /\ TypeOK /\ FewQuotes => IExposure
<1> SUFFICES ASSUME Init, TypeOK, FewQuotes
             PROVE  IExposure
  OBVIOUS
<1>1. \A i \in live : order[i].left <= Big
  <2>1. PICK f \in [live -> Found] :
          order = [i \in Ids |-> IF i \in live THEN f[i] ELSE NoOrder]
    BY DEF Init
  <2>2. \A i \in live : i \in Ids /\ order[i] = f[i] /\ f[i] \in Found
    BY <2>1 DEF Init
  <2>3. \A g \in Found : g.left \in 1..Lot
    BY MarketAssumption
  <2>4. \A i \in live : order[i].left \in 1..Lot
    BY <2>2, <2>3
  <2>5. QED
    BY <2>4, BigType
<1>2. ASSUME NEW o \in Outcomes
      PROVE  Exposure(o) <= Allowed /\ ~Fresh(o) /\ ~Buying(o)
  <2>1. held[o] \in 0..MaxHeld /\ ~Fresh(o) /\ ~Buying(o)
    BY MarketAssumption DEF Init, Fresh, Buying
  <2>2. Cardinality(Orders(o, "buy")) <= Base + Slips /\ Base + Slips \in Nat
    BY SlipsType, BaseType DEF FewQuotes, Base, Sides
  <2>3. Buys(o) <= Open
    BY <1>1, <2>2, BuysBound DEF Open
  <2>4. Open \in Nat
    <3>1. \A k, z \in Nat : k * z \in Nat
      OBVIOUS
    <3>2. QED
      BY <2>2, <3>1, BigType DEF Open
  <2>5. QED
    BY <2>1, <2>3, <2>4, BigType, ExposureIs DEF Allowed
<1>3. QED
  BY <1>1, <1>2 DEF IExposure

\* Every step keeps the invariant; FewQuotes bounds what is open when the
\* positions are fetched.
LEMMA StepExposure ==
    TypeOK /\ IAt /\ FewQuotes /\ IExposure /\ TypeOK' /\ [Next]_vars => IExposure'
<1> SUFFICES ASSUME TypeOK, IAt, FewQuotes, IExposure, TypeOK', [Next]_vars
             PROVE  IExposure'
  OBVIOUS
<1>0. /\ UNCHANGED past \/ Failure \/ Overwrites
      /\ UNCHANGED past => Slips' = Slips
      /\ Failure \/ Overwrites => Slips' = Slips + 1
  BY PastStep, SlipsType DEF Slips, Failure, Overwrites, past
<1>a. Slips' = Slips \/ Slips' = Slips + 1
  BY <1>0
<1>b. /\ Quoted \subseteq Outcomes /\ Slips \in Nat /\ Base \in Nat
      /\ \A b \in Books : b.buy \in Int /\ b.sell \in Int
  BY MarketAssumption, SlipsType, BaseType
<1>c. \A i \in live' : i \in live /\ order'[i] = order[i] =>
         (order'[i].side = "buy" => i \in live /\ order[i].side = "buy" /\ order'[i].left <= order[i].left)
  BY DEF TypeOK
<1>d. UNCHANGED venue => /\ \A o \in Outcomes : Exposure(o)' <= Exposure(o)
                         /\ \A i \in live' : i \in live /\ order'[i] = order[i]
  BY NoneOpened DEF venue
\* A step of the strategy that leaves the venue alone.
<1>e. ASSUME UNCHANGED venue, Failure \/ Overwrites \/ Steady
      PROVE  IExposure'
  BY <1>0, <1>c, <1>d, <1>e, NoMore
\* The same, and closed orders are forgotten.
<1>f. ASSUME NEW known, Forget(known), UNCHANGED <<held, live>>, Failure \/ Overwrites \/ Steady
      PROVE  IExposure'
  <2>1. \A i \in live' : i \in live /\ order'[i] = order[i]
    BY <1>f DEF Forget, TypeOK
  <2>2. \A o \in Outcomes : Exposure(o)' <= Exposure(o)
    BY <1>f, <2>1, NoneOpened
  <2>3. QED
    BY <1>0, <1>c, <1>f, <2>1, <2>2, NoMore
\* What is decided for an outcome.
<1>g. ASSUME NEW o \in Quoted, NEW known, Decide(o, known), Steady
      PROVE  IExposure'
  <2>1. CASE todo' = {}
    BY <1>f, <1>g, <2>1 DEF Decide, Clear
  <2>2. CASE todo' # {}
    BY <1>e, <1>g, <2>2 DEF Decide, venue
  <2>3. QED
    BY <2>1, <2>2
<1>1. ASSUME NEW i \in Ids, Fill(i)
      PROVE  IExposure'
  <2>1. \A o \in Outcomes : Exposure(o)' <= Exposure(o)
    BY <1>1, FillExposes
  <2>2. Steady
    BY <1>1 DEF Fill, Steady, Fresh, Buying, Position, local
  <2>3. PICK n \in 1..order[i].left :
          /\ order' = [order EXCEPT ![i] =
                IF n = order[i].left /\ i \notin Known
                THEN NoOrder ELSE [order[i] EXCEPT !.left = @ - n]]
          /\ live' = IF n = order[i].left THEN live \ {i} ELSE live
    BY <1>1 DEF Fill
  <2>4. ASSUME NEW j \in live', order'[j].side = "buy"
        PROVE  j \in live /\ order[j].side = "buy" /\ order'[j].left <= order[j].left
    <3>1. j \in live /\ j \in Ids /\ i \in live
      BY <1>1, <2>3 DEF Fill, TypeOK
    <3>2. CASE j # i
      BY <2>3, <2>4, <3>1, <3>2 DEF TypeOK
    <3>3. CASE j = i
      <4>1. order'[i] = [order[i] EXCEPT !.left = @ - n]
        BY <2>3, <3>1, <3>3 DEF TypeOK
      <4>2. order[i] \in [outcome : Outcomes \cup {NoOutcome}, side : Sides, price : Int, left : Nat]
        BY DEF TypeOK
      <4>3. order'[i].side = order[i].side /\ order'[i].left = order[i].left - n /\ order[i].left \in Nat
        BY <4>1, <4>2
      <4>4. QED
        BY <2>4, <3>1, <3>3, <4>3
    <3>4. QED
      BY <3>2, <3>3
  <2>5. QED
    BY <1>a, <2>1, <2>2, <2>4, NoMore
<1>2. CASE RefreshPositions
  <2>1. UNCHANGED venue /\ FetchPositions /\ at' = "orders"
    BY <1>2 DEF RefreshPositions
  <2>2. PICK some \in SUBSET Listed :
          /\ pos' = Restrict(held, some)
          /\ IF some = Listed THEN UNCHANGED past ELSE Failure
    BY <2>1 DEF FetchPositions
  <2>3. CASE Failure
    BY <2>1, <2>3, <1>e
  <2>4. CASE some = Listed /\ UNCHANGED past
    <3>1. /\ \A o \in Outcomes : Exposure(o)' <= Exposure(o)
          /\ Open' = Open /\ Allowed' = Allowed /\ Open \in Nat /\ Allowed \in Nat
      BY <1>0, <1>d, <2>1, <2>4, AllowedGrows
    <3>2. ASSUME NEW o \in Outcomes
          PROVE  Exposure(o)' <= Allowed' /\ Spare(o, Position(o))' /\ ~Buying(o)'
      <4>1. Position(o)' = held[o]
        <5>1. DOMAIN pos' = Listed /\ \A a \in Listed : pos'[a] = held[a]
          BY <2>2, <2>4 DEF Restrict
        <5>2. o \notin Listed => held[o] = 0
          BY DEF Listed, TypeOK
        <5>3. QED
          BY <5>1, <5>2 DEF Position
      <4>2. Buys(o) <= Open
        <5>1. Cardinality(Orders(o, "buy")) <= Base + Slips /\ Base + Slips \in Nat
          BY <1>b DEF FewQuotes, Base, Sides
        <5>2. \A i \in live : order[i].side = "buy" => order[i].left <= Big
          BY DEF IExposure
        <5>3. QED
          BY <5>1, <5>2, BuysBound DEF Open
      <4>3. Exposure(o)' <= Position(o)' + Open'
        BY <3>1, <4>1, <4>2, ExposureIs, ExposureIsThen
      <4>4. Exposure(o)' <= Allowed'
        BY <3>1, ExposureIs, ExposureIsThen DEF IExposure
      <4>5. QED
        BY <2>1, <4>3, <4>4 DEF Spare, Buying
    <3>3. \A i \in live' : order'[i].side = "buy" => order'[i].left <= Big'
      BY <2>1 DEF IExposure, venue, Big, Larger
    <3>4. QED
      BY <3>2, <3>3 DEF IExposure
  <2>5. QED
    BY <2>2, <2>3, <2>4
<1>3. CASE RefreshOrders \/ RefreshNav
  <2>1. UNCHANGED venue /\ Steady
    BY <1>3 DEF RefreshOrders, RefreshNav, Steady, Fresh, Buying, Position, local
  <2>2. QED
    BY <2>1, <1>e
<1>4. CASE RefreshFails \/ BookFails
  <2>1. Forget({}) /\ UNCHANGED <<held, live>> /\ Failure
    BY <1>4 DEF RefreshFails, BookFails, Clear
  <2>2. QED
    BY <2>1, <1>f
<1>5. CASE CancelAllFails \/ CancelAll \/ Done
  <2>1. UNCHANGED venue /\ Steady
    BY <1>5 DEF CancelAllFails, CancelAll, Done, Steady, Fresh, Buying
  <2>2. QED
    BY <2>1, <1>e
<1>6. ASSUME NEW o \in Quoted, Skip(o)
      PROVE  IExposure'
  <2>1. Decide(o, {}) /\ UNCHANGED <<at, on, side, position>>
    BY <1>6 DEF Skip
  <2>2. at = "next" /\ todo' = todo \ {o} /\ (todo' # {} => pos' = pos)
    BY <2>1 DEF Decide
  <2>3. Steady
    BY <2>1, <2>2 DEF Steady, Fresh, Buying, Position
  <2>4. QED
    BY <1>g, <2>1, <2>3
<1>7. ASSUME NEW o \in Quoted, Quote(o)
      PROVE  IExposure'
  <2>1. PICK known : Decide(o, known)
    BY <1>7 DEF Quote
  <2>2. /\ at = "next" /\ o \in todo /\ todo' = todo \ {o} /\ (todo' # {} => pos' = pos)
        /\ at' = "side" /\ on' = o /\ position' = Position(o)
    BY <1>7, <2>1 DEF Quote, Decide
  <2>3. Steady
    BY <2>2 DEF Steady, Fresh, Buying, Position
  <2>4. QED
    BY <1>g, <2>1, <2>3
<1>8. CASE Keep \/ Requote \/ PlaceNot
  <2>1. UNCHANGED venue /\ Steady
    BY <1>8 DEF Keep, Requote, PlaceNot, NextSide, Blank, Steady, Fresh, Buying, Position
  <2>2. QED
    BY <2>1, <1>e
<1>9. ASSUME NEW i \in Ids, Cancel(i)
      PROVE  IExposure'
  <2>1. /\ UNCHANGED <<held, order, pos, at, on, side, position, todo>>
        /\ live' = live \/ live' = live \ {i}
    BY <1>9 DEF Cancel
  <2>2. Steady
    BY <2>1 DEF Steady, Fresh, Buying, Position
  <2>3. /\ live' = live \/ \E j \in live : live' = live \ {j}
        /\ \A j \in live' : j \in live /\ order'[j] = order[j]
    <3>1. i \notin live => live \ {i} = live
      OBVIOUS
    <3>2. QED
      BY <2>1, <3>1
  <2>4. \A o \in Outcomes : Exposure(o)' <= Exposure(o)
    BY <2>1, <2>3, NoneOpened
  <2>5. QED
    BY <1>a, <1>c, <2>2, <2>3, <2>4, NoMore
<1>10. CASE Place
  <2>1. /\ at = "cancel" /\ MayPlace /\ Accept(on, side, quote[side], OrderSize) /\ NextSide
        /\ UNCHANGED <<held, pos, past>>
    BY <1>10 DEF Place
  <2>2. on \in Outcomes /\ on \notin todo /\ side \in Sides /\ quote[side] \in Int
    BY <1>b, <2>1 DEF IAt, TypeOK, NoQuote, Sides
  <2>3. PICK o \in Outcomes : o = on
    BY <2>2
  <2>4. /\ \A a \in Outcomes : side = "sell" \/ a # o => Exposure(a)' = Exposure(a)
        /\ side = "buy" => Exposure(o)' = Exposure(o) + OrderSize
        /\ \A i \in live' : \/ i \in live /\ order'[i] = order[i]
                            \/ order'[i].side = side /\ order'[i].left = OrderSize
    <3>1. PICK p \in Int : p = quote[side]
      BY <2>2
    <3>2. PICK s \in Sides : s = side
      BY <2>2
    <3>3. OrderSize \in Nat /\ held' = held /\ Accept(o, s, p, OrderSize)
      BY <2>1, <2>3, <3>1, <3>2, BigType
    <3>4. /\ \A a \in Outcomes : s = "sell" \/ a # o => Exposure(a)' = Exposure(a)
          /\ s = "buy" => Exposure(o)' = Exposure(o) + OrderSize
          /\ \A i \in live' : \/ i \in live /\ order'[i] = order[i]
                              \/ order'[i].side = s /\ order'[i].left = OrderSize
      BY <3>3, AcceptExposes, ZenonT(30)
    <3>5. QED
      BY <3>2, <3>4
  <2>5. \A a \in Outcomes : /\ Fresh(a)' => Fresh(a) /\ Position(a)' = Position(a) /\ a # o
                            /\ ~Buying(a)'
    BY <2>1, <2>2, <2>3 DEF NextSide, Blank, Fresh, Buying, Position, Sides
  <2>6. CASE side = "sell"
    <3>1. \A a \in Outcomes : Exposure(a)' <= Exposure(a)
      BY <2>4, <2>6, ExposureIs
    <3>2. \A i \in live' : order'[i].side = "buy" =>
              \/ order'[i].left <= Big
              \/ i \in live /\ order[i].side = "buy" /\ order'[i].left <= order[i].left
      BY <1>c, <2>4, <2>6
    <3>3. Steady
      BY <2>5 DEF Steady
    <3>4. QED
      BY <1>a, <3>1, <3>2, <3>3, NoMore
  <2>7. CASE side = "buy"
    <3>1. position + OrderSize <= MaxPosition /\ position \in Nat
      BY <2>1, <2>7 DEF MayPlace, WithinLimit, TypeOK
    <3>2. Spare(o, position)
      BY <2>1, <2>3, <2>7 DEF IExposure, Buying
    <3>3. /\ Allowed \in Nat /\ Allowed' = Allowed /\ Open \in Nat /\ Open' = Open
          /\ Allowed = Larger(MaxPosition, MaxHeld) + Open
      BY <1>0, <2>1, AllowedGrows
    <3>4. Exposure(o)' <= Allowed'
      <4>1. Exposure(o) \in Nat
        BY ExposureIs
      <4>2. QED
        BY <2>4, <2>7, <3>1, <3>2, <3>3, <4>1, BigType DEF Spare
    <3>5. Big' = Big
      BY DEF Big, Larger
    <3>6. ASSUME NEW a \in Outcomes
          PROVE  Exposure(a)' <= Allowed' /\ (Fresh(a)' => Spare(a, Position(a))')
      <4>1. CASE a = o
        BY <2>5, <3>4, <4>1
      <4>2. CASE a # o
        <5>1. Exposure(a)' = Exposure(a) /\ Exposure(a) <= Allowed /\ (Fresh(a) => Spare(a, Position(a)))
          BY <2>4, <4>2 DEF IExposure
        <5>2. Fresh(a)' => Spare(a, Position(a))'
          BY <2>5, <3>3, <3>5, <5>1 DEF Spare
        <5>3. QED
          BY <3>3, <5>1, <5>2
      <4>3. QED
        BY <4>1, <4>2
    <3>7. \A i \in live' : order'[i].side = "buy" => order'[i].left <= Big
      BY <2>4, BigType DEF IExposure
    <3>8. QED
      BY <2>5, <3>5, <3>6, <3>7 DEF IExposure
  <2>8. QED
    BY <2>2, <2>6, <2>7 DEF Sides
<1>11. CASE TickEnd \/ LiquidateBegin
  <2>1. Forget({}) /\ UNCHANGED <<held, live>> /\ Steady
    BY <1>11 DEF TickEnd, LiquidateBegin, Clear, Steady, Fresh, Buying
  <2>2. QED
    BY <2>1, <1>f
<1>12. ASSUME NEW o \in Quoted, Liquidate(o)
       PROVE  IExposure'
  <2>1. /\ at = "liquidate" /\ at' = at /\ o \in todo /\ UNCHANGED held
        /\ \/ \E best \in Books : Accept(o, "sell", best.buy, pos[o])
           \/ UNCHANGED <<live, order>>
    BY <1>12 DEF Liquidate
  <2>2. Steady
    BY <2>1 DEF Steady, Fresh, Buying
  <2>3. CASE UNCHANGED <<live, order>>
    BY <2>1, <2>2, <2>3, <1>e DEF venue
  <2>4. CASE \E best \in Books : Accept(o, "sell", best.buy, pos[o])
    <3>1. PICK best \in Books : Accept(o, "sell", best.buy, pos[o])
      BY <2>4
    <3>2. o \in Outcomes /\ pos[o] \in Nat /\ best.buy \in Int /\ "sell" \in Sides
      BY <1>b, <2>1 DEF IAt, TypeOK, Sides
    <3>3. /\ \A a \in Outcomes : Exposure(a)' = Exposure(a)
          /\ \A i \in live' : \/ i \in live /\ order'[i] = order[i]
                              \/ order'[i].side = "sell" /\ order'[i].left = pos[o]
      BY <2>1, <3>1, <3>2, AcceptExposes
    <3>4. \A a \in Outcomes : Exposure(a)' <= Exposure(a)
      BY <3>3, ExposureIs
    <3>5. QED
      BY <1>a, <1>c, <2>2, <3>3, <3>4, NoMore
  <2>5. QED
    BY <2>1, <2>3, <2>4
<1>13. CASE StorePositions
  <2>1. /\ UNCHANGED <<venue, at, on, side, position, todo>>
        /\ Overwrites \/ UNCHANGED pos
    BY <1>13 DEF StorePositions, local
  <2>2. UNCHANGED pos => Steady
    BY <2>1 DEF Steady, Fresh, Buying, Position
  <2>3. QED
    BY <2>1, <2>2, <1>e
<1>14. CASE QueryPositions \/ QueryOrders \/ StoreOrders \/ UNCHANGED vars
  <2>1. UNCHANGED <<venue, pos, at, on, side, position, todo>>
    BY <1>14 DEF QueryPositions, QueryOrders, StoreOrders, vars, local
  <2>2. Steady
    BY <2>1 DEF Steady, Fresh, Buying, Position
  <2>3. QED
    BY <2>1, <2>2, <1>e
<1>15. QED
  BY <1>1, <1>2, <1>3, <1>4, <1>5, <1>6, <1>7, <1>8, <1>9, <1>10, <1>11, <1>12, <1>13,
     <1>14 DEF Next, Tick, Cleanup, Query

\* For any market, limits, holdings and orders found at the start, queries of
\* another thread and fills at any moment: holdings and open buys exceed max_position,
\* or what was held of an outcome, by no more than FewQuotes lets be open.
THEOREM ExposureIsBounded == Spec => []ExposureBound
<1>1. Init => TypeOK /\ IAt /\ IQuotes /\ IExposure
  BY InitTypeOK, InitQuotes, InitExposure DEF IQuotes
<1>2. TypeOK /\ IAt /\ IQuotes /\ IExposure /\ [Next]_vars
      => TypeOK' /\ IAt' /\ IQuotes' /\ IExposure'
  BY StepTypeOK, StepQuotes, StepExposure DEF IQuotes
<1>3. IExposure => ExposureBound
  BY DEF IExposure, ExposureBound, Allowed, Open, Base, Big
<1>4. QED
  BY <1>1, <1>2, <1>3, PTL DEF Spec
-----------------------------------------------------------------------------
(* StrategySessions: the sessions in which the MCP server runs strategies, for *)
(* any sessions and any size of the status cache.                              *)

\* A status to be stored is one that was read.
ISaw == op.at = "store" => op.saw \in Statuses

\* A cache that loses entries keeps its type and its bound.
LEMMA CacheShrinks ==
    ASSUME SessionsTypeOK, NEW D, D \subseteq DOMAIN cache, cache' = Restrict(cache, D)
    PROVE  /\ DOMAIN cache' \subseteq Sessions /\ Range(cache') \subseteq Statuses
           /\ Cardinality(DOMAIN cache') <= CacheMax
           /\ \A s \in DOMAIN cache' : s \in DOMAIN cache /\ cache'[s] = cache[s]
<1>1. DOMAIN cache' = D /\ \A s \in D : cache'[s] = cache[s]
  BY DEF Restrict
<1>2. IsFiniteSet(DOMAIN cache)
  BY SessionAssumption, FS_Subset DEF SessionsTypeOK
<1>3. /\ Cardinality(D) <= Cardinality(DOMAIN cache)
      /\ Cardinality(D) \in Nat /\ Cardinality(DOMAIN cache) \in Nat
  BY <1>2, FS_Subset, FS_CardinalityType
<1>4. Range(cache') \subseteq Range(cache)
  BY <1>1 DEF Range
<1>5. Cardinality(D) <= CacheMax
  BY <1>3, SessionAssumption DEF SessionsTypeOK
<1>6. QED
  BY <1>1, <1>4, <1>5 DEF SessionsTypeOK

LEMMA ClearShrinks ==
    ASSUME SessionsTypeOK, NEW s, ClearCached(s)
    PROVE  /\ DOMAIN cache' \subseteq Sessions /\ Range(cache') \subseteq Statuses
           /\ Cardinality(DOMAIN cache') <= CacheMax
           /\ \A t \in DOMAIN cache' : t \in DOMAIN cache /\ cache'[t] = cache[t]
           /\ s \notin DOMAIN cache'
<1>1. cache' = Restrict(cache, DOMAIN cache \ {s})
  BY DEF ClearCached
<1>2. s \notin DOMAIN cache'
  BY <1>1 DEF Restrict
<1>3. QED
  BY <1>1, <1>2, CacheShrinks

\* The entry that get_status() adds is the status it read.
LEMMA StoreAdds ==
    ASSUME SessionsTypeOK, ISaw, NEW s \in Sessions, StatusStore(s)
    PROVE  /\ DOMAIN cache' \subseteq Sessions /\ Range(cache') \subseteq Statuses
           /\ Cardinality(DOMAIN cache') <= CacheMax
           /\ \A t \in DOMAIN cache' : \/ t = s /\ cache'[t] = op.saw
                                       \/ t \in DOMAIN cache /\ cache'[t] = cache[t]
<1>1. PICK kept \in SUBSET DOMAIN cache :
        cache' = IF Room(kept)
                 THEN [t \in kept \cup {s} |-> IF t = s THEN op.saw ELSE cache[t]]
                 ELSE Restrict(cache, kept)
  BY DEF StatusStore
<1>2. CASE Room(kept)
  <2>1. cache' = [t \in kept \cup {s} |-> IF t = s THEN op.saw ELSE cache[t]]
    BY <1>1, <1>2
  <2>2. op.saw \in Statuses
    BY DEF StatusStore, Returns, ISaw
  <2>3. IsFiniteSet(kept)
    BY SessionAssumption, FS_Subset DEF SessionsTypeOK
  <2>4. /\ Cardinality(kept \cup {s}) <= Cardinality(kept) + 1
        /\ Cardinality(kept) \in Nat /\ Cardinality(kept \cup {s}) \in Nat
    <3>1. /\ IsFiniteSet(kept \cup {s})
          /\ Cardinality(kept \cup {s})
               = IF s \in kept THEN Cardinality(kept) ELSE Cardinality(kept) + 1
      BY <2>3, FS_AddElement
    <3>2. Cardinality(kept) \in Nat /\ Cardinality(kept \cup {s}) \in Nat
      BY <2>3, <3>1, FS_CardinalityType
    <3>3. QED
      BY <3>1, <3>2
  <2>5. Cardinality(DOMAIN cache') <= CacheMax
    BY <1>2, <2>1, <2>4, SessionAssumption DEF Room
  <2>6. Range(cache') \subseteq Statuses
    BY <2>1, <2>2 DEF SessionsTypeOK, Range
  <2>7. QED
    BY <2>1, <2>5, <2>6 DEF SessionsTypeOK
<1>3. CASE ~Room(kept)
  BY <1>1, <1>3, CacheShrinks
<1>4. QED
  BY <1>2, <1>3

LEMMA InitSessions == SessionsInit => SessionsTypeOK /\ ISaw
<1> SUFFICES ASSUME SessionsInit
             PROVE  SessionsTypeOK /\ ISaw
  OBVIOUS
<1>1. DOMAIN cache = {}
  BY DEF SessionsInit
<1>2. Range(cache) = {} /\ Cardinality(DOMAIN cache) = 0
  BY <1>1, FS_EmptySet DEF Range
<1>3. QED
  BY <1>1, <1>2, SessionAssumption
  DEF SessionsInit, Idle, SessionsTypeOK, ISaw, Statuses, ThreadStates, OpStates

LEMMA StepSessions == SessionsTypeOK /\ ISaw /\ [SessionsNext]_sessionVars => SessionsTypeOK' /\ ISaw'
<1> SUFFICES ASSUME SessionsTypeOK, ISaw, [SessionsNext]_sessionVars
             PROVE  SessionsTypeOK' /\ ISaw'
  OBVIOUS
<1> USE DEF SessionsTypeOK, ISaw
<1>1. ASSUME NEW s \in Sessions, ThreadStep(s)
      PROVE  SessionsTypeOK' /\ ISaw'
  <2>1. CASE SetupFails(s) \/ Start(s) \/ LoopStopped(s) \/ StrategyCleanup(s) \/ End(s)
    BY <2>1 DEF SetupFails, Start, LoopStopped, StrategyCleanup, End, Moves, book, history, ThreadStates
  <2>2. CASE Report(s)
    BY <2>2, ClearShrinks DEF Report, Moves, MarkOutcome, Marks, book, ThreadStates, Statuses
  <2>3. QED
    BY <1>1, <2>1, <2>2 DEF ThreadStep
<1>2. ASSUME NEW s \in Sessions, LoopEnd(s)
      PROVE  SessionsTypeOK' /\ ISaw'
  BY <1>2 DEF LoopEnd, Moves, Flag, book, history, ThreadStates
<1>3. ASSUME NEW s \in Sessions, CallBegin(s)
      PROVE  SessionsTypeOK' /\ ISaw'
  <2>1. CASE Create(s)
    BY <2>1 DEF Create, Begins, Idle, Moves, book, history, ThreadStates, OpStates
  <2>2. CASE Pause(s) \/ Resume(s)
    BY <2>2 DEF Pause, Resume, Begins, Idle, Flag, book, history, OpStates
  <2>3. CASE Stop(s)
    BY <2>3 DEF Stop, Begins, Idle, Flag, book, history, OpStates
  <2>4. CASE StatusCompute(s)
    BY <2>4 DEF StatusCompute, book, history, OpStates
  <2>5. QED
    BY <1>3, <2>1, <2>2, <2>3, <2>4 DEF CallBegin
<1>4. CASE CleanupBegin
  BY <1>4 DEF CleanupBegin, Begins, Idle, history, OpStates
<1>5. CASE CleanupEnd
  <2>1. /\ DOMAIN cache' \subseteq Sessions /\ Range(cache') \subseteq Statuses
        /\ Cardinality(DOMAIN cache') <= CacheMax
    <3>1. cache' = Restrict(cache, DOMAIN cache \ (sessions \ failed))
      BY <1>5 DEF CleanupEnd
    <3> DEFINE kept == DOMAIN cache \ (sessions \ failed)
    <3>2. kept \subseteq DOMAIN cache /\ cache' = Restrict(cache, kept)
      BY <3>1
    <3> HIDE DEF kept
    <3>3. QED
      BY <3>2, CacheShrinks
  <2>2. QED
    BY <1>5, <2>1 DEF CleanupEnd, history, OpStates
<1>6. ASSUME NEW s \in Sessions, CallStep(s)
      PROVE  SessionsTypeOK' /\ ISaw'
  <2>1. CASE Register(s) \/ PauseMark(s) \/ ResumeMark(s) \/ StopClose(s)
    BY <2>1 DEF Register, PauseMark, ResumeMark, StopClose, Returns, Idle, Marks, book, history, OpStates, Statuses
  <2>2. CASE StopJoined(s) \/ StopForce(s) \/ StopOrphan(s)
    BY <2>2 DEF StopJoined, StopForce, StopOrphan, Goes, Flag, book, history, OpStates
  <2>3. CASE StopClear(s)
    BY <2>3, ClearShrinks DEF StopClear, Goes, book, history, OpStates
  <2>4. CASE StatusStore(s)
    BY <2>4, StoreAdds DEF StatusStore, Returns, Idle, book, history, OpStates
  <2>5. CASE CleanupStop(s)
    BY <2>5 DEF CleanupStop, Flag, book, history, OpStates
  <2>6. CASE CleanupJoined(s) \/ CleanupForce(s)
    BY <2>6 DEF CleanupJoined, CleanupForce, Goes, Flag, book, history, OpStates
  <2>7. CASE CleanupOrphan(s)
    BY <2>7 DEF CleanupOrphan, Failed, book, history, OpStates
  <2>8. QED
    BY <1>6, <2>1, <2>2, <2>3, <2>4, <2>5, <2>6, <2>7 DEF CallStep
<1>7. CASE UNCHANGED sessionVars
  BY <1>7 DEF sessionVars, book, history
<1>8. QED
  BY <1>1, <1>2, <1>3, <1>4, <1>5, <1>6, <1>7 DEF SessionsNext, CallGoesOn

\* The variables keep their types, and the status cache its bound.
THEOREM SessionsTypeCorrect == SessionsSpec => []SessionsTypeOK
<1>1. SessionsInit => SessionsTypeOK /\ ISaw
  BY InitSessions
<1>2. SessionsTypeOK /\ ISaw /\ [SessionsNext]_sessionVars => SessionsTypeOK' /\ ISaw'
  BY StepSessions
<1>3. QED
  BY <1>1, <1>2, PTL DEF SessionsSpec
-----------------------------------------------------------------------------
(* A stopped session stays stopped.  While a call is under way no other one *)
(* changes what has been stopped; the thread marks no other outcomes.       *)

Over == {"stopped", "error"}

IStop ==
    /\ op.at = "resume" => op.on \notin closed
    /\ op.at = "store" /\ op.on \in closed => op.saw \in Over
    /\ op.at = "close" => op.on \notin DOMAIN cache

LEMMA StepStop ==
    SessionsTypeOK /\ ISaw /\ StopSticks /\ IStop /\ [SessionsNext]_sessionVars => StopSticks' /\ IStop'
<1> SUFFICES ASSUME SessionsTypeOK, ISaw, StopSticks, IStop, [SessionsNext]_sessionVars
             PROVE  StopSticks' /\ IStop'
  OBVIOUS
<1> USE DEF StopSticks, IStop, Over
<1>1. ASSUME NEW s \in Sessions, ThreadStep(s)
      PROVE  StopSticks' /\ IStop'
  <2>1. CASE SetupFails(s) \/ Start(s) \/ LoopStopped(s) \/ StrategyCleanup(s) \/ End(s)
    BY <2>1 DEF SetupFails, Start, LoopStopped, StrategyCleanup, End, book, history
  <2>2. CASE Report(s)
    <3>1. \A t \in Sessions : status'[t] = status[t] \/ status'[t] \in Over
      BY <2>2 DEF Report, MarkOutcome, Marks, SessionsTypeOK
    <3>2. \A t \in DOMAIN cache' : t \in DOMAIN cache /\ cache'[t] = cache[t]
      BY <2>2, ClearShrinks DEF Report
    <3>3. QED
      BY <2>2, <3>1, <3>2 DEF Report
  <2>3. QED
    BY <1>1, <2>1, <2>2 DEF ThreadStep
<1>2. ASSUME NEW s \in Sessions, LoopEnd(s)
      PROVE  StopSticks' /\ IStop'
  BY <1>2 DEF LoopEnd, book, history
<1>3. ASSUME NEW s \in Sessions, CallBegin(s)
      PROVE  StopSticks' /\ IStop'
  <2>1. CASE Create(s) \/ Pause(s) \/ Stop(s)
    BY <2>1 DEF Create, Pause, Stop, Begins, Idle, book, history
  <2>2. CASE Resume(s)
    BY <2>2 DEF Resume, Begins, Idle, book, history
  <2>3. CASE StatusCompute(s)
    BY <2>3 DEF StatusCompute, book, history
  <2>4. QED
    BY <1>3, <2>1, <2>2, <2>3 DEF CallBegin
<1>4. CASE CleanupBegin
  BY <1>4 DEF CleanupBegin, Begins, Idle, history
<1>5. CASE CleanupEnd
  <2>1. \A t \in DOMAIN cache' : t \in DOMAIN cache /\ cache'[t] = cache[t]
    BY <1>5 DEF CleanupEnd, Restrict
  <2>2. op'.at = "exited"
    BY <1>5 DEF CleanupEnd, SessionsTypeOK
  <2>3. QED
    BY <1>5, <2>1, <2>2 DEF CleanupEnd, history
<1>6. ASSUME NEW s \in Sessions, CallStep(s)
      PROVE  StopSticks' /\ IStop'
  <2>1. CASE Register(s)
    BY <2>1 DEF Register, Returns, Idle, history
  <2>2. CASE PauseMark(s) \/ ResumeMark(s) \/ StopClose(s)
    BY <2>2 DEF PauseMark, ResumeMark, StopClose, Returns, Idle, Marks, SessionsTypeOK
  <2>3. CASE StopJoined(s) \/ StopForce(s) \/ StopOrphan(s)
    BY <2>3 DEF StopJoined, StopForce, StopOrphan, Goes, book, history, SessionsTypeOK
  <2>4. CASE StopClear(s)
    <3>1. /\ \A t \in DOMAIN cache' : t \in DOMAIN cache /\ cache'[t] = cache[t]
          /\ s \notin DOMAIN cache'
      BY <2>4, ClearShrinks DEF StopClear
    <3>2. op'.at = "close" /\ op'.on = s
      BY <2>4 DEF StopClear, Goes, SessionsTypeOK
    <3>3. QED
      BY <2>4, <3>1, <3>2 DEF StopClear, book, history
  <2>5. CASE StatusStore(s)
    <3>1. \A t \in DOMAIN cache' : \/ t = s /\ cache'[t] = op.saw
                                   \/ t \in DOMAIN cache /\ cache'[t] = cache[t]
      BY <2>5, StoreAdds
    <3>2. QED
      BY <2>5, <3>1 DEF StatusStore, Returns, Idle, book, history
  <2>6. CASE CleanupStop(s) \/ CleanupJoined(s) \/ CleanupForce(s) \/ CleanupOrphan(s)
    BY <2>6 DEF CleanupStop, CleanupJoined, CleanupForce, CleanupOrphan, Goes, book, history, SessionsTypeOK
  <2>7. QED
    BY <1>6, <2>1, <2>2, <2>3, <2>4, <2>5, <2>6 DEF CallStep
<1>7. CASE UNCHANGED sessionVars
  BY <1>7 DEF sessionVars, book, history
<1>8. QED
  BY <1>1, <1>2, <1>3, <1>4, <1>5, <1>6, <1>7 DEF SessionsNext, CallGoesOn

\* What stop_strategy() has stopped says so, and so does the status cache.
THEOREM StoppedStaysStopped == SessionsSpec => []StopSticks
<1>1. SessionsInit => SessionsTypeOK /\ ISaw /\ StopSticks /\ IStop
  BY InitSessions DEF SessionsInit, Idle, StopSticks, IStop
<1>2. SessionsTypeOK /\ ISaw /\ StopSticks /\ IStop /\ [SessionsNext]_sessionVars
        => SessionsTypeOK' /\ ISaw' /\ StopSticks' /\ IStop'
  BY StepSessions, StepStop
<1>3. QED
  BY <1>1, <1>2, PTL DEF SessionsSpec
-----------------------------------------------------------------------------
(* A running session is alive, or excused.  The thread's last report finds  *)
(* its session registered and marks it, or not registered and excuses it.   *)

Reported(s) == pc[s] \in {"reported", "ended"}

IRun ==
    /\ \A s \in sessions : pc[s] # "none"
    /\ \A s \in sessions : status[s] = "running" /\ Reported(s) => s \in excused
    /\ op.at = "register" =>
         /\ op.on \in Sessions \ sessions /\ pc[op.on] # "none"
         /\ Reported(op.on) => op.on \in excused

LEMMA StepRun == SessionsTypeOK /\ IRun /\ [SessionsNext]_sessionVars => IRun'
<1> SUFFICES ASSUME SessionsTypeOK, IRun, [SessionsNext]_sessionVars
             PROVE  IRun'
  OBVIOUS
<1> USE DEF IRun, Reported, SessionsTypeOK
<1>1. ASSUME NEW s \in Sessions, ThreadStep(s)
      PROVE  IRun'
  <2>1. CASE SetupFails(s) \/ Start(s) \/ LoopStopped(s) \/ StrategyCleanup(s) \/ End(s)
    <3>1. /\ pc' = [pc EXCEPT ![s] = pc'[s]] /\ pc'[s] # "none"
          /\ pc'[s] \in {"reported", "ended"} => pc[s] = "reported"
      BY <2>1 DEF SetupFails, Start, LoopStopped, StrategyCleanup, End, Moves
    <3>2. UNCHANGED <<status, cache, sessions, op, excused>>
      BY <2>1 DEF SetupFails, Start, LoopStopped, StrategyCleanup, End, book, history
    <3>3. \A t \in Sessions : /\ pc[t] # "none" => pc'[t] # "none"
                              /\ pc'[t] \in {"reported", "ended"} => pc[t] \in {"reported", "ended"}
      BY <3>1
    <3>4. QED
      BY <3>2, <3>3
  <2>2. CASE Report(s)
    <3>1. CASE s \in sessions
      BY <2>2, <3>1 DEF Report, Moves, MarkOutcome, Marks, book
    <3>2. CASE s \notin sessions
      BY <2>2, <3>2 DEF Report, Moves, book
    <3>3. QED
      BY <3>1, <3>2
  <2>3. QED
    BY <1>1, <2>1, <2>2 DEF ThreadStep
<1>2. ASSUME NEW s \in Sessions, LoopEnd(s)
      PROVE  IRun'
  BY <1>2 DEF LoopEnd, Moves, book, history
<1>3. ASSUME NEW s \in Sessions, CallBegin(s)
      PROVE  IRun'
  <2>1. CASE Create(s)
    <3>1. /\ pc[s] = "none" /\ pc' = [pc EXCEPT ![s] = "setup"]
          /\ UNCHANGED <<status, sessions, excused>>
      BY <2>1 DEF Create, Moves, book, history
    <3>2. op.at = "idle" /\ op'.at = "register" /\ op'.on = s
      BY <2>1 DEF Create, Begins, Idle
    <3>3. \A t \in Sessions \ {s} : pc'[t] = pc[t]
      BY <3>1
    <3>4. pc'[s] = "setup"
      BY <3>1
    <3>5. s \notin sessions
      BY <3>1
    <3>6. \A t \in sessions' : pc'[t] # "none"
      BY <3>1, <3>3, <3>5
    <3>7. \A t \in sessions' : status'[t] = "running" /\ Reported(t)' => t \in excused'
      BY <3>1, <3>3, <3>5
    <3>8. op'.on \in Sessions \ sessions' /\ pc'[op'.on] = "setup"
      BY <3>1, <3>2, <3>4, <3>5
    <3>9. QED
      BY <3>6, <3>7, <3>8
  <2>2. CASE Pause(s) \/ Resume(s)
    BY <2>2 DEF Pause, Resume, Begins, Idle, book, history
  <2>3. CASE Stop(s)
    BY <2>3 DEF Stop, Begins, Idle, book, history
  <2>4. CASE StatusCompute(s)
    BY <2>4 DEF StatusCompute, book, history
  <2>5. QED
    BY <1>3, <2>1, <2>2, <2>3, <2>4 DEF CallBegin
<1>4. CASE CleanupBegin
  BY <1>4 DEF CleanupBegin, Begins, Idle, history
<1>5. CASE CleanupEnd
  BY <1>5 DEF CleanupEnd, history
<1>6. ASSUME NEW s \in Sessions, CallStep(s)
      PROVE  IRun'
  <2>1. CASE Register(s)
    BY <2>1 DEF Register, Returns, Idle, history
  <2>2. CASE PauseMark(s) \/ ResumeMark(s) \/ StopClose(s)
    BY <2>2 DEF PauseMark, ResumeMark, StopClose, Returns, Idle, Marks, book
  <2>3. CASE StopJoined(s) \/ StopForce(s) \/ StopOrphan(s) \/ StopClear(s)
    BY <2>3 DEF StopJoined, StopForce, StopOrphan, StopClear, Goes, book, history
  <2>4. CASE StatusStore(s)
    BY <2>4 DEF StatusStore, Returns, Idle, book, history
  <2>5. CASE CleanupStop(s) \/ CleanupJoined(s) \/ CleanupForce(s) \/ CleanupOrphan(s)
    BY <2>5 DEF CleanupStop, CleanupJoined, CleanupForce, CleanupOrphan, Goes, book, history
  <2>6. QED
    BY <1>6, <2>1, <2>2, <2>3, <2>4, <2>5 DEF CallStep
<1>7. CASE UNCHANGED sessionVars
  BY <1>7 DEF sessionVars, book, history
<1>8. QED
  BY <1>1, <1>2, <1>3, <1>4, <1>5, <1>6, <1>7 DEF SessionsNext, CallGoesOn

LEMMA RunImplies == SessionsTypeOK /\ IRun => RunningIsAlive
BY DEF SessionsTypeOK, IRun, Reported, RunningIsAlive, Alive, ThreadStates

\* A registered session that says running has a living thread, but for the two
\* exceptions of RunningIsAlive.
THEOREM RunningHasThread == SessionsSpec => []RunningIsAlive
<1>1. SessionsInit => SessionsTypeOK /\ ISaw /\ IRun
  BY InitSessions DEF SessionsInit, Idle, IRun
<1>2. SessionsTypeOK /\ ISaw /\ IRun /\ [SessionsNext]_sessionVars => SessionsTypeOK' /\ ISaw' /\ IRun'
  BY StepSessions, StepRun
<1>3. SessionsTypeOK /\ ISaw /\ IRun => RunningIsAlive
  BY RunImplies
<1>4. QED
  BY <1>1, <1>2, <1>3, PTL DEF SessionsSpec
===============================================================================
