----------------------------- MODULE MarketRelay -----------------------------
(***************************************************************************)
(* The relay of marketdata/polymarket_relay.py: one source, a connection   *)
(* to the venue, whose books are handed on to many clients.  Each client   *)
(* has a handler that reads its subscriptions; a subscription replaces the *)
(* source or adds to it, under a lock.  Each book is sent by a task of its *)
(* own.  All of them are tasks of one event loop: a step lasts from one    *)
(* await that really waits to the next, and tasks that are ready run in    *)
(* the order in which they became so.                                      *)
(*                                                                         *)
(* A book is the number of changes the venue has made to it.  The source's *)
(* own reconnection is a single step here; OrderBookWebSocket has all of   *)
(* it.                                                                     *)
(***************************************************************************)
EXTENDS Integers, Sequences, FiniteSets, SequencesExt

CONSTANTS Clients, Assets,
          Modes,          \* values of refresh_on_client_subscribe
          MaxBooks,       \* bound: changes of each book
          MaxMessages,    \* bound: subscriptions of all clients
          MaxFailures,    \* bound: connections lost or refused
          MaxStalls,      \* bound: times a client stops reading
          MaxCasts        \* bound: broadcasts at a time

ASSUME RelayAssumption ==
    /\ IsFiniteSet(Clients) /\ IsFiniteSet(Assets) /\ Modes \subseteq BOOLEAN
    /\ MaxBooks \in Nat /\ MaxMessages \in Nat /\ MaxFailures \in Nat
    /\ MaxStalls \in Nat /\ MaxCasts \in Nat

None == -1

VARIABLES
    refresh,              \* refresh_on_client_subscribe
    phase,                \* "serving", "closing" or "stopped"
    clients, listed,      \* clients, and the keys of assets_by_client
    wants,                \* assets_by_client, empty for who is not listed
    cache,                \* last_book_by_asset
    source,               \* the source: its connection, loop and subscriptions
    failed,               \* history: the last refresh found no connection
    lock,                 \* _source_lock: its holder and those who wait
    pc, need, todo,       \* of a handler: step, union it asks for, assets to replay
    casts,                \* the broadcast tasks, as they became ready or wait
    link,                 \* each client's connection
    book, due,            \* the venue: its books, and the snapshots it owes
    messages, failures, stalls,
    got,                  \* history: the newest book each client has got
    late, held, replayed, skipped  \* history: clients that got an older book after a
                                   \* newer one; a task waited for a client; clients
                                   \* that got a cached book; that missed one

handlers == <<lock, pc, need, todo, messages>>
venue == <<book, due, failures>>
peers == <<link, stalls>>
upstream == <<cache, source, failed>>
members == <<clients, listed, wants>>
history == <<got, late, held, replayed, skipped>>
vars == <<refresh, phase, members, upstream, handlers, casts, peers, venue, history>>

\* A source: whether it is connected and has a receive loop, its subscriptions, and
\* those it has asked the venue for.
NewSource == [up |-> FALSE, loop |-> FALSE, subs |-> {}, asked |-> {}]

Init ==
    /\ refresh \in Modes /\ phase = "serving"
    /\ clients = {} /\ listed = {} /\ wants = [c \in Clients |-> {}]
    /\ cache = [a \in Assets |-> None]
    /\ source = [NewSource EXCEPT !.up = TRUE, !.loop = TRUE] /\ failed = FALSE
    /\ lock = <<>> /\ pc = [c \in Clients |-> "away"] /\ need = [c \in Clients |-> {}]
    /\ todo = [c \in Clients |-> {}] /\ casts = <<>> /\ link = [c \in Clients |-> "fast"]
    /\ book = [a \in Assets |-> 0] /\ due = {}
    /\ messages = 0 /\ failures = 0 /\ stalls = 0
    /\ got = [c \in Clients |-> [a \in Assets |-> None]]
    /\ late = {} /\ held = FALSE /\ replayed = {} /\ skipped = {}

Moves(c, to) == pc' = [pc EXCEPT ![c] = to]
Fails == failures < MaxFailures /\ failures' = failures + 1
-----------------------------------------------------------------------------
(* handle_client() and handle_client_message().                             *)

Connect(c) ==
    /\ phase = "serving" /\ pc[c] = "away" /\ Moves(c, "reading")
    /\ clients' = clients \cup {c} /\ listed' = listed \cup {c}
    /\ UNCHANGED <<refresh, phase, wants, upstream, lock, need, todo, messages, casts, peers,
                   venue, history>>

\* What all clients ask for.  Fault: what this one asks for.
Own(c, assets) == assets
Union(c, assets) == assets \cup UNION {wants[d] : d \in Clients \ {c}}

\* A message can still be read after the connection is gone.
Subscribe(c, assets) ==
    LET union == Union(c, assets) IN
    /\ pc[c] = "reading" /\ messages < MaxMessages
    /\ messages' = messages + 1
    /\ wants' = [wants EXCEPT ![c] = assets] /\ listed' = listed \cup {c}
    /\ todo' = [todo EXCEPT ![c] = assets]
    /\ IF union = {} \/ (union = source.subs /\ ~refresh)
       THEN Moves(c, "answering") /\ UNCHANGED <<lock, need>>
       ELSE /\ Moves(c, "locking") /\ lock' = Append(lock, c)
            /\ need' = [need EXCEPT ![c] = union]
    /\ UNCHANGED <<refresh, phase, clients, upstream, casts, peers, venue, history>>

\* "finally".  Fault: the assets are kept.
KeepsAssets(c) == clients' = clients \ {c} /\ UNCHANGED <<listed, wants>>
Forgets(c) ==
    /\ clients' = clients \ {c} /\ listed' = listed \ {c}
    /\ wants' = [wants EXCEPT ![c] = {}]

\* The handler ends, its iteration over or an exception raised.
Ends(c) ==
    /\ Forgets(c) /\ Moves(c, "ended")
    /\ todo' = [todo EXCEPT ![c] = {}] /\ need' = [need EXCEPT ![c] = {}]

\* The connection is gone; or a message raises, JSON that is no object or has no
\* list of assets, and the connection is closed once the handler has ended.
Leave(c) ==
    /\ pc[c] = "reading" \/ (pc[c] = "answering" /\ link[c] = "gone")
    /\ Ends(c)
    /\ UNCHANGED <<refresh, phase, upstream, lock, messages, casts, peers, venue, history>>

\* Sending waits while the client does not read.  A book older than one the
\* client has makes it late.
Gets(cs, a, b) ==
    /\ got' = [c \in Clients |-> IF c \in cs /\ b > got[c][a]
                                 THEN [got[c] EXCEPT ![a] = b] ELSE got[c]]
    /\ late' = late \cup {c \in cs : b < got[c][a]}

Replay(c, a) ==
    /\ pc[c] = "answering" /\ link[c] = "fast" /\ a \in todo[c]
    /\ todo' = [todo EXCEPT ![c] = @ \ {a}]
    /\ IF cache[a] = None THEN UNCHANGED <<got, late, replayed>>
       ELSE Gets({c}, a, cache[a]) /\ replayed' = replayed \cup {c}
    /\ UNCHANGED <<refresh, phase, members, upstream, lock, pc, need, messages, casts, peers, venue,
                   held, skipped>>

Answered(c) ==
    /\ pc[c] = "answering" /\ link[c] = "fast" /\ todo[c] = {} /\ Moves(c, "reading")
    /\ UNCHANGED <<refresh, phase, members, upstream, lock, need, todo, messages, casts, peers,
                   venue, history>>
-----------------------------------------------------------------------------
(* _subscribe_client_assets() and _refresh_source().                        *)

\* The lock is granted in the order of the requests, and its holder releases it.
Holds(c) == Head(lock) = c
Releases == lock' = Tail(lock)

Locked(c) ==
    /\ pc[c] = "locking" /\ Holds(c) /\ Moves(c, IF refresh THEN "closing" ELSE "watching")
    /\ UNCHANGED <<refresh, phase, members, upstream, lock, need, todo, messages, casts, peers,
                   venue, history>>

\* _close_source(): the loop is cancelled, then the source disconnected.
Disconnects ==
    /\ source' = [source EXCEPT !.up = FALSE, !.loop = FALSE, !.asked = {}]
    /\ due' = {}

CloseSource(c) ==
    /\ pc[c] = "closing" /\ Moves(c, "replacing") /\ Disconnects
    /\ UNCHANGED <<refresh, phase, members, cache, failed, lock, need, todo, messages, casts, peers,
                   book, failures, history>>

ReplaceSource(c) ==
    /\ pc[c] = "replacing" /\ Moves(c, "connecting")
    /\ source' = NewSource /\ cache' = [a \in Assets |-> None]
    /\ UNCHANGED <<refresh, phase, members, failed, lock, need, todo, messages, casts, peers, venue,
                   history>>

ConnectSource(c) ==
    /\ pc[c] = "connecting"
    /\ \/ /\ source' = [source EXCEPT !.up = TRUE, !.loop = TRUE] /\ failed' = FALSE /\ Moves(c, "watching")
          /\ UNCHANGED <<members, lock, need, todo, failures>>
       \/ /\ Fails /\ failed' = TRUE /\ Ends(c) /\ Releases /\ UNCHANGED source
    /\ UNCHANGED <<refresh, phase, cache, messages, casts, peers, book, due, history>>

\* watch_orderbooks_by_assets() records the subscriptions, connects if necessary
\* and asks for all of them.  Fault: for the new ones only.
AsksNew(assets) == source' = [source EXCEPT !.up = TRUE, !.subs = @ \cup assets, !.asked = assets]
Asks(assets) == source' = [source EXCEPT !.up = TRUE, !.subs = @ \cup assets,
                                         !.asked = source.subs \cup assets]

Watch(c) ==
    /\ pc[c] = "watching" /\ Releases
    /\ \/ /\ Moves(c, "answering") /\ need' = [need EXCEPT ![c] = {}]
          /\ UNCHANGED <<members, todo, failures>>
          /\ IF need[c] \subseteq source.subs THEN UNCHANGED <<source, due>>
             ELSE Asks(need[c]) /\ due' = due \cup source'.asked
       \/ /\ ~(need[c] \subseteq source.subs) /\ Fails /\ Ends(c)
          /\ source' = [source EXCEPT !.up = FALSE, !.subs = @ \cup need[c], !.asked = {}]
          /\ due' = {}
    /\ UNCHANGED <<refresh, phase, cache, failed, messages, casts, peers, book, history>>
-----------------------------------------------------------------------------
(* The source: its venue and its receive loop.                              *)

Lose ==
    /\ source.up /\ Fails /\ source' = [source EXCEPT !.up = FALSE, !.asked = {}] /\ due' = {}
    /\ UNCHANGED <<refresh, phase, members, cache, failed, handlers, casts, peers, book,
                   history>>

\* connect() subscribes again.
Reconnect ==
    /\ source.loop /\ ~source.up
    /\ source' = [source EXCEPT !.up = TRUE, !.asked = source.subs]
    /\ due' = source.subs
    /\ UNCHANGED <<refresh, phase, members, cache, failed, handlers, casts, peers, book,
                   failures, history>>

\* The callback of an asset.
Received(a, b) ==
    /\ Len(casts) < MaxCasts /\ cache' = [cache EXCEPT ![a] = b]
    /\ casts' = Append(casts, [asset |-> a, book |-> b, wait |-> {},
                               rest |-> {}, stale |-> {}])

Heard(a) == source.up /\ source.loop /\ a \in source.asked

\* The first message about an asset is a snapshot.
Snapshot(a) ==
    /\ Heard(a) /\ a \in due /\ due' = due \ {a} /\ Received(a, book[a])
    /\ UNCHANGED <<refresh, phase, members, source, failed, handlers, peers, book, failures,
                   history>>

Change(a) ==
    /\ book[a] < MaxBooks /\ book' = [book EXCEPT ![a] = @ + 1]
    /\ IF Heard(a) /\ a \notin due THEN Received(a, book'[a]) ELSE UNCHANGED <<cache, casts>>
    /\ UNCHANGED <<refresh, phase, members, source, failed, handlers, peers, due, failures,
                   history>>
-----------------------------------------------------------------------------
(* broadcast().                                                             *)

\* A task that waits goes on when its client reads again or is gone.  New tasks
\* run in their order, and those that wait for the same client in theirs.  Fault:
\* they run in any order.
Ready(i) == \A c \in casts[i].wait : link[c] \in {"fast", "gone"}
AnyTurn(i) == Ready(i)
Turn(i) == Ready(i) /\ \A j \in 1..(i - 1) : casts[j].wait # casts[i].wait

\* The clients it still has to serve.  Fault: none after a wait.
RestNone(i) == IF casts[i].wait # {} THEN {} ELSE clients
Rest(i) == IF casts[i].wait # {} THEN casts[i].rest ELSE clients

\* It serves some of them, up to one that does not read, and waits for that one;
\* or all of them.  One with too much unread is skipped, one that is gone is
\* dropped in the end.
Serve(i, some) ==
    LET k == casts[i]
        wanting == {c \in some : k.asset \in wants[c]}
        slow == {c \in wanting : link[c] = "slow"}
        stale == k.stale \cup {c \in wanting \cup k.wait : link[c] = "gone"}
    IN  /\ Gets({c \in wanting : link[c] \in {"fast", "slow"}}, k.asset, k.book)
        /\ skipped' = skipped \cup {c \in wanting : link[c] = "full"}
        /\ IF slow = {}
           THEN /\ some = Rest(i) /\ casts' = RemoveAt(casts, i)
                /\ clients' = clients \ stale /\ listed' = listed \ stale
                /\ wants' = [c \in Clients |-> IF c \in stale THEN {} ELSE wants[c]]
                /\ UNCHANGED held
           ELSE /\ Cardinality(slow) = 1 /\ held' = TRUE /\ UNCHANGED members
                /\ casts' = Append(RemoveAt(casts, i),
                                   [k EXCEPT !.wait = slow, !.rest = Rest(i) \ some, !.stale = stale])

Broadcast(i) ==
    /\ Turn(i)
    /\ \E some \in SUBSET Rest(i) : Serve(i, some)
    /\ UNCHANGED <<refresh, phase, upstream, handlers, peers, venue, replayed>>
-----------------------------------------------------------------------------
(* The clients' connections, and the end.                                   *)

\* A client stops reading until its buffer is full, reads on, or goes away.
Links == {<<"fast", "slow">>, <<"slow", "full">>, <<"slow", "fast">>, <<"full", "fast">>}

Reads(c, how) ==
    /\ pc[c] # "away"
    /\ <<link[c], how>> \in Links \/ (how = "gone" /\ link[c] # how)
    /\ how = "slow" => stalls < MaxStalls
    /\ stalls' = IF how = "slow" THEN stalls + 1 ELSE stalls
    /\ link' = [link EXCEPT ![c] = how]
    /\ UNCHANGED <<refresh, phase, members, upstream, handlers, casts, venue, history>>

\* A signal: the server closes its connections and waits for the handlers.
Shutdown ==
    /\ phase = "serving" /\ phase' = "closing" /\ link' = [c \in Clients |-> "gone"]
    /\ UNCHANGED <<refresh, members, upstream, handlers, casts, stalls, venue, history>>

Stop ==
    /\ phase = "closing" /\ \A c \in Clients : pc[c] \in {"away", "ended"}
    /\ phase' = "stopped" /\ Disconnects
    /\ UNCHANGED <<refresh, members, cache, failed, handlers, casts, peers, book, failures, history>>
-----------------------------------------------------------------------------
Handle(c) ==
    \/ Locked(c) \/ CloseSource(c) \/ ReplaceSource(c) \/ ConnectSource(c) \/ Watch(c)
    \/ (\E a \in Assets : Replay(c, a)) \/ Answered(c) \/ Leave(c)

Cast == \E i \in DOMAIN casts : Broadcast(i)
Feed == Reconnect \/ \E a \in Assets : Snapshot(a) \/ Change(a)

Next ==
    \/ \E c \in Clients :
          \/ Connect(c) \/ Handle(c) \/ \E assets \in SUBSET Assets : Subscribe(c, assets)
          \/ \E how \in {"fast", "slow", "full", "gone"} : Reads(c, how)
    \/ Lose \/ Feed \/ Cast \/ Shutdown \/ Stop

Spec == Init /\ [][Next]_vars
-----------------------------------------------------------------------------
(* Properties.                                                              *)

Steps == {"away", "reading", "locking", "closing", "replacing", "connecting", "watching",
          "answering", "ended"}
Books == 0..MaxBooks

\* Every variable has its type.
TypeOK ==
    /\ refresh \in BOOLEAN /\ phase \in {"serving", "closing", "stopped"}
    /\ clients \subseteq Clients /\ listed \subseteq Clients
    /\ wants \in [Clients -> SUBSET Assets] /\ cache \in [Assets -> Books \cup {None}]
    /\ source \in [up : BOOLEAN, loop : BOOLEAN,
                   subs : SUBSET Assets, asked : SUBSET Assets]
    /\ failed \in BOOLEAN /\ lock \in Seq(Clients) /\ pc \in [Clients -> Steps]
    /\ need \in [Clients -> SUBSET Assets] /\ todo \in [Clients -> SUBSET Assets]
    /\ casts \in Seq([asset : Assets, book : Books, wait : SUBSET Clients,
                      rest : SUBSET Clients, stale : SUBSET Clients])
    /\ link \in [Clients -> {"fast", "slow", "full", "gone"}]
    /\ book \in [Assets -> Books] /\ due \subseteq source.asked
    /\ messages \in 0..MaxMessages /\ failures \in 0..MaxFailures
    /\ got \in [Clients -> [Assets -> Books \cup {None}]] /\ held \in BOOLEAN
    /\ late \subseteq Clients /\ replayed \subseteq Clients /\ skipped \subseteq Clients

\* Nothing is left of a client whose handler has ended, whatever broadcasts and
\* subscriptions were under way, and a client is dropped before that only when
\* its connection is gone.
NoGhosts ==
    /\ \A c \in Clients : pc[c] \in {"away", "ended"} => c \notin listed \cup clients /\ wants[c] = {}
    /\ \A c \in Clients : wants[c] # {} /\ c \notin clients => link[c] = "gone"

\* While nobody changes the subscriptions, the source has what all clients ask
\* for, and has asked the venue for it if it is connected - or the last refresh
\* failed, which leaves the others without books.
Covered ==
    lock = <<>> /\ ~failed =>
       /\ UNION {wants[c] : c \in Clients} \subseteq source.subs
       /\ source.up => source.asked = source.subs

\* As long as no broadcast has had to wait for a client, nobody gets an older
\* book after a newer one, but for a client that was sent a cached one.
InOrder == ~held => late \subseteq replayed

\* When all broadcasts are done, a client that has been answered has the newest
\* book of what it wants, whichever tasks waited for whom - or missed one when
\* too much was unread.
UpToDate ==
    casts = <<>> => \A c \in clients, a \in Assets :
       pc[c] = "reading" /\ a \in wants[c] => got[c][a] >= cache[a] \/ c \in skipped
=============================================================================
