---------------------------- MODULE OrderTracking ----------------------------
(***************************************************************************)
(* Fills, from the venue to an order tracker: base/order_tracker.py, the   *)
(* user channel of exchanges/polymarket/polymarket_ws.py and the parts of  *)
(* base/exchange_client.py that use them.                                  *)
(*                                                                         *)
(* The exchange has one user channel, which its clients share: each starts *)
(* it when it is created and stops it when it stops.  A start makes a      *)
(* thread, named here by the client; a thread opens one socket at a time,  *)
(* named by the thread.  Trades are amounts: a message about k units of an *)
(* order is k units taken from a socket at once, and which units the server*)
(* put together does not matter to the tracker.                            *)
(***************************************************************************)
EXTENDS Integers

CONSTANTS Clients, Orders,
          Owner,          \* the client of each order
          Size,           \* units in an order
          None,
          MaxTroubles,    \* bound: connections lost or refused
          MaxRepeats      \* bound: units the server sends a second time

ASSUME TrackingAssumption ==
    /\ Owner \in [Orders -> Clients] /\ None \notin Clients
    /\ Size \in Nat \ {0} /\ MaxTroubles \in Nat /\ MaxRepeats \in Nat

VARIABLES running, connected,     \* self._running, self._connected of the channel
          ws,                     \* the thread whose socket self.ws is
          loop,                   \* the thread whose loop self._loop is
          pc,                     \* where each thread is in _receive_loop()
          reads,                  \* the socket of its "async for"
          work,                   \* the order it has completed and still tracks
          socket,                 \* the socket each thread opened last
          inbox,                  \* units received on it and not yet handled
          closing,                \* threads to whose loop stop() gave a close()
          tracked, filled,        \* _tracked_orders, and total_filled of each
          client,                 \* where each client is
          order,                  \* where create_order() is
          matched,                \* units the venue has traded
          repeated,               \* units the server has sent again
          troubles,
          overlap,                \* history: a thread was started beside another
          reports                 \* history: FILLED events, by order and thread

flags == <<running, connected>>
sockets == <<ws, socket, inbox>>
threads == <<pc, reads, work>>
trackers == <<tracked, filled, reports>>
venue == <<matched, repeated>>
vars == <<flags, sockets, threads, trackers, venue, loop, closing, client, order,
          troubles, overlap>>

Nothing == [o \in Orders |-> 0]

Init ==
    /\ running = FALSE /\ connected = FALSE /\ ws = None /\ loop = None
    /\ pc = [t \in Clients |-> "none"] /\ reads = [t \in Clients |-> None]
    /\ work = [t \in Clients |-> None]
    /\ socket = [t \in Clients |-> "none"] /\ inbox = [t \in Clients |-> Nothing]
    /\ closing = {} /\ tracked = {} /\ filled = Nothing
    /\ client = [c \in Clients |-> "new"] /\ order = [o \in Orders |-> "new"]
    /\ matched = Nothing /\ repeated = Nothing /\ troubles = 0
    /\ overlap = FALSE /\ reports = [o \in Orders |-> [t \in Clients |-> 0]]

Alive(t) == pc[t] \notin {"none", "ended"}
Moves(t, to) == pc' = [pc EXCEPT ![t] = to]
Reads(t, s) == reads' = [reads EXCEPT ![t] = s]
Reading(t) == pc[t] = "reading" /\ reads[t] = t /\ socket[t] = "open"

\* Fault: connected before the connection is there.
Announces == connected' = TRUE
Attempts == UNCHANGED connected

\* The head of the loop.
Loops(t) ==
    \/ ~running /\ Moves(t, "ended") /\ Reads(t, None) /\ UNCHANGED connected
    \/ running /\ ~connected /\ Moves(t, "opening") /\ Reads(t, None) /\ Attempts
    \/ running /\ connected /\ Moves(t, "reading") /\ Reads(t, ws) /\ UNCHANGED connected

\* An exception in the loop.
Disconnected == connected' = FALSE

Fails(t) ==
    /\ Moves(t, IF running THEN "asleep" ELSE "ended")
    /\ Reads(t, None) /\ Disconnected

\* A socket ends: what it has received can be read, what was under way is lost.
Units == 0..(Size + MaxRepeats)

Ends(s, how) ==
    /\ socket' = [socket EXCEPT ![s] = how]
    /\ \E rest \in [Orders -> Units] :
          /\ \A o \in Orders : rest[o] <= inbox[s][o]
          /\ inbox' = [inbox EXCEPT ![s] = rest]

\* close() of a socket.  Fault: stop() closes nothing.
ClosesNone == UNCHANGED <<socket, inbox>>
Closes ==
    IF ws # None /\ socket[ws] = "open" THEN Ends(ws, "normal") ELSE UNCHANGED <<socket, inbox>>

\* total_filled after a trade.  Fault: the size of the order for that of the trade.
TotalOfOrder(o, k) == filled[o] + Size
Total(o, k) == filled[o] + k

\* Fault: a completed order stays in _tracked_orders.
KeepsTracked(o) == UNCHANGED tracked
Untracks(o) == tracked' = tracked \ {o}
-----------------------------------------------------------------------------
(* A client: ExchangeClient(track_fills=True), create_order() and stop().   *)

\* start() makes a thread unless _running says that there is one.
Starts(c) ==
    IF running
    THEN UNCHANGED <<running, pc, loop, overlap>>
    ELSE /\ running' = TRUE /\ loop' = c /\ Moves(c, "head")
         /\ overlap' = (overlap \/ \E t \in Clients : Alive(t))

Setup(c) ==
    /\ client[c] = "new" /\ client' = [client EXCEPT ![c] = "active"] /\ Starts(c)
    /\ UNCHANGED <<connected, sockets, reads, work, trackers, venue, closing, order, troubles>>

\* The venue has the order before create_order() returns and it is tracked.
Place(o) ==
    /\ client[Owner[o]] = "active" /\ order[o] = "new"
    /\ order' = [order EXCEPT ![o] = "placed"]
    /\ UNCHANGED <<flags, sockets, threads, trackers, venue, loop, closing, client, troubles, overlap>>

Track(o) ==
    /\ order[o] = "placed" /\ order' = [order EXCEPT ![o] = "created"]
    /\ tracked' = tracked \cup {o} /\ filled' = [filled EXCEPT ![o] = 0]
    /\ UNCHANGED <<flags, sockets, threads, reports, venue, loop, closing, client, troubles, overlap>>

\* OrderTracker.stop().
Forget(c) ==
    /\ client[c] = "active" /\ \A o \in Orders : Owner[o] = c => order[o] # "placed"
    /\ client' = [client EXCEPT ![c] = "stopping"]
    /\ tracked' = {o \in tracked : Owner[o] # c}
    /\ UNCHANGED <<flags, sockets, threads, filled, reports, venue, loop, closing, order,
                   troubles, overlap>>

\* PolymarketUserWebSocket.stop(), which waits five seconds at most for the thread.
Halt(c) ==
    /\ client[c] = "stopping" /\ client' = [client EXCEPT ![c] = "halting"]
    /\ running' = FALSE
    /\ UNCHANGED <<connected, sockets, threads, trackers, venue, loop, closing, order,
                   troubles, overlap>>

SubmitClose(c) ==
    /\ client[c] = "halting" /\ client' = [client EXCEPT ![c] = "stopped"]
    /\ closing' = IF ws # None THEN closing \cup {loop} ELSE closing
    /\ UNCHANGED <<flags, sockets, threads, trackers, venue, loop, order, troubles, overlap>>
-----------------------------------------------------------------------------
(* A thread of the channel: _receive_loop(), and handle_trade() in it.      *)

Begin(t) ==
    /\ pc[t] \in {"head", "asleep"} /\ Loops(t)
    /\ UNCHANGED <<running, sockets, work, trackers, venue, loop, closing, client, order,
                   troubles, overlap>>

Opened(t) ==
    /\ pc[t] = "opening" /\ Moves(t, "opened")
    /\ ws' = t /\ connected' = TRUE
    /\ socket' = [socket EXCEPT ![t] = "open"] /\ inbox' = [inbox EXCEPT ![t] = Nothing]
    /\ UNCHANGED <<running, reads, work, trackers, venue, loop, closing, client, order,
                   troubles, overlap>>

Refused(t) ==
    /\ pc[t] = "opening" /\ troubles < MaxTroubles /\ troubles' = troubles + 1
    /\ Fails(t)
    /\ UNCHANGED <<running, sockets, work, trackers, venue, loop, closing, client, order, overlap>>

\* The credentials are sent on self.ws, and self.ws is read.
Authenticated(t) ==
    /\ pc[t] = "opened"
    /\ \/ /\ socket[ws] = "open"
          /\ Moves(t, "reading") /\ Reads(t, ws) /\ UNCHANGED connected
       \/ socket[ws] # "open" /\ Fails(t)
    /\ UNCHANGED <<running, sockets, work, trackers, venue, loop, closing, client, order,
                   troubles, overlap>>

\* handle_trade(): the lock section, and after the callbacks the end of tracking.
Handle(t, o, k) ==
    /\ pc[t] = "reading" /\ reads[t] = t /\ k <= inbox[t][o]
    /\ inbox' = [inbox EXCEPT ![t][o] = inbox[t][o] - k]
    /\ \/ o \notin tracked /\ UNCHANGED <<pc, work, filled, reports>>
       \/ /\ o \in tracked /\ filled' = [filled EXCEPT ![o] = Total(o, k)]
          /\ \/ Total(o, k) < Size /\ UNCHANGED <<pc, work, reports>>
             \/ /\ Total(o, k) >= Size /\ Moves(t, "completing")
                /\ work' = [work EXCEPT ![t] = o]
                /\ reports' = [reports EXCEPT ![o][t] = reports[o][t] + 1]
    /\ UNCHANGED <<flags, ws, socket, reads, tracked, venue, loop, closing, client, order,
                   troubles, overlap>>

Complete(t) ==
    /\ pc[t] = "completing" /\ Moves(t, "reading")
    /\ Untracks(work[t]) /\ work' = [work EXCEPT ![t] = None]
    /\ UNCHANGED <<flags, sockets, reads, filled, reports, venue, loop, closing, client, order,
                   troubles, overlap>>

\* The iteration ends: with the socket, in an exception unless the close was
\* normal, or at once when the socket is one of another loop.
ReadEnds(t) ==
    /\ pc[t] = "reading"
    /\ \/ socket[reads[t]] = "normal" /\ (reads[t] = t => inbox[t] = Nothing) /\ Loops(t)
       \/ socket[reads[t]] = "error" /\ (reads[t] = t => inbox[t] = Nothing) /\ Fails(t)
       \/ socket[reads[t]] = "open" /\ reads[t] # t /\ Fails(t)
    /\ UNCHANGED <<running, sockets, work, trackers, venue, loop, closing, client, order,
                   troubles, overlap>>

\* A close() runs when its loop awaits something.
RunClose(t) ==
    /\ t \in closing /\ (pc[t] \in {"opening", "opened", "asleep"} \/ Reading(t))
    /\ closing' = closing \ {t} /\ Closes
    /\ UNCHANGED <<flags, ws, threads, trackers, venue, loop, client, order, troubles, overlap>>
-----------------------------------------------------------------------------
(* The venue and the network.                                               *)

\* A trade is sent on every socket.  One that its thread does not read it never
\* will: what is received there is left out.  _parse_trade() takes the order of the
\* taker: where o was the maker, the message is one of an order nobody tracks.
Receives(o, k) ==
    \/ UNCHANGED inbox
    \/ inbox' = [t \in Clients |-> IF socket[t] = "open" /\ reads[t] = t
                                   THEN [inbox[t] EXCEPT ![o] = inbox[t][o] + k]
                                   ELSE inbox[t]]

Match(o, k) ==
    /\ order[o] # "new" /\ matched[o] + k <= Size
    /\ matched' = [matched EXCEPT ![o] = matched[o] + k] /\ Receives(o, k)
    /\ UNCHANGED <<flags, ws, socket, threads, trackers, repeated, loop, closing, client, order,
                   troubles, overlap>>

Repeat(o, k) ==
    /\ k <= matched[o] /\ repeated[o] + k <= MaxRepeats
    /\ repeated' = [repeated EXCEPT ![o] = repeated[o] + k] /\ Receives(o, k)
    /\ UNCHANGED <<flags, ws, socket, threads, trackers, matched, loop, closing, client, order,
                   troubles, overlap>>

Lose(t, how) ==
    /\ socket[t] = "open" /\ troubles < MaxTroubles /\ troubles' = troubles + 1
    /\ Ends(t, how)
    /\ UNCHANGED <<flags, ws, threads, trackers, venue, loop, closing, client, order, overlap>>
-----------------------------------------------------------------------------
Receiver(t) ==
    \/ Begin(t) \/ Opened(t) \/ Refused(t) \/ Authenticated(t) \/ ReadEnds(t) \/ Complete(t)
    \/ \E o \in Orders, k \in 1..Size + MaxRepeats : Handle(t, o, k)

Stops(c) == Forget(c) \/ Halt(c) \/ SubmitClose(c)

Next ==
    \/ \E t \in Clients : Receiver(t) \/ RunClose(t) \/ Setup(t) \/ Stops(t)
    \/ \E o \in Orders : Place(o) \/ Track(o)
    \/ \E o \in Orders, k \in 1..Size : Match(o, k) \/ Repeat(o, k)
    \/ \E t \in Clients, how \in {"normal", "error"} : Lose(t, how)

Spec == Init /\ [][Next]_vars

\* A thread goes on, a close() given to a loop that awaits something runs, and a
\* client that has begun to stop ends.
Fairness ==
    /\ \A t \in Clients : WF_vars(Receiver(t))
    /\ WF_vars(\E t \in Clients : RunClose(t))
    /\ WF_vars(\E c \in Clients : Halt(c) \/ SubmitClose(c))

FairSpec == Spec /\ Fairness
-----------------------------------------------------------------------------
(* Properties.                                                              *)

\* The variables are well typed, and the channel is connected only with a socket.
TypeOK ==
    /\ running \in BOOLEAN /\ connected \in BOOLEAN /\ overlap \in BOOLEAN
    /\ ws \in Clients \cup {None} /\ loop \in Clients \cup {None}
    /\ connected => ws # None
    /\ pc \in [Clients -> {"none", "head", "opening", "opened", "reading", "completing",
                           "asleep", "ended"}]
    /\ reads \in [Clients -> Clients \cup {None}] /\ work \in [Clients -> Orders \cup {None}]
    /\ socket \in [Clients -> {"none", "open", "normal", "error"}]
    /\ inbox \in [Clients -> [Orders -> Units]]
    /\ closing \subseteq Clients /\ tracked \subseteq Orders /\ filled \in [Orders -> Nat]
    /\ client \in [Clients -> {"new", "active", "stopping", "halting", "stopped"}]
    /\ order \in [Orders -> {"new", "placed", "created"}]
    /\ matched \in [Orders -> 0..Size] /\ repeated \in [Orders -> 0..MaxRepeats]
    /\ troubles \in 0..MaxTroubles
    /\ reports \in [Orders -> [Clients -> Nat]]

\* The tracker never counts more than the venue has traded, plus what the server
\* has sent again, as long as no thread was started beside one that lives: losses,
\* reconnections and restarts count nothing twice (order_tracker.py:133).
FillsCounted ==
    ~overlap => \A o \in Orders : filled[o] <= matched[o] + repeated[o]

\* A thread reports an order as FILLED once, whatever trades follow or are sent
\* again, and only a thread started beside it can report it a second time
\* (order_tracker.py:157-162: the callbacks run before the order is forgotten).
FilledOnce ==
    \A o \in Orders, t \in Clients :
       /\ reports[o][t] <= 1
       /\ reports[o][t] > 0 /\ ~overlap => \A u \in Clients \ {t} : reports[o][u] = 0

\* A stop() that meets no connection being made ends the thread, unless a client
\* starts the channel again (polymarket_ws.py:642-655).
StopEnds ==
    /\ \E c \in Clients : client[c] = "halting"
    /\ ~running /\ ~overlap
    /\ \A t \in Clients : pc[t] \notin {"opening", "opened"}
    ~> running \/ \A t \in Clients : ~Alive(t)

\* The channel provides the trades of its orders while it runs.  It does not: a
\* connection that closes normally is never replaced (polymarket_ws.py:466-471).
ChannelRecovers == running ~> ~running \/ overlap \/ \E t \in Clients : Reading(t)
=============================================================================
