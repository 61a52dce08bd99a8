------------------------- MODULE OrderBookWebSocket -------------------------
(***************************************************************************)
(* base/websocket.py: one object, used by several tasks of one event loop. *)
(* The main task is start(): it connects and runs the receive loop, which  *)
(* reconnects.  Callers watch and unwatch markets, a closer disconnects.   *)
(*                                                                         *)
(* A step is what a task does between two awaits.  Sockets are named, since*)
(* a task may go on with one that self.ws no longer is.  A socket closes   *)
(* when either side closes it; the server serves the markets subscribed on *)
(* it.  Books and callbacks change nothing here and are left out.          *)
(***************************************************************************)
EXTENDS Integers, FiniteSets

CONSTANTS Markets,       \* market ids
          Callers,       \* tasks that watch and unwatch
          Main,          \* the task of start()
          Sockets,       \* names of connections, used again
          None,          \* no socket, no market
          MaxAttempts,   \* max_reconnect_attempts
          MaxTroubles    \* bound: connections lost or refused

ASSUME SocketAssumption ==
    /\ Main \notin Callers /\ None \notin Markets \cup Sockets
    /\ \A r, s \in Sockets \cup {None} : Sockets \ {r, s} # {}   \* three, at least
    /\ MaxAttempts \in Nat /\ MaxTroubles \in Nat

Tasks == Callers \cup {Main}
States == {"disconnected", "connecting", "connected", "reconnecting", "closed"}

VARIABLES state,           \* self.state
          ws,              \* self.ws
          auto_reconnect,
          attempts,        \* self.reconnect_attempts
          subscriptions,   \* keys of self.subscriptions
          pc,              \* where each task is
          market,          \* the market a caller's watch_orderbook() is about
          toReplay,        \* what a task in connect() has still to subscribe
          looping,         \* main is in _receive_loop()
          reading,         \* the socket of its "async for"
          closer,          \* where disconnect() is
          open,            \* sockets that are open, of those in use
          leaked,          \* another one is open that nothing refers to
          served,          \* the markets the server sends on each socket
          troubles,        \* connections lost or refused so far
          excused          \* history: "overlap", a task began to connect beside
                           \* another, or a caller did after start(); "late",
                           \* connect() or _reconnect() did not end before
                           \* disconnect() began

net == <<ws, open, leaked, served>>
flow == <<state, attempts, looping, reading>>
stopping == <<auto_reconnect, closer>>
vars == <<pc, market, toReplay, troubles, excused, net, subscriptions, flow, stopping>>

Init ==
    /\ state = "disconnected" /\ ws = None /\ auto_reconnect = TRUE /\ attempts = 0
    /\ subscriptions = {}
    /\ pc = [t \in Tasks |-> IF t = Main THEN "new" ELSE "idle"]
    /\ market = [c \in Callers |-> None]
    /\ toReplay = [t \in Tasks |-> {}]
    /\ looping = FALSE /\ reading = None /\ closer = "idle"
    /\ open = {} /\ leaked = FALSE /\ served = [s \in Sockets |-> {}]
    /\ troubles = 0 /\ excused = {}

Connecting(t) == pc[t] \in {"opening", "opened", "replaying"}
Moves(t, to) == pc' = [pc EXCEPT ![t] = to]
Excuse(why, when) == IF when THEN {why} ELSE {}
BeginsConnect(t, overlaps) ==
    /\ Moves(t, "opening") /\ state' = "connecting"
    /\ excused' = excused \cup Excuse("overlap", overlaps) \cup Excuse("late", closer # "idle")
Trouble == troubles < MaxTroubles /\ troubles' = troubles + 1

\* _subscribe_orderbook() and its opposite send on self.ws.  On a socket that is
\* closed, or when there is none, they raise.
Usable == ws \in open
Serves(set) == served' = IF Usable THEN [served EXCEPT ![ws] = set] ELSE served

\* self.ws is assigned: the socket it was is in use only while main reads it.
Assigns(w) ==
    LET left == open \ {w, reading}
    IN  /\ ws' = w /\ open' = (open \ left) \cup ({w} \ {None})
        /\ leaked' = (leaked \/ left # {})
        /\ served' = [r \in Sockets |-> IF r \in left THEN {} ELSE served[r]]

\* A socket closes, and the server forgets what it served on it.  Fault: left open.
KeepsOpen(s) == UNCHANGED <<open, leaked, served>>
Closes(s) ==
    /\ open' = open \ {s}
    /\ served' = [r \in Sockets |-> IF r = s THEN {} ELSE served[r]]
    /\ UNCHANGED leaked

\* Fault: one attempt too many.
SpentOneLate(n) == n > MaxAttempts
Spent(n) == n >= MaxAttempts

\* Fault: connect() replaces the connection that is up.
UpNever == FALSE
Up == state = "connected"

\* Fault: the loop ends with the connection.
StoppedAlways == TRUE
Stopped == ~auto_reconnect \/ state = "closed"
-----------------------------------------------------------------------------
(* The main task between two awaits: _reconnect() up to its sleep, and the  *)
(* receive loop from its head, where state, self.ws and the attempts are    *)
(* given by what comes before.                                              *)

Reconnects(n) ==
    /\ looping' = TRUE /\ reading' = None
    /\ \/ Spent(n) /\ state' = "closed" /\ attempts' = n /\ Moves(Main, "done")
       \/ ~Spent(n) /\ state' = "reconnecting" /\ attempts' = n + 1 /\ Moves(Main, "asleep")

LoopHead(st, w, n) ==
    LET up == st = "connected" /\ w # None
    IN  \/ /\ up
           /\ Moves(Main, "receive") /\ reading' = w
           /\ looping' = TRUE /\ state' = st /\ attempts' = n
        \/ ~up /\ st # "closed" /\ auto_reconnect /\ Reconnects(n)
        \/ /\ ~up /\ (st = "closed" \/ ~auto_reconnect)
           /\ Moves(Main, "done") /\ reading' = None
           /\ looping' = TRUE /\ state' = st /\ attempts' = n

\* An exception in connect(): start() ends, _reconnect() returns to the loop, a
\* caller gets it.
ConnectFails(t) ==
    \/ /\ t \in Callers
       /\ Moves(t, "idle") /\ market' = [market EXCEPT ![t] = None]
       /\ state' = "disconnected" /\ UNCHANGED <<attempts, looping, reading>>
    \/ /\ t = Main /\ ~looping
       /\ Moves(t, "failed") /\ state' = "disconnected"
       /\ UNCHANGED <<market, attempts, looping, reading>>
    \/ t = Main /\ looping /\ LoopHead("disconnected", ws, attempts) /\ UNCHANGED market
-----------------------------------------------------------------------------
(* connect(), called by start(), _reconnect() and watch_orderbook().        *)

Start ==
    /\ pc[Main] = "new"
    /\ IF Up
       THEN LoopHead(state, ws, attempts) /\ UNCHANGED excused
       ELSE /\ BeginsConnect(Main, \E c \in Callers : Connecting(c))
            /\ UNCHANGED <<attempts, looping, reading>>
    /\ UNCHANGED <<market, toReplay, troubles, net, subscriptions, stopping>>

Opened(t) ==
    /\ pc[t] = "opening"
    /\ Assigns(CHOOSE s \in Sockets : s \notin {ws, reading})
    /\ state' = "connected" /\ attempts' = 0
    /\ Moves(t, "opened")
    /\ UNCHANGED <<market, toReplay, troubles, excused, looping, reading, subscriptions, stopping>>

Refused(t) ==
    /\ pc[t] = "opening" /\ Trouble
    /\ ConnectFails(t)
    /\ UNCHANGED <<toReplay, excused, net, subscriptions, stopping>>

\* The list of subscriptions is made after _authenticate().  Fault: no replay.
LeftNone(t) == IF pc[t] = "opened" THEN {} ELSE toReplay[t]
Left(t) == IF pc[t] = "opened" THEN subscriptions ELSE toReplay[t]

Resubscribe(t) ==
    /\ pc[t] \in {"opened", "replaying"}
    /\ \E m \in Left(t) :
          /\ Serves(served[ws] \cup {m})
          /\ IF Usable
             THEN /\ Moves(t, "replaying") /\ toReplay' = [toReplay EXCEPT ![t] = Left(t) \ {m}]
                  /\ UNCHANGED <<market, flow>>
             ELSE ConnectFails(t) /\ toReplay' = [toReplay EXCEPT ![t] = {}]
    /\ UNCHANGED <<troubles, excused, ws, open, leaked, subscriptions, stopping>>

\* connect() returns: main goes on in its loop, a caller subscribes its market.
Connected(t) ==
    /\ pc[t] \in {"opened", "replaying"} /\ Left(t) = {}
    /\ \/ t = Main /\ LoopHead(state, ws, attempts) /\ UNCHANGED <<market, served>>
       \/ /\ t \in Callers
          /\ Serves(served[ws] \cup {market[t]})
          /\ Moves(t, "idle") /\ market' = [market EXCEPT ![t] = None]
          /\ UNCHANGED flow
    /\ UNCHANGED <<toReplay, troubles, excused, ws, open, leaked, subscriptions, stopping>>
-----------------------------------------------------------------------------
(* The receive loop and _reconnect().                                       *)

ReceiveEnds ==
    /\ pc[Main] = "receive" /\ reading \notin open
    /\ IF Stopped
       THEN Moves(Main, "done") /\ reading' = None /\ UNCHANGED <<state, attempts, looping>>
       ELSE Reconnects(attempts)
    /\ UNCHANGED <<market, toReplay, troubles, excused, net, subscriptions, stopping>>

Reenter ==
    IF Up
    THEN LoopHead(state, None, attempts) /\ UNCHANGED excused
    ELSE /\ BeginsConnect(Main, \E c \in Callers : Connecting(c))
         /\ UNCHANGED <<attempts, looping, reading>>

\* The sleep is over: the old connection is closed, if there is one.
Wake ==
    /\ pc[Main] = "asleep"
    /\ \/ ws # None /\ Closes(ws) /\ Moves(Main, "closing") /\ UNCHANGED <<flow, excused>>
       \/ ws = None /\ Reenter /\ UNCHANGED <<open, leaked, served>>
    /\ UNCHANGED <<market, toReplay, troubles, ws, subscriptions, stopping>>

OldClosed ==
    /\ pc[Main] = "closing" /\ Assigns(None)
    /\ Reenter
    /\ UNCHANGED <<market, toReplay, troubles, subscriptions, stopping>>
-----------------------------------------------------------------------------
(* Callers, the network and disconnect().                                   *)

Watch(c, m) ==
    /\ pc[c] = "idle" /\ subscriptions' = subscriptions \cup {m}
    /\ IF Up
       THEN Serves(served[ws] \cup {m}) /\ UNCHANGED <<pc, market, state, excused>>
       ELSE /\ BeginsConnect(c, pc[Main] # "new" \/ \E t \in Callers : Connecting(t))
            /\ market' = [market EXCEPT ![c] = m]
            /\ UNCHANGED served
    /\ UNCHANGED <<ws, open, leaked, toReplay, troubles, attempts, looping, reading, stopping>>

Unwatch(c, m) ==
    /\ pc[c] = "idle" /\ m \in subscriptions
    /\ subscriptions' = subscriptions \ {m}
    /\ IF Up THEN Serves(served[ws] \ {m}) ELSE UNCHANGED served
    /\ UNCHANGED <<ws, open, leaked, pc, market, toReplay, troubles, excused, flow, stopping>>

Lose(s) ==
    /\ s \in open /\ Trouble /\ Closes(s)
    /\ UNCHANGED <<pc, market, toReplay, excused, ws, subscriptions, flow, stopping>>

\* self.tasks, which disconnect() cancels, is always empty.
Disconnect ==
    /\ closer = "idle"
    /\ state' = "closed" /\ auto_reconnect' = FALSE
    /\ Closes(ws) /\ closer' = IF ws = None THEN "done" ELSE "closing"
    /\ excused' = excused \cup Excuse("late", pc[Main] \in {"asleep", "closing"}
                                              \/ \E t \in Tasks : Connecting(t))
    /\ UNCHANGED <<pc, market, toReplay, troubles, ws, subscriptions, attempts, looping, reading>>

DisconnectEnds ==
    /\ closer = "closing" /\ closer' = "done" /\ Assigns(None)
    /\ UNCHANGED <<pc, market, toReplay, troubles, excused, subscriptions, flow,
                   auto_reconnect>>
-----------------------------------------------------------------------------
Proceeds(t) == Opened(t) \/ Refused(t) \/ Resubscribe(t) \/ Connected(t)
Receiver == Start \/ ReceiveEnds \/ Wake \/ OldClosed

Next ==
    \/ Receiver \/ Disconnect \/ DisconnectEnds
    \/ \E t \in Tasks : Proceeds(t)
    \/ \E c \in Callers, m \in Markets : Watch(c, m) \/ Unwatch(c, m)
    \/ \E s \in Sockets : Lose(s)

Spec == Init /\ [][Next]_vars

\* The main task goes on when what it awaits is over, and every await of the
\* library ends, by its timeout at the latest.  Nobody has to call anything.
Fairness == WF_vars(ReceiveEnds \/ Wake \/ OldClosed \/ Proceeds(Main))

FairSpec == Spec /\ Fairness
-----------------------------------------------------------------------------
(* Properties.                                                              *)

\* The variables are well typed, and reconnect_attempts keeps its bound
\* (websocket.py:282).
TypeOK ==
    /\ state \in States /\ attempts \in 0..MaxAttempts
    /\ ws \in Sockets \cup {None} /\ reading \in Sockets \cup {None}
    /\ auto_reconnect \in BOOLEAN /\ looping \in BOOLEAN
    /\ subscriptions \subseteq Markets
    /\ pc \in [Tasks -> {"new", "idle", "opening", "opened", "replaying", "receive", "asleep",
                         "closing", "done", "failed"}]
    /\ market \in [Callers -> Markets \cup {None}]
    /\ toReplay \in [Tasks -> SUBSET Markets]
    /\ closer \in {"idle", "closing", "done"}
    /\ open \subseteq {ws, reading} \ {None} /\ leaked \in BOOLEAN
    /\ served \in [Sockets -> SUBSET Markets]
    /\ troubles \in 0..MaxTroubles /\ excused \subseteq {"overlap", "late"}

\* A connection that is up serves every subscription, those made on earlier
\* connections included, as soon as no task is in connect(): the replay of
\* websocket.py:145-147 misses none, whatever callers, losses and reconnections
\* come between its steps.
Replayed ==
    state = "connected" /\ Usable /\ (\A t \in Tasks : ~Connecting(t)) =>
       subscriptions \subseteq served[ws]

\* As long as no caller has had to connect beside the receive loop, and no
\* disconnect() came in the middle of a reconnection, one connection at most is
\* open, it is self.ws, and the receive loop reads no other: nothing subscribed is
\* sent where nobody listens (watch_orderbook and _reconnect share connect()).
SoleConnection ==
    excused = {} => /\ ~leaked /\ open \subseteq {ws}
                    /\ pc[Main] = "receive" /\ closer # "done" => reading = ws

\* When disconnect() has returned, no connection is left open and the state is
\* CLOSED, with the same two exceptions (websocket.py:155-162).
DisconnectCloses ==
    closer = "done" /\ excused = {} =>
       open = {} /\ ~leaked /\ state = "closed"

\* The receive loop begins no further attempt once disconnect() has been called,
\* whatever it awaits at that moment: it ends its attempt under way at most
\* (websocket.py:232, 245, 254).
NoRetryAfterStop == [][~auto_reconnect => attempts' <= attempts]_vars

\* A receive loop without a connection reads an open one again, unless it is told
\* to stop or has used up its attempts, or a caller connects: a caller who does so
\* in every pause of _reconnect() has each connection closed by it, for ever
\* (websocket.py:230-315).
Reads == pc[Main] = "receive" /\ reading \in open
CallerConnects == \E c \in Callers : Connecting(c)

FeedReturns ==
    looping /\ pc[Main] # "done" /\ ~Reads /\ ~CallerConnects ~>
       Reads \/ state = "closed" \/ ~auto_reconnect \/ CallerConnects

=============================================================================
