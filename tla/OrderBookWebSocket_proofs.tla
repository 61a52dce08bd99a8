---------------------- MODULE OrderBookWebSocket_proofs ----------------------
(***************************************************************************)
(* Proofs about OrderBookWebSocket, for any markets, callers, attempts and *)
(* number of connections lost or refused.                                  *)
(***************************************************************************)
EXTENDS OrderBookWebSocket, TLAPS

PlacesOf == {"new", "idle", "opening", "opened", "replaying", "receive", "asleep",
             "closing", "done", "failed"}

\* What TypeOK needs: a socket is read in the receive loop only, and a caller in
\* connect() has a market to subscribe.
IAt ==
    /\ pc[Main] # "receive" => reading = None
    /\ \A c \in Callers : Connecting(c) => market[c] \in Markets

\* What the main task does from the head of its loop.
LEMMA LoopHeadType ==
    ASSUME TypeOK, NEW st \in States, NEW w \in Sockets \cup {None},
           LoopHead(st, w, attempts) \/ Reconnects(attempts)
    PROVE  /\ state' \in States /\ attempts' \in 0..MaxAttempts
           /\ looping' = TRUE /\ reading' \in Sockets \cup {None}
           /\ pc' \in [Tasks -> PlacesOf]
           /\ pc'[Main] # "receive" => reading' = None
           /\ \A c \in Callers : pc'[c] = pc[c]
<1>1. CASE Reconnects(attempts)
  <2>1. \E to \in {"done", "asleep"} : Moves(Main, to)
    BY <1>1 DEF Reconnects
  <2>2. pc' \in [Tasks -> PlacesOf] /\ pc'[Main] # "receive" /\ \A c \in Callers : pc'[c] = pc[c]
    BY <2>1, SocketAssumption DEF TypeOK, Moves, Tasks, PlacesOf
  <2>3. state' \in States /\ attempts' \in 0..MaxAttempts /\ looping' = TRUE /\ reading' = None
    <3>1. attempts \in 0..MaxAttempts /\ MaxAttempts \in Nat
      BY SocketAssumption DEF TypeOK
    <3>2. CASE Spent(attempts)
      BY <1>1, <3>1, <3>2 DEF Reconnects, States
    <3>3. CASE ~Spent(attempts)
      <4>1. attempts' = attempts + 1 /\ state' = "reconnecting" /\ looping' = TRUE /\ reading' = None
        BY <1>1, <3>3 DEF Reconnects
      <4>2. attempts + 1 \in 0..MaxAttempts
        BY <3>1, <3>3 DEF Spent
      <4>3. QED
        BY <4>1, <4>2 DEF States
    <3>4. QED
      BY <3>2, <3>3
  <2>4. QED
    BY <2>2, <2>3
<1>2. CASE LoopHead(st, w, attempts) /\ ~Reconnects(attempts)
  <2>1. /\ \E to \in {"done", "receive"} : Moves(Main, to) /\ (to = "done" => reading' = None)
        /\ reading' \in {None, w} /\ looping' = TRUE /\ state' = st /\ attempts' = attempts
    BY <1>2 DEF LoopHead
  <2>2. pc' \in [Tasks -> PlacesOf] /\ \A c \in Callers : pc'[c] = pc[c]
    BY <2>1, SocketAssumption DEF TypeOK, Moves, Tasks, PlacesOf
  <2>3. pc'[Main] # "receive" => reading' = None
    BY <2>1 DEF TypeOK, Moves, Tasks
  <2>4. QED
    BY <2>1, <2>2, <2>3 DEF TypeOK
<1>3. QED
  BY <1>1, <1>2

LEMMA ConnectFailsType ==
    ASSUME TypeOK, IAt, NEW t \in Tasks, Connecting(t), ConnectFails(t)
    PROVE  /\ state' \in States /\ attempts' \in 0..MaxAttempts
           /\ looping' \in BOOLEAN /\ reading' \in Sockets \cup {None}
           /\ open \subseteq {ws, reading'} \ {None}
           /\ pc' \in [Tasks -> PlacesOf] /\ market' \in [Callers -> Markets \cup {None}]
           /\ IAt'
<1>1. CASE t \in Callers
  <2>1. /\ Moves(t, "idle") /\ market' = [market EXCEPT ![t] = None] /\ t # Main
        /\ state' = "disconnected" /\ UNCHANGED <<attempts, looping, reading>>
    BY <1>1, SocketAssumption DEF ConnectFails
  <2>2. /\ pc' \in [Tasks -> PlacesOf] /\ pc'[Main] = pc[Main] /\ ~Connecting(t)'
        /\ \A c \in Callers \ {t} : pc'[c] = pc[c] /\ market'[c] = market[c]
    BY <2>1 DEF TypeOK, Moves, Tasks, PlacesOf, Connecting
  <2>3. market' \in [Callers -> Markets \cup {None}]
    BY <2>1 DEF TypeOK
  <2>4. QED
    BY <2>1, <2>2, <2>3 DEF TypeOK, IAt, States, Connecting
<1>2. CASE t = Main /\ ~looping
  <2>1. Moves(Main, "failed") /\ state' = "disconnected" /\ UNCHANGED <<market, attempts, looping, reading>>
    BY <1>2, SocketAssumption DEF ConnectFails
  <2>2. /\ pc' \in [Tasks -> PlacesOf] /\ \A c \in Callers : pc'[c] = pc[c]
    BY <2>1, SocketAssumption DEF TypeOK, Moves, Tasks, PlacesOf
  <2>3. reading = None
    BY <1>2 DEF Connecting, IAt
  <2>4. QED
    BY <2>1, <2>2, <2>3 DEF TypeOK, IAt, States, Connecting
<1>3. CASE t = Main /\ looping
  <2>1. LoopHead("disconnected", ws, attempts) /\ UNCHANGED market
    BY <1>3, SocketAssumption DEF ConnectFails
  <2>2. reading = None
    BY <1>3 DEF Connecting, IAt
  <2>3. /\ state' \in States /\ attempts' \in 0..MaxAttempts
        /\ looping' = TRUE /\ reading' \in Sockets \cup {None}
        /\ pc' \in [Tasks -> PlacesOf]
        /\ pc'[Main] # "receive" => reading' = None
        /\ \A c \in Callers : pc'[c] = pc[c]
    BY <2>1, LoopHeadType DEF TypeOK, States
  <2>4. QED
    BY <2>1, <2>2, <2>3 DEF TypeOK, IAt, Connecting
<1>4. QED
  BY <1>1, <1>2, <1>3 DEF Tasks, TypeOK

\* An assignment to self.ws keeps the sockets in use typed.
LEMMA AssignsType ==
    ASSUME TypeOK, NEW w \in Sockets \cup {None}, Assigns(w)
    PROVE  /\ ws' = w /\ leaked' \in BOOLEAN
           /\ open' \subseteq {w, reading} \ {None}
           /\ served' \in [Sockets -> SUBSET Markets]
<1>1. leaked' \in BOOLEAN
  BY DEF Assigns
<1>2. ws' = w /\ open' \subseteq {w, reading} \ {None}
  BY DEF Assigns, TypeOK
<1>3. served' \in [Sockets -> SUBSET Markets]
  BY DEF Assigns, TypeOK
<1>4. QED
  BY <1>1, <1>2, <1>3

LEMMA ServesType ==
    ASSUME TypeOK, NEW set, ws \in Sockets => set \in SUBSET Markets, Serves(set)
    PROVE  served' \in [Sockets -> SUBSET Markets]
BY SocketAssumption DEF TypeOK, Serves, Usable

LEMMA ClosesType ==
    ASSUME TypeOK, NEW s, Closes(s)
    PROVE  /\ open' \subseteq {ws, reading} \ {None} /\ leaked' \in BOOLEAN
           /\ served' \in [Sockets -> SUBSET Markets]
BY DEF TypeOK, Closes

LEMMA BeginsConnectType ==
    ASSUME TypeOK, NEW t \in Tasks, NEW b \in BOOLEAN, BeginsConnect(t, b)
    PROVE  /\ pc' \in [Tasks -> PlacesOf] /\ pc'[t] = "opening"
           /\ \A u \in Tasks \ {t} : pc'[u] = pc[u]
           /\ state' \in States /\ excused' \subseteq {"overlap", "late"}
<1>1. pc' \in [Tasks -> PlacesOf] /\ pc'[t] = "opening" /\ \A u \in Tasks \ {t} : pc'[u] = pc[u]
  BY DEF TypeOK, BeginsConnect, Moves, PlacesOf
<1>2. state' \in States
  BY DEF BeginsConnect, States
<1>3. excused' \subseteq {"overlap", "late"}
  BY DEF TypeOK, BeginsConnect, Excuse
<1>4. QED
  BY <1>1, <1>2, <1>3

\* _reconnect() calls connect(): main opens, or finds a connection up.
LEMMA ReenterType ==
    ASSUME TypeOK, IAt, Reenter, pc[Main] \in {"asleep", "closing"}
    PROVE  /\ state' \in States /\ attempts' \in 0..MaxAttempts
           /\ looping' \in BOOLEAN /\ reading' \in {None, reading}
           /\ excused' \subseteq {"overlap", "late"}
           /\ pc' \in [Tasks -> PlacesOf] /\ reading = None /\ reading' = None
           /\ \A c \in Callers : pc'[c] = pc[c]
<1>1. reading = None
  BY DEF IAt
<1>2. CASE Up
  <2>1. LoopHead(state, None, attempts) /\ UNCHANGED excused
    BY <1>2 DEF Reenter
  <2>2. reading' = None
    BY <2>1 DEF LoopHead, Reconnects
  <2>3. QED
    BY <1>1, <2>1, <2>2, LoopHeadType DEF TypeOK
<1>3. CASE ~Up
  <2>1. /\ BeginsConnect(Main, \E c \in Callers : Connecting(c))
        /\ UNCHANGED <<attempts, looping, reading>>
    BY <1>3 DEF Reenter
  <2>2. (\E c \in Callers : Connecting(c)) \in BOOLEAN
    OBVIOUS
  <2>3. /\ pc' \in [Tasks -> PlacesOf] /\ \A u \in Tasks \ {Main} : pc'[u] = pc[u]
        /\ state' \in States /\ excused' \subseteq {"overlap", "late"}
    BY <2>1, <2>2, BeginsConnectType DEF Tasks
  <2>4. QED
    BY <1>1, <2>1, <2>3, SocketAssumption DEF TypeOK, Tasks
<1>4. QED
  BY <1>2, <1>3

LEMMA InitTypeOK == Init => TypeOK /\ IAt
<1> SUFFICES ASSUME Init
             PROVE  TypeOK /\ IAt
  OBVIOUS
<1>1. /\ pc \in [Tasks -> PlacesOf] /\ market \in [Callers -> Markets \cup {None}]
      /\ toReplay \in [Tasks -> SUBSET Markets] /\ served \in [Sockets -> SUBSET Markets]
  BY DEF Init, PlacesOf
<1>2. attempts \in 0..MaxAttempts /\ troubles \in 0..MaxTroubles
  BY SocketAssumption DEF Init
<1>3. \A c \in Callers : ~Connecting(c)
  BY SocketAssumption DEF Init, Connecting, Tasks
<1>4. QED
  BY <1>1, <1>2, <1>3 DEF Init, TypeOK, IAt, States, PlacesOf

LEMMA StepTypeOK == TypeOK /\ IAt /\ [Next]_vars => TypeOK' /\ IAt'
<1> SUFFICES ASSUME TypeOK, IAt, [Next]_vars
             PROVE  TypeOK' /\ IAt'
  OBVIOUS
<1>a. Main \in Tasks /\ Main \notin Callers /\ Callers \subseteq Tasks /\ None \notin Sockets
  BY SocketAssumption DEF Tasks
<1>b. ASSUME Trouble
      PROVE  troubles' \in 0..MaxTroubles
  BY <1>b, SocketAssumption DEF TypeOK, Trouble
<1>1. CASE Start
  <2>1. CASE Up
    <3>1. /\ LoopHead(state, ws, attempts)
          /\ UNCHANGED <<market, toReplay, troubles, excused, net, subscriptions, stopping>>
      BY <1>1, <2>1 DEF Start
    <3>2. /\ state' \in States /\ attempts' \in 0..MaxAttempts
          /\ looping' = TRUE /\ reading' \in Sockets \cup {None}
          /\ pc' \in [Tasks -> PlacesOf]
          /\ pc'[Main] # "receive" => reading' = None
          /\ \A c \in Callers : pc'[c] = pc[c]
      BY <3>1, LoopHeadType DEF TypeOK
    <3>3. reading = None
      BY <1>1 DEF Start, IAt
    <3>4. QED
      BY <3>1, <3>2, <3>3 DEF TypeOK, IAt, Connecting, net, stopping, PlacesOf
  <2>2. CASE ~Up
    <3>1. /\ BeginsConnect(Main, \E c \in Callers : Connecting(c))
          /\ UNCHANGED <<attempts, looping, reading>>
          /\ UNCHANGED <<market, toReplay, troubles, net, subscriptions, stopping>>
      BY <1>1, <2>2 DEF Start
    <3>2. /\ pc' \in [Tasks -> PlacesOf] /\ \A u \in Tasks \ {Main} : pc'[u] = pc[u]
          /\ state' \in States /\ excused' \subseteq {"overlap", "late"}
      BY <3>1, <1>a, BeginsConnectType
    <3>3. reading = None
      BY <1>1 DEF Start, IAt
    <3>4. QED
      BY <1>a, <3>1, <3>2, <3>3 DEF TypeOK, IAt, Connecting, net, stopping, PlacesOf
  <2>3. QED
    BY <2>1, <2>2
<1>2. ASSUME NEW t \in Tasks, Opened(t)
      PROVE  TypeOK' /\ IAt'
  <2>1. PICK s \in Sockets : Assigns(s)
    <3>1. \E s \in Sockets : s \notin {ws, reading}
      <4>1. ws \in Sockets \cup {None} /\ reading \in Sockets \cup {None}
        BY DEF TypeOK
      <4>2. \A r, s \in Sockets \cup {None} : Sockets \ {r, s} # {}
        BY SocketAssumption
      <4>3. Sockets \ {ws, reading} # {}
        BY <4>1, <4>2
      <4>4. QED
        BY <4>3
    <3>2. QED
      BY <1>2, <3>1 DEF Opened
  <2>2. /\ ws' = s /\ leaked' \in BOOLEAN /\ open' \subseteq {s, reading} \ {None}
        /\ served' \in [Sockets -> SUBSET Markets]
    BY <2>1, AssignsType
  <2>3. /\ Moves(t, "opened") /\ pc[t] = "opening" /\ state' = "connected" /\ attempts' = 0
        /\ UNCHANGED <<market, toReplay, troubles, excused, looping, reading, subscriptions, stopping>>
    BY <1>2 DEF Opened
  <2>4. /\ pc' \in [Tasks -> PlacesOf] /\ pc'[t] = "opened"
        /\ \A u \in Tasks \ {t} : pc'[u] = pc[u]
    BY <2>3 DEF TypeOK, Moves, PlacesOf
  <2>5. 0 \in 0..MaxAttempts
    BY SocketAssumption
  <2>6. IAt'
    BY <2>3, <2>4, <1>a DEF IAt, Connecting
  <2>7. QED
    BY <2>2, <2>3, <2>4, <2>5, <2>6 DEF TypeOK, States, stopping, PlacesOf
<1>3. ASSUME NEW t \in Tasks, Refused(t)
      PROVE  TypeOK' /\ IAt'
  <2>1. /\ Trouble /\ ConnectFails(t) /\ Connecting(t)
        /\ UNCHANGED <<toReplay, excused, net, subscriptions, stopping>>
    BY <1>3 DEF Refused, Connecting
  <2>2. /\ state' \in States /\ attempts' \in 0..MaxAttempts
        /\ looping' \in BOOLEAN /\ reading' \in Sockets \cup {None}
        /\ open \subseteq {ws, reading'} \ {None}
        /\ pc' \in [Tasks -> PlacesOf] /\ market' \in [Callers -> Markets \cup {None}]
        /\ IAt'
    BY <2>1, ConnectFailsType
  <2>3. QED
    BY <2>1, <2>2, <1>b DEF TypeOK, net, stopping, PlacesOf
<1>4. ASSUME NEW t \in Tasks, Resubscribe(t)
      PROVE  TypeOK' /\ IAt'
  <2>1. PICK m \in Left(t) :
          /\ Serves(served[ws] \cup {m})
          /\ IF Usable
             THEN /\ Moves(t, "replaying") /\ toReplay' = [toReplay EXCEPT ![t] = Left(t) \ {m}]
                  /\ UNCHANGED <<market, flow>>
             ELSE ConnectFails(t) /\ toReplay' = [toReplay EXCEPT ![t] = {}]
    BY <1>4 DEF Resubscribe
  <2>2. /\ pc[t] \in {"opened", "replaying"} /\ Connecting(t)
        /\ UNCHANGED <<troubles, excused, ws, open, leaked, subscriptions, stopping>>
    BY <1>4 DEF Resubscribe, Connecting
  <2>3. Left(t) \subseteq Markets
    BY DEF TypeOK, Left
  <2>4. served' \in [Sockets -> SUBSET Markets]
    <3>1. ws \in Sockets => served[ws] \cup {m} \in SUBSET Markets
      BY <2>3 DEF TypeOK
    <3>2. QED
      BY <2>1, <3>1, ServesType
  <2>5. CASE Usable
    <3>1. /\ pc' \in [Tasks -> PlacesOf] /\ pc'[t] = "replaying"
          /\ \A u \in Tasks \ {t} : pc'[u] = pc[u]
      BY <2>1, <2>5 DEF TypeOK, Moves, PlacesOf
    <3>2. toReplay' \in [Tasks -> SUBSET Markets]
      BY <2>1, <2>3, <2>5 DEF TypeOK
    <3>3. UNCHANGED <<market, state, attempts, looping, reading>>
      BY <2>1, <2>5 DEF flow
    <3>4. IAt'
      BY <2>2, <3>1, <3>3, <1>a DEF IAt, Connecting
    <3>5. QED
      BY <2>2, <2>4, <3>1, <3>2, <3>3, <3>4 DEF TypeOK, stopping, PlacesOf
  <2>6. CASE ~Usable
    <3>1. ConnectFails(t) /\ toReplay' = [toReplay EXCEPT ![t] = {}]
      BY <2>1, <2>6
    <3>2. /\ state' \in States /\ attempts' \in 0..MaxAttempts
          /\ looping' \in BOOLEAN /\ reading' \in Sockets \cup {None}
          /\ open \subseteq {ws, reading'} \ {None}
          /\ pc' \in [Tasks -> PlacesOf] /\ market' \in [Callers -> Markets \cup {None}]
          /\ IAt'
      BY <2>2, <3>1, ConnectFailsType
    <3>3. toReplay' \in [Tasks -> SUBSET Markets]
      BY <3>1 DEF TypeOK
    <3>4. QED
      BY <2>2, <2>4, <3>2, <3>3 DEF TypeOK, stopping, PlacesOf
  <2>7. QED
    BY <2>5, <2>6
<1>5. ASSUME NEW t \in Tasks, Connected(t)
      PROVE  TypeOK' /\ IAt'
  <2>1. /\ Connecting(t)
        /\ UNCHANGED <<toReplay, troubles, excused, ws, open, leaked, subscriptions, stopping>>
    BY <1>5 DEF Connected, Connecting
  <2>2. CASE t = Main
    <3>1. LoopHead(state, ws, attempts) /\ UNCHANGED <<market, served>>
      BY <1>5, <1>a, <2>2 DEF Connected
    <3>2. reading = None
      BY <2>1, <2>2 DEF IAt, Connecting
    <3>3. /\ state' \in States /\ attempts' \in 0..MaxAttempts
          /\ looping' = TRUE /\ reading' \in Sockets \cup {None}
          /\ pc' \in [Tasks -> PlacesOf]
          /\ pc'[Main] # "receive" => reading' = None
          /\ \A c \in Callers : pc'[c] = pc[c]
      BY <3>1, LoopHeadType DEF TypeOK
    <3>4. QED
      BY <2>1, <3>1, <3>2, <3>3 DEF TypeOK, IAt, Connecting, stopping, PlacesOf
  <2>3. CASE t \in Callers
    <3>1. /\ Serves(served[ws] \cup {market[t]})
          /\ Moves(t, "idle") /\ market' = [market EXCEPT ![t] = None]
          /\ UNCHANGED flow
      BY <1>5, <1>a, <2>3 DEF Connected
    <3>2. ws \in Sockets => served[ws] \cup {market[t]} \in SUBSET Markets
      BY <2>1, <2>3 DEF TypeOK, IAt
    <3>3. served' \in [Sockets -> SUBSET Markets]
      BY <3>1, <3>2, ServesType
    <3>4. /\ pc' \in [Tasks -> PlacesOf] /\ pc'[t] = "idle"
          /\ \A u \in Tasks \ {t} : pc'[u] = pc[u]
          /\ market' \in [Callers -> Markets \cup {None}]
          /\ \A c \in Callers \ {t} : market'[c] = market[c]
      BY <3>1, <2>3, <1>a DEF TypeOK, Moves, PlacesOf
    <3>5. IAt'
      BY <1>a, <2>3, <3>1, <3>4 DEF IAt, Connecting, flow
    <3>6. QED
      BY <2>1, <3>1, <3>3, <3>4, <3>5 DEF TypeOK, stopping, flow, PlacesOf
  <2>4. QED
    BY <2>2, <2>3 DEF Tasks
<1>6. CASE ReceiveEnds
  <2>1. /\ pc[Main] = "receive" /\ reading \notin open
        /\ UNCHANGED <<market, toReplay, troubles, excused, net, subscriptions, stopping>>
    BY <1>6 DEF ReceiveEnds
  <2>2. open \subseteq {ws} \ {None}
    BY <2>1 DEF TypeOK
  <2>3. CASE Stopped
    <3>1. Moves(Main, "done") /\ reading' = None /\ UNCHANGED <<state, attempts, looping>>
      BY <1>6, <2>3 DEF ReceiveEnds
    <3>2. pc' \in [Tasks -> PlacesOf] /\ \A c \in Callers : pc'[c] = pc[c]
      BY <3>1, <1>a DEF TypeOK, Moves, PlacesOf
    <3>3. QED
      BY <2>1, <2>2, <3>1, <3>2 DEF TypeOK, IAt, Connecting, net, stopping, PlacesOf
  <2>4. CASE ~Stopped
    <3>1. Reconnects(attempts)
      BY <1>6, <2>4 DEF ReceiveEnds
    <3>2. /\ state' \in States /\ attempts' \in 0..MaxAttempts
          /\ looping' = TRUE /\ reading' \in Sockets \cup {None}
          /\ pc' \in [Tasks -> PlacesOf]
          /\ pc'[Main] # "receive" => reading' = None
          /\ \A c \in Callers : pc'[c] = pc[c]
      BY <3>1, LoopHeadType DEF TypeOK
    <3>3. QED
      BY <2>1, <2>2, <3>2 DEF TypeOK, IAt, Connecting, net, stopping, PlacesOf
  <2>5. QED
    BY <2>3, <2>4
<1>7. CASE Wake
  <2>1. /\ pc[Main] = "asleep" /\ reading = None
        /\ UNCHANGED <<market, toReplay, troubles, ws, subscriptions, stopping>>
    BY <1>7 DEF Wake, IAt
  <2>2. CASE ws # None /\ Closes(ws) /\ Moves(Main, "closing") /\ UNCHANGED <<flow, excused>>
    <3>1. /\ open' \subseteq {ws, reading} \ {None} /\ leaked' \in BOOLEAN
          /\ served' \in [Sockets -> SUBSET Markets]
      BY <2>2, ClosesType
    <3>2. pc' \in [Tasks -> PlacesOf] /\ \A c \in Callers : pc'[c] = pc[c]
      BY <2>2, <1>a DEF TypeOK, Moves, PlacesOf
    <3>3. UNCHANGED <<state, attempts, looping, reading, excused>>
      BY <2>2 DEF flow
    <3>4. QED
      BY <2>1, <3>1, <3>2, <3>3 DEF TypeOK, IAt, Connecting, stopping, PlacesOf
  <2>3. CASE ws = None /\ Reenter /\ UNCHANGED <<open, leaked, served>>
    <3>1. /\ state' \in States /\ attempts' \in 0..MaxAttempts
          /\ looping' \in BOOLEAN /\ reading' = None
          /\ excused' \subseteq {"overlap", "late"}
          /\ pc' \in [Tasks -> PlacesOf] /\ \A c \in Callers : pc'[c] = pc[c]
      BY <2>1, <2>3, ReenterType
    <3>2. QED
      BY <2>1, <2>3, <3>1 DEF TypeOK, IAt, Connecting, stopping, PlacesOf
  <2>4. QED
    BY <1>7, <2>2, <2>3 DEF Wake
<1>8. CASE OldClosed
  <2>1. /\ pc[Main] = "closing" /\ reading = None /\ Assigns(None) /\ Reenter
        /\ UNCHANGED <<market, toReplay, troubles, subscriptions, stopping>>
    BY <1>8 DEF OldClosed, IAt
  <2>2. /\ ws' = None /\ leaked' \in BOOLEAN /\ open' \subseteq {None, reading} \ {None}
        /\ served' \in [Sockets -> SUBSET Markets]
    BY <2>1, AssignsType
  <2>3. /\ state' \in States /\ attempts' \in 0..MaxAttempts
        /\ looping' \in BOOLEAN /\ reading' = None
        /\ excused' \subseteq {"overlap", "late"}
        /\ pc' \in [Tasks -> PlacesOf] /\ \A c \in Callers : pc'[c] = pc[c]
    BY <2>1, ReenterType
  <2>4. QED
    BY <2>1, <2>2, <2>3 DEF TypeOK, IAt, Connecting, stopping, PlacesOf
<1>9. ASSUME NEW c \in Callers, NEW m \in Markets, Watch(c, m)
      PROVE  TypeOK' /\ IAt'
  <2>1. /\ pc[c] = "idle" /\ subscriptions' \subseteq Markets
        /\ UNCHANGED <<ws, open, leaked, toReplay, troubles, attempts, looping, reading, stopping>>
    BY <1>9 DEF Watch, TypeOK
  <2>2. CASE Up
    <3>1. Serves(served[ws] \cup {m}) /\ UNCHANGED <<pc, market, state, excused>>
      BY <1>9, <2>2 DEF Watch
    <3>2. served' \in [Sockets -> SUBSET Markets]
      <4>1. ws \in Sockets => served[ws] \cup {m} \in SUBSET Markets
        BY DEF TypeOK
      <4>2. QED
        BY <3>1, <4>1, ServesType
    <3>3. QED
      BY <2>1, <3>1, <3>2 DEF TypeOK, IAt, Connecting, stopping
  <2>3. CASE ~Up
    <3>1. /\ BeginsConnect(c, pc[Main] # "new" \/ \E t \in Callers : Connecting(t))
          /\ market' = [market EXCEPT ![c] = m] /\ UNCHANGED served
      BY <1>9, <2>3 DEF Watch
    <3>2. /\ pc' \in [Tasks -> PlacesOf] /\ \A u \in Tasks \ {c} : pc'[u] = pc[u]
          /\ state' \in States /\ excused' \subseteq {"overlap", "late"}
      BY <3>1, <1>a, BeginsConnectType
    <3>3. /\ market' \in [Callers -> Markets \cup {None}] /\ market'[c] = m
          /\ \A d \in Callers \ {c} : market'[d] = market[d]
      BY <3>1 DEF TypeOK
    <3>4. IAt'
      BY <1>a, <2>1, <3>2, <3>3 DEF IAt, Connecting
    <3>5. QED
      BY <2>1, <3>1, <3>2, <3>3, <3>4 DEF TypeOK, stopping, PlacesOf
  <2>4. QED
    BY <2>2, <2>3
<1>10. ASSUME NEW c \in Callers, NEW m \in Markets, Unwatch(c, m)
       PROVE  TypeOK' /\ IAt'
  <2>1. /\ subscriptions' \subseteq Markets
        /\ IF Up THEN Serves(served[ws] \ {m}) ELSE UNCHANGED served
        /\ UNCHANGED <<ws, open, leaked, pc, market, toReplay, troubles, excused, flow, stopping>>
    BY <1>10 DEF Unwatch, TypeOK
  <2>2. served' \in [Sockets -> SUBSET Markets]
    <3>1. ws \in Sockets => served[ws] \ {m} \in SUBSET Markets
      BY DEF TypeOK
    <3>2. CASE Up
      BY <2>1, <3>1, <3>2, ServesType
    <3>3. CASE ~Up
      BY <2>1, <3>3 DEF TypeOK
    <3>4. QED
      BY <3>2, <3>3
  <2>3. QED
    BY <2>1, <2>2 DEF TypeOK, IAt, Connecting, flow, stopping
<1>11. ASSUME NEW s \in Sockets, Lose(s)
       PROVE  TypeOK' /\ IAt'
  <2>1. /\ Trouble /\ Closes(s)
        /\ UNCHANGED <<pc, market, toReplay, excused, ws, subscriptions, flow, stopping>>
    BY <1>11 DEF Lose
  <2>2. /\ open' \subseteq {ws, reading} \ {None} /\ leaked' \in BOOLEAN
        /\ served' \in [Sockets -> SUBSET Markets]
    BY <2>1, ClosesType
  <2>3. QED
    BY <2>1, <2>2, <1>b DEF TypeOK, IAt, Connecting, flow, stopping
<1>12. CASE Disconnect
  <2>1. /\ state' = "closed" /\ auto_reconnect' = FALSE /\ Closes(ws)
        /\ closer' \in {"done", "closing"} /\ excused' \subseteq {"overlap", "late"}
        /\ UNCHANGED <<pc, market, toReplay, troubles, ws, subscriptions, attempts, looping, reading>>
    BY <1>12 DEF Disconnect, TypeOK, Excuse
  <2>2. /\ open' \subseteq {ws, reading} \ {None} /\ leaked' \in BOOLEAN
        /\ served' \in [Sockets -> SUBSET Markets]
    BY <2>1, ClosesType
  <2>3. QED
    BY <2>1, <2>2 DEF TypeOK, IAt, Connecting, States
<1>13. CASE DisconnectEnds
  <2>1. /\ closer' = "done" /\ Assigns(None)
        /\ UNCHANGED <<pc, market, toReplay, troubles, excused, subscriptions, flow, auto_reconnect>>
    BY <1>13 DEF DisconnectEnds
  <2>2. /\ ws' = None /\ leaked' \in BOOLEAN /\ open' \subseteq {None, reading} \ {None}
        /\ served' \in [Sockets -> SUBSET Markets]
    BY <2>1, AssignsType
  <2>3. QED
    BY <2>1, <2>2 DEF TypeOK, IAt, Connecting, flow
<1>14. CASE UNCHANGED vars
  BY <1>14 DEF TypeOK, IAt, Connecting, vars, net, flow, stopping
<1>15. QED
  BY <1>1, <1>2, <1>3, <1>4, <1>5, <1>6, <1>7, <1>8, <1>9, <1>10, <1>11, <1>12, <1>13, <1>14
     DEF Next, Receiver, Proceeds

\* In every reachable state the attempts are within their bound and what is open
\* is in use, for any number of callers, losses and refusals.
THEOREM TypeCorrect == Spec => []TypeOK
<1>1. QED
  BY InitTypeOK, StepTypeOK, PTL DEF Spec
-----------------------------------------------------------------------------
(* Replayed.  While a connection is up, a subscription it does not serve is  *)
(* still to be sent by a task in connect(): one that has just opened a       *)
(* connection has all of them before it.                                     *)

Pending(t, m) == pc[t] = "opened" \/ (pc[t] = "replaying" /\ m \in toReplay[t])

IReplay ==
    state = "connected" /\ Usable =>
       \A m \in subscriptions \ served[ws] : \E t \in Tasks : Pending(t, m)

\* A step on the same connection keeps it when whatever it leaves unserved was so
\* before, and is still pending where it was.
LEMMA CarryReplay ==
    ASSUME IReplay, ws' = ws,
           state' = "connected" => state = "connected",
           ws \in open' => ws \in open,
           state' = "connected" /\ ws \in open' =>
              \A m \in subscriptions' \ served'[ws] :
                 /\ m \in subscriptions \ served[ws]
                 /\ \A t \in Tasks : Pending(t, m) => Pending(t, m)'
    PROVE  IReplay'
<1> SUFFICES ASSUME state' = "connected", ws \in open', NEW m \in subscriptions' \ served'[ws]
             PROVE  \E t \in Tasks : Pending(t, m)'
  BY DEF IReplay, Usable
<1>1. \E t \in Tasks : Pending(t, m)
  BY DEF IReplay, Usable
<1>2. QED
  BY <1>1

LEMMA LoopHeadReplay ==
    ASSUME TypeOK, NEW st, NEW w, LoopHead(st, w, attempts) \/ Reconnects(attempts)
    PROVE  /\ state' = "connected" => st = "connected" \/ state = "connected"
           /\ \A t \in Callers : pc'[t] = pc[t]
<1>1. \E to : Moves(Main, to)
  BY DEF LoopHead, Reconnects
<1>2. \A t \in Callers : pc'[t] = pc[t]
  BY <1>1, SocketAssumption DEF TypeOK, Moves, Tasks
<1>3. QED
  BY <1>2 DEF LoopHead, Reconnects

LEMMA StepReplay == TypeOK /\ TypeOK' /\ IReplay /\ [Next]_vars => IReplay'
<1> SUFFICES ASSUME TypeOK, TypeOK', IReplay, [Next]_vars
             PROVE  IReplay'
  OBVIOUS
<1>a. /\ Main \in Tasks /\ Main \notin Callers /\ Callers \subseteq Tasks /\ None \notin Sockets
      /\ Tasks = Callers \cup {Main}
  BY SocketAssumption DEF Tasks
<1>b. ASSUME NEW t \in Tasks, ConnectFails(t)
      PROVE  state' # "connected"
  BY <1>b DEF ConnectFails, LoopHead, Reconnects
<1>1. CASE Start
  <2>1. /\ pc[Main] = "new" /\ UNCHANGED <<ws, open, served, subscriptions, toReplay>>
    BY <1>1 DEF Start, net
  <2>2. CASE Up
    <3>1. LoopHead(state, ws, attempts)
      BY <1>1, <2>2 DEF Start
    <3>2. /\ state' = "connected" => state = "connected"
          /\ \A t \in Callers : pc'[t] = pc[t]
      BY <3>1, LoopHeadReplay
    <3>3. \A t \in Tasks, m \in subscriptions : Pending(t, m) => Pending(t, m)'
      BY <1>a, <2>1, <3>2 DEF Pending
    <3>4. QED
      BY <2>1, <3>2, <3>3, CarryReplay
  <2>3. CASE ~Up
    BY <1>1, <2>3 DEF Start, BeginsConnect, IReplay
  <2>4. QED
    BY <2>2, <2>3
<1>2. ASSUME NEW t \in Tasks, Opened(t)
      PROVE  IReplay'
  <2>1. pc'[t] = "opened"
    BY <1>2 DEF Opened, Moves, TypeOK
  <2>2. QED
    BY <2>1 DEF IReplay, Pending
<1>3. ASSUME NEW t \in Tasks, Refused(t)
      PROVE  IReplay'
  BY <1>3, <1>b DEF Refused, IReplay
<1>4. ASSUME NEW t \in Tasks, Resubscribe(t)
      PROVE  IReplay'
  <2>1. CASE ~Usable
    <3>1. ConnectFails(t)
      BY <1>4, <2>1 DEF Resubscribe
    <3>2. QED
      BY <3>1, <1>b DEF IReplay
  <2>2. CASE Usable
    <3>1. PICK n \in Left(t) :
            /\ served' = [served EXCEPT ![ws] = served[ws] \cup {n}]
            /\ Moves(t, "replaying") /\ toReplay' = [toReplay EXCEPT ![t] = Left(t) \ {n}]
            /\ state' = state
      BY <1>4, <2>2 DEF Resubscribe, Serves, flow
    <3>2. UNCHANGED <<ws, open, subscriptions>>
      BY <1>4 DEF Resubscribe
    <3>3. served'[ws] = served[ws] \cup {n}
      BY <2>2, <3>1, <1>a DEF TypeOK, Usable
    <3>4. /\ pc'[t] = "replaying" /\ toReplay'[t] = Left(t) \ {n}
          /\ \A u \in Tasks \ {t} : pc'[u] = pc[u] /\ toReplay'[u] = toReplay[u]
      BY <3>1 DEF TypeOK, Moves
    <3>5. \A m \in subscriptions' \ served'[ws] :
             /\ m \in subscriptions \ served[ws]
             /\ \A u \in Tasks : Pending(u, m) => Pending(u, m)'
      BY <3>2, <3>3, <3>4 DEF Pending, Left
    <3>6. QED
      BY <3>1, <3>2, <3>5, CarryReplay
  <2>3. QED
    BY <2>1, <2>2
<1>5. ASSUME NEW t \in Tasks, Connected(t)
      PROVE  IReplay'
  <2>1. /\ pc[t] \in {"opened", "replaying"} /\ Left(t) = {}
        /\ UNCHANGED <<ws, open, subscriptions, toReplay>>
    BY <1>5 DEF Connected
  <2>2. \A m \in subscriptions : ~Pending(t, m)
    BY <2>1 DEF Pending, Left
  <2>3. CASE t = Main
    <3>1. LoopHead(state, ws, attempts) /\ served' = served
      BY <1>5, <1>a, <2>3 DEF Connected
    <3>2. /\ state' = "connected" => state = "connected"
          /\ \A c \in Callers : pc'[c] = pc[c]
      BY <3>1, LoopHeadReplay
    <3>3. \A u \in Tasks, m \in subscriptions : Pending(u, m) => Pending(u, m)'
      BY <1>a, <2>1, <2>2, <2>3, <3>2 DEF Pending
    <3>4. QED
      BY <2>1, <3>1, <3>2, <3>3, CarryReplay
  <2>4. CASE t \in Callers
    <3>1. /\ Serves(served[ws] \cup {market[t]}) /\ Moves(t, "idle") /\ state' = state
      BY <1>5, <1>a, <2>4 DEF Connected, flow
    <3>2. \A u \in Tasks \ {t} : pc'[u] = pc[u]
      BY <3>1 DEF TypeOK, Moves
    <3>3. ws \in open => served[ws] \subseteq served'[ws]
      BY <3>1, <1>a DEF TypeOK, Serves, Usable
    <3>4. \A u \in Tasks, m \in subscriptions : Pending(u, m) => Pending(u, m)'
      BY <2>1, <2>2, <3>2 DEF Pending
    <3>5. QED
      BY <2>1, <3>1, <3>3, <3>4, CarryReplay
  <2>5. QED
    BY <1>a, <2>3, <2>4
<1>6. CASE ReceiveEnds
  <2>1. pc[Main] = "receive" /\ UNCHANGED <<ws, open, served, subscriptions, toReplay>>
    BY <1>6 DEF ReceiveEnds, net
  <2>2. /\ state' = "connected" => state = "connected"
        /\ \A c \in Callers : pc'[c] = pc[c]
    BY <1>6, <1>a DEF ReceiveEnds, Reconnects, Moves, TypeOK
  <2>3. \A u \in Tasks, m \in subscriptions : Pending(u, m) => Pending(u, m)'
    BY <1>a, <2>1, <2>2 DEF Pending
  <2>4. QED
    BY <2>1, <2>2, <2>3, CarryReplay
<1>7. CASE Wake
  <2>1. CASE ws # None /\ Closes(ws)
    <3>1. ws' = ws /\ ws \notin open'
      BY <1>7, <2>1 DEF Wake, Closes
    <3>2. QED
      BY <3>1 DEF IReplay, Usable
  <2>2. CASE ws = None
    <3>1. ws' = None
      BY <1>7, <2>2 DEF Wake
    <3>2. QED
      BY <3>1, <1>a DEF IReplay, Usable, TypeOK
  <2>3. QED
    BY <1>7, <2>1, <2>2 DEF Wake
<1>8. CASE OldClosed \/ DisconnectEnds
  <2>1. ws' = None
    BY <1>8 DEF OldClosed, DisconnectEnds, Assigns
  <2>2. QED
    BY <2>1, <1>a DEF IReplay, Usable, TypeOK
<1>9. ASSUME NEW c \in Callers, NEW m \in Markets, Watch(c, m)
      PROVE  IReplay'
  <2>1. CASE Up
    <3>1. /\ Serves(served[ws] \cup {m}) /\ subscriptions' = subscriptions \cup {m}
          /\ UNCHANGED <<pc, state, ws, open, toReplay>>
      BY <1>9, <2>1 DEF Watch
    <3>2. ws \in open => served'[ws] = served[ws] \cup {m}
      BY <3>1, <1>a DEF TypeOK, Serves, Usable
    <3>3. QED
      BY <3>1, <3>2, CarryReplay DEF Pending
  <2>2. CASE ~Up
    BY <1>9, <2>2 DEF Watch, BeginsConnect, IReplay
  <2>3. QED
    BY <2>1, <2>2
<1>10. ASSUME NEW c \in Callers, NEW m \in Markets, Unwatch(c, m)
       PROVE  IReplay'
  <2>1. /\ IF Up THEN Serves(served[ws] \ {m}) ELSE UNCHANGED served
        /\ subscriptions' = subscriptions \ {m}
        /\ UNCHANGED <<pc, state, ws, open, toReplay>>
    BY <1>10 DEF Unwatch, flow
  <2>2. ws \in open => served[ws] \ {m} \subseteq served'[ws]
    BY <2>1, <1>a DEF TypeOK, Serves, Usable
  <2>3. QED
    BY <2>1, <2>2, CarryReplay DEF Pending
<1>11. ASSUME NEW s \in Sockets, Lose(s)
       PROVE  IReplay'
  <2>1. Closes(s) /\ UNCHANGED <<pc, state, ws, subscriptions, toReplay>>
    BY <1>11 DEF Lose, flow
  <2>2. ws \in open' => ws \in open /\ served'[ws] = served[ws]
    BY <2>1, <1>a DEF TypeOK, Closes
  <2>3. QED
    BY <2>1, <2>2, CarryReplay DEF Pending
<1>12. CASE Disconnect
  BY <1>12 DEF Disconnect, IReplay
<1>13. CASE UNCHANGED vars
  BY <1>13 DEF IReplay, Usable, Pending, vars, net, flow
<1>14. QED
  BY <1>1, <1>2, <1>3, <1>4, <1>5, <1>6, <1>7, <1>8, <1>9, <1>10, <1>11, <1>12, <1>13
     DEF Next, Receiver, Proceeds

\* Whatever callers, losses, refusals and reconnections come between the sends of
\* a replay, a connection that is up with no task in connect() serves every
\* subscription.
THEOREM ReplayMissesNothing == Spec => []Replayed
<1>1. Init => IReplay
  BY DEF Init, IReplay
<1>2. IReplay => Replayed
  BY DEF IReplay, Replayed, Pending, Connecting
<1>3. QED
  BY <1>1, <1>2, InitTypeOK, StepTypeOK, StepReplay, PTL DEF Spec
-----------------------------------------------------------------------------
(* NoRetryAfterStop needs no more than the bound of the attempts.            *)

LEMMA StepNoRetry == TypeOK /\ [Next]_vars => (~auto_reconnect => attempts' <= attempts)
<1> SUFFICES ASSUME TypeOK, [Next]_vars, ~auto_reconnect
             PROVE  attempts' <= attempts
  OBVIOUS
<1>1. attempts \in Nat
  BY SocketAssumption DEF TypeOK
<1>2. ASSUME NEW st, NEW w, LoopHead(st, w, attempts)
      PROVE  attempts' = attempts
  BY <1>2 DEF LoopHead
<1>3. ASSUME NEW t \in Tasks, ConnectFails(t)
      PROVE  attempts' = attempts
  BY <1>2, <1>3 DEF ConnectFails
<1>4. CASE Receiver
  <2>1. CASE Start
    <3>1. LoopHead(state, ws, attempts) \/ UNCHANGED <<attempts, looping, reading>>
      BY <2>1 DEF Start
    <3>2. QED
      BY <1>1, <1>2, <3>1
  <2>2. CASE ReceiveEnds
    BY <2>2, <1>1 DEF ReceiveEnds, Stopped
  <2>3. ASSUME Reenter
        PROVE  attempts' = attempts
    BY <1>2, <2>3 DEF Reenter
  <2>4. CASE Wake \/ OldClosed
    <3>1. Reenter \/ UNCHANGED flow
      BY <2>4 DEF Wake, OldClosed
    <3>2. QED
      BY <2>3, <3>1, <1>1 DEF flow
  <2>5. QED
    BY <1>4, <2>1, <2>2, <2>4 DEF Receiver
<1>5. ASSUME NEW t \in Tasks, Proceeds(t)
      PROVE  attempts' <= attempts
  <2>1. CASE Opened(t)
    BY <2>1, <1>1 DEF Opened
  <2>2. CASE Refused(t) \/ Resubscribe(t)
    <3>1. ConnectFails(t) \/ UNCHANGED flow
      BY <2>2 DEF Refused, Resubscribe
    <3>2. QED
      BY <3>1, <1>1, <1>3 DEF flow
  <2>3. CASE Connected(t)
    BY <2>3, <1>1, <1>2 DEF Connected, flow
  <2>4. QED
    BY <1>5, <2>1, <2>2, <2>3 DEF Proceeds
<1>6. ASSUME ~Receiver, \A t \in Tasks : ~Proceeds(t)
      PROVE  attempts' = attempts
  BY <1>6 DEF Next, Disconnect, DisconnectEnds, Watch, Unwatch, Lose, flow, vars
<1>7. QED
  BY <1>1, <1>4, <1>5, <1>6

\* The receive loop begins no attempt once auto_reconnect is cleared, for any
\* bound of the attempts and wherever disconnect() meets it.
THEOREM StoppedStaysStopped == Spec => NoRetryAfterStop
<1>1. TypeOK /\ [Next]_vars => [~auto_reconnect => attempts' <= attempts]_vars
  BY StepNoRetry
<1>2. QED
  BY <1>1, TypeCorrect, PTL DEF Spec, NoRetryAfterStop
-----------------------------------------------------------------------------
(* SoleConnection and DisconnectCloses.  While nothing has excused a second  *)
(* connection, the tasks take turns in connect(), and what is open is self.ws*)
(* of a state that says connected.                                           *)

OneOpen ==
    /\ ~leaked /\ open \subseteq {ws}
    /\ state # "connected" => open = {}
    /\ state = "connected" => ws # None

ReadsIt == pc[Main] = "receive" /\ closer # "done" => reading = ws

StaysClosed ==
    closer # "idle" =>
       /\ state = "closed" /\ pc[Main] \notin {"asleep", "closing"}
       /\ \A t \in Tasks : ~Connecting(t)

TakeTurns ==
    /\ \A t \in Tasks : pc[t] = "opening" =>
          state = "connecting" /\ \A u \in Tasks \ {t} : ~Connecting(u)
    /\ \A c \in Callers : pc[c] = "opening" => pc[Main] = "new"
    /\ pc[Main] \in {"opened", "replaying"} =>
          state = "connected" /\ \A c \in Callers : ~Connecting(c)
    /\ \A c, d \in Callers : Connecting(c) /\ Connecting(d) => c = d
    /\ pc[Main] \in {"asleep", "closing"} => state # "connected"

Alone == OneOpen /\ ReadsIt /\ StaysClosed /\ TakeTurns

ISole == excused = {} => Alone

\* Without a connection the head of the loop ends in a sleep or ends the task.
LEMMA LoopHeadWithout ==
    ASSUME TypeOK, NEW w, LoopHead("disconnected", w, attempts) \/ Reconnects(attempts)
    PROVE  /\ state' # "connected" /\ pc'[Main] \in {"asleep", "done"}
           /\ \A c \in Callers : pc'[c] = pc[c]
<1>1. state' # "connected" /\ \E to \in {"asleep", "done"} : Moves(Main, to)
  BY DEF LoopHead, Reconnects
<1>2. QED
  BY <1>1, SocketAssumption DEF TypeOK, Moves, Tasks

\* With one it reads it.
LEMMA LoopHeadWith ==
    ASSUME TypeOK, state = "connected", ws # None, LoopHead(state, ws, attempts)
    PROVE  /\ state' = "connected" /\ pc'[Main] = "receive" /\ reading' = ws
           /\ \A c \in Callers : pc'[c] = pc[c]
<1>1. state' = "connected" /\ reading' = ws /\ Moves(Main, "receive")
  BY DEF LoopHead
<1>2. QED
  BY <1>1, SocketAssumption DEF TypeOK, Moves, Tasks

\* connect() fails: the task is out of it, and nothing may be open.
LEMMA ConnectFailsSole ==
    ASSUME TypeOK, Alone, NEW t \in Tasks, Connecting(t), ConnectFails(t), open = {},
           UNCHANGED <<ws, open, leaked, closer>>
    PROVE  Alone'
<1>a. Main \in Tasks /\ Main \notin Callers /\ Tasks = Callers \cup {Main}
  BY SocketAssumption DEF Tasks
<1>1. closer = "idle"
  BY DEF Alone, StaysClosed, TypeOK
<1>2. /\ state' # "connected" /\ ~Connecting(t)' /\ pc'[t] \in {"idle", "failed", "asleep", "done"}
      /\ \A u \in Tasks \ {t} : pc'[u] = pc[u]
  <2>1. CASE t = Main /\ looping
    <3>1. LoopHead("disconnected", ws, attempts)
      BY <1>a, <2>1 DEF ConnectFails
    <3>2. QED
      BY <1>a, <2>1, <3>1, LoopHeadWithout DEF Connecting
  <2>2. CASE ~(t = Main /\ looping)
    <3>1. state' = "disconnected" /\ \E to \in {"idle", "failed"} : Moves(t, to)
      BY <2>2 DEF ConnectFails
    <3>2. QED
      BY <3>1 DEF TypeOK, Moves, Connecting
  <2>3. QED
    BY <2>1, <2>2
<1>3. OneOpen'
  BY <1>2 DEF Alone, OneOpen
<1>4. StaysClosed' /\ ReadsIt'
  <2>1. closer' = "idle"
    BY <1>1
  <2>2. pc'[Main] = "receive" => pc[Main] = "receive" /\ t # Main
    BY <1>2, <1>a
  <2>3. pc[Main] = "receive" => UNCHANGED reading
    BY <1>a DEF ConnectFails, Connecting
  <2>4. QED
    BY <1>1, <2>1, <2>2, <2>3 DEF Alone, ReadsIt, StaysClosed
<1>5. TakeTurns'
  <2>1. \A u \in Tasks : Connecting(u)' => u # t /\ Connecting(u) /\ pc'[u] = pc[u]
    BY <1>2 DEF Connecting
  <2>2. \A u \in Tasks : pc'[u] # "opening"
    BY <1>2 DEF Alone, TakeTurns
  <2>3. pc'[Main] \notin {"opened", "replaying"}
    BY <1>a, <1>2, <2>1 DEF Alone, TakeTurns, Connecting
  <2>4. QED
    BY <1>a, <1>2, <2>1, <2>2, <2>3 DEF Alone, TakeTurns
<1>6. QED
  BY <1>3, <1>4, <1>5 DEF Alone

\* A task begins to connect, and nothing excuses it.
LEMMA BeginsConnectSole ==
    ASSUME TypeOK, Alone, NEW t \in Tasks, NEW b \in BOOLEAN, BeginsConnect(t, b),
           excused' = {}, ~Up, ~b => \A u \in Tasks \ {t} : ~Connecting(u),
           t \in Callers /\ ~b => pc[Main] = "new",
           leaked' = leaked, open' = open, closer' = closer
    PROVE  Alone'
<1>a. Main \in Tasks /\ Main \notin Callers /\ Tasks = Callers \cup {Main}
  BY SocketAssumption DEF Tasks
<1>1. ~b /\ closer = "idle"
  BY DEF BeginsConnect, Excuse
<1>2. /\ state' = "connecting" /\ pc'[t] = "opening"
      /\ \A u \in Tasks \ {t} : pc'[u] = pc[u]
  BY DEF BeginsConnect, Moves, TypeOK
<1>3. \A u \in Tasks \ {t} : ~Connecting(u) /\ ~Connecting(u)'
  BY <1>1, <1>2 DEF Connecting
<1>4. OneOpen'
  BY <1>2 DEF Alone, OneOpen, Up
<1>5. t \in Callers => pc[Main] = "new" /\ pc'[Main] = "new"
  BY <1>a, <1>1, <1>2
<1>6. pc'[Main] \in {"new", "opening"}
  BY <1>a, <1>2, <1>5
<1>7. StaysClosed' /\ ReadsIt'
  BY <1>1, <1>6 DEF StaysClosed, ReadsIt
<1>8. TakeTurns'
  <2>1. \A u \in Tasks : pc'[u] = "opening" => u = t
    BY <1>3 DEF Connecting
  <2>2. \A u \in Tasks : Connecting(u)' => u = t
    BY <1>3
  <2>3. QED
    BY <1>a, <1>2, <1>3, <1>5, <1>6, <2>1, <2>2 DEF TakeTurns
<1>9. QED
  BY <1>4, <1>7, <1>8 DEF Alone

\* A step that leaves every task, the state and the sockets in use where they were.
LEMMA SameTasksSole ==
    ASSUME Alone, UNCHANGED <<pc, state, ws, leaked, reading, closer>>, open' \subseteq open
    PROVE  Alone'
BY DEF Alone, OneOpen, ReadsIt, StaysClosed, TakeTurns, Connecting
LEMMA AssignsNone ==
    ASSUME TypeOK, open = {}, Assigns(None)
    PROVE  open' = open /\ leaked' = leaked
<1>1. leaked' = (leaked \/ {} # {}) /\ open' = {}
  BY DEF Assigns
<1>2. QED
  BY <1>1 DEF TypeOK

LEMMA StepSole == TypeOK /\ IAt /\ ISole /\ [Next]_vars => ISole'
<1> SUFFICES ASSUME TypeOK, IAt, ISole, [Next]_vars
             PROVE  ISole'
  OBVIOUS
<1>b. excused \subseteq excused'
  <2>1. ASSUME NEW t, NEW b, BeginsConnect(t, b)
        PROVE  excused \subseteq excused'
    BY <2>1 DEF BeginsConnect
  <2>2. CASE Receiver
    <3>1. CASE Start
      BY <2>1, <3>1 DEF Start
    <3>2. CASE ReceiveEnds
      BY <3>2 DEF ReceiveEnds
    <3>3. ASSUME Reenter
          PROVE  excused \subseteq excused'
      BY <2>1, <3>3 DEF Reenter
    <3>4. CASE Wake \/ OldClosed
      BY <3>3, <3>4 DEF Wake, OldClosed
    <3>5. QED
      BY <2>2, <3>1, <3>2, <3>4 DEF Receiver
  <2>3. ASSUME NEW t \in Tasks, Proceeds(t)
        PROVE  excused \subseteq excused'
    BY <2>3 DEF Proceeds, Opened, Refused, Resubscribe, Connected
  <2>4. CASE Disconnect \/ DisconnectEnds
    BY <2>4 DEF Disconnect, DisconnectEnds
  <2>5. ASSUME NEW c \in Callers, NEW m \in Markets, Watch(c, m) \/ Unwatch(c, m)
        PROVE  excused \subseteq excused'
    BY <2>1, <2>5 DEF Watch, Unwatch
  <2>6. ASSUME NEW s \in Sockets, Lose(s)
        PROVE  excused \subseteq excused'
    BY <2>6 DEF Lose
  <2>7. UNCHANGED vars => excused \subseteq excused'
    BY DEF vars
  <2>8. CASE Next
    BY <2>2, <2>3, <2>4, <2>5, <2>6, <2>8 DEF Next
  <2>9. QED
    BY <2>7, <2>8
<1> SUFFICES ASSUME Alone, excused' = {}
             PROVE  Alone'
  BY <1>b DEF ISole
<1>a. /\ Main \in Tasks /\ Main \notin Callers /\ Callers \subseteq Tasks /\ None \notin Sockets
      /\ Tasks = Callers \cup {Main}
  BY SocketAssumption DEF Tasks
<1>1. CASE Start
  <2>1. pc[Main] = "new" /\ UNCHANGED <<ws, open, leaked, closer>>
    BY <1>1 DEF Start, net, stopping
  <2>2. CASE Up
    <3>1. LoopHead(state, ws, attempts) /\ state = "connected" /\ ws # None
      BY <1>1, <2>2 DEF Start, Up, Alone, OneOpen
    <3>2. /\ state' = "connected" /\ pc'[Main] = "receive" /\ reading' = ws
          /\ \A c \in Callers : pc'[c] = pc[c]
      BY <3>1, LoopHeadWith
    <3>3. QED
      BY <1>a, <2>1, <3>1, <3>2
         DEF Alone, OneOpen, ReadsIt, StaysClosed, TakeTurns, Connecting
  <2>3. CASE ~Up
    <3>1. BeginsConnect(Main, \E c \in Callers : Connecting(c))
      BY <1>1, <2>3 DEF Start
    <3>2. QED
      BY <1>a, <2>1, <2>3, <3>1, BeginsConnectSole
  <2>4. QED
    BY <2>2, <2>3
<1>2. ASSUME NEW t \in Tasks, Opened(t)
      PROVE  Alone'
  <2>1. PICK s \in Sockets : Assigns(s)
    <3>1. ws \in Sockets \cup {None} /\ reading \in Sockets \cup {None}
      BY DEF TypeOK
    <3>2. Sockets \ {ws, reading} # {}
      BY <3>1, SocketAssumption
    <3>3. QED
      BY <1>2, <3>2 DEF Opened
  <2>2. /\ pc[t] = "opening" /\ pc'[t] = "opened" /\ state' = "connected"
        /\ \A u \in Tasks \ {t} : pc'[u] = pc[u]
        /\ UNCHANGED <<reading, closer>>
    BY <1>2 DEF Opened, Moves, TypeOK, stopping
  <2>3. open = {} /\ closer = "idle" /\ \A u \in Tasks \ {t} : ~Connecting(u)
    BY <2>2 DEF Alone, OneOpen, StaysClosed, TakeTurns, Connecting
  <2>4. OneOpen'
    BY <1>a, <2>1, <2>2, <2>3 DEF Alone, OneOpen, Assigns
  <2>5. pc'[Main] \in {"opened", "new"} /\ (pc'[Main] = "new" => t \in Callers)
    BY <1>a, <2>2 DEF Alone, TakeTurns
  <2>6. StaysClosed' /\ ReadsIt'
    BY <2>2, <2>3, <2>5 DEF StaysClosed, ReadsIt
  <2>7. \A u \in Tasks : pc'[u] # "opening" /\ (Connecting(u)' => u = t)
    BY <2>2, <2>3 DEF Connecting
  <2>8. TakeTurns'
    <3>1. pc'[Main] = "opened" => \A c \in Callers : ~Connecting(c)'
      BY <1>a, <2>7 DEF Connecting
    <3>2. QED
      BY <1>a, <2>2, <2>5, <2>7, <3>1 DEF TakeTurns
  <2>9. QED
    BY <2>4, <2>6, <2>8 DEF Alone
<1>3. ASSUME NEW t \in Tasks, Refused(t)
      PROVE  Alone'
  <2>1. /\ pc[t] = "opening" /\ ConnectFails(t)
        /\ UNCHANGED <<ws, open, leaked, closer>>
    BY <1>3 DEF Refused, net, stopping
  <2>2. open = {}
    BY <2>1 DEF Alone, OneOpen, TakeTurns
  <2>3. QED
    BY <2>1, <2>2, ConnectFailsSole DEF Connecting
<1>4. ASSUME NEW t \in Tasks, Resubscribe(t)
      PROVE  Alone'
  <2>1. /\ pc[t] \in {"opened", "replaying"} /\ UNCHANGED <<ws, open, leaked, closer>>
    BY <1>4 DEF Resubscribe, stopping
  <2>2. CASE ~Usable
    <3>1. ConnectFails(t)
      BY <1>4, <2>2 DEF Resubscribe
    <3>2. open = {}
      BY <2>2 DEF Usable, Alone, OneOpen
    <3>3. QED
      BY <2>1, <3>1, <3>2, ConnectFailsSole DEF Connecting
  <2>3. CASE Usable
    <3>1. Moves(t, "replaying") /\ UNCHANGED <<state, reading>>
      BY <1>4, <2>3 DEF Resubscribe, flow
    <3>2. pc'[t] = "replaying" /\ \A u \in Tasks \ {t} : pc'[u] = pc[u]
      BY <3>1 DEF TypeOK, Moves
    <3>3. /\ \A u \in Tasks : Connecting(u)' = Connecting(u)
          /\ \A u \in Tasks : pc'[u] # pc[u] => pc'[u] = "replaying" /\ pc[u] = "opened"
      BY <2>1, <3>2 DEF Connecting
    <3>4. OneOpen' /\ ReadsIt' /\ StaysClosed'
      BY <1>a, <2>1, <3>1, <3>3 DEF Alone, OneOpen, ReadsIt, StaysClosed
    <3>5. TakeTurns'
      BY <1>a, <3>1, <3>3 DEF Alone, TakeTurns
    <3>6. QED
      BY <3>4, <3>5 DEF Alone
  <2>4. QED
    BY <2>2, <2>3
<1>5. ASSUME NEW t \in Tasks, Connected(t)
      PROVE  Alone'
  <2>1. pc[t] \in {"opened", "replaying"} /\ UNCHANGED <<ws, open, leaked, closer>>
    BY <1>5 DEF Connected, stopping
  <2>2. CASE t = Main
    <3>1. LoopHead(state, ws, attempts) /\ state = "connected" /\ ws # None
      BY <1>5, <1>a, <2>1, <2>2 DEF Connected, Alone, OneOpen, TakeTurns
    <3>2. /\ state' = "connected" /\ pc'[Main] = "receive" /\ reading' = ws
          /\ \A c \in Callers : pc'[c] = pc[c]
      BY <3>1, LoopHeadWith
    <3>3. QED
      BY <1>a, <2>1, <2>2, <3>1, <3>2
         DEF Alone, OneOpen, ReadsIt, StaysClosed, TakeTurns, Connecting
  <2>3. CASE t \in Callers
    <3>1. Moves(t, "idle") /\ UNCHANGED <<state, reading>>
      BY <1>5, <1>a, <2>3 DEF Connected, flow
    <3>2. pc'[t] = "idle" /\ \A u \in Tasks \ {t} : pc'[u] = pc[u]
      BY <3>1 DEF TypeOK, Moves
    <3>3. pc'[Main] = pc[Main] /\ \A u \in Tasks : Connecting(u)' => Connecting(u)
      BY <1>a, <2>3, <3>2 DEF Connecting
    <3>4. \A u \in Tasks : pc'[u] = "opening" => pc[u] = "opening"
      BY <3>2
    <3>5. QED
      BY <1>a, <2>1, <3>1, <3>3, <3>4 DEF Alone, OneOpen, ReadsIt, StaysClosed, TakeTurns
  <2>4. QED
    BY <1>a, <2>2, <2>3
<1>6. CASE ReceiveEnds
  <2>1. /\ pc[Main] = "receive" /\ reading \notin open
        /\ UNCHANGED <<ws, open, leaked, closer>>
    BY <1>6 DEF ReceiveEnds, net, stopping
  <2>2. \A c \in Callers : pc[c] # "opening"
    BY <2>1 DEF Alone, TakeTurns
  <2>3. CASE Stopped
    <3>1. Moves(Main, "done") /\ state' = state
      BY <1>6, <2>3 DEF ReceiveEnds
    <3>2. pc'[Main] = "done" /\ \A c \in Callers : pc'[c] = pc[c]
      BY <3>1, <1>a DEF TypeOK, Moves
    <3>3. QED
      BY <1>a, <2>1, <3>1, <3>2
         DEF Alone, OneOpen, ReadsIt, StaysClosed, TakeTurns, Connecting
  <2>4. CASE ~Stopped
    <3>1. Reconnects(attempts) /\ state # "closed"
      BY <1>6, <2>4 DEF ReceiveEnds, Stopped
    <3>2. /\ state' # "connected" /\ pc'[Main] \in {"asleep", "done"}
          /\ \A c \in Callers : pc'[c] = pc[c]
      BY <3>1, LoopHeadWithout
    <3>3. closer = "idle" /\ open = {}
      BY <2>1, <3>1 DEF Alone, OneOpen, ReadsIt, StaysClosed
    <3>4. QED
      BY <1>a, <2>1, <2>2, <3>2, <3>3
         DEF Alone, OneOpen, ReadsIt, StaysClosed, TakeTurns, Connecting
  <2>5. QED
    BY <2>3, <2>4
<1>7. ASSUME Reenter, pc[Main] \in {"asleep", "closing"},
             leaked' = leaked, open' = open, closer' = closer
      PROVE  Alone'
  <2>1. ~Up
    BY <1>7 DEF Up, Alone, TakeTurns
  <2>2. BeginsConnect(Main, \E c \in Callers : Connecting(c))
    BY <1>7, <2>1 DEF Reenter
  <2>3. QED
    BY <1>7, <1>a, <2>1, <2>2, BeginsConnectSole
<1>8. CASE Wake
  <2>1. CASE ws # None /\ Closes(ws) /\ Moves(Main, "closing") /\ UNCHANGED <<flow, excused>>
    <3>1. /\ pc[Main] = "asleep" /\ pc'[Main] = "closing"
          /\ \A c \in Callers : pc'[c] = pc[c]
          /\ UNCHANGED <<ws, state, leaked, closer>> /\ open' \subseteq open
      BY <1>8, <1>a, <2>1 DEF Wake, TypeOK, Moves, Closes, flow, stopping
    <3>2. QED
      BY <1>a, <3>1 DEF Alone, OneOpen, ReadsIt, StaysClosed, TakeTurns, Connecting
  <2>2. QED
    BY <1>7, <1>8, <2>1 DEF Wake, stopping
<1>9. CASE OldClosed
  <2>1. open = {}
    BY <1>9 DEF OldClosed, Alone, OneOpen, TakeTurns
  <2>2. leaked' = leaked /\ open' = open /\ closer' = closer
    BY <1>9, <2>1, AssignsNone DEF OldClosed, stopping
  <2>3. QED
    BY <1>7, <1>9, <2>2 DEF OldClosed
<1>10. ASSUME NEW c \in Callers, NEW m \in Markets, Watch(c, m)
       PROVE  Alone'
  <2>1. UNCHANGED <<ws, open, leaked, reading, closer>>
    BY <1>10 DEF Watch, stopping
  <2>2. CASE Up
    BY <1>10, <2>1, <2>2, SameTasksSole DEF Watch
  <2>3. CASE ~Up
    <3>1. /\ BeginsConnect(c, pc[Main] # "new" \/ \E t \in Callers : Connecting(t))
          /\ pc[c] = "idle"
      BY <1>10, <2>3 DEF Watch
    <3>2. ~(pc[Main] # "new" \/ \E t \in Callers : Connecting(t)) =>
             pc[Main] = "new" /\ \A u \in Tasks \ {c} : ~Connecting(u)
      BY <1>a DEF Connecting
    <3>3. QED
      BY <1>a, <2>1, <2>3, <3>1, <3>2, BeginsConnectSole
  <2>4. QED
    BY <2>2, <2>3
<1>11. ASSUME NEW c \in Callers, NEW m \in Markets, Unwatch(c, m)
       PROVE  Alone'
  BY <1>11, SameTasksSole DEF Unwatch, flow, stopping
<1>12. ASSUME NEW s \in Sockets, Lose(s)
       PROVE  Alone'
  BY <1>12, SameTasksSole DEF Lose, Closes, flow, stopping
<1>13. CASE Disconnect
  <2>1. /\ state' = "closed" /\ open' = open \ {ws} /\ closer' \in {"closing", "done"}
        /\ pc[Main] \notin {"asleep", "closing"} /\ \A t \in Tasks : ~Connecting(t)
        /\ closer = "idle" /\ UNCHANGED <<pc, ws, leaked, reading>>
    BY <1>13 DEF Disconnect, Closes, Excuse
  <2>2. open' = {}
    BY <2>1 DEF Alone, OneOpen
  <2>3. QED
    BY <1>a, <2>1, <2>2 DEF Alone, OneOpen, ReadsIt, StaysClosed, TakeTurns, Connecting
<1>14. CASE DisconnectEnds
  <2>1. /\ closer = "closing" /\ closer' = "done" /\ Assigns(None)
        /\ UNCHANGED <<pc, state, reading>>
    BY <1>14 DEF DisconnectEnds, flow
  <2>2. open = {} /\ state = "closed"
    BY <2>1 DEF Alone, OneOpen, StaysClosed
  <2>3. open' = {} /\ leaked' = leaked
    BY <2>1, <2>2, AssignsNone
  <2>4. QED
    BY <2>1, <2>2, <2>3 DEF Alone, OneOpen, ReadsIt, StaysClosed, TakeTurns, Connecting
<1>15. CASE UNCHANGED vars
  BY <1>15, SameTasksSole DEF vars, net, flow, stopping
<1>16. QED
  BY <1>1, <1>2, <1>3, <1>4, <1>5, <1>6, <1>8, <1>9, <1>10, <1>11, <1>12, <1>13, <1>14, <1>15
     DEF Next, Receiver, Proceeds

LEMMA InitSole == Init => ISole
BY SocketAssumption
   DEF Init, ISole, Alone, OneOpen, ReadsIt, StaysClosed, TakeTurns, Connecting, Tasks

\* For any number of callers, sockets and losses: until a caller has to connect
\* beside the receive loop, or disconnect() meets a reconnection, at most one
\* connection is open and the loop reads it.
THEOREM OneConnection == Spec => []SoleConnection
<1>1. ISole => SoleConnection
  BY DEF ISole, SoleConnection, Alone, OneOpen, ReadsIt
<1>2. QED
  BY <1>1, InitTypeOK, StepTypeOK, InitSole, StepSole, PTL DEF Spec

\* With the same exceptions, a disconnect() that has returned leaves nothing open.
THEOREM DisconnectIsFinal == Spec => []DisconnectCloses
<1>1. ISole => DisconnectCloses
  BY DEF ISole, DisconnectCloses, Alone, OneOpen, StaysClosed
<1>2. QED
  BY <1>1, InitTypeOK, StepTypeOK, InitSole, StepSole, PTL DEF Spec
=============================================================================
