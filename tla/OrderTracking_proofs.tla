------------------------ MODULE OrderTracking_proofs ------------------------
(***************************************************************************)
(* Proofs about OrderTracking, for any clients, orders, sizes and number of*)
(* losses and repetitions.                                                 *)
(***************************************************************************)
EXTENDS OrderTracking, TLAPS

Places == {"none", "head", "opening", "opened", "reading", "completing", "asleep", "ended"}

\* What TypeOK needs: no socket holds more than was traded, and stop() finds a loop
\* when there is a socket.
IAt ==
    /\ \A t \in Clients, o \in Orders : inbox[t][o] <= matched[o] + repeated[o]
    /\ \A t \in Clients : pc[t] # "none" => loop # None
    /\ ws # None => loop # None

LEMMA UnitsAre == Units \subseteq Nat /\ 0 \in Units /\ 1..Size + MaxRepeats \subseteq Nat
BY TrackingAssumption DEF Units

\* What a thread does that goes to the head of the loop, or fails.
LEMMA LoopsType ==
    ASSUME TypeOK, NEW t \in Clients, Loops(t) \/ Fails(t)
    PROVE  /\ pc' \in [Clients -> Places] /\ pc'[t] # "none"
           /\ \A u \in Clients \ {t} : pc'[u] = pc[u]
           /\ reads' \in [Clients -> Clients \cup {None}]
           /\ connected' \in BOOLEAN /\ (connected' => connected)
<1>1. \E to \in {"ended", "opening", "reading", "asleep"} : Moves(t, to)
  BY DEF Loops, Fails
<1>2. /\ pc' \in [Clients -> Places] /\ pc'[t] # "none"
      /\ \A u \in Clients \ {t} : pc'[u] = pc[u]
  BY <1>1 DEF TypeOK, Moves, Places
<1>3. \E s \in Clients \cup {None} : Reads(t, s)
  BY DEF Loops, Fails, TypeOK
<1>4. reads' \in [Clients -> Clients \cup {None}]
  BY <1>3 DEF TypeOK, Reads
<1>5. connected' = connected \/ connected' = FALSE
  BY DEF Loops, Fails, Attempts, Disconnected
<1>6. connected \in BOOLEAN
  BY DEF TypeOK
<1>7. connected' \in BOOLEAN /\ (connected' => connected)
  <2>1. CASE connected' = connected
    BY <1>6, <2>1
  <2>2. CASE connected' = FALSE
    BY <2>2
  <2>3. QED
    BY <1>5, <2>1, <2>2
<1>8. QED
  BY <1>2, <1>4, <1>7

LEMMA EndsType ==
    ASSUME TypeOK, NEW s \in Clients, NEW how \in {"normal", "error"}, Ends(s, how)
    PROVE  /\ socket' \in [Clients -> {"none", "open", "normal", "error"}]
           /\ inbox' \in [Clients -> [Orders -> Units]]
           /\ \A t \in Clients, o \in Orders : inbox'[t][o] <= inbox[t][o]
<1>1. PICK rest \in [Orders -> Units] : /\ \A o \in Orders : rest[o] <= inbox[s][o]
                                        /\ inbox' = [inbox EXCEPT ![s] = rest]
  BY DEF Ends
<1>2. \A t \in Clients, o \in Orders : inbox[t][o] \in Nat
  BY UnitsAre DEF TypeOK
<1>3. socket' \in [Clients -> {"none", "open", "normal", "error"}]
  BY DEF Ends, TypeOK
<1>4. inbox' \in [Clients -> [Orders -> Units]]
  BY <1>1 DEF TypeOK
<1>5. \A t \in Clients, o \in Orders : inbox'[t][o] <= inbox[t][o]
  BY <1>1, <1>2 DEF TypeOK
<1>6. QED
  BY <1>3, <1>4, <1>5

\* What is received was traded, or repeated.
LEMMA ReceivesType ==
    ASSUME TypeOK, IAt, NEW o \in Orders, NEW k \in 1..Size, Receives(o, k),
           matched'[o] + repeated'[o] = matched[o] + repeated[o] + k,
           \A p \in Orders \ {o} : matched'[p] = matched[p] /\ repeated'[p] = repeated[p],
           matched' \in [Orders -> 0..Size], repeated' \in [Orders -> 0..MaxRepeats]
    PROVE  /\ inbox' \in [Clients -> [Orders -> Units]]
           /\ \A t \in Clients, p \in Orders : inbox'[t][p] <= matched'[p] + repeated'[p]
           /\ \A t \in Clients : inbox'[t] # inbox[t] => reads[t] = t
           /\ \A t \in Clients : \/ inbox'[t] = inbox[t]
                                 \/ /\ inbox'[t][o] = inbox[t][o] + k
                                    /\ \A p \in Orders \ {o} : inbox'[t][p] = inbox[t][p]
<1> DEFINE more(t) == [inbox[t] EXCEPT ![o] = inbox[t][o] + k]
<1>1. ASSUME NEW t \in Clients
      PROVE  inbox'[t] = inbox[t] \/ (reads[t] = t /\ inbox'[t] = more(t))
  BY DEF Receives
<1>2. ASSUME NEW p \in Orders
      PROVE  /\ matched[p] \in Nat /\ repeated[p] \in Nat /\ matched'[p] \in Nat
             /\ repeated'[p] \in Nat /\ matched'[p] + repeated'[p] <= Size + MaxRepeats
  BY TrackingAssumption DEF TypeOK
<1>3. ASSUME NEW t \in Clients
      PROVE  inbox[t] \in [Orders -> Units] /\ \A p \in Orders : inbox[t][p] \in Nat
  BY UnitsAre DEF TypeOK
<1>4. ASSUME NEW t \in Clients
      PROVE  /\ more(t)[o] = inbox[t][o] + k
             /\ \A p \in Orders \ {o} : more(t)[p] = inbox[t][p]
             /\ DOMAIN more(t) = Orders
  BY <1>3
<1>5. ASSUME NEW t \in Clients, NEW p \in Orders
      PROVE  inbox'[t][p] \in Nat /\ inbox'[t][p] <= matched'[p] + repeated'[p]
  <2>1. inbox[t][p] \in Nat /\ inbox[t][p] <= matched[p] + repeated[p] /\ k \in Nat
    BY <1>3 DEF IAt
  <2>2. matched'[p] + repeated'[p] = matched[p] + repeated[p] + (IF p = o THEN k ELSE 0)
    BY <1>2, <2>1
  <2>3. \/ inbox'[t][p] = inbox[t][p]
        \/ p = o /\ inbox'[t][p] = inbox[t][p] + k
    BY <1>1, <1>4
  <2>4. QED
    BY <1>2, <2>1, <2>2, <2>3
<1>6. ASSUME NEW t \in Clients
      PROVE  inbox'[t] \in [Orders -> Units]
  <2>1. \A p \in Orders : inbox'[t][p] \in Units
    BY <1>2, <1>5, TrackingAssumption DEF Units
  <2>2. CASE inbox'[t] = more(t)
    <3>1. more(t) = [p \in Orders |-> more(t)[p]]
      BY <1>3
    <3>2. QED
      BY <1>1, <2>1, <2>2, <3>1
  <2>3. CASE inbox'[t] = inbox[t]
    BY <1>3, <2>3
  <2>4. QED
    BY <1>1, <2>2, <2>3
<1>7. inbox' \in [Clients -> [Orders -> Units]]
  <2>1. inbox' = [t \in Clients |-> inbox'[t]]
    BY DEF Receives, TypeOK
  <2>2. QED
    BY <1>6, <2>1
<1>8. \A t \in Clients : inbox'[t] # inbox[t] => reads[t] = t
  BY <1>1
<1>9. ASSUME NEW t \in Clients
      PROVE  \/ inbox'[t] = inbox[t]
             \/ /\ inbox'[t][o] = inbox[t][o] + k
                /\ \A p \in Orders \ {o} : inbox'[t][p] = inbox[t][p]
  <2>1. CASE inbox'[t] = more(t)
    BY <1>4, <2>1
  <2>2. QED
    BY <1>1, <2>1
<1>10. QED
  BY <1>5, <1>7, <1>8, <1>9
-----------------------------------------------------------------------------
(* Types.                                                                   *)

\* Handling a trade moves its units from the socket to the total.
LEMMA HandleType ==
    ASSUME TypeOK, IAt, NEW t \in Clients, NEW o \in Orders, NEW k \in 1..Size + MaxRepeats,
           Handle(t, o, k)
    PROVE  /\ inbox[t][o] \in Nat /\ k \in Nat /\ k <= inbox[t][o]
           /\ inbox'[t][o] = inbox[t][o] - k
           /\ \A p \in Orders \ {o} : inbox'[t][p] = inbox[t][p]
           /\ \A u \in Clients \ {t} : inbox'[u] = inbox[u]
           /\ inbox' \in [Clients -> [Orders -> Units]]
<1>1. /\ inbox[t] \in [Orders -> Units] /\ inbox[t][o] \in Units /\ inbox[t][o] \in Nat
      /\ k \in Nat /\ k <= inbox[t][o]
  <2>1. inbox[t] \in [Orders -> Units]
    BY DEF TypeOK
  <2>2. k \in Nat /\ k <= inbox[t][o]
    BY UnitsAre DEF Handle
  <2>3. QED
    BY <2>1, <2>2, UnitsAre
<1>2. inbox[t][o] - k \in Units
  BY <1>1, TrackingAssumption DEF Units
<1>3. inbox' = [inbox EXCEPT ![t] = [inbox[t] EXCEPT ![o] = inbox[t][o] - k]]
  BY DEF Handle
<1>4. inbox' \in [Clients -> [Orders -> Units]]
  BY <1>1, <1>2, <1>3 DEF TypeOK
<1>5. QED
  BY <1>1, <1>3, <1>4 DEF TypeOK

\* A trade, or its repetition, adds to what one order has.
LEMMA TradesType ==
    ASSUME TypeOK, NEW o \in Orders, NEW k \in 1..Size, Match(o, k) \/ Repeat(o, k)
    PROVE  /\ matched' \in [Orders -> 0..Size] /\ repeated' \in [Orders -> 0..MaxRepeats]
           /\ matched'[o] + repeated'[o] = matched[o] + repeated[o] + k
           /\ \A p \in Orders \ {o} : matched'[p] = matched[p] /\ repeated'[p] = repeated[p]
           /\ Receives(o, k)
<1>1. matched[o] \in Nat /\ repeated[o] \in Nat /\ k \in Nat
  BY TrackingAssumption DEF TypeOK
<1>2. CASE Match(o, k)
  <2>1. matched[o] + k \in 0..Size
    BY <1>1, <1>2, TrackingAssumption DEF Match
  <2>2. QED
    BY <1>1, <1>2, <2>1 DEF Match, TypeOK
<1>3. CASE Repeat(o, k)
  <2>1. repeated[o] + k \in 0..MaxRepeats
    BY <1>1, <1>3, TrackingAssumption DEF Repeat
  <2>2. QED
    BY <1>1, <1>3, <2>1 DEF Repeat, TypeOK
<1>4. QED
  BY <1>2, <1>3

LEMMA InitType == Init => TypeOK /\ IAt
<1> SUFFICES ASSUME Init PROVE TypeOK /\ IAt
  OBVIOUS
<1>1. /\ Nothing \in [Orders -> Units] /\ Nothing \in [Orders -> Nat]
      /\ Nothing \in [Orders -> 0..Size] /\ Nothing \in [Orders -> 0..MaxRepeats]
      /\ \A o \in Orders : Nothing[o] = 0
  BY TrackingAssumption, UnitsAre DEF Nothing
<1>2. [o \in Orders |-> [t \in Clients |-> 0]] \in [Orders -> [Clients -> Nat]]
  OBVIOUS
<1>3. inbox \in [Clients -> [Orders -> Units]]
  BY <1>1 DEF Init
<1>4. matched \in [Orders -> 0..Size] /\ repeated \in [Orders -> 0..MaxRepeats]
  BY <1>1 DEF Init
<1>5. reports \in [Orders -> [Clients -> Nat]]
  BY <1>2 DEF Init
<1>6. /\ pc \in [Clients -> Places] /\ socket \in [Clients -> {"none", "open", "normal", "error"}]
      /\ reads \in [Clients -> Clients \cup {None}] /\ work \in [Clients -> Orders \cup {None}]
      /\ client \in [Clients -> {"new", "active", "stopping", "halting", "stopped"}]
      /\ order \in [Orders -> {"new", "placed", "created"}] /\ filled \in [Orders -> Nat]
  BY <1>1 DEF Init, Places
<1>7. TypeOK
  <2>1. /\ running \in BOOLEAN /\ connected \in BOOLEAN /\ overlap \in BOOLEAN
        /\ connected => ws # None
    BY DEF Init
  <2>2. /\ ws \in Clients \cup {None} /\ loop \in Clients \cup {None}
        /\ closing \subseteq Clients /\ tracked \subseteq Orders
    BY DEF Init
  <2>3. troubles \in 0..MaxTroubles
    BY TrackingAssumption DEF Init
  <2>4. QED
    BY <1>3, <1>4, <1>5, <1>6, <2>1, <2>2, <2>3 DEF TypeOK, Places
<1>8. IAt
  BY <1>1 DEF Init, IAt
<1>9. QED
  BY <1>7, <1>8

LEMMA StepType ==
    ASSUME TypeOK, IAt, [Next]_vars
    PROVE  TypeOK' /\ IAt'
<1> USE DEF Places
<1>1. ASSUME NEW t \in Clients, Begin(t)
      PROVE  TypeOK' /\ IAt'
  <2>1. Loops(t) \/ Fails(t)
    BY <1>1 DEF Begin
  <2>2. loop # None
    BY <1>1 DEF Begin, IAt
  <2>3. TypeOK'
    BY <1>1, <2>1, LoopsType DEF Begin, TypeOK, flags, sockets, threads, trackers, venue
  <2>4. IAt'
    BY <1>1, <2>2 DEF Begin, IAt, sockets, venue
  <2>5. QED
    BY <2>3, <2>4
<1>2. ASSUME NEW t \in Clients, Opened(t)
      PROVE  TypeOK' /\ IAt'
  <2>1. Nothing \in [Orders -> Units] /\ \A o \in Orders : Nothing[o] = 0
    BY UnitsAre DEF Nothing
  <2>2. TypeOK'
    BY <1>2, <2>1, TrackingAssumption DEF Opened, TypeOK, Moves, threads, trackers, venue
  <2>3. ASSUME NEW u \in Clients, NEW o \in Orders
        PROVE  inbox'[u][o] <= matched'[o] + repeated'[o]
    <3>1. matched[o] \in Nat /\ repeated[o] \in Nat
      BY TrackingAssumption DEF TypeOK
    <3>2. QED
      BY <1>2, <2>1, <3>1 DEF Opened, IAt, TypeOK, venue
  <2>4. IAt'
    BY <1>2, <2>3 DEF Opened, IAt, Moves, TypeOK
  <2>5. QED
    BY <2>2, <2>4
<1>3. ASSUME NEW t \in Clients, Refused(t)
      PROVE  TypeOK' /\ IAt'
  <2>1. Loops(t) \/ Fails(t)
    BY <1>3 DEF Refused
  <2>2. loop # None
    BY <1>3 DEF Refused, IAt
  <2>3. troubles' \in 0..MaxTroubles
    BY <1>3, TrackingAssumption DEF Refused, TypeOK
  <2>4. TypeOK'
    BY <1>3, <2>1, <2>3, LoopsType DEF Refused, TypeOK, flags, sockets, threads, trackers, venue
  <2>5. IAt'
    BY <1>3, <2>2 DEF Refused, IAt, sockets, venue
  <2>6. QED
    BY <2>4, <2>5
<1>4. ASSUME NEW t \in Clients, Authenticated(t)
      PROVE  TypeOK' /\ IAt'
  <2>1. loop # None
    BY <1>4 DEF Authenticated, IAt
  <2>2. IAt'
    BY <1>4, <2>1 DEF Authenticated, IAt, sockets, venue
  <2>3. CASE Fails(t)
    BY <1>4, <2>2, <2>3, LoopsType
    DEF Authenticated, TypeOK, flags, sockets, threads, trackers, venue
  <2>4. CASE Moves(t, "reading") /\ Reads(t, ws) /\ UNCHANGED connected
    BY <1>4, <2>2, <2>4
    DEF Authenticated, TypeOK, Moves, Reads, flags, sockets, threads, trackers, venue
  <2>5. QED
    BY <1>4, <2>2, <2>3, <2>4 DEF Authenticated
<1>5. ASSUME NEW t \in Clients, ReadEnds(t)
      PROVE  TypeOK' /\ IAt'
  <2>1. Loops(t) \/ Fails(t)
    BY <1>5 DEF ReadEnds
  <2>2. loop # None
    BY <1>5 DEF ReadEnds, IAt
  <2>3. TypeOK'
    BY <1>5, <2>1, LoopsType DEF ReadEnds, TypeOK, flags, sockets, threads, trackers, venue
  <2>4. IAt'
    BY <1>5, <2>2 DEF ReadEnds, IAt, sockets, venue
  <2>5. QED
    BY <2>3, <2>4
<1>6. ASSUME NEW t \in Clients, Complete(t)
      PROVE  TypeOK' /\ IAt'
  <2>1. TypeOK'
    BY <1>6 DEF Complete, TypeOK, Moves, Untracks, flags, sockets, venue
  <2>2. IAt'
    BY <1>6 DEF Complete, IAt, Moves, TypeOK, sockets, venue
  <2>3. QED
    BY <2>1, <2>2
<1>7. ASSUME NEW t \in Clients, NEW o \in Orders, NEW k \in 1..Size + MaxRepeats,
             Handle(t, o, k)
      PROVE  TypeOK' /\ IAt'
  <2>1. k \in Nat /\ filled[o] \in Nat /\ Total(o, k) \in Nat
    BY UnitsAre DEF Total, TypeOK
  <2>2. filled' \in [Orders -> Nat]
    BY <1>7, <2>1 DEF Handle, TypeOK
  <2>3. reports' \in [Orders -> [Clients -> Nat]]
    <3>1. reports[o] \in [Clients -> Nat] /\ reports[o][t] + 1 \in Nat
      BY DEF TypeOK
    <3>2. \/ reports' = reports
          \/ reports' = [reports EXCEPT ![o] = [reports[o] EXCEPT ![t] = reports[o][t] + 1]]
      BY <1>7 DEF Handle
    <3>3. [reports[o] EXCEPT ![t] = reports[o][t] + 1] \in [Clients -> Nat]
      BY <3>1
    <3>4. QED
      BY <3>2, <3>3 DEF TypeOK
  <2>4. pc' \in [Clients -> Places] /\ work' \in [Clients -> Orders \cup {None}]
    BY <1>7 DEF Handle, TypeOK, Moves
  <2>5. inbox' \in [Clients -> [Orders -> Units]]
    BY <1>7, HandleType
  <2>6. TypeOK'
    BY <1>7, <2>2, <2>3, <2>4, <2>5 DEF Handle, TypeOK, flags, venue
  <2>7. \A u \in Clients, p \in Orders : inbox[u][p] \in Nat
    BY UnitsAre DEF TypeOK
  <2>8. \A u \in Clients, p \in Orders : inbox'[u][p] <= matched[p] + repeated[p]
    <3>1. \A p \in Orders : matched[p] \in Nat /\ repeated[p] \in Nat
      BY TrackingAssumption DEF TypeOK
    <3>2. inbox'[t][o] <= matched[o] + repeated[o]
      BY <1>7, <3>1, HandleType DEF IAt
    <3>3. QED
      BY <1>7, <3>2, HandleType DEF IAt
  <2>9. loop # None
    BY <1>7 DEF Handle, IAt
  <2>10. IAt'
    BY <1>7, <2>8, <2>9 DEF Handle, IAt, venue
  <2>11. QED
    BY <2>6, <2>10
<1>8. ASSUME NEW t \in Clients, RunClose(t)
      PROVE  TypeOK' /\ IAt'
  <2>1. CASE ws # None /\ Ends(ws, "normal")
    <3>1. ws \in Clients
      BY <2>1 DEF TypeOK
    <3>2. TypeOK'
      BY <1>8, <2>1, <3>1, EndsType DEF RunClose, TypeOK, flags, threads, trackers, venue
    <3>3. \A u \in Clients, o \in Orders :
             inbox[u][o] \in Nat /\ inbox'[u][o] \in Nat /\ inbox'[u][o] <= inbox[u][o]
      BY <2>1, <3>1, <3>2, EndsType, UnitsAre DEF TypeOK
    <3>4. \A o \in Orders : matched[o] \in Nat /\ repeated[o] \in Nat
      BY TrackingAssumption DEF TypeOK
    <3>5. \A u \in Clients, o \in Orders : inbox'[u][o] <= matched[o] + repeated[o]
      BY <3>3, <3>4 DEF IAt
    <3>6. IAt'
      BY <1>8, <3>5 DEF RunClose, IAt, threads, venue
    <3>7. QED
      BY <3>2, <3>6
  <2>2. CASE UNCHANGED <<socket, inbox>>
    <3>1. TypeOK'
      BY <1>8, <2>2 DEF RunClose, TypeOK, flags, threads, trackers, venue
    <3>2. IAt'
      BY <1>8, <2>2 DEF RunClose, IAt, threads, venue
    <3>3. QED
      BY <3>1, <3>2
  <2>3. QED
    BY <1>8, <2>1, <2>2 DEF RunClose, Closes
<1>9. ASSUME NEW c \in Clients, Setup(c)
      PROVE  TypeOK' /\ IAt'
  <2>1. TypeOK'
    BY <1>9 DEF Setup, Starts, TypeOK, Moves, sockets, trackers, venue
  <2>2. IAt'
    BY <1>9, TrackingAssumption DEF Setup, Starts, IAt, sockets, venue
  <2>3. QED
    BY <2>1, <2>2
<1>10. ASSUME NEW c \in Clients, Stops(c)
       PROVE  TypeOK' /\ IAt'
  <2>1. TypeOK'
    <3>1. CASE Forget(c)
      BY <3>1 DEF Forget, TypeOK, flags, sockets, threads, venue
    <3>2. CASE Halt(c)
      BY <3>2 DEF Halt, TypeOK, sockets, threads, trackers, venue
    <3>3. CASE SubmitClose(c)
      <4>1. closing' \subseteq Clients
        BY <3>3 DEF SubmitClose, TypeOK, IAt
      <4>2. QED
        BY <3>3, <4>1 DEF SubmitClose, TypeOK, flags, sockets, threads, trackers, venue
    <3>4. QED
      BY <1>10, <3>1, <3>2, <3>3 DEF Stops
  <2>2. IAt'
    BY <1>10 DEF Stops, Forget, Halt, SubmitClose, IAt, sockets, threads, venue
  <2>3. QED
    BY <2>1, <2>2
<1>11. ASSUME NEW o \in Orders, Place(o) \/ Track(o)
       PROVE  TypeOK' /\ IAt'
  <2>1. TypeOK'
    <3>1. CASE Place(o)
      BY <3>1 DEF Place, TypeOK, flags, sockets, threads, trackers, venue
    <3>2. CASE Track(o)
      BY <3>2 DEF Track, TypeOK, flags, sockets, threads, venue
    <3>3. QED
      BY <1>11, <3>1, <3>2
  <2>2. IAt'
    BY <1>11 DEF Place, Track, IAt, sockets, threads, venue
  <2>3. QED
    BY <2>1, <2>2
<1>12. ASSUME NEW o \in Orders, NEW k \in 1..Size, Match(o, k) \/ Repeat(o, k)
       PROVE  TypeOK' /\ IAt'
  <2>1. /\ matched' \in [Orders -> 0..Size] /\ repeated' \in [Orders -> 0..MaxRepeats]
        /\ matched'[o] + repeated'[o] = matched[o] + repeated[o] + k
        /\ \A p \in Orders \ {o} : matched'[p] = matched[p] /\ repeated'[p] = repeated[p]
        /\ Receives(o, k)
    BY <1>12, TradesType
  <2>2. /\ inbox' \in [Clients -> [Orders -> Units]]
        /\ \A t \in Clients, p \in Orders : inbox'[t][p] <= matched'[p] + repeated'[p]
    BY <2>1, ReceivesType
  <2>3. TypeOK'
    BY <1>12, <2>1, <2>2 DEF Match, Repeat, TypeOK, flags, threads, trackers
  <2>4. IAt'
    BY <1>12, <2>2 DEF Match, Repeat, IAt, threads
  <2>5. QED
    BY <2>3, <2>4
<1>13. ASSUME NEW t \in Clients, NEW how \in {"normal", "error"}, Lose(t, how)
       PROVE  TypeOK' /\ IAt'
  <2>1. Ends(t, how) /\ troubles' \in 0..MaxTroubles
    BY <1>13, TrackingAssumption DEF Lose, TypeOK
  <2>2. TypeOK'
    BY <1>13, <2>1, EndsType DEF Lose, TypeOK, flags, threads, trackers, venue
  <2>3. \A u \in Clients, o \in Orders :
           inbox[u][o] \in Nat /\ inbox'[u][o] \in Nat /\ inbox'[u][o] <= inbox[u][o]
    <3>1. \A u \in Clients, o \in Orders : inbox'[u][o] <= inbox[u][o]
      BY <2>1, EndsType
    <3>2. inbox \in [Clients -> [Orders -> Units]] /\ inbox' \in [Clients -> [Orders -> Units]]
      BY <2>2 DEF TypeOK
    <3>3. QED
      BY <3>1, <3>2, UnitsAre
  <2>4. \A o \in Orders : matched[o] \in Nat /\ repeated[o] \in Nat
    BY TrackingAssumption DEF TypeOK
  <2>5. \A u \in Clients, o \in Orders : inbox'[u][o] <= matched[o] + repeated[o]
    BY <2>3, <2>4 DEF IAt
  <2>6. IAt'
    BY <1>13, <2>5 DEF Lose, IAt, threads, venue
  <2>7. QED
    BY <2>2, <2>6
<1>14. CASE UNCHANGED vars
  <2>1. TypeOK'
    BY <1>14 DEF vars, TypeOK, flags, sockets, threads, trackers, venue
  <2>2. IAt'
    BY <1>14 DEF vars, IAt, flags, sockets, threads, trackers, venue
  <2>3. QED
    BY <2>1, <2>2
<1>15. QED
  BY <1>1, <1>2, <1>3, <1>4, <1>5, <1>6, <1>7, <1>8, <1>9, <1>10, <1>11, <1>12, <1>13, <1>14
  DEF Next, Receiver

\* The variables keep their types and the channel is connected only with a socket,
\* for any number of clients, orders, losses and repetitions.
THEOREM TypeCorrect == Spec => []TypeOK
<1>1. Init => TypeOK /\ IAt
  BY InitType
<1>2. TypeOK /\ IAt /\ [Next]_vars => TypeOK' /\ IAt'
  BY StepType
<1>3. QED
  BY <1>1, <1>2, PTL DEF Spec
-----------------------------------------------------------------------------
(* What is counted.                                                         *)

\* A client has no thread before it is created.
INew == \A c \in Clients : client[c] = "new" => pc[c] = "none"

\* Only a thread that reads has a socket to read, and only what is read from the
\* socket that it opened itself waits there.
IRead ==
    /\ \A t \in Clients : reads[t] # None => pc[t] \in {"reading", "completing"}
    /\ \A t \in Clients, o \in Orders : reads[t] # t => inbox[t][o] = 0

\* Without an overlap one thread lives.
IOne == ~overlap => \A t, u \in Clients : Alive(t) /\ Alive(u) => t = u

\* What a tracker has counted, and what waits for it, was traded or sent again.
ICount ==
    ~overlap => \A t \in Clients, o \in Orders :
                   filled[o] + inbox[t][o] <= matched[o] + repeated[o]

LEMMA ThreadMoves ==
    ASSUME TypeOK, NEW t \in Clients, Loops(t) \/ Fails(t)
    PROVE  /\ reads'[t] # None => pc'[t] = "reading"
           /\ \A u \in Clients \ {t} : reads'[u] = reads[u] /\ pc'[u] = pc[u]
BY DEF Loops, Fails, Moves, Reads, TypeOK

\* A thread changes only where it is itself, and only while it lives.
LEMMA ReceiverMoves ==
    ASSUME TypeOK, NEW t \in Clients, Receiver(t)
    PROVE  /\ Alive(t) /\ \A u \in Clients \ {t} : pc'[u] = pc[u]
           /\ UNCHANGED <<client, overlap>>
<1>1. CASE Loops(t) \/ Fails(t)
  BY <1>1, ThreadMoves
  DEF Receiver, Begin, Opened, Refused, Authenticated, ReadEnds, Complete, Handle, Alive
<1>2. CASE ~(Loops(t) \/ Fails(t))
  BY <1>2
  DEF Receiver, Begin, Opened, Refused, Authenticated, ReadEnds, Complete, Handle, Alive,
      Moves, TypeOK
<1>3. QED
  BY <1>1, <1>2

LEMMA StepNew ==
    ASSUME TypeOK, INew, [Next]_vars
    PROVE  INew'
<1>1. ASSUME NEW t \in Clients, Receiver(t)
      PROVE  INew'
  BY <1>1, ReceiverMoves DEF INew, Alive
<1>2. ASSUME NEW c \in Clients, Setup(c)
      PROVE  INew'
  <2>1. client'[c] # "new" /\ \A d \in Clients \ {c} : client'[d] = client[d]
    BY <1>2 DEF Setup, Starts, TypeOK
  <2>2. \A d \in Clients \ {c} : pc'[d] = pc[d]
    BY <1>2 DEF Setup, Starts, Moves, TypeOK
  <2>3. QED
    BY <2>1, <2>2 DEF INew
<1>3. ASSUME NEW c \in Clients, Stops(c)
      PROVE  INew'
  <2>1. client'[c] # "new" /\ \A d \in Clients \ {c} : client'[d] = client[d]
    BY <1>3 DEF Stops, Forget, Halt, SubmitClose, TypeOK
  <2>2. pc' = pc
    BY <1>3 DEF Stops, Forget, Halt, SubmitClose, threads
  <2>3. QED
    BY <2>1, <2>2 DEF INew
<1>4. CASE UNCHANGED <<pc, client>>
  BY <1>4 DEF INew
<1>5. QED
  BY <1>1, <1>2, <1>3, <1>4
  DEF Next, Place, Track, Match, Repeat, Lose, RunClose, threads, vars

\* Nothing waits at a socket whose thread goes to read another, or none.
LEMMA LeavesRead ==
    ASSUME TypeOK, IRead, NEW t \in Clients, Loops(t) \/ Fails(t), UNCHANGED inbox,
           \A o \in Orders : inbox[t][o] = 0
    PROVE  IRead'
BY ThreadMoves DEF IRead

LEMMA EndsRead ==
    ASSUME TypeOK, IRead, NEW s \in Clients, NEW how \in {"normal", "error"}, Ends(s, how),
           UNCHANGED <<pc, reads>>
    PROVE  IRead'
<1>1. /\ inbox \in [Clients -> [Orders -> Units]] /\ inbox' \in [Clients -> [Orders -> Units]]
      /\ \A t \in Clients, o \in Orders : inbox'[t][o] <= inbox[t][o]
  BY EndsType DEF TypeOK
<1>2. \A t \in Clients, o \in Orders : inbox[t][o] \in Nat /\ inbox'[t][o] \in Nat
  BY <1>1, UnitsAre
<1>3. \A t \in Clients, o \in Orders : reads'[t] # t => inbox'[t][o] = 0
  BY <1>1, <1>2 DEF IRead
<1>4. QED
  BY <1>3 DEF IRead

LEMMA StepRead ==
    ASSUME TypeOK, IAt, INew, IRead, [Next]_vars
    PROVE  IRead'
<1>1. ASSUME NEW t \in Clients, Begin(t)
      PROVE  IRead'
  <2>1. reads[t] = None
    BY <1>1 DEF Begin, IRead
  <2>2. \A o \in Orders : inbox[t][o] = 0
    BY <2>1, TrackingAssumption DEF IRead
  <2>3. QED
    BY <1>1, <2>2, LeavesRead DEF Begin, sockets
<1>2. ASSUME NEW t \in Clients, Opened(t)
      PROVE  IRead'
  <2>1. reads[t] = None
    BY <1>2 DEF Opened, IRead
  <2>2. QED
    BY <1>2, <2>1 DEF Opened, IRead, Moves, TypeOK, Nothing
<1>3. ASSUME NEW t \in Clients, Refused(t)
      PROVE  IRead'
  <2>1. reads[t] = None
    BY <1>3 DEF Refused, IRead
  <2>2. \A o \in Orders : inbox[t][o] = 0
    BY <2>1, TrackingAssumption DEF IRead
  <2>3. QED
    BY <1>3, <2>2, LeavesRead DEF Refused, sockets
<1>4. ASSUME NEW t \in Clients, Authenticated(t)
      PROVE  IRead'
  <2>1. reads[t] = None
    BY <1>4 DEF Authenticated, IRead
  <2>2. \A o \in Orders : inbox[t][o] = 0
    BY <2>1, TrackingAssumption DEF IRead
  <2>3. CASE Fails(t)
    BY <1>4, <2>2, <2>3, LeavesRead DEF Authenticated, sockets
  <2>4. CASE Moves(t, "reading") /\ Reads(t, ws)
    BY <1>4, <2>2, <2>4 DEF Authenticated, sockets, IRead, Moves, Reads, TypeOK
  <2>5. QED
    BY <1>4, <2>3, <2>4 DEF Authenticated
<1>5. ASSUME NEW t \in Clients, ReadEnds(t)
      PROVE  IRead'
  <2>1. \A o \in Orders : inbox[t][o] = 0
    BY <1>5 DEF ReadEnds, IRead, Nothing
  <2>2. QED
    BY <1>5, <2>1, LeavesRead DEF ReadEnds, sockets
<1>6. ASSUME NEW t \in Clients, Complete(t)
      PROVE  IRead'
  BY <1>6 DEF Complete, IRead, Moves, TypeOK, sockets
<1>7. ASSUME NEW t \in Clients, NEW o \in Orders, NEW k \in 1..Size + MaxRepeats,
             Handle(t, o, k)
      PROVE  IRead'
  <2>1. reads[t] = t /\ pc[t] = "reading" /\ UNCHANGED reads
    BY <1>7 DEF Handle
  <2>2. \A u \in Clients \ {t} : inbox'[u] = inbox[u]
    BY <1>7, HandleType
  <2>3. pc'[t] \in {"reading", "completing"} /\ \A u \in Clients \ {t} : pc'[u] = pc[u]
    BY <1>7 DEF Handle, Moves, TypeOK
  <2>4. QED
    BY <2>1, <2>2, <2>3 DEF IRead
<1>8. ASSUME NEW t \in Clients, RunClose(t)
      PROVE  IRead'
  <2>1. CASE ws # None /\ Ends(ws, "normal")
    BY <1>8, <2>1, EndsRead DEF RunClose, TypeOK, threads
  <2>2. CASE UNCHANGED <<socket, inbox>>
    BY <1>8, <2>2 DEF RunClose, IRead, threads
  <2>3. QED
    BY <1>8, <2>1, <2>2 DEF RunClose, Closes
<1>9. ASSUME NEW c \in Clients, Setup(c)
      PROVE  IRead'
  <2>1. CASE running
    BY <1>9, <2>1 DEF Setup, Starts, IRead, sockets
  <2>2. CASE ~running
    <3>1. UNCHANGED <<reads, inbox>> /\ \A t \in Clients \ {c} : pc'[t] = pc[t]
      BY <1>9, <2>2 DEF Setup, Starts, Moves, TypeOK, sockets
    <3>2. reads[c] = None
      BY <1>9 DEF Setup, Starts, INew, IRead
    <3>3. QED
      BY <3>1, <3>2 DEF IRead
  <2>3. QED
    BY <2>1, <2>2
<1>10. ASSUME NEW c \in Clients, Stops(c)
       PROVE  IRead'
  BY <1>10 DEF Stops, Forget, Halt, SubmitClose, IRead, sockets, threads
<1>11. ASSUME NEW o \in Orders, Place(o) \/ Track(o)
       PROVE  IRead'
  BY <1>11 DEF Place, Track, IRead, sockets, threads
<1>12. ASSUME NEW o \in Orders, NEW k \in 1..Size, Match(o, k) \/ Repeat(o, k)
       PROVE  IRead'
  <2>1. \A t \in Clients : inbox'[t] # inbox[t] => reads[t] = t
    BY <1>12, TradesType, ReceivesType
  <2>2. QED
    BY <1>12, <2>1 DEF Match, Repeat, IRead, threads
<1>13. ASSUME NEW t \in Clients, NEW how \in {"normal", "error"}, Lose(t, how)
       PROVE  IRead'
  BY <1>13, EndsRead DEF Lose, threads
<1>14. CASE UNCHANGED vars
  BY <1>14 DEF vars, IRead, sockets, threads
<1>15. QED
  BY <1>1, <1>2, <1>3, <1>4, <1>5, <1>6, <1>7, <1>8, <1>9, <1>10, <1>11, <1>12, <1>13, <1>14
  DEF Next, Receiver

\* Only start() makes a thread.
LEMMA StepAlive ==
    ASSUME TypeOK, [Next]_vars, \A c \in Clients : ~Setup(c)
    PROVE  overlap' = overlap /\ \A t \in Clients : Alive(t)' => Alive(t)
<1>1. ASSUME NEW t \in Clients, Receiver(t)
      PROVE  overlap' = overlap /\ \A u \in Clients : Alive(u)' => Alive(u)
  BY <1>1, ReceiverMoves DEF Alive
<1>2. CASE UNCHANGED <<pc, overlap>>
  BY <1>2 DEF Alive
<1>3. QED
  BY <1>1, <1>2
  DEF Next, Stops, Forget, Halt, SubmitClose, Place, Track, Match, Repeat, Lose, RunClose,
      threads, vars

\* A thread started beside none that lives.
LEMMA Overlaps ==
    ASSUME NEW c \in Clients, Setup(c), ~running, ~overlap'
    PROVE  ~overlap /\ \A t \in Clients : ~Alive(t)
<1>1. overlap' = (overlap \/ \E t \in Clients : Alive(t))
  BY DEF Setup, Starts
<1>2. ~(overlap \/ \E t \in Clients : Alive(t))
  BY <1>1, Zenon
<1>3. QED
  BY <1>2

LEMMA StepOverlap ==
    ASSUME TypeOK, [Next]_vars, ~overlap'
    PROVE  ~overlap
<1>1. ASSUME NEW c \in Clients, Setup(c)
      PROVE  ~overlap
  <2>1. CASE running
    BY <1>1, <2>1 DEF Setup, Starts
  <2>2. CASE ~running
    BY <1>1, <2>2, Overlaps
  <2>3. QED
    BY <2>1, <2>2
<1>2. CASE \A c \in Clients : ~Setup(c)
  BY <1>2, StepAlive
<1>3. QED
  BY <1>1, <1>2

LEMMA StepOne ==
    ASSUME TypeOK, IOne, [Next]_vars
    PROVE  IOne'
<1>1. ASSUME NEW c \in Clients, Setup(c)
      PROVE  IOne'
  <2>1. CASE running
    BY <1>1, <2>1 DEF Setup, Starts, IOne, Alive
  <2>2. CASE ~running
    <3>1. ASSUME ~overlap'
          PROVE  \A t \in Clients \ {c} : ~Alive(t)'
      <4>1. \A t \in Clients : ~Alive(t)
        BY <1>1, <2>2, <3>1, Overlaps
      <4>2. \A t \in Clients \ {c} : pc'[t] = pc[t]
        BY <1>1, <2>2 DEF Setup, Starts, Moves, TypeOK
      <4>3. QED
        BY <4>1, <4>2 DEF Alive
    <3>2. QED
      BY <3>1 DEF IOne
  <2>3. QED
    BY <2>1, <2>2
<1>2. CASE \A c \in Clients : ~Setup(c)
  BY <1>2, StepAlive DEF IOne
<1>3. QED
  BY <1>1, <1>2

LEMMA StepCount ==
    ASSUME TypeOK, TypeOK', IAt, IAt', IRead, IRead', IOne, ICount, [Next]_vars
    PROVE  ICount'
<1> SUFFICES ASSUME ~overlap'
             PROVE  \A t \in Clients, o \in Orders :
                       filled'[o] + inbox'[t][o] <= matched'[o] + repeated'[o]
  BY DEF ICount
<1>1. \A t \in Clients, o \in Orders :
         /\ inbox[t][o] \in Nat /\ inbox'[t][o] \in Nat /\ filled[o] \in Nat
         /\ matched[o] \in Nat /\ matched'[o] \in Nat
         /\ repeated[o] \in Nat /\ repeated'[o] \in Nat
  <2>1. /\ inbox \in [Clients -> [Orders -> Units]] /\ inbox' \in [Clients -> [Orders -> Units]]
        /\ filled \in [Orders -> Nat]
        /\ matched \in [Orders -> 0..Size] /\ matched' \in [Orders -> 0..Size]
        /\ repeated \in [Orders -> 0..MaxRepeats] /\ repeated' \in [Orders -> 0..MaxRepeats]
    BY DEF TypeOK
  <2>2. 0..Size \subseteq Nat /\ 0..MaxRepeats \subseteq Nat
    BY TrackingAssumption
  <2>3. QED
    BY <2>1, <2>2, UnitsAre
<1>2. ~overlap
  BY StepOverlap
<1>3. \A t \in Clients, o \in Orders : filled[o] + inbox[t][o] <= matched[o] + repeated[o]
  BY <1>2 DEF ICount
<1>4. CASE /\ UNCHANGED <<filled, matched, repeated>>
           /\ \A t \in Clients, o \in Orders : inbox'[t][o] <= inbox[t][o]
  BY <1>1, <1>3, <1>4
<1>5. ASSUME NEW t \in Clients, Opened(t)
      PROVE  \A u \in Clients, o \in Orders : inbox'[u][o] <= inbox[u][o]
  BY <1>1, <1>5 DEF Opened, Nothing, TypeOK
<1>6. ASSUME NEW t \in Clients, NEW o \in Orders, NEW k \in 1..Size + MaxRepeats,
             Handle(t, o, k)
      PROVE  \A u \in Clients, p \in Orders :
                filled'[p] + inbox'[u][p] <= matched'[p] + repeated'[p]
  <2>1. /\ k \in Nat /\ k <= inbox[t][o] /\ inbox'[t][o] = inbox[t][o] - k
        /\ \A p \in Orders \ {o} : inbox'[t][p] = inbox[t][p]
        /\ \A u \in Clients \ {t} : inbox'[u] = inbox[u]
    BY <1>6, HandleType
  <2>2. \A u \in Clients \ {t}, p \in Orders : inbox[u][p] = 0
    <3>1. Alive(t)
      BY <1>6 DEF Handle, Alive
    <3>2. \A u \in Clients \ {t} : ~Alive(u)
      BY <1>2, <3>1 DEF IOne
    <3>3. \A u \in Clients \ {t} : reads[u] = None
      BY <3>2 DEF IRead, Alive
    <3>4. QED
      BY <3>3, TrackingAssumption DEF IRead
  <2>3. /\ filled'[o] \in {filled[o], filled[o] + k}
        /\ \A p \in Orders \ {o} : filled'[p] = filled[p]
    BY <1>6 DEF Handle, Total, TypeOK
  <2>4. UNCHANGED <<matched, repeated>>
    BY <1>6 DEF Handle, venue
  <2>5. ASSUME NEW u \in Clients
        PROVE  filled'[o] + inbox'[u][o] <= matched[o] + repeated[o]
    <3>1. filled[o] + inbox[t][o] <= matched[o] + repeated[o]
      BY <1>3
    <3>2. CASE u = t
      BY <1>1, <2>1, <2>3, <3>1, <3>2
    <3>3. CASE u # t
      BY <1>1, <2>1, <2>2, <2>3, <3>1, <3>3
    <3>4. QED
      BY <3>2, <3>3
  <2>6. ASSUME NEW u \in Clients, NEW p \in Orders, p # o
        PROVE  filled'[p] + inbox'[u][p] <= matched[p] + repeated[p]
    BY <1>3, <2>1, <2>3, <2>6
  <2>7. QED
    BY <2>4, <2>5, <2>6
<1>7. ASSUME NEW t \in Clients, RunClose(t)
      PROVE  \A u \in Clients, o \in Orders : inbox'[u][o] <= inbox[u][o]
  <2>1. CASE ws # None /\ Ends(ws, "normal")
    <3>1. ws \in Clients
      BY <2>1 DEF TypeOK
    <3>2. QED
      BY <2>1, <3>1, EndsType
  <2>2. CASE UNCHANGED inbox
    BY <1>1, <2>2
  <2>3. QED
    BY <1>7, <2>1, <2>2 DEF RunClose, Closes
<1>8. ASSUME NEW o \in Orders, Track(o)
      PROVE  \A u \in Clients, p \in Orders :
                filled'[p] + inbox'[u][p] <= matched'[p] + repeated'[p]
  <2>1. UNCHANGED <<inbox, matched, repeated>>
    BY <1>8 DEF Track, sockets, venue
  <2>2. filled'[o] = 0 /\ \A p \in Orders \ {o} : filled'[p] = filled[p]
    BY <1>8 DEF Track, TypeOK
  <2>3. QED
    BY <1>1, <1>3, <2>1, <2>2 DEF IAt
<1>9. ASSUME NEW o \in Orders, NEW k \in 1..Size, Match(o, k) \/ Repeat(o, k)
      PROVE  \A u \in Clients, p \in Orders :
                filled'[p] + inbox'[u][p] <= matched'[p] + repeated'[p]
  <2>1. k \in Nat /\ filled' = filled
    BY <1>9 DEF Match, Repeat, trackers
  <2>2. /\ matched' \in [Orders -> 0..Size] /\ repeated' \in [Orders -> 0..MaxRepeats]
        /\ matched'[o] + repeated'[o] = matched[o] + repeated[o] + k
        /\ \A p \in Orders \ {o} : matched'[p] = matched[p] /\ repeated'[p] = repeated[p]
        /\ Receives(o, k)
    BY <1>9, TradesType
  <2>3. \A u \in Clients : \/ inbox'[u] = inbox[u]
                           \/ /\ inbox'[u][o] = inbox[u][o] + k
                              /\ \A p \in Orders \ {o} : inbox'[u][p] = inbox[u][p]
    BY <2>2, ReceivesType
  <2>4. ASSUME NEW u \in Clients
        PROVE  filled[o] + inbox'[u][o] <= matched'[o] + repeated'[o]
    BY <1>1, <1>3, <2>1, <2>2, <2>3
  <2>5. ASSUME NEW u \in Clients, NEW p \in Orders, p # o
        PROVE  filled[p] + inbox'[u][p] <= matched'[p] + repeated'[p]
    BY <1>3, <2>2, <2>3, <2>5
  <2>6. QED
    BY <2>1, <2>4, <2>5
<1>10. ASSUME NEW t \in Clients, NEW how \in {"normal", "error"}, Lose(t, how)
       PROVE  \A u \in Clients, o \in Orders : inbox'[u][o] <= inbox[u][o]
  BY <1>10, EndsType DEF Lose
<1>11. CASE UNCHANGED <<filled, inbox, matched, repeated>>
  BY <1>3, <1>11
<1>12. QED
  BY <1>4, <1>5, <1>6, <1>7, <1>8, <1>9, <1>10, <1>11
  DEF Next, Receiver, Begin, Opened, Refused, Authenticated, ReadEnds, Complete, RunClose, Setup, Starts,
      Stops, Forget, Halt, SubmitClose, Place, Lose, sockets, trackers, venue, vars

\* As long as no thread was started beside one that lives, the tracker counts no more
\* than was traded and what was sent again, over any losses, reconnections and
\* restarts (order_tracker.py:133).
THEOREM CountsWhatWasTraded == Spec => []FillsCounted
<1> DEFINE Inv == TypeOK /\ IAt /\ INew /\ IRead /\ IOne /\ ICount
<1>1. Init => Inv
  <2> SUFFICES ASSUME Init PROVE Inv
    OBVIOUS
  <2>1. TypeOK /\ IAt
    BY InitType
  <2>2. \A t \in Clients, o \in Orders : inbox[t][o] = 0 /\ filled[o] = 0
    BY DEF Init, Nothing
  <2>3. INew /\ IRead /\ IOne
    BY <2>2 DEF Init, INew, IRead, IOne, Alive
  <2>4. ICount
    BY <2>2 DEF Init, ICount, Nothing
  <2>5. QED
    BY <2>1, <2>3, <2>4
<1>2. Inv /\ [Next]_vars => Inv'
  BY StepType, StepNew, StepRead, StepOne, StepCount
<1>3. Inv => FillsCounted
  <2> SUFFICES ASSUME Inv, ~overlap, NEW o \in Orders
               PROVE  filled[o] <= matched[o] + repeated[o]
    BY DEF FillsCounted
  <2>1. Owner[o] \in Clients
    BY TrackingAssumption
  <2>2. inbox[Owner[o]][o] \in Nat /\ filled[o] \in Nat
    BY <2>1, UnitsAre DEF TypeOK
  <2>3. filled[o] + inbox[Owner[o]][o] <= matched[o] + repeated[o]
    BY <2>1 DEF ICount
  <2>4. matched[o] \in Nat /\ repeated[o] \in Nat
    BY TrackingAssumption DEF TypeOK
  <2>5. QED
    BY <2>2, <2>3, <2>4
<1>4. QED
  BY <1>1, <1>2, <1>3, PTL DEF Spec
-----------------------------------------------------------------------------
(* What is reported.                                                        *)

\* An order reported as FILLED is no longer tracked, unless the thread that reported
\* it is about to forget it; so it is never tracked, handled and reported again.
IForget ==
    /\ \A o \in tracked : order[o] = "created"
    /\ \A o \in Orders, t \in Clients :
          /\ reports[o][t] <= 1
          /\ reports[o][t] > 0 => /\ order[o] = "created"
                                  /\ o \in tracked => pc[t] = "completing" /\ work[t] = o

ISole ==
    ~overlap => \A o \in Orders, t, u \in Clients :
                   reports[o][t] > 0 /\ reports[o][u] > 0 => t = u

\* A step that takes no thread from where it forgets an order.
LEMMA SameForget ==
    ASSUME IForget, UNCHANGED <<reports, order>>, tracked' \subseteq tracked,
           \A t \in Clients : pc[t] = "completing" => pc'[t] = "completing" /\ work'[t] = work[t]
    PROVE  IForget'
BY DEF IForget

\* Handling a trade reports nothing or an order that was tracked, and unreported.
LEMMA HandleReports ==
    ASSUME TypeOK, IForget, NEW t \in Clients, NEW o \in Orders,
           NEW k \in 1..Size + MaxRepeats, Handle(t, o, k)
    PROVE  \/ UNCHANGED <<pc, work, reports>>
           \/ /\ o \in tracked /\ reports[o][t] = 0 /\ reports'[o][t] = 1
              /\ pc'[t] = "completing" /\ work'[t] = o
              /\ \A u \in Clients \ {t} : pc'[u] = pc[u] /\ work'[u] = work[u]
              /\ \A p \in Orders, u \in Clients :
                    p # o \/ u # t => reports'[p][u] = reports[p][u]
<1>1. CASE UNCHANGED <<pc, work, reports>>
  BY <1>1
<1>2. CASE /\ o \in tracked /\ Moves(t, "completing") /\ work' = [work EXCEPT ![t] = o]
           /\ reports' = [reports EXCEPT ![o][t] = reports[o][t] + 1]
  <2>1. pc[t] = "reading"
    BY DEF Handle
  <2>2. reports[o] \in [Clients -> Nat] /\ reports[o][t] \in Nat
    BY DEF TypeOK
  <2>3. reports[o][t] = 0
    BY <1>2, <2>1, <2>2 DEF IForget
  <2>4. /\ reports'[o] = [reports[o] EXCEPT ![t] = reports[o][t] + 1]
        /\ \A p \in Orders \ {o} : reports'[p] = reports[p]
    BY <1>2 DEF TypeOK
  <2>5. /\ reports'[o][t] = 1
        /\ \A p \in Orders, u \in Clients : p # o \/ u # t => reports'[p][u] = reports[p][u]
    BY <2>2, <2>3, <2>4
  <2>6. /\ pc'[t] = "completing" /\ work'[t] = o
        /\ \A u \in Clients \ {t} : pc'[u] = pc[u] /\ work'[u] = work[u]
    BY <1>2 DEF Moves, TypeOK
  <2>7. QED
    BY <1>2, <2>3, <2>5, <2>6
<1>3. QED
  BY <1>1, <1>2 DEF Handle

LEMMA StepForget ==
    ASSUME TypeOK, INew, IForget, [Next]_vars
    PROVE  IForget'
<1>1. ASSUME NEW t \in Clients,
             Begin(t) \/ Opened(t) \/ Refused(t) \/ Authenticated(t) \/ ReadEnds(t)
      PROVE  IForget'
  <2>1. pc[t] # "completing"
    BY <1>1 DEF Begin, Opened, Refused, Authenticated, ReadEnds
  <2>2. \A u \in Clients \ {t} : pc'[u] = pc[u]
    BY <1>1, ReceiverMoves DEF Receiver
  <2>3. UNCHANGED <<work, tracked, reports, order>>
    BY <1>1 DEF Begin, Opened, Refused, Authenticated, ReadEnds, trackers
  <2>4. QED
    BY <2>1, <2>2, <2>3, SameForget
<1>2. ASSUME NEW t \in Clients, Complete(t)
      PROVE  IForget'
  <2>1. /\ tracked' = tracked \ {work[t]} /\ UNCHANGED <<reports, order>>
        /\ \A u \in Clients \ {t} : pc'[u] = pc[u] /\ work'[u] = work[u]
    BY <1>2 DEF Complete, Untracks, Moves, TypeOK
  <2>2. QED
    BY <2>1 DEF IForget
<1>3. ASSUME NEW t \in Clients, NEW o \in Orders, NEW k \in 1..Size + MaxRepeats,
             Handle(t, o, k)
      PROVE  IForget'
  <2>1. UNCHANGED <<tracked, order>> /\ pc[t] = "reading"
    BY <1>3 DEF Handle
  <2>2. QED
    BY <1>3, <2>1, HandleReports DEF IForget
<1>4. ASSUME NEW o \in Orders, Track(o)
      PROVE  IForget'
  <2>1. /\ order[o] = "placed" /\ order'[o] = "created" /\ tracked' = tracked \cup {o}
        /\ \A p \in Orders \ {o} : order'[p] = order[p]
        /\ UNCHANGED <<reports, pc, work>>
    BY <1>4 DEF Track, TypeOK, threads
  <2>2. \A p \in tracked' : order'[p] = "created"
    BY <2>1 DEF IForget, TypeOK
  <2>3. ASSUME NEW p \in Orders, NEW t \in Clients, reports[p][t] > 0
        PROVE  /\ p # o /\ order[p] = "created"
               /\ p \in tracked => pc[t] = "completing" /\ work[t] = p
    <3>1. /\ order[p] = "created"
          /\ p \in tracked => pc[t] = "completing" /\ work[t] = p
      BY <2>3 DEF IForget
    <3>2. QED
      BY <2>1, <3>1
  <2>4. \A p \in Orders : order[p] = "created" => order'[p] = "created"
    BY <2>1
  <2>5. ASSUME NEW p \in Orders, NEW t \in Clients, reports'[p][t] > 0
        PROVE  /\ order'[p] = "created"
               /\ p \in tracked' => pc'[t] = "completing" /\ work'[t] = p
    <3>1. reports[p][t] > 0
      BY <2>1, <2>5
    <3>2. QED
      BY <2>1, <2>3, <2>4, <3>1
  <2>6. QED
    BY <2>1, <2>2, <2>5 DEF IForget
<1>5. ASSUME NEW o \in Orders, Place(o)
      PROVE  IForget'
  <2>1. /\ order[o] = "new" /\ \A p \in Orders \ {o} : order'[p] = order[p]
        /\ UNCHANGED <<reports, pc, work, tracked>>
    BY <1>5 DEF Place, TypeOK, threads, trackers
  <2>2. \A p \in Orders : order[p] = "created" => order'[p] = "created"
    BY <2>1
  <2>3. \A p \in tracked' : order'[p] = "created"
    BY <2>1, <2>2 DEF IForget, TypeOK
  <2>4. QED
    BY <2>1, <2>2, <2>3 DEF IForget
<1>6. ASSUME NEW c \in Clients, Setup(c)
      PROVE  IForget'
  <2>1. UNCHANGED <<reports, order, work, tracked>>
    BY <1>6 DEF Setup, Starts, trackers
  <2>2. \A t \in Clients : pc[t] = "completing" => pc'[t] = "completing"
    <3>1. pc[c] = "none"
      BY <1>6 DEF Setup, Starts, INew
    <3>2. QED
      BY <1>6, <3>1 DEF Setup, Starts, Moves, TypeOK
  <2>3. QED
    BY <2>1, <2>2, SameForget
<1>7. ASSUME NEW c \in Clients, Stops(c)
      PROVE  IForget'
  <2>1. UNCHANGED <<reports, order, pc, work>> /\ tracked' \subseteq tracked
    BY <1>7 DEF Stops, Forget, Halt, SubmitClose, threads, trackers
  <2>2. QED
    BY <2>1, SameForget
<1>8. CASE UNCHANGED <<reports, order, pc, work, tracked>>
  BY <1>8, SameForget
<1>9. QED
  BY <1>1, <1>2, <1>3, <1>4, <1>5, <1>6, <1>7, <1>8
  DEF Next, Receiver, RunClose, Match, Repeat, Lose, threads, trackers, vars

LEMMA StepSole ==
    ASSUME TypeOK, IOne, IForget, ISole, [Next]_vars
    PROVE  ISole'
<1>1. ASSUME NEW t \in Clients, NEW o \in Orders, NEW k \in 1..Size + MaxRepeats,
             Handle(t, o, k)
      PROVE  ISole'
  <2>1. overlap' = overlap /\ pc[t] = "reading"
    BY <1>1 DEF Handle
  <2>2. ASSUME ~overlap, o \in tracked
        PROVE  \A u \in Clients \ {t} : ~(reports[o][u] > 0)
    <3>1. \A u \in Clients \ {t} : ~Alive(u)
      BY <2>1, <2>2 DEF IOne, Alive
    <3>2. QED
      BY <2>2, <3>1 DEF IForget, Alive
  <2>3. CASE UNCHANGED reports
    BY <2>1, <2>3 DEF ISole
  <2>4. CASE /\ o \in tracked
             /\ \A p \in Orders, u \in Clients :
                   p # o \/ u # t => reports'[p][u] = reports[p][u]
    BY <2>1, <2>2, <2>4 DEF ISole
  <2>5. QED
    BY <1>1, <2>3, <2>4, HandleReports
<1>2. CASE UNCHANGED reports
  BY <1>2, StepOverlap DEF ISole
<1>3. QED
  BY <1>1, <1>2
  DEF Next, Receiver, Begin, Opened, Refused, Authenticated, ReadEnds, Complete, RunClose, Setup, Starts,
      Stops, Forget, Halt, SubmitClose, Place, Track, Match, Repeat, Lose, trackers, vars

\* A thread reports an order as FILLED once, and a second thread reports it too only
\* if it was started beside a living one (order_tracker.py:157-162).
THEOREM ReportsOnce == Spec => []FilledOnce
<1> DEFINE Inv == TypeOK /\ IAt /\ INew /\ IOne /\ IForget /\ ISole
<1>1. Init => Inv
  <2> SUFFICES ASSUME Init PROVE Inv
    OBVIOUS
  <2>1. TypeOK /\ IAt
    BY InitType
  <2>2. \A o \in Orders, t \in Clients : reports[o][t] = 0
    BY DEF Init
  <2>3. INew /\ IOne
    BY DEF Init, INew, IOne, Alive
  <2>4. IForget /\ ISole
    BY <2>2 DEF Init, IForget, ISole
  <2>5. QED
    BY <2>1, <2>3, <2>4
<1>2. Inv /\ [Next]_vars => Inv'
  BY StepType, StepNew, StepOne, StepForget, StepSole
<1>3. Inv => FilledOnce
  <2> SUFFICES ASSUME Inv, NEW o \in Orders, NEW t \in Clients
               PROVE  /\ reports[o][t] <= 1
                      /\ reports[o][t] > 0 /\ ~overlap =>
                            \A u \in Clients \ {t} : reports[o][u] = 0
    BY DEF FilledOnce
  <2>1. \A u \in Clients : reports[o][u] \in Nat
    BY DEF TypeOK
  <2>2. QED
    BY <2>1 DEF IForget, ISole
<1>4. QED
  BY <1>1, <1>2, <1>3, PTL DEF Spec
=============================================================================
