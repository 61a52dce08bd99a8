-------------------------- MODULE MarketRelay_proofs --------------------------
(* Theorems about MarketRelay, for any clients and assets and any number of *)
(* books, messages, failures and stalls.                                    *)
EXTENDS MarketRelay, SequenceTheorems, TLAPS

Casts == [asset : Assets, book : Int, wait : SUBSET Clients, rest : SUBSET Clients,
          stale : SUBSET Clients]

\* The types of who is a client and of what may drop one.
IMembers ==
    /\ clients \subseteq Clients /\ listed \subseteq Clients
    /\ wants \in [Clients -> SUBSET Assets]
    /\ pc \in [Clients -> Steps] /\ link \in [Clients -> {"fast", "slow", "full", "gone"}]
    /\ casts \in Seq(Casts) /\ book \in [Assets -> Int]

Away(c) == pc[c] \in {"away", "ended"}
Gone(c) == link[c] = "gone"

\* Who has a handler is a client until its connection is gone; a broadcast drops
\* only clients whose connection is gone, which none regains.
IGhosts ==
    /\ \A c \in Clients : Away(c) => c \notin clients \cup listed /\ wants[c] = {}
    /\ \A c \in Clients : ~Away(c) /\ c \notin clients => Gone(c)
    /\ \A i \in DOMAIN casts : \A c \in casts[i].stale : Gone(c)

IRelay == IMembers /\ IGhosts

LEMMA InitRelay == Init => IRelay
<1> SUFFICES ASSUME Init
             PROVE  IRelay
  OBVIOUS
<1>1. casts = <<>> /\ casts \in Seq(Casts) /\ DOMAIN casts = {}
  BY DEF Init
<1>2. QED
  BY <1>1 DEF Init, IRelay, IMembers, IGhosts, Away, Steps

LEMMA RelayImplies == IRelay => NoGhosts
BY DEF IRelay, IMembers, IGhosts, Away, Gone, NoGhosts

\* A step of handlers that concerns neither who is a client nor a broadcast.
LEMMA HandlersOnly ==
    ASSUME IRelay, UNCHANGED <<members, casts, link, book>>,
           pc' \in [Clients -> Steps], \A c \in Clients : Away(c)' <=> Away(c)
    PROVE  IRelay'
BY DEF IRelay, IMembers, IGhosts, Gone, members

LEMMA EndsIsClean ==
    ASSUME IRelay, NEW c \in Clients, ~Away(c), Ends(c), UNCHANGED <<casts, link, book>>
    PROVE  IRelay'
<1>1. /\ clients' = clients \ {c} /\ listed' = listed \ {c} /\ wants' = [wants EXCEPT ![c] = {}]
      /\ pc' = [pc EXCEPT ![c] = "ended"]
  BY DEF Ends, Forgets, Moves
<1>2. IMembers'
  BY <1>1 DEF IRelay, IMembers, Steps
<1>3. \A d \in Clients : Away(d)' <=> Away(d) \/ d = c
  BY <1>1 DEF IRelay, IMembers, Away
<1>4. IGhosts'
  BY <1>1, <1>3 DEF IRelay, IMembers, IGhosts, Gone
<1>5. QED
  BY <1>2, <1>4 DEF IRelay

\* What is left of a sequence of broadcasts, and one more.
LEMMA CastsType ==
    ASSUME NEW s \in Seq(Casts), NEW i \in DOMAIN s
    PROVE  /\ RemoveAt(s, i) \in Seq(Casts) /\ Len(RemoveAt(s, i)) = Len(s) - 1
           /\ \A j \in DOMAIN RemoveAt(s, i) : \E n \in DOMAIN s : RemoveAt(s, i)[j] = s[n]
           /\ \A j \in 1..(Len(s) - 1) : RemoveAt(s, i)[j] = IF j < i THEN s[j] ELSE s[j + 1]
<1>1. Len(s) \in Nat /\ DOMAIN s = 1..Len(s) /\ i \in 1..Len(s)
  OBVIOUS
<1>2. SubSeq(s, 1, i - 1) \in Seq(Casts) /\ SubSeq(s, i + 1, Len(s)) \in Seq(Casts)
  BY <1>1
<1>3. /\ Len(SubSeq(s, 1, i - 1)) = i - 1 /\ Len(SubSeq(s, i + 1, Len(s))) = Len(s) - i
      /\ \A j \in 1..(i - 1) : SubSeq(s, 1, i - 1)[j] = s[j]
      /\ \A j \in 1..(Len(s) - i) : SubSeq(s, i + 1, Len(s))[j] = s[i + j]
  BY <1>1
<1>4. /\ RemoveAt(s, i) \in Seq(Casts) /\ Len(RemoveAt(s, i)) = Len(s) - 1
      /\ \A j \in 1..(Len(s) - 1) : RemoveAt(s, i)[j] = IF j < i THEN s[j] ELSE s[j + 1]
  <2> DEFINE u == SubSeq(s, 1, i - 1)
             v == SubSeq(s, i + 1, Len(s))
  <2>1. /\ u \o v \in Seq(Casts) /\ Len(u \o v) = Len(u) + Len(v)
        /\ \A j \in 1 .. Len(u) + Len(v) : (u \o v)[j] = IF j <= Len(u) THEN u[j] ELSE v[j - Len(u)]
    BY <1>2, ConcatProperties
  <2>2. RemoveAt(s, i) = u \o v
    BY DEF RemoveAt
  <2>3. /\ Len(u) = i - 1 /\ Len(v) = Len(s) - i /\ \A j \in 1..(i - 1) : u[j] = s[j]
        /\ \A j \in 1..(Len(s) - i) : v[j] = s[i + j]
    BY <1>3
  <2> HIDE DEF u, v
  <2>4. ASSUME NEW j \in 1..(Len(s) - 1)
        PROVE  (u \o v)[j] = IF j < i THEN s[j] ELSE s[j + 1]
    <3>1. CASE j < i
      BY <1>1, <2>1, <2>3, <3>1
    <3>2. CASE ~(j < i)
      <4>1. j - (i - 1) \in 1..(Len(s) - i) /\ i + (j - (i - 1)) = j + 1
        BY <1>1, <3>2
      <4>2. v[j - (i - 1)] = s[j + 1]
        BY <2>3, <4>1
      <4>3. QED
        BY <1>1, <2>1, <2>3, <3>2, <4>2
    <3>3. QED
      BY <3>1, <3>2
  <2>5. Len(u \o v) = Len(s) - 1
    BY <1>1, <2>1, <2>3
  <2>6. /\ u \o v \in Seq(Casts) /\ Len(u \o v) = Len(s) - 1
        /\ \A j \in 1..(Len(s) - 1) : (u \o v)[j] = IF j < i THEN s[j] ELSE s[j + 1]
    BY <2>1, <2>4, <2>5
  <2> DEFINE r == RemoveAt(s, i)
  <2>7. r = u \o v
    BY <2>2
  <2> HIDE DEF r
  <2>8. /\ r \in Seq(Casts) /\ Len(r) = Len(s) - 1
        /\ \A j \in 1..(Len(s) - 1) : r[j] = IF j < i THEN s[j] ELSE s[j + 1]
    BY <2>6, <2>7
  <2>9. QED
    BY <2>8 DEF r
<1>5. QED
  BY <1>1, <1>4

LEMMA AppendCast ==
    ASSUME NEW s \in Seq(Casts), NEW k \in Casts
    PROVE  /\ Append(s, k) \in Seq(Casts)
           /\ \A j \in DOMAIN Append(s, k) : Append(s, k)[j] = k \/ \E n \in DOMAIN s : Append(s, k)[j] = s[n]
<1>1. Append(s, k) \in Seq(Casts) /\ DOMAIN Append(s, k) = 1..(Len(s) + 1) /\ Len(s) \in Nat
  OBVIOUS
<1>2. \A j \in 1..Len(s) : Append(s, k)[j] = s[j]
  OBVIOUS
<1>3. Append(s, k)[Len(s) + 1] = k
  OBVIOUS
<1>4. QED
  BY <1>1, <1>2, <1>3

\* The steps of a handler.
LEMMA HandleKeeps ==
    ASSUME IRelay, NEW c \in Clients, Handle(c)
    PROVE  IRelay'
<1>t. pc \in [Clients -> Steps]
  BY DEF IRelay, IMembers
<1>1. CASE Leave(c)
  <2>1. ~Away(c) /\ Ends(c) /\ UNCHANGED <<casts, link, book>>
    BY <1>1 DEF Leave, Away, peers, venue
  <2>2. QED
    BY <2>1, EndsIsClean
<1>2. CASE ConnectSource(c) \/ Watch(c)
  <2>1. ~Away(c) /\ UNCHANGED <<casts, link, book>>
    BY <1>2 DEF ConnectSource, Watch, Away, peers
  <2>2. CASE Ends(c)
    BY <2>1, <2>2, EndsIsClean
  <2>3. CASE ~Ends(c)
    <3>1. /\ pc[c] \in {"connecting", "watching"} /\ UNCHANGED members
          /\ \E to \in {"watching", "answering"} : pc' = [pc EXCEPT ![c] = to]
      BY <1>2, <2>3 DEF ConnectSource, Watch, Moves
    <3>2. pc' \in [Clients -> Steps] /\ \A d \in Clients : Away(d)' <=> Away(d)
      BY <1>t, <3>1 DEF Away, Steps
    <3>3. QED
      BY <2>1, <3>1, <3>2, HandlersOnly
  <2>4. QED
    BY <2>2, <2>3
<1>3. CASE Locked(c) \/ CloseSource(c) \/ ReplaceSource(c) \/ Answered(c)
  <2>1. /\ pc[c] \in {"locking", "closing", "replacing", "answering"}
        /\ UNCHANGED <<members, casts, link, book>>
        /\ \E to \in {"closing", "watching", "replacing", "connecting", "reading"} :
              pc' = [pc EXCEPT ![c] = to]
    BY <1>3 DEF Locked, CloseSource, ReplaceSource, Answered, Moves, peers, venue
  <2>2. pc' \in [Clients -> Steps] /\ \A d \in Clients : Away(d)' <=> Away(d)
    BY <1>t, <2>1 DEF Away, Steps
  <2>3. QED
    BY <2>1, <2>2, HandlersOnly
<1>4. ASSUME NEW a \in Assets, Replay(c, a)
      PROVE  IRelay'
  <2>1. UNCHANGED <<members, casts, link, book, pc>>
    BY <1>4 DEF Replay, peers, venue
  <2>2. pc' \in [Clients -> Steps] /\ \A d \in Clients : Away(d)' <=> Away(d)
    BY <1>t, <2>1 DEF Away
  <2>3. QED
    BY <2>1, <2>2, HandlersOnly
<1>5. QED
  BY <1>1, <1>2, <1>3, <1>4 DEF Handle

\* A new broadcast drops nobody yet.
LEMMA ReceivedKeeps ==
    ASSUME IRelay, NEW a \in Assets, NEW b \in Int, Received(a, b),
           UNCHANGED <<members, pc, link>>, book' \in [Assets -> Int]
    PROVE  IRelay'
<1> DEFINE k == [asset |-> a, book |-> b, wait |-> {}, rest |-> {}, stale |-> {}]
<1>1. k \in Casts /\ casts' = Append(casts, k) /\ casts \in Seq(Casts) /\ k.stale = {}
  BY DEF Received, Casts, IRelay, IMembers
<1> HIDE DEF k
<1>2. /\ casts' \in Seq(Casts)
      /\ \A j \in DOMAIN casts' : casts'[j] = k \/ \E n \in DOMAIN casts : casts'[j] = casts[n]
  BY <1>1, AppendCast
<1>3. IMembers'
  BY <1>2 DEF IRelay, IMembers, members
<1>4. \A j \in DOMAIN casts' : \A c \in casts'[j].stale : Gone(c)
  BY <1>1, <1>2 DEF IRelay, IGhosts
<1>5. IGhosts'
  BY <1>4 DEF IRelay, IGhosts, Away, Gone, members
<1>6. QED
  BY <1>3, <1>5 DEF IRelay

\* A broadcast drops only those whose connection was gone when it served them.
LEMMA BroadcastKeeps ==
    ASSUME IRelay, NEW i \in DOMAIN casts, Broadcast(i)
    PROVE  IRelay'
<1>1. PICK some \in SUBSET Rest(i) : Serve(i, some)
  BY DEF Broadcast
<1>2. UNCHANGED <<pc, link, book>>
  BY DEF Broadcast, handlers, peers, venue
<1> DEFINE k == casts[i]
           wanting == {c \in some : k.asset \in wants[c]}
           slow == {c \in wanting : link[c] = "slow"}
           stale == k.stale \cup {c \in wanting \cup k.wait : link[c] = "gone"}
<1>3. casts \in Seq(Casts) /\ k \in Casts /\ Rest(i) \subseteq Clients
  <2>1. casts \in Seq(Casts) /\ clients \subseteq Clients
    BY DEF IRelay, IMembers
  <2>2. k \in Casts
    BY <2>1
  <2>3. k.rest \subseteq Clients
    BY <2>2 DEF Casts
  <2>4. QED
    BY <2>1, <2>2, <2>3 DEF Rest
<1>4. stale \subseteq Clients /\ slow \subseteq Clients /\ \A c \in stale : Gone(c)
  BY <1>3 DEF IRelay, IGhosts, Casts, Gone
<1>5. /\ RemoveAt(casts, i) \in Seq(Casts)
      /\ \A j \in DOMAIN RemoveAt(casts, i) : \E n \in DOMAIN casts : RemoveAt(casts, i)[j] = casts[n]
  BY <1>3, CastsType
<1>6. CASE slow = {}
  <2>1. /\ casts' = RemoveAt(casts, i) /\ clients' = clients \ stale /\ listed' = listed \ stale
        /\ wants' = [c \in Clients |-> IF c \in stale THEN {} ELSE wants[c]]
    BY <1>1, <1>6 DEF Serve
  <2> HIDE DEF stale
  <2>2. IMembers'
    BY <1>2, <1>5, <2>1 DEF IRelay, IMembers
  <2>3. \A j \in DOMAIN casts' : \A c \in casts'[j].stale : Gone(c)
    BY <1>5, <2>1 DEF IRelay, IGhosts
  <2>4. IGhosts'
    BY <1>2, <1>4, <2>1, <2>3 DEF IRelay, IMembers, IGhosts, Away, Gone
  <2>5. QED
    BY <2>2, <2>4 DEF IRelay
<1>7. CASE slow # {}
  <2> DEFINE r == [k EXCEPT !.wait = slow, !.rest = Rest(i) \ some, !.stale = stale]
  <2>1. casts' = Append(RemoveAt(casts, i), r) /\ UNCHANGED members
    BY <1>1, <1>7 DEF Serve
  <2>2. r \in Casts /\ r.stale = stale
    BY <1>3, <1>4 DEF Casts
  <2> HIDE DEF r, stale, slow, wanting, k
  <2>3. /\ casts' \in Seq(Casts)
        /\ \A j \in DOMAIN casts' : casts'[j] = r \/ \E n \in DOMAIN casts : casts'[j] = casts[n]
    BY <1>5, <2>1, <2>2, AppendCast
  <2>4. IMembers'
    BY <1>2, <2>1, <2>3 DEF IRelay, IMembers, members
  <2>5. \A j \in DOMAIN casts' : \A c \in casts'[j].stale : Gone(c)
    BY <1>4, <2>2, <2>3 DEF IRelay, IGhosts
  <2>6. IGhosts'
    BY <1>2, <2>1, <2>5 DEF IRelay, IGhosts, Away, Gone, members
  <2>7. QED
    BY <2>4, <2>6 DEF IRelay
<1>8. QED
  BY <1>6, <1>7

LEMMA StepRelay == IRelay /\ [Next]_vars => IRelay'
<1> SUFFICES ASSUME IRelay, [Next]_vars
             PROVE  IRelay'
  OBVIOUS
<1>t. pc \in [Clients -> Steps] /\ book \in [Assets -> Int]
  BY DEF IRelay, IMembers
<1>1. ASSUME NEW c \in Clients, Connect(c)
      PROVE  IRelay'
  <2>1. /\ pc[c] = "away" /\ pc' = [pc EXCEPT ![c] = "reading"]
        /\ clients' = clients \cup {c} /\ listed' = listed \cup {c}
        /\ UNCHANGED <<wants, casts, link, book>>
    BY <1>1 DEF Connect, Moves, peers, venue
  <2>2. IMembers'
    BY <1>t, <2>1 DEF IRelay, IMembers, Steps
  <2>3. \A d \in Clients : Away(d)' <=> Away(d) /\ d # c
    BY <1>t, <2>1 DEF Away
  <2>4. IGhosts'
    BY <2>1, <2>3 DEF IRelay, IGhosts, Gone
  <2>5. QED
    BY <2>2, <2>4 DEF IRelay
<1>2. ASSUME NEW c \in Clients, NEW assets \in SUBSET Assets, Subscribe(c, assets)
      PROVE  IRelay'
  <2>1. /\ pc[c] = "reading" /\ \E to \in {"answering", "locking"} : pc' = [pc EXCEPT ![c] = to]
        /\ wants' = [wants EXCEPT ![c] = assets] /\ listed' = listed \cup {c}
        /\ UNCHANGED <<clients, casts, link, book>>
    BY <1>2 DEF Subscribe, Moves, peers, venue
  <2>2. IMembers'
    BY <1>t, <2>1 DEF IRelay, IMembers, Steps
  <2>3. ~Away(c) /\ \A d \in Clients : Away(d)' <=> Away(d)
    BY <1>t, <2>1 DEF Away
  <2>4. IGhosts'
    BY <2>1, <2>3 DEF IRelay, IMembers, IGhosts, Gone
  <2>5. QED
    BY <2>2, <2>4 DEF IRelay
<1>3. ASSUME NEW c \in Clients, NEW how \in {"fast", "slow", "full", "gone"}, Reads(c, how)
      PROVE  IRelay'
  <2>1. /\ link' = [link EXCEPT ![c] = how] /\ link[c] # "gone"
        /\ UNCHANGED <<members, pc, casts, book>>
    BY <1>3 DEF Reads, Links, handlers, venue
  <2>2. QED
    BY <2>1 DEF IRelay, IMembers, IGhosts, Away, Gone, members
<1>4. ASSUME NEW a \in Assets, Snapshot(a) \/ Change(a)
      PROVE  IRelay'
  <2>1. UNCHANGED <<members, pc, link>> /\ book' \in [Assets -> Int]
    BY <1>4, <1>t DEF Snapshot, Change, handlers, peers
  <2>2. CASE UNCHANGED casts
    BY <2>1, <2>2 DEF IRelay, IMembers, IGhosts, Away, Gone, members
  <2>3. CASE \E b \in Int : Received(a, b)
    BY <2>1, <2>3, ReceivedKeeps
  <2>4. UNCHANGED casts \/ \E b \in Int : Received(a, b)
    BY <1>4, <1>t, <2>1 DEF Snapshot, Change
  <2>5. QED
    BY <2>2, <2>3, <2>4
<1>5. CASE Lose \/ Reconnect \/ Stop \/ UNCHANGED vars
  <2>1. UNCHANGED <<members, casts, link, book, pc>>
    BY <1>5 DEF Lose, Reconnect, Stop, vars, handlers, peers, venue
  <2>2. QED
    BY <1>t, <2>1, HandlersOnly DEF Away
<1>6. CASE Shutdown
  <2>1. link' = [c \in Clients |-> "gone"] /\ UNCHANGED <<members, pc, casts, book>>
    BY <1>6 DEF Shutdown, handlers, venue
  <2>2. \A j \in DOMAIN casts : casts[j].stale \subseteq Clients
    <3>1. \A j \in DOMAIN casts : casts[j] \in Casts
      BY DEF IRelay, IMembers
    <3>2. \A k \in Casts : k.stale \subseteq Clients
      BY DEF Casts
    <3>3. QED
      BY <3>1, <3>2
  <2>3. QED
    BY <2>1, <2>2 DEF IRelay, IMembers, IGhosts, Away, Gone, members
<1>7. QED
  BY <1>1, <1>2, <1>3, <1>4, <1>5, <1>6, HandleKeeps, BroadcastKeeps DEF Next, Feed, Cast

\* Nothing is left of a client whose handler has ended, and a client is dropped
\* before that only when its connection is gone.
THEOREM NobodyHaunts == Spec => []NoGhosts
<1>1. Init => IRelay
  BY InitRelay
<1>2. IRelay /\ [Next]_vars => IRelay'
  BY StepRelay
<1>3. IRelay => NoGhosts
  BY RelayImplies
<1>4. QED
  BY <1>1, <1>2, <1>3, PTL DEF Spec
-----------------------------------------------------------------------------
(* Covered.  Whoever is last in the queue for the lock asks for what all want; *)
(* without refreshing, for what the source does not have of it.                *)

InLock == {"locking", "closing", "replacing", "connecting", "watching"}
Latest == lock[Len(lock)]
Wanted == UNION {wants[c] : c \in Clients}
Sources == [up : BOOLEAN, loop : BOOLEAN, subs : SUBSET Assets, asked : SUBSET Assets]

ILock ==
    /\ lock \in Seq(Clients)
    /\ \A m, n \in DOMAIN lock : lock[m] = lock[n] => m = n
    /\ \A c \in Clients : pc[c] \in InLock <=> \E n \in DOMAIN lock : lock[n] = c
    /\ \A c \in Clients : pc[c] \in InLock \ {"locking"} => lock # <<>> /\ lock[1] = c

IAsked ==
    /\ need \in [Clients -> SUBSET Assets] /\ source \in Sources
    /\ source.asked \subseteq source.subs
    /\ source.up => source.asked = source.subs
    /\ \A c \in Clients : pc[c] = "connecting" => source.subs = {}
    /\ ~refresh => \A c \in Clients : pc[c] \notin {"closing", "replacing", "connecting"}

IWanted ==
    /\ lock # <<>> => Wanted \subseteq need[Latest] \cup (IF refresh THEN {} ELSE source.subs)
    /\ lock = <<>> /\ ~failed => Wanted \subseteq source.subs

ICovered == ILock /\ IAsked /\ IWanted

LEMMA InitCovered == Init => ICovered
<1> SUFFICES ASSUME Init
             PROVE  ICovered
  OBVIOUS
<1>1. lock = <<>> /\ lock \in Seq(Clients) /\ DOMAIN lock = {}
  BY DEF Init
<1>2. source = [up |-> TRUE, loop |-> TRUE, subs |-> {}, asked |-> {}]
  BY DEF Init, NewSource
<1>3. Wanted = {}
  BY DEF Init, Wanted
<1>4. ILock
  BY <1>1 DEF Init, ILock, InLock
<1>5. IAsked
  <2>1. source \in Sources /\ source.asked = source.subs
    BY <1>2 DEF Sources
  <2>2. need \in [Clients -> SUBSET Assets] /\ \A c \in Clients : pc[c] = "away"
    BY DEF Init
  <2>3. QED
    BY <2>1, <2>2 DEF IAsked
<1>6. IWanted
  BY <1>1, <1>3 DEF IWanted
<1>7. QED
  BY <1>4, <1>5, <1>6 DEF ICovered

\* The queue after its head is gone.
LEMMA LockTail ==
    ASSUME ILock, pc \in [Clients -> Steps], NEW c \in Clients, pc[c] \in InLock \ {"locking"},
           lock' = Tail(lock), NEW to \in Steps \ InLock, pc' = [pc EXCEPT ![c] = to]
    PROVE  /\ ILock' /\ lock # <<>> /\ \A n \in DOMAIN lock' : lock'[n] # c
           /\ lock' = <<>> => Latest = c
           /\ lock' # <<>> => Latest' = Latest /\ Latest # c /\ Latest \in Clients
<1>1. /\ lock # <<>> /\ lock[1] = c /\ lock \in Seq(Clients)
      /\ Len(lock) \in Nat \ {0} /\ DOMAIN lock = 1..Len(lock)
  BY DEF ILock
<1>2. /\ lock' \in Seq(Clients) /\ Len(lock') = Len(lock) - 1 /\ DOMAIN lock' = 1..(Len(lock) - 1)
      /\ \A n \in 1..(Len(lock) - 1) : lock'[n] = lock[n + 1]
  BY <1>1
<1>3. \A m, n \in 1..Len(lock) : lock[m] = lock[n] => m = n
  BY <1>1 DEF ILock
<1>4. \A n \in DOMAIN lock' : lock'[n] # c
  <2>1. ASSUME NEW n \in 1..(Len(lock) - 1)
        PROVE  lock[n + 1] # c
    <3>1. n + 1 \in 1..Len(lock) /\ 1 \in 1..Len(lock) /\ n + 1 # 1
      BY <1>1
    <3>2. QED
      BY <1>1, <1>3, <3>1
  <2>2. QED
    BY <1>2, <2>1
<1>5. \A m, n \in DOMAIN lock' : lock'[m] = lock'[n] => m = n
  <2>1. ASSUME NEW m \in 1..(Len(lock) - 1), NEW n \in 1..(Len(lock) - 1), lock[m + 1] = lock[n + 1]
        PROVE  m = n
    <3>1. m + 1 \in 1..Len(lock) /\ n + 1 \in 1..Len(lock)
      BY <1>1
    <3>2. m + 1 = n + 1
      BY <1>3, <2>1, <3>1
    <3>3. QED
      BY <3>2
  <2>2. QED
    BY <1>2, <2>1
<1>6. ASSUME NEW d \in Clients, d # c
      PROVE  (\E n \in DOMAIN lock : lock[n] = d) <=> \E n \in DOMAIN lock' : lock'[n] = d
  <2>1. ASSUME NEW n \in DOMAIN lock, lock[n] = d
        PROVE  \E m \in DOMAIN lock' : lock'[m] = d
    <3>1. n # 1
      BY <1>1, <1>6, <2>1
    <3>2. n - 1 \in 1..(Len(lock) - 1) /\ (n - 1) + 1 = n
      BY <1>1, <3>1
    <3>3. lock'[n - 1] = d
      BY <1>2, <2>1, <3>2
    <3>4. QED
      BY <1>2, <3>2, <3>3
  <2>2. ASSUME NEW n \in DOMAIN lock', lock'[n] = d
        PROVE  \E m \in DOMAIN lock : lock[m] = d
    <3>1. n + 1 \in DOMAIN lock /\ lock[n + 1] = d
      BY <1>1, <1>2, <2>2
    <3>2. QED
      BY <3>1
  <2>3. QED
    BY <2>1, <2>2
<1>7. ILock'
  <2>1. /\ pc'[c] \notin InLock
        /\ \A d \in Clients \ {c} : pc'[d] = pc[d] /\ pc[d] \notin InLock \ {"locking"}
    BY <1>1 DEF ILock
  <2>2. \A d \in Clients : pc'[d] \in InLock <=> \E n \in DOMAIN lock' : lock'[n] = d
    BY <1>4, <1>6, <2>1 DEF ILock
  <2>3. QED
    BY <1>2, <1>5, <2>1, <2>2 DEF ILock
<1>8. lock' = <<>> => Latest = c
  <2>1. lock' = <<>> => Len(lock') = 0
    OBVIOUS
  <2>2. lock' = <<>> => Len(lock) = 1
    BY <1>1, <1>2, <2>1
  <2>3. QED
    BY <1>1, <2>2 DEF Latest
<1>9. lock' # <<>> => Latest' = Latest /\ Latest # c /\ Latest \in Clients
  <2> SUFFICES ASSUME lock' # <<>>
               PROVE  Latest' = Latest /\ Latest # c /\ Latest \in Clients
    OBVIOUS
  <2>1. Len(lock) - 1 \in 1..(Len(lock) - 1) /\ (Len(lock) - 1) + 1 = Len(lock)
    BY <1>1, <1>2
  <2>2. lock'[Len(lock')] = lock[Len(lock)]
    BY <1>2, <2>1
  <2>3. lock[Len(lock)] \in Clients
    BY <1>1
  <2>4. Len(lock') \in DOMAIN lock' /\ lock'[Len(lock')] # c
    BY <1>2, <1>4, <2>1
  <2>5. QED
    BY <2>2, <2>3, <2>4 DEF Latest
<1>10. QED
  BY <1>1, <1>4, <1>7, <1>8, <1>9

LEMMA WantedLess ==
    ASSUME \A c \in Clients : wants'[c] \subseteq wants[c]
    PROVE  Wanted' \subseteq Wanted
BY DEF Wanted

LEMMA LastWaits ==
    ASSUME ILock, lock # <<>>
    PROVE  Latest \in Clients /\ pc[Latest] \in InLock
<1>1. lock \in Seq(Clients) /\ Len(lock) \in DOMAIN lock /\ Latest \in Clients
  BY DEF ILock, Latest
<1>2. QED
  BY <1>1 DEF ILock, Latest

\* A step beside the queue, after which nobody wants more.
LEMMA CoveredStill ==
    ASSUME ICovered, UNCHANGED <<refresh, failed, lock>>,
           need' \in [Clients -> SUBSET Assets],
           \A c \in Clients : pc[c] \in InLock => need'[c] = need[c],
           source' \in Sources, source'.subs = source.subs,
           source'.asked \subseteq source'.subs, source'.up => source'.asked = source'.subs,
           \A c \in Clients : wants'[c] \subseteq wants[c],
           \A c \in Clients : pc'[c] = pc[c] \/ (pc[c] \notin InLock /\ pc'[c] \notin InLock)
    PROVE  ICovered'
<1>1. ILock'
  BY DEF ICovered, ILock
<1>2. IAsked'
  BY DEF ICovered, IAsked, InLock
<1>3. IWanted'
  <2>1. lock # <<>> => Latest' = Latest /\ need'[Latest] = need[Latest]
    BY LastWaits DEF ICovered, Latest
  <2>2. Wanted' \subseteq Wanted
    BY WantedLess
  <2>3. QED
    BY <2>1, <2>2 DEF ICovered, IWanted
<1>4. QED
  BY <1>1, <1>2, <1>3 DEF ICovered

\* The holder of the lock goes on; it changes the source only when it refreshes.
LEMMA HolderMoves ==
    ASSUME ICovered, pc \in [Clients -> Steps], NEW c \in Clients,
           pc[c] \in InLock, lock # <<>>, lock[1] = c,
           UNCHANGED <<refresh, lock, need, wants>>,
           source' \in Sources, source'.asked \subseteq source'.subs,
           source'.up => source'.asked = source'.subs, refresh \/ source'.subs = source.subs,
           NEW to \in InLock \ {"locking"}, pc' = [pc EXCEPT ![c] = to],
           ~refresh => to = "watching", to = "connecting" => source'.subs = {}
    PROVE  ICovered'
<1>1. /\ pc'[c] = to /\ to \in InLock
      /\ \A d \in Clients \ {c} : pc'[d] = pc[d] /\ pc[d] # "connecting"
  BY DEF InLock, Steps, ICovered, ILock
<1>2. ILock'
  BY <1>1 DEF ICovered, ILock
<1>3. IAsked'
  BY <1>1 DEF ICovered, IAsked
<1>4. IWanted'
  BY DEF ICovered, IWanted, Latest, Wanted
<1>5. QED
  BY <1>2, <1>3, <1>4 DEF ICovered

\* The holder releases the lock; the source has what it asked for, or the refresh
\* has failed.
LEMMA HolderLeaves ==
    ASSUME ICovered, pc \in [Clients -> Steps], NEW c \in Clients, pc[c] \in InLock \ {"locking"},
           lock' = Tail(lock), NEW to \in Steps \ InLock, pc' = [pc EXCEPT ![c] = to],
           refresh' = refresh, need' \in [Clients -> SUBSET Assets],
           \A d \in Clients \ {c} : need'[d] = need[d],
           \A d \in Clients : wants'[d] \subseteq wants[d],
           source' \in Sources, source'.asked \subseteq source'.subs,
           source'.up => source'.asked = source'.subs,
           source.subs \subseteq source'.subs, need[c] \subseteq source'.subs \/ failed'
    PROVE  ICovered'
<1>1. /\ ILock' /\ lock # <<>>
      /\ lock' = <<>> => Latest = c
      /\ lock' # <<>> => Latest' = Latest /\ Latest # c /\ Latest \in Clients
  BY LockTail DEF ICovered
<1>2. /\ pc'[c] \notin InLock
      /\ \A d \in Clients \ {c} : pc'[d] = pc[d] /\ pc[d] # "connecting"
  BY DEF InLock, ICovered, ILock
<1>3. IAsked'
  BY <1>2 DEF ICovered, IAsked, InLock
<1>4. Wanted' \subseteq need[Latest] \cup (IF refresh THEN {} ELSE source.subs)
  BY <1>1, WantedLess DEF ICovered, IWanted
<1>5. IWanted'
  BY <1>1, <1>4 DEF IWanted
<1>6. QED
  BY <1>1, <1>3, <1>5 DEF ICovered

\* Who asks for the lock becomes the last, and asks for what all want.
LEMMA LockAppend ==
    ASSUME ILock, pc \in [Clients -> Steps], NEW c \in Clients, pc[c] \notin InLock,
           lock' = Append(lock, c), pc' = [pc EXCEPT ![c] = "locking"]
    PROVE  ILock' /\ lock' # <<>> /\ Latest' = c
<1>1. lock \in Seq(Clients) /\ Len(lock) \in Nat /\ DOMAIN lock = 1..Len(lock)
  BY DEF ILock
<1>2. /\ lock' \in Seq(Clients) /\ Len(lock') = Len(lock) + 1 /\ DOMAIN lock' = 1..(Len(lock) + 1)
      /\ lock'[Len(lock) + 1] = c /\ \A n \in 1..Len(lock) : lock'[n] = lock[n]
  BY <1>1
<1>3. \A n \in 1..Len(lock) : lock[n] # c
  BY <1>1 DEF ILock
<1>4. \A m, n \in DOMAIN lock' : lock'[m] = lock'[n] => m = n
  <2>1. \A m, n \in 1..Len(lock) : lock[m] = lock[n] => m = n
    BY <1>1 DEF ILock
  <2>2. QED
    BY <1>1, <1>2, <1>3, <2>1
<1>5. /\ pc'[c] = "locking" /\ \A d \in Clients \ {c} : pc'[d] = pc[d]
  BY DEF Steps
<1>6. \A d \in Clients : pc'[d] \in InLock <=> \E n \in DOMAIN lock' : lock'[n] = d
  <2>1. ASSUME NEW d \in Clients \ {c}
        PROVE  (\E n \in DOMAIN lock : lock[n] = d) <=> \E n \in DOMAIN lock' : lock'[n] = d
    <3>1. \A n \in DOMAIN lock : n \in DOMAIN lock' /\ lock'[n] = lock[n]
      BY <1>1, <1>2
    <3>2. \A n \in DOMAIN lock' : n \in DOMAIN lock \/ lock'[n] = c
      BY <1>1, <1>2
    <3>3. QED
      BY <3>1, <3>2
  <2>2. Len(lock) + 1 \in DOMAIN lock' /\ pc'[c] \in InLock
    BY <1>1, <1>2, <1>5 DEF InLock
  <2>3. QED
    BY <1>2, <1>5, <2>1, <2>2 DEF ILock
<1>7. ASSUME NEW d \in Clients, pc'[d] \in InLock \ {"locking"}
      PROVE  lock' # <<>> /\ lock'[1] = d
  <2>1. d # c /\ pc[d] \in InLock \ {"locking"}
    BY <1>5, <1>7
  <2>2. lock # <<>> /\ lock[1] = d
    BY <2>1 DEF ILock
  <2>3. 1 \in 1..Len(lock)
    BY <1>1, <2>2
  <2>4. QED
    BY <1>2, <2>2, <2>3
<1>8. lock' # <<>> /\ Latest' = c
  BY <1>1, <1>2 DEF Latest
<1>9. QED
  BY <1>2, <1>4, <1>6, <1>7, <1>8 DEF ILock

LEMMA SubscribeCovers ==
    ASSUME IRelay, ICovered, NEW c \in Clients, NEW assets \in SUBSET Assets, Subscribe(c, assets)
    PROVE  ICovered'
<1> DEFINE union == Union(c, assets)
<1>t. /\ pc \in [Clients -> Steps] /\ wants \in [Clients -> SUBSET Assets]
      /\ need \in [Clients -> SUBSET Assets]
  BY DEF IRelay, IMembers, ICovered, IAsked
<1>1. /\ pc[c] = "reading" /\ wants' = [wants EXCEPT ![c] = assets]
      /\ UNCHANGED <<refresh, failed, source>>
  BY DEF Subscribe, upstream
<1>2. Wanted' = union /\ union \subseteq Assets
  BY <1>t, <1>1 DEF Wanted, Union
<1>3. CASE /\ union = {} \/ (union = source.subs /\ ~refresh)
           /\ pc' = [pc EXCEPT ![c] = "answering"] /\ UNCHANGED <<lock, need>>
  <2>1. \A d \in Clients : pc'[d] = pc[d] \/ (pc[d] \notin InLock /\ pc'[d] \notin InLock)
    BY <1>t, <1>1, <1>3 DEF InLock
  <2>2. ILock'
    BY <1>3, <2>1 DEF ICovered, ILock
  <2>3. IAsked'
    BY <1>1, <1>3, <2>1 DEF ICovered, IAsked, InLock
  <2>4. IWanted'
    BY <1>1, <1>2, <1>3 DEF ICovered, IWanted, Latest
  <2>5. QED
    BY <2>2, <2>3, <2>4 DEF ICovered
<1>4. CASE /\ pc' = [pc EXCEPT ![c] = "locking"] /\ lock' = Append(lock, c)
           /\ need' = [need EXCEPT ![c] = union]
  <2>1. ILock' /\ lock' # <<>> /\ Latest' = c
    BY <1>t, <1>1, <1>4, LockAppend DEF ICovered, InLock
  <2>2. IAsked'
    BY <1>t, <1>1, <1>2, <1>4 DEF ICovered, IAsked
  <2>3. need'[c] = union
    BY <1>t, <1>4
  <2>4. IWanted'
    BY <1>2, <2>1, <2>3 DEF IWanted
  <2>5. QED
    BY <2>1, <2>2, <2>4 DEF ICovered
<1>5. QED
  BY <1>3, <1>4 DEF Subscribe, Moves

\* The steps of a handler: it waits for the lock, refreshes, asks, and answers.
LEMMA HandleCovers ==
    ASSUME IRelay, ICovered, NEW c \in Clients, Handle(c)
    PROVE  ICovered'
<1>t. /\ pc \in [Clients -> Steps] /\ wants \in [Clients -> SUBSET Assets]
      /\ need \in [Clients -> SUBSET Assets] /\ source \in Sources /\ lock \in Seq(Clients)
      /\ source.asked \subseteq source.subs /\ (source.up => source.asked = source.subs)
  BY DEF IRelay, IMembers, ICovered, IAsked, ILock
<1>h. ASSUME pc[c] \in InLock \ {"locking"}
      PROVE  lock # <<>> /\ lock[1] = c
  BY <1>h DEF ICovered, ILock
<1>e. ASSUME Ends(c)
      PROVE  /\ pc' = [pc EXCEPT ![c] = "ended"] /\ need' = [need EXCEPT ![c] = {}]
             /\ \A d \in Clients : wants'[d] \subseteq wants[d]
  BY <1>t, <1>e DEF Ends, Forgets, Moves
<1>s. ASSUME pc[c] \in {"closing", "replacing", "connecting"}
      PROVE  refresh
  BY <1>s DEF ICovered, IAsked
<1>1. CASE Locked(c)
  <2>1. lock # <<>> /\ lock[1] = c /\ pc[c] \in InLock
    BY <1>1, <1>t DEF Locked, Holds, ICovered, ILock, InLock
  <2>2. /\ UNCHANGED <<refresh, lock, need, wants, source>>
        /\ \E to \in {"closing", "watching"} : pc' = [pc EXCEPT ![c] = to] /\ (~refresh => to = "watching")
    BY <1>1 DEF Locked, Moves, members, upstream
  <2>3. PICK to \in {"closing", "watching"} : pc' = [pc EXCEPT ![c] = to] /\ (~refresh => to = "watching")
    BY <2>2
  <2>4. to \in InLock \ {"locking"}
    BY DEF InLock
  <2>5. QED
    BY <1>t, <2>1, <2>2, <2>3, <2>4, HolderMoves
<1>2. CASE CloseSource(c)
  <2>1. /\ pc[c] = "closing" /\ pc' = [pc EXCEPT ![c] = "replacing"]
        /\ UNCHANGED <<refresh, lock, need, wants>>
        /\ source' = [source EXCEPT !.up = FALSE, !.loop = FALSE, !.asked = {}]
    BY <1>2 DEF CloseSource, Moves, members, Disconnects
  <2>2. source' \in Sources /\ ~source'.up /\ source'.subs = source.subs /\ source'.asked = {}
    BY <1>t, <2>1 DEF Sources
  <2>3. QED
    BY <1>t, <1>h, <1>s, <2>1, <2>2, HolderMoves DEF InLock
<1>3. CASE ReplaceSource(c)
  <2>1. /\ pc[c] = "replacing" /\ pc' = [pc EXCEPT ![c] = "connecting"]
        /\ UNCHANGED <<refresh, lock, need, wants>> /\ source' = NewSource
    BY <1>3 DEF ReplaceSource, Moves, members
  <2>2. source' \in Sources /\ ~source'.up /\ source'.subs = {} /\ source'.asked = {}
    BY <2>1 DEF Sources, NewSource
  <2>3. QED
    BY <1>t, <1>h, <1>s, <2>1, <2>2, HolderMoves DEF InLock
<1>4. CASE ConnectSource(c)
  <2>1. pc[c] = "connecting" /\ refresh' = refresh
    BY <1>4 DEF ConnectSource
  <2>2. CASE /\ source' = [source EXCEPT !.up = TRUE, !.loop = TRUE]
             /\ Moves(c, "watching") /\ UNCHANGED <<members, lock, need>>
    <3>1. source' \in Sources /\ source'.subs = source.subs /\ source'.asked = source'.subs
      BY <1>t, <2>1, <2>2 DEF Sources, ICovered, IAsked
    <3>2. QED
      BY <1>t, <1>h, <1>s, <2>1, <2>2, <3>1, HolderMoves DEF InLock, Moves, members
  <2>3. CASE failed' = TRUE /\ Ends(c) /\ Releases /\ UNCHANGED source
    <3>1. /\ need' \in [Clients -> SUBSET Assets] /\ \A d \in Clients \ {c} : need'[d] = need[d]
      BY <1>t, <1>e, <2>3
    <3>2. pc[c] \in InLock \ {"locking"} /\ "ended" \in Steps \ InLock
      BY <2>1 DEF InLock, Steps
    <3>3. /\ source' \in Sources /\ source'.asked \subseteq source'.subs
          /\ (source'.up => source'.asked = source'.subs)
          /\ source.subs \subseteq source'.subs /\ failed' /\ lock' = Tail(lock)
      BY <1>t, <2>3 DEF Releases
    <3>4. QED
      BY <1>t, <1>e, <2>1, <2>3, <3>1, <3>2, <3>3, HolderLeaves
  <2>4. QED
    BY <1>4, <2>2, <2>3 DEF ConnectSource
<1>5. CASE Watch(c)
  <2>1. /\ pc[c] = "watching" /\ lock' = Tail(lock) /\ refresh' = refresh /\ failed' = failed
    BY <1>5 DEF Watch, Releases
  <2>2. pc[c] \in InLock \ {"locking"} /\ {"ended", "answering"} \subseteq Steps \ InLock
    BY <2>1 DEF InLock, Steps
  <2>3. CASE /\ Moves(c, "answering") /\ need' = [need EXCEPT ![c] = {}] /\ UNCHANGED members
             /\ IF need[c] \subseteq source.subs THEN UNCHANGED source ELSE Asks(need[c])
    <3>1. /\ need' \in [Clients -> SUBSET Assets] /\ \A d \in Clients \ {c} : need'[d] = need[d]
          /\ need[c] \subseteq Assets
      BY <1>t, <2>3
    <3>2. /\ source' \in Sources /\ source'.asked \subseteq source'.subs
          /\ (source'.up => source'.asked = source'.subs)
          /\ source.subs \subseteq source'.subs /\ need[c] \subseteq source'.subs
      <4>1. CASE need[c] \subseteq source.subs
        BY <1>t, <2>3, <4>1
      <4>2. CASE ~(need[c] \subseteq source.subs)
        <5>1. source' = [source EXCEPT !.up = TRUE, !.subs = @ \cup need[c],
                                       !.asked = source.subs \cup need[c]]
          BY <2>3, <4>2 DEF Asks
        <5>2. source.subs \cup need[c] \in SUBSET Assets
          BY <1>t, <3>1 DEF Sources
        <5>3. QED
          BY <1>t, <5>1, <5>2 DEF Sources
      <4>3. QED
        BY <4>1, <4>2
    <3>3. pc' = [pc EXCEPT ![c] = "answering"] /\ \A d \in Clients : wants'[d] \subseteq wants[d]
      BY <2>3 DEF Moves, members
    <3>4. QED
      BY <1>t, <2>1, <2>2, <3>1, <3>2, <3>3, HolderLeaves
  <2>4. CASE Ends(c) /\ source' = [source EXCEPT !.up = FALSE, !.subs = @ \cup need[c], !.asked = {}]
    <3>1. /\ need' \in [Clients -> SUBSET Assets] /\ \A d \in Clients \ {c} : need'[d] = need[d]
          /\ need[c] \subseteq Assets
      BY <1>t, <1>e, <2>4
    <3>2. /\ source' \in Sources /\ ~source'.up /\ source'.asked \subseteq source'.subs
          /\ source.subs \subseteq source'.subs /\ need[c] \subseteq source'.subs
      BY <1>t, <2>4, <3>1 DEF Sources
    <3>3. QED
      BY <1>t, <1>e, <2>1, <2>2, <2>4, <3>1, <3>2, HolderLeaves
  <2>5. QED
    BY <1>5, <2>3, <2>4 DEF Watch
<1>6. CASE Answered(c) \/ \E a \in Assets : Replay(c, a)
  <2>1. /\ UNCHANGED <<refresh, failed, lock, need, source, wants>>
        /\ pc[c] = "answering" /\ (pc' = pc \/ pc' = [pc EXCEPT ![c] = "reading"])
    BY <1>6 DEF Answered, Replay, Moves, members, upstream
  <2>2. \A d \in Clients : pc'[d] = pc[d] \/ (pc[d] \notin InLock /\ pc'[d] \notin InLock)
    BY <1>t, <2>1 DEF InLock
  <2>3. QED
    BY <1>t, <2>1, <2>2, CoveredStill
<1>7. CASE Leave(c)
  <2>1. pc[c] \in {"reading", "answering"} /\ Ends(c) /\ UNCHANGED <<refresh, failed, lock, source>>
    BY <1>7 DEF Leave, upstream
  <2>2. need' \in [Clients -> SUBSET Assets] /\ \A d \in Clients : pc[d] \in InLock => need'[d] = need[d]
    BY <1>t, <1>e, <2>1 DEF InLock
  <2>3. \A d \in Clients : pc'[d] = pc[d] \/ (pc[d] \notin InLock /\ pc'[d] \notin InLock)
    BY <1>t, <1>e, <2>1 DEF InLock
  <2>4. QED
    BY <1>t, <1>e, <2>1, <2>2, <2>3, CoveredStill
<1>8. QED
  BY <1>1, <1>2, <1>3, <1>4, <1>5, <1>6, <1>7 DEF Handle

LEMMA StepCovered == IRelay /\ ICovered /\ [Next]_vars => ICovered'
<1> SUFFICES ASSUME IRelay, ICovered, [Next]_vars
             PROVE  ICovered'
  OBVIOUS
<1>t. /\ pc \in [Clients -> Steps] /\ wants \in [Clients -> SUBSET Assets]
      /\ need \in [Clients -> SUBSET Assets] /\ source \in Sources
      /\ source.asked \subseteq source.subs /\ (source.up => source.asked = source.subs)
  BY DEF IRelay, IMembers, ICovered, IAsked
<1>1. ASSUME NEW c \in Clients, Connect(c)
      PROVE  ICovered'
  <2>1. /\ pc[c] = "away" /\ pc' = [pc EXCEPT ![c] = "reading"]
        /\ UNCHANGED <<refresh, failed, lock, need, source, wants>>
    BY <1>1 DEF Connect, Moves, upstream
  <2>2. \A d \in Clients : pc'[d] = pc[d] \/ (pc[d] \notin InLock /\ pc'[d] \notin InLock)
    BY <1>t, <2>1 DEF InLock
  <2>3. QED
    BY <1>t, <2>1, <2>2, CoveredStill
<1>2. CASE UNCHANGED vars \/ Shutdown
           \/ \E c \in Clients, how \in {"fast", "slow", "full", "gone"} : Reads(c, how)
  <2>1. UNCHANGED <<refresh, failed, lock, need, source, wants, pc>>
    BY <1>2 DEF vars, Shutdown, Reads, handlers, members, upstream
  <2>2. QED
    BY <1>t, <2>1, CoveredStill
<1>3. CASE Lose \/ Reconnect \/ Stop
  <2>1. UNCHANGED <<refresh, failed, lock, need, wants, pc>>
    BY <1>3 DEF Lose, Reconnect, Stop, handlers, members
  <2>2. \/ source' = [source EXCEPT !.up = FALSE, !.asked = {}]
        \/ source' = [source EXCEPT !.up = TRUE, !.asked = source.subs]
        \/ source' = [source EXCEPT !.up = FALSE, !.loop = FALSE, !.asked = {}]
    BY <1>3 DEF Lose, Reconnect, Stop, Disconnects
  <2>3. /\ source' \in Sources /\ source'.subs = source.subs /\ source'.asked \subseteq source'.subs
        /\ (source'.up => source'.asked = source'.subs)
    BY <1>t, <2>2 DEF Sources
  <2>4. QED
    BY <1>t, <2>1, <2>3, CoveredStill
<1>4. ASSUME NEW a \in Assets, Snapshot(a) \/ Change(a)
      PROVE  ICovered'
  <2>1. UNCHANGED <<refresh, failed, lock, need, source, wants, pc>>
    BY <1>4 DEF Snapshot, Change, handlers, members
  <2>2. QED
    BY <1>t, <2>1, CoveredStill
<1>5. ASSUME NEW i \in DOMAIN casts, Broadcast(i)
      PROVE  ICovered'
  <2>1. UNCHANGED <<refresh, failed, lock, need, source, pc>>
    BY <1>5 DEF Broadcast, handlers, upstream
  <2>2. \A c \in Clients : wants'[c] \subseteq wants[c]
    BY <1>5, <1>t DEF Broadcast, Serve, members
  <2>3. QED
    BY <1>t, <2>1, <2>2, CoveredStill
<1>6. QED
  BY <1>1, <1>2, <1>3, <1>4, <1>5, HandleCovers, SubscribeCovers DEF Next, Feed, Cast

\* While nobody changes the subscriptions, the source has what all clients ask
\* for, and has asked the venue for it if it is connected, unless the last refresh
\* found no connection.
THEOREM SourceCovers == Spec => []Covered
<1>1. Init => IRelay /\ ICovered
  BY InitRelay, InitCovered
<1>2. (IRelay /\ ICovered) /\ [Next]_vars => (IRelay /\ ICovered)'
  BY StepRelay, StepCovered
<1>3. IRelay /\ ICovered => Covered
  BY DEF ICovered, IAsked, IWanted, Wanted, Covered
<1>4. QED
  BY <1>1, <1>2, <1>3, PTL DEF Spec
-----------------------------------------------------------------------------
(* What a client has got.                                                    *)

\* The types of the books, and of what handlers have still to replay.
IBooks ==
    /\ got \in [Clients -> [Assets -> Int]] /\ \A c \in Clients, a \in Assets : got[c][a] >= None
    /\ cache \in [Assets -> Int] /\ todo \in [Clients -> SUBSET Assets]

\* The newest book a client has never gets older; only who was sent an older one is late.
LEMMA GetsIs ==
    ASSUME IBooks, NEW cs \in SUBSET Clients, NEW a \in Assets, NEW b \in Int, Gets(cs, a, b)
    PROVE  /\ got' \in [Clients -> [Assets -> Int]]
           /\ \A c \in Clients, x \in Assets : got'[c][x] >= got[c][x] /\ got'[c][x] >= None
           /\ \A c \in Clients, x \in Assets :
                 got'[c][x] = got[c][x] \/ (c \in cs /\ x = a /\ got'[c][x] = b)
           /\ \A c \in cs : got'[c][a] >= b
           /\ \A c \in late' : c \in late \/ (c \in cs /\ b < got[c][a])
<1>1. /\ got' = [c \in Clients |-> IF c \in cs /\ b > got[c][a]
                                   THEN [got[c] EXCEPT ![a] = b] ELSE got[c]]
      /\ late' = late \cup {c \in cs : b < got[c][a]}
  BY DEF Gets
<1>2. ASSUME NEW c \in Clients
      PROVE  /\ got'[c] \in [Assets -> Int] /\ got[c][a] \in Int
             /\ c \in cs => got'[c][a] >= b
             /\ \A x \in Assets : /\ got'[c][x] >= got[c][x] /\ got'[c][x] >= None
                                  /\ got'[c][x] = got[c][x] \/ (c \in cs /\ x = a /\ got'[c][x] = b)
  <2>1. got[c] \in [Assets -> Int] /\ \A x \in Assets : got[c][x] >= None
    BY DEF IBooks
  <2>2. CASE c \in cs /\ b > got[c][a]
    <3>1. got'[c] = [got[c] EXCEPT ![a] = b]
      BY <1>1, <2>2
    <3>2. got'[c] \in [Assets -> Int] /\ got'[c][a] = b /\ \A x \in Assets \ {a} : got'[c][x] = got[c][x]
      BY <2>1, <3>1
    <3>3. b >= None
      BY <2>1, <2>2 DEF None
    <3>4. QED
      BY <2>1, <2>2, <3>2, <3>3 DEF None
  <2>3. CASE ~(c \in cs /\ b > got[c][a])
    <3>1. got'[c] = got[c]
      BY <1>1, <2>3
    <3>2. QED
      BY <2>1, <2>3, <3>1
  <2>4. QED
    BY <2>2, <2>3
<1>3. got' \in [Clients -> [Assets -> Int]]
  BY <1>1, <1>2
<1>4. QED
  BY <1>1, <1>2, <1>3

\* The parts of a broadcast.
LEMMA CastFields ==
    ASSUME IMembers, NEW i \in DOMAIN casts
    PROVE  /\ casts[i] \in Casts /\ casts[i].asset \in Assets /\ casts[i].book \in Int
           /\ casts[i].wait \subseteq Clients /\ casts[i].rest \subseteq Clients
           /\ casts[i].stale \subseteq Clients
<1>1. casts[i] \in Casts
  BY DEF IMembers
<1>2. QED
  BY <1>1 DEF Casts

LEMMA InitBooks == Init => IBooks
BY DEF Init, IBooks, None

\* Who is served gets the book, misses it or is gone.
Sends(i, some) ==
    \E cs \in SUBSET Clients :
       /\ Gets(cs, casts[i].asset, casts[i].book)
       /\ \A c \in some : casts[i].asset \in wants[c]
             => c \in cs \/ c \in skipped' \/ link[c] = "gone"

\* The task ends, and those that are gone are dropped; or it waits, with its rest.
Passes(i, some) ==
    \E stale \in SUBSET Clients :
       /\ casts[i].stale \subseteq stale
       /\ \A c \in some : casts[i].asset \in wants[c] /\ link[c] = "gone" => c \in stale
       /\ \/ /\ some = Rest(i) /\ casts' = RemoveAt(casts, i)
             /\ clients' = clients \ stale /\ held' = held
             /\ \A c \in Clients : wants'[c] \subseteq wants[c]
          \/ /\ held' = TRUE /\ UNCHANGED members
             /\ \E k \in Casts :
                   /\ casts' = Append(RemoveAt(casts, i), k)
                   /\ k.asset = casts[i].asset /\ k.book = casts[i].book
                   /\ k.rest = Rest(i) \ some /\ k.stale = stale

\* What a broadcast does, whichever clients it serves now.
LEMMA ServeIs ==
    ASSUME IMembers, IBooks, NEW i \in DOMAIN casts, NEW some \in SUBSET Rest(i), Serve(i, some)
    PROVE  /\ casts[i] \in Casts /\ Rest(i) \subseteq Clients
           /\ Sends(i, some)
           /\ skipped \subseteq skipped'
           /\ Passes(i, some)
<1> DEFINE k == casts[i]
           wanting == {c \in some : k.asset \in wants[c]}
           slow == {c \in wanting : link[c] = "slow"}
           stale == k.stale \cup {c \in wanting \cup k.wait : link[c] = "gone"}
           cs == {c \in wanting : link[c] \in {"fast", "slow"}}
<1>1. casts \in Seq(Casts) /\ k \in Casts /\ Rest(i) \subseteq Clients
  <2>1. casts \in Seq(Casts) /\ clients \subseteq Clients
    BY DEF IMembers
  <2>2. k \in Casts
    BY <2>1
  <2>3. k.rest \subseteq Clients
    BY <2>2 DEF Casts
  <2>4. QED
    BY <2>1, <2>2, <2>3 DEF Rest
<1>2. stale \subseteq Clients /\ slow \subseteq Clients /\ cs \subseteq Clients
  BY <1>1 DEF Casts
<1>3. /\ Gets(cs, k.asset, k.book) /\ skipped' = skipped \cup {c \in wanting : link[c] = "full"}
      /\ IF slow = {}
         THEN /\ some = Rest(i) /\ casts' = RemoveAt(casts, i)
              /\ clients' = clients \ stale /\ listed' = listed \ stale
              /\ wants' = [c \in Clients |-> IF c \in stale THEN {} ELSE wants[c]]
              /\ UNCHANGED held
         ELSE /\ held' = TRUE /\ UNCHANGED members
              /\ casts' = Append(RemoveAt(casts, i),
                                 [k EXCEPT !.wait = slow, !.rest = Rest(i) \ some, !.stale = stale])
  BY DEF Serve
<1>4. \A c \in some : link[c] \in {"fast", "slow", "full", "gone"}
  BY <1>1 DEF IMembers
<1>5. \A c \in some : k.asset \in wants[c] => c \in cs \/ c \in skipped' \/ link[c] = "gone"
  BY <1>3, <1>4
<1>6. k.stale \subseteq stale /\ \A c \in some : k.asset \in wants[c] /\ link[c] = "gone" => c \in stale
  OBVIOUS
<1>7. CASE slow = {}
  <2>1. \A c \in Clients : wants'[c] \subseteq wants[c]
    BY <1>3, <1>7 DEF IMembers
  <2> HIDE DEF stale, cs
  <2>2. QED
    BY <1>1, <1>2, <1>3, <1>5, <1>6, <1>7, <2>1 DEF Sends, Passes
<1>8. CASE slow # {}
  <2> DEFINE r == [k EXCEPT !.wait = slow, !.rest = Rest(i) \ some, !.stale = stale]
  <2>1. /\ r \in Casts /\ r.asset = k.asset /\ r.book = k.book /\ r.rest = Rest(i) \ some
        /\ r.stale = stale
    BY <1>1, <1>2 DEF Casts
  <2>2. casts' = Append(RemoveAt(casts, i), r) /\ held' = TRUE /\ UNCHANGED members
    BY <1>3, <1>8
  <2> HIDE DEF stale, cs, r
  <2>3. QED
    BY <1>1, <1>2, <1>3, <1>5, <1>6, <2>1, <2>2 DEF Sends, Passes
<1>9. QED
  BY <1>7, <1>8

LEMMA StepBooks == IMembers /\ IBooks /\ [Next]_vars => IBooks'
<1> SUFFICES ASSUME IMembers, IBooks, [Next]_vars
             PROVE  IBooks'
  OBVIOUS
<1>1. ASSUME NEW c \in Clients, NEW a \in Assets, Replay(c, a)
      PROVE  IBooks'
  <2>1. todo' \in [Clients -> SUBSET Assets] /\ cache' = cache /\ cache[a] \in Int
    BY <1>1 DEF Replay, IBooks, upstream
  <2>2. CASE got' = got
    BY <2>1, <2>2 DEF IBooks
  <2>3. CASE Gets({c}, a, cache[a])
    BY <2>1, <2>3, GetsIs DEF IBooks
  <2>4. QED
    BY <1>1, <2>2, <2>3 DEF Replay
<1>2. ASSUME NEW i \in DOMAIN casts, Broadcast(i)
      PROVE  IBooks'
  <2>1. PICK some \in SUBSET Rest(i) : Serve(i, some)
    BY <1>2 DEF Broadcast
  <2>2. UNCHANGED <<cache, todo>>
    BY <1>2 DEF Broadcast, upstream, handlers
  <2>3. casts[i].asset \in Assets /\ casts[i].book \in Int
    BY <2>1, CastFields
  <2>4. PICK cs \in SUBSET Clients : Gets(cs, casts[i].asset, casts[i].book)
    BY <2>1, ServeIs DEF Sends
  <2>5. got' \in [Clients -> [Assets -> Int]] /\ \A c \in Clients, a \in Assets : got'[c][a] >= None
    BY <2>3, <2>4, GetsIs
  <2>6. QED
    BY <2>2, <2>5 DEF IBooks
<1>3. ASSUME NEW a \in Assets, Snapshot(a) \/ Change(a)
      PROVE  IBooks'
  <2>1. UNCHANGED <<got, todo>>
    BY <1>3 DEF Snapshot, Change, history, handlers
  <2>2. cache' \in [Assets -> Int]
    BY <1>3 DEF Snapshot, Change, Received, IBooks, IMembers
  <2>3. QED
    BY <2>1, <2>2 DEF IBooks
<1>4. ASSUME NEW c \in Clients, Handle(c), got' = got
      PROVE  IBooks'
  <2>1. cache' \in [Assets -> Int]
    BY <1>4 DEF Handle, Locked, CloseSource, ReplaceSource, ConnectSource, Watch, Replay, Answered,
                Leave, upstream, IBooks, None
  <2>2. todo' \in [Clients -> SUBSET Assets]
    BY <1>4 DEF Handle, Locked, CloseSource, ReplaceSource, ConnectSource, Watch, Replay, Answered,
                Leave, Ends, handlers, IBooks
  <2>3. QED
    BY <1>4, <2>1, <2>2 DEF IBooks
<1>5. ASSUME NEW c \in Clients, Handle(c)
      PROVE  IBooks'
  <2>1. CASE got' = got
    BY <1>4, <1>5, <2>1
  <2>2. CASE got' # got
    <3>1. \E a \in Assets : Replay(c, a)
      BY <1>5, <2>2 DEF Handle, Locked, CloseSource, ReplaceSource, ConnectSource, Watch, Answered,
                Leave, history
    <3>2. QED
      BY <1>1, <3>1
  <2>3. QED
    BY <2>1, <2>2
<1>6. ASSUME NEW c \in Clients, NEW assets \in SUBSET Assets, Subscribe(c, assets)
      PROVE  IBooks'
  BY <1>6 DEF Subscribe, IBooks, upstream, history
<1>7. CASE \/ \E c \in Clients : Connect(c) \/ \E how \in {"fast", "slow", "full", "gone"} : Reads(c, how)
           \/ Lose \/ Reconnect \/ Shutdown \/ Stop \/ UNCHANGED vars
  <2>1. UNCHANGED <<got, cache, todo>>
    BY <1>7 DEF Connect, Reads, Lose, Reconnect, Shutdown, Stop, vars, upstream, history, handlers
  <2>2. QED
    BY <2>1 DEF IBooks
<1>8. QED
  BY <1>2, <1>3, <1>5, <1>6, <1>7 DEF Next, Feed, Cast

-----------------------------------------------------------------------------
(* The order of the books a client gets.                                     *)

\* While no task has waited, the tasks of an asset hold its books in the order in
\* which the venue made them, and nobody who was not sent a cached book has a newer
\* one than a task still holds.
IOrder ==
    /\ late \subseteq replayed
    /\ \A i \in DOMAIN casts : casts[i].wait = {} /\ casts[i].book <= book[casts[i].asset]
    /\ \A i, j \in DOMAIN casts :
          i < j /\ casts[i].asset = casts[j].asset => casts[i].book <= casts[j].book
    /\ \A c \in Clients \ replayed, a \in Assets : got[c][a] <= book[a]
    /\ \A c \in Clients \ replayed, i \in DOMAIN casts : got[c][casts[i].asset] <= casts[i].book

LEMMA InitOrder == Init => IOrder
<1> SUFFICES ASSUME Init
             PROVE  IOrder
  OBVIOUS
<1>1. DOMAIN casts = {} /\ late = {}
  BY DEF Init
<1>2. \A c \in Clients, a \in Assets : got[c][a] <= book[a]
  BY DEF Init, None
<1>3. QED
  BY <1>1, <1>2 DEF IOrder

\* A book of the venue joins the queue behind all others of its asset.
LEMMA ReceivedOrder ==
    ASSUME IMembers, IBooks, IOrder, NEW a \in Assets, NEW b \in Int, Received(a, b),
           UNCHANGED history, book' \in [Assets -> Int], \A x \in Assets : book[x] <= book'[x],
           b = book'[a]
    PROVE  IOrder'
<1> DEFINE k == [asset |-> a, book |-> b, wait |-> {}, rest |-> {}, stale |-> {}]
<1>1. casts' = Append(casts, k) /\ casts \in Seq(Casts) /\ k.asset = a /\ k.book = b /\ k.wait = {}
  BY DEF Received, IMembers
<1> HIDE DEF k
<1>2. PICK n \in Nat : n = Len(casts)
  BY <1>1
<1>3. /\ DOMAIN casts = 1..n /\ DOMAIN casts' = 1..(n + 1) /\ casts'[n + 1] = k
      /\ \A j \in 1..n : casts'[j] = casts[j]
  BY <1>1, <1>2
<1>4. /\ \A i \in 1..n : /\ casts[i].asset \in Assets /\ casts[i].book \in Int
                         /\ casts[i].wait = {} /\ casts[i].book <= book[casts[i].asset]
      /\ \A x \in Assets : book[x] \in Int /\ book'[x] \in Int /\ book[x] <= book'[x]
      /\ \A c \in Clients, x \in Assets : got[c][x] \in Int
  BY <1>3, CastFields DEF IMembers, IBooks, IOrder
<1>5. \A i \in 1..(n + 1) : casts'[i].wait = {} /\ casts'[i].book <= book'[casts'[i].asset]
  <2>1. \A i \in 1..n : casts[i].book <= book'[casts[i].asset]
    BY <1>4
  <2>2. \A i \in 1..(n + 1) : i \in 1..n \/ i = n + 1
    OBVIOUS
  <2>3. k.book <= book'[k.asset]
    BY <1>1
  <2>4. QED
    BY <1>1, <1>3, <1>4, <2>1, <2>2, <2>3
<1>6. ASSUME NEW i \in 1..(n + 1), NEW j \in 1..(n + 1), i < j, casts'[i].asset = casts'[j].asset
      PROVE  casts'[i].book <= casts'[j].book
  <2>1. i \in 1..n
    BY <1>6
  <2>2. CASE j \in 1..n
    BY <1>3, <1>6, <2>1, <2>2 DEF IOrder
  <2>3. CASE j = n + 1
    <3>1. casts[i].asset = a
      BY <1>1, <1>3, <1>6, <2>1, <2>3
    <3>2. casts[i].book <= b
      BY <1>4, <2>1, <3>1
    <3>3. QED
      BY <1>1, <1>3, <2>1, <2>3, <3>2
  <2>4. QED
    BY <2>2, <2>3
<1>7. ASSUME NEW c \in Clients \ replayed
      PROVE  /\ \A x \in Assets : got[c][x] <= book'[x]
             /\ \A i \in 1..(n + 1) : got[c][casts'[i].asset] <= casts'[i].book
  <2>1. ASSUME NEW x \in Assets
        PROVE  got[c][x] <= book'[x]
    <3>1. got[c][x] <= book[x]
      BY DEF IOrder
    <3>2. QED
      BY <1>4, <3>1
  <2>2. ASSUME NEW i \in 1..(n + 1)
        PROVE  got[c][casts'[i].asset] <= casts'[i].book
    <3>1. CASE i \in 1..n
      BY <1>3, <3>1 DEF IOrder
    <3>2. CASE i = n + 1
      BY <1>1, <1>3, <2>1, <3>2
    <3>3. QED
      BY <3>1, <3>2
  <2>3. QED
    BY <2>1, <2>2
<1>8. /\ got' = got /\ late' = late /\ replayed' = replayed
  BY DEF history
<1>9. QED
  BY <1>3, <1>5, <1>6, <1>7, <1>8 DEF IOrder

\* Without a task that waits the first of the queue is served, to all clients.
LEMMA BroadcastOrder ==
    ASSUME IMembers, IBooks, IOrder, NEW i \in DOMAIN casts, Broadcast(i), ~held'
    PROVE  IOrder'
<1>1. PICK some \in SUBSET Rest(i) : Serve(i, some)
  BY DEF Broadcast
<1>2. PICK n \in Nat : n = Len(casts) /\ DOMAIN casts = 1..n
  BY DEF IMembers
<1>3. i = 1
  <2>1. \A j \in 1..(i - 1) : casts[j].wait # casts[i].wait
    BY DEF Broadcast, Turn
  <2>2. ASSUME 1 \in 1..(i - 1)
        PROVE  FALSE
    <3>1. casts[1].wait = {} /\ casts[i].wait = {}
      BY <1>2, <2>2 DEF IOrder
    <3>2. QED
      BY <2>1, <2>2, <3>1
  <2>3. QED
    BY <1>2, <2>2
<1>4. casts \in Seq(Casts) /\ casts' = RemoveAt(casts, i)
  BY <1>1, ServeIs DEF IMembers, Passes
<1>5. /\ Len(casts') = n - 1 /\ casts' \in Seq(Casts)
      /\ \A j \in 1..(n - 1) : casts'[j] = casts[j + 1]
  <2>1. /\ RemoveAt(casts, i) \in Seq(Casts) /\ Len(RemoveAt(casts, i)) = Len(casts) - 1
        /\ \A j \in 1..(Len(casts) - 1) :
              RemoveAt(casts, i)[j] = IF j < i THEN casts[j] ELSE casts[j + 1]
    BY <1>4, CastsType
  <2>2. \A j \in 1..(n - 1) : ~(j < i)
    BY <1>2, <1>3
  <2>3. QED
    BY <1>2, <1>4, <2>1, <2>2
<1>6. DOMAIN casts' = 1..(n - 1) /\ 1 \in 1..n
  BY <1>2, <1>3, <1>5
<1>7. PICK a \in Assets, b \in Int : a = casts[1].asset /\ b = casts[1].book
  BY <1>2, <1>6, CastFields
<1>8. PICK cs \in SUBSET Clients : Gets(cs, a, b)
  <2>1. \E cs \in SUBSET Clients : Gets(cs, casts[i].asset, casts[i].book)
    BY <1>1, ServeIs DEF Sends
  <2>2. a = casts[i].asset /\ b = casts[i].book
    BY <1>3, <1>7
  <2>3. QED
    BY <2>1, <2>2
<1>9. /\ \A c \in Clients, x \in Assets : got[c][x] \in Int
      /\ \A c \in Clients, x \in Assets : got'[c][x] = got[c][x] \/ (x = a /\ got'[c][x] = b)
      /\ \A c \in late' : c \in late \/ (c \in Clients /\ b < got[c][a])
  <2>1. /\ \A c \in Clients, x \in Assets :
              got'[c][x] = got[c][x] \/ (c \in cs /\ x = a /\ got'[c][x] = b)
        /\ \A c \in late' : c \in late \/ (c \in cs /\ b < got[c][a])
    <3>1. cs \in SUBSET Clients /\ a \in Assets /\ b \in Int /\ Gets(cs, a, b)
      BY <1>7, <1>8
    <3>2. \A c \in late' : c \in late \/ (c \in cs /\ b < got[c][a])
      BY <1>8 DEF Gets
    <3>3. \A c \in Clients, x \in Assets :
             got'[c][x] = got[c][x] \/ (c \in cs /\ x = a /\ got'[c][x] = b)
      <4>1. ASSUME NEW c \in Clients, NEW x \in Assets
            PROVE  got'[c][x] = got[c][x] \/ (c \in cs /\ x = a /\ got'[c][x] = b)
        <5>1. got[c] \in [Assets -> Int]
          BY DEF IBooks
        <5>2. got'[c] = got[c] \/ (c \in cs /\ got'[c] = [got[c] EXCEPT ![a] = b])
          BY <1>8 DEF Gets
        <5>3. QED
          BY <5>1, <5>2
      <4>2. QED
        BY <4>1
    <3>4. QED
      BY <3>2, <3>3
  <2>2. QED
    BY <2>1 DEF IBooks
<1>10. book' = book /\ replayed' = replayed
  BY DEF Broadcast, venue
<1>11. late' \subseteq replayed
  <2>1. ASSUME NEW c \in late', c \notin replayed
        PROVE  FALSE
    <3>1. c \in Clients /\ b < got[c][a]
      BY <1>9, <2>1 DEF IOrder
    <3>2. got[c][a] <= b
      BY <1>2, <1>6, <1>7, <2>1, <3>1 DEF IOrder
    <3>3. QED
      BY <1>7, <1>9, <3>1, <3>2
  <2>2. QED
    BY <2>1
<1>12. \A j \in 1..(n - 1) : j + 1 \in 1..n /\ 1 < j + 1
  BY <1>2
<1>13. ASSUME NEW j \in 1..(n - 1)
       PROVE  casts'[j].wait = {} /\ casts'[j].book <= book[casts'[j].asset]
  BY <1>2, <1>5, <1>12 DEF IOrder
<1>14. ASSUME NEW l \in 1..(n - 1), NEW j \in 1..(n - 1), l < j, casts'[l].asset = casts'[j].asset
       PROVE  casts'[l].book <= casts'[j].book
  <2>1. PICK p \in 1..n, q \in 1..n : p = l + 1 /\ q = j + 1 /\ p < q
    BY <1>12, <1>14
  <2>2. QED
    BY <1>2, <1>5, <1>14, <2>1 DEF IOrder
<1>15. ASSUME NEW c \in Clients \ replayed
       PROVE  /\ \A x \in Assets : got'[c][x] <= book[x]
              /\ \A j \in 1..(n - 1) : got'[c][casts'[j].asset] <= casts'[j].book
  <2>1. b <= book[a]
    BY <1>2, <1>6, <1>7 DEF IOrder
  <2>2. \A x \in Assets : got'[c][x] <= book[x]
    BY <1>9, <2>1 DEF IOrder
  <2>3. ASSUME NEW j \in 1..(n - 1)
        PROVE  got'[c][casts'[j].asset] <= casts'[j].book
    <3>1. PICK q \in 1..n : q = j + 1 /\ 1 < q /\ casts'[j] = casts[q]
      BY <1>5, <1>12
    <3>2. casts[q].asset \in Assets /\ got[c][casts[q].asset] <= casts[q].book
      BY <1>2, <3>1, CastFields DEF IOrder
    <3>3. casts[q].asset = a => b <= casts[q].book
      BY <1>2, <1>6, <1>7, <3>1 DEF IOrder
    <3>4. QED
      BY <1>9, <3>1, <3>2, <3>3
  <2>4. QED
    BY <2>2, <2>3
<1>16. QED
  BY <1>6, <1>10, <1>11, <1>13, <1>14, <1>15 DEF IOrder

\* The order is kept by every step as long as no task has waited.
LEMMA StepOrder == IMembers /\ IBooks /\ (~held => IOrder) /\ [Next]_vars => (~held' => IOrder')
<1> SUFFICES ASSUME IMembers, IBooks, ~held => IOrder, [Next]_vars, ~held'
             PROVE  IOrder'
  OBVIOUS
<1>1. ASSUME NEW i \in DOMAIN casts, Broadcast(i)
      PROVE  IOrder'
  <2>1. ~held
    <3>1. PICK some \in SUBSET Rest(i) : Serve(i, some)
      BY <1>1 DEF Broadcast
    <3>2. held' = held
      BY <3>1, ServeIs DEF Passes
    <3>3. QED
      BY <3>2
  <2>2. QED
    BY <1>1, <2>1, BroadcastOrder
<1>2. ASSUME NEW c \in Clients, NEW a \in Assets, Replay(c, a)
      PROVE  IOrder'
  <2>1. UNCHANGED <<casts, book, held>> /\ cache[a] \in Int
    BY <1>2 DEF Replay, venue, IBooks
  <2>2. CASE UNCHANGED <<got, late, replayed>>
    BY <2>1, <2>2 DEF IOrder
  <2>3. CASE Gets({c}, a, cache[a]) /\ replayed' = replayed \cup {c}
    <3>1. /\ \A d \in Clients \ {c}, x \in Assets : got'[d][x] = got[d][x]
          /\ \A d \in late' : d \in late \/ d = c
      <4>1. {c} \in SUBSET Clients
        OBVIOUS
      <4>2. /\ \A d \in Clients, x \in Assets :
                  got'[d][x] = got[d][x] \/ (d \in {c} /\ x = a /\ got'[d][x] = cache[a])
            /\ \A d \in late' : d \in late \/ (d \in {c} /\ cache[a] < got[d][a])
        BY <2>1, <2>3, <4>1, GetsIs
      <4>3. QED
        BY <4>2
    <3>2. \A j \in DOMAIN casts : casts[j].asset \in Assets
      BY CastFields
    <3>3. late' \subseteq replayed'
      BY <2>1, <2>3, <3>1 DEF IOrder
    <3>4. \A d \in Clients \ replayed' : d \in Clients \ {c} /\ d \in Clients \ replayed
      BY <2>3
    <3>5. IOrder
      BY <2>1
    <3>6. QED
      BY <2>1, <3>1, <3>2, <3>3, <3>4, <3>5 DEF IOrder
  <2>4. QED
    BY <1>2, <2>2, <2>3 DEF Replay
<1>3. ASSUME UNCHANGED <<casts, book, history>>
      PROVE  IOrder'
  BY <1>3 DEF IOrder, history
<1>4. ASSUME NEW a \in Assets, Snapshot(a) \/ Change(a)
      PROVE  IOrder'
  <2>1. UNCHANGED history /\ book \in [Assets -> Int] /\ IOrder
    BY <1>4 DEF Snapshot, Change, history, IMembers
  <2>2. book' \in [Assets -> Int] /\ \A x \in Assets : book[x] <= book'[x]
    <3>1. CASE book' = book
      BY <2>1, <3>1
    <3>2. CASE book' = [book EXCEPT ![a] = @ + 1]
      BY <2>1, <3>2
    <3>3. QED
      BY <1>4, <3>1, <3>2 DEF Snapshot, Change
  <2>3. CASE UNCHANGED casts
    <3>1. \A i \in DOMAIN casts : casts[i].asset \in Assets /\ casts[i].book \in Int
      BY CastFields
    <3>2. \A i \in DOMAIN casts : casts[i].book <= book'[casts[i].asset]
      BY <2>1, <2>2, <3>1 DEF IOrder
    <3>3. \A c \in Clients \ replayed, x \in Assets : got[c][x] <= book'[x]
      BY <2>1, <2>2 DEF IOrder, IBooks
    <3>4. QED
      BY <2>1, <2>3, <3>2, <3>3 DEF IOrder, history
  <2>4. CASE Received(a, book'[a])
    <3>1. book'[a] \in Int
      BY <2>2
    <3>2. QED
      BY <2>1, <2>2, <2>4, <3>1, ReceivedOrder
  <2>5. QED
    BY <1>4, <2>3, <2>4 DEF Snapshot, Change
<1>5. ASSUME NEW c \in Clients, Handle(c)
      PROVE  IOrder'
  <2>1. CASE \E a \in Assets : Replay(c, a)
    BY <1>2, <2>1
  <2>2. CASE ~ \E a \in Assets : Replay(c, a)
    <3>1. UNCHANGED <<casts, book, history>>
      BY <1>5, <2>2 DEF Handle, Locked, CloseSource, ReplaceSource, ConnectSource, Watch, Answered,
                Leave, venue
    <3>2. QED
      BY <1>3, <3>1
  <2>3. QED
    BY <2>1, <2>2
<1>6. CASE \/ \E c \in Clients : \/ Connect(c) \/ \E assets \in SUBSET Assets : Subscribe(c, assets)
                              \/ \E how \in {"fast", "slow", "full", "gone"} : Reads(c, how)
           \/ Lose \/ Reconnect \/ Shutdown \/ Stop \/ UNCHANGED vars
  <2>1. UNCHANGED <<casts, book, history>>
    BY <1>6 DEF Connect, Subscribe, Reads, Lose, Reconnect, Shutdown, Stop, vars, venue
  <2>2. QED
    BY <1>3, <2>1
<1>7. QED
  BY <1>1, <1>4, <1>5, <1>6 DEF Next, Feed, Cast

\* As long as no broadcast has had to wait, nobody gets an older book after a newer
\* one, but for a client that was sent a cached one.
THEOREM BooksInOrder == Spec => []InOrder
<1>1. Init => IRelay /\ IBooks /\ IOrder
  BY InitRelay, InitBooks, InitOrder
<1>2. /\ IRelay /\ IBooks /\ (~held => IOrder) /\ [Next]_vars
      => IRelay' /\ IBooks' /\ (~held' => IOrder')
  BY StepRelay, StepBooks, StepOrder DEF IRelay
<1>3. (~held => IOrder) => InOrder
  BY DEF IOrder, InOrder
<1>4. QED
  BY <1>1, <1>2, <1>3, PTL DEF Spec

-----------------------------------------------------------------------------
(* The newest book of what a client wants.                                   *)

\* The handler of c has a subscription to answer.
Busy(c) == pc[c] \in InLock \cup {"answering"}

\* A broadcast that will still send c the newest book of a.
Coming(c, a) ==
    \E i \in DOMAIN casts :
       /\ casts[i].asset = a /\ casts[i].book >= cache[a]
       /\ casts[i].wait = {} \/ c \in casts[i].rest

\* A broadcast that will drop c.
Dropping(c) == \E i \in DOMAIN casts : c \in casts[i].stale

\* Only such a handler has books left to replay.
ITodo == \A c \in Clients : todo[c] # {} => Busy(c)

\* Who wants a book that it has not got in its newest form will get it by a replay or
\* by a broadcast, will be dropped, or missed one.
IFresh ==
    \A c \in clients : \A a \in wants[c] :
       \/ got[c][a] >= cache[a] \/ c \in skipped
       \/ a \in todo[c] \/ Dropping(c) \/ Coming(c, a)

LEMMA InitFresh == Init => ITodo /\ IFresh
BY DEF Init, ITodo, IFresh

LEMMA StepTodo == IMembers /\ IBooks /\ ITodo /\ [Next]_vars => ITodo'
<1> SUFFICES ASSUME IMembers, IBooks, ITodo, [Next]_vars
             PROVE  ITodo'
  OBVIOUS
<1>t. /\ pc \in [Clients -> Steps] /\ todo \in [Clients -> SUBSET Assets]
  BY DEF IMembers, IBooks
<1>1. ASSUME NEW c \in Clients, Handle(c)
      PROVE  ITodo'
  <2>1. /\ \A d \in Clients \ {c} : pc'[d] = pc[d] /\ todo'[d] = todo[d]
        /\ todo'[c] # {} => Busy(c)'
    <3>1. CASE Ends(c)
      BY <1>t, <3>1 DEF Ends, Moves
    <3>2. CASE ~Ends(c)
      BY <1>1, <1>t, <3>2 DEF Handle, Locked, CloseSource, ReplaceSource, ConnectSource, Watch,
            Replay, Answered, Leave, Moves, Busy, InLock
    <3>3. QED
      BY <3>1, <3>2
  <2>2. QED
    BY <2>1 DEF ITodo, Busy
<1>2. ASSUME NEW c \in Clients, Connect(c)
      PROVE  ITodo'
  <2>1. pc[c] = "away" /\ pc' = [pc EXCEPT ![c] = "reading"] /\ todo' = todo
    BY <1>2 DEF Connect, Moves
  <2>2. todo[c] = {}
    BY <2>1 DEF ITodo, Busy, InLock
  <2>3. QED
    BY <1>t, <2>1, <2>2 DEF ITodo, Busy
<1>3. ASSUME NEW c \in Clients, NEW assets \in SUBSET Assets, Subscribe(c, assets)
      PROVE  ITodo'
  <2>1. /\ todo' = [todo EXCEPT ![c] = assets]
        /\ \E to \in {"answering", "locking"} : pc' = [pc EXCEPT ![c] = to]
    BY <1>3 DEF Subscribe, Moves
  <2>2. QED
    BY <1>t, <2>1 DEF ITodo, Busy, InLock
<1>4. CASE UNCHANGED <<pc, todo>>
  BY <1>4 DEF ITodo, Busy
<1>5. QED
  BY <1>1, <1>2, <1>3, <1>4 DEF Next, Feed, Cast, Snapshot, Change, Broadcast, Reads, Lose, Reconnect,
     Shutdown, Stop, vars, handlers

\* A step that neither broadcasts nor sends: who wants more has it to be replayed.
LEMMA FreshStill ==
    ASSUME IBooks, IFresh, UNCHANGED <<casts, got, skipped>>,
           cache' = cache \/ cache' = [a \in Assets |-> None], wants' \in [Clients -> SUBSET Assets],
           \A c \in clients' : /\ c \in Clients
                              /\ \A a \in wants'[c] :
                                    \/ a \in todo'[c]
                                    \/ c \in clients /\ a \in wants[c] /\ a \notin todo[c]
    PROVE  IFresh'
<1>1. ASSUME NEW c \in clients', NEW a \in wants'[c], a \notin todo'[c]
      PROVE  \/ got'[c][a] >= cache'[a] \/ c \in skipped'
             \/ a \in todo'[c] \/ Dropping(c)' \/ Coming(c, a)'
  <2>1. c \in Clients /\ a \in Assets /\ c \in clients /\ a \in wants[c] /\ a \notin todo[c]
    BY <1>1
  <2>2. got[c][a] >= cache[a] \/ c \in skipped \/ Dropping(c) \/ Coming(c, a)
    BY <2>1 DEF IFresh
  <2>3. Dropping(c) => Dropping(c)'
    BY DEF Dropping
  <2>4. CASE cache' = cache
    BY <2>2, <2>3, <2>4 DEF Coming
  <2>5. CASE cache' = [x \in Assets |-> None]
    <3>1. got'[c][a] >= None /\ cache'[a] = None
      BY <2>1, <2>5 DEF IBooks
    <3>2. QED
      BY <3>1
  <2>6. QED
    BY <2>4, <2>5
<1>2. QED
  BY <1>1 DEF IFresh

\* A new book comes to every client.
LEMMA ReceivedFresh ==
    ASSUME IMembers, IBooks, IFresh, NEW a \in Assets, NEW b \in Int, Received(a, b),
           UNCHANGED <<members, got, skipped, todo>>
    PROVE  IFresh'
<1> DEFINE k == [asset |-> a, book |-> b, wait |-> {}, rest |-> {}, stale |-> {}]
<1>1. casts' = Append(casts, k) /\ casts \in Seq(Casts) /\ k.asset = a /\ k.book = b /\ k.wait = {}
  BY DEF Received, IMembers
<1> HIDE DEF k
<1>2. PICK n \in Nat : n = Len(casts)
  BY <1>1
<1>3. /\ DOMAIN casts = 1..n /\ DOMAIN casts' = 1..(n + 1) /\ casts'[n + 1] = k
      /\ \A j \in 1..n : casts'[j] = casts[j]
  BY <1>1, <1>2
<1>4. cache'[a] = b /\ \A x \in Assets : x # a => cache'[x] = cache[x]
  BY DEF Received, IBooks
<1>5. ASSUME NEW c \in clients', NEW x \in wants'[c]
      PROVE  \/ got'[c][x] >= cache'[x] \/ c \in skipped'
             \/ x \in todo'[c] \/ Dropping(c)' \/ Coming(c, x)'
  <2>1. c \in clients /\ c \in Clients /\ x \in wants[c] /\ x \in Assets
    BY DEF IMembers, members
  <2>2. CASE x = a
    <3>1. n + 1 \in DOMAIN casts' /\ casts'[n + 1].book >= cache'[a]
      BY <1>1, <1>3, <1>4
    <3>2. Coming(c, x)'
      BY <1>1, <1>3, <2>2, <3>1 DEF Coming
    <3>3. QED
      BY <3>2
  <2>3. CASE x # a
    <3>1. \A j \in DOMAIN casts : j \in DOMAIN casts' /\ casts'[j] = casts[j]
      BY <1>3
    <3>2. Dropping(c) => Dropping(c)'
      BY <3>1 DEF Dropping
    <3>3. Coming(c, x) => Coming(c, x)'
      BY <1>4, <2>1, <2>3, <3>1 DEF Coming
    <3>4. QED
      BY <1>4, <2>1, <2>3, <3>2, <3>3 DEF IFresh
  <2>4. QED
    BY <2>2, <2>3
<1>6. QED
  BY <1>5 DEF IFresh

\* Who a broadcast serves has its book, misses it or is to be dropped; the others
\* are among its rest.
LEMMA BroadcastFresh ==
    ASSUME IMembers, IBooks, IFresh, NEW i \in DOMAIN casts, Broadcast(i), IMembers'
    PROVE  IFresh'
<1>1. PICK some \in SUBSET Rest(i) : Serve(i, some)
  BY DEF Broadcast
<1>2. UNCHANGED <<cache, todo>>
  BY DEF Broadcast, upstream, handlers
<1>3. PICK a \in Assets, b \in Int : a = casts[i].asset /\ b = casts[i].book
  BY CastFields
<1>4. PICK cs \in SUBSET Clients :
        /\ Gets(cs, a, b)
        /\ \A c \in some : a \in wants[c] => c \in cs \/ c \in skipped' \/ link[c] = "gone"
  <2>1. Sends(i, some)
    BY <1>1, ServeIs
  <2>2. QED
    BY <1>3, <2>1 DEF Sends
<1>5. /\ \A c \in Clients, x \in Assets : got'[c][x] >= got[c][x] /\ got'[c][x] \in Int
      /\ \A c \in cs : got'[c][a] >= b
  <2>1. cs \in SUBSET Clients /\ a \in Assets /\ b \in Int /\ Gets(cs, a, b)
    BY <1>3, <1>4
  <2>2. /\ got' \in [Clients -> [Assets -> Int]]
        /\ \A c \in Clients, x \in Assets : got'[c][x] >= got[c][x] /\ got'[c][x] >= None
        /\ \A c \in cs : got'[c][a] >= b
    BY <2>1, GetsIs
  <2>3. QED
    BY <2>2
<1>6. skipped \subseteq skipped'
  BY <1>1, ServeIs
<1>7. PICK stale \in SUBSET Clients :
        /\ casts[i].stale \subseteq stale
        /\ \A c \in some : a \in wants[c] /\ link[c] = "gone" => c \in stale
        /\ \/ /\ some = Rest(i) /\ casts' = RemoveAt(casts, i)
              /\ clients' = clients \ stale
              /\ \A c \in Clients : wants'[c] \subseteq wants[c]
           \/ /\ UNCHANGED members
              /\ \E k \in Casts :
                    /\ casts' = Append(RemoveAt(casts, i), k)
                    /\ k.asset = a /\ k.book = b
                    /\ k.rest = Rest(i) \ some /\ k.stale = stale
  <2>1. Passes(i, some)
    BY <1>1, ServeIs
  <2>2. QED
    BY <1>3, <2>1 DEF Passes
\* The other broadcasts go on.
<1>8. \A j \in DOMAIN casts : j # i => \E n \in DOMAIN casts' : casts'[n] = casts[j]
  <2> DEFINE r == RemoveAt(casts, i)
  <2>1. PICK m \in Nat : m = Len(casts) /\ DOMAIN casts = 1..m
    BY DEF IMembers
  <2>2. /\ r \in Seq(Casts) /\ Len(r) = m - 1
        /\ \A j \in 1..(m - 1) : r[j] = IF j < i THEN casts[j] ELSE casts[j + 1]
    BY <2>1, CastsType DEF IMembers
  <2> HIDE DEF r
  <2>3. ASSUME NEW j \in 1..m, j # i
        PROVE  \E n \in 1..(m - 1) : r[n] = casts[j]
    <3>1. CASE j < i
      <4>1. j \in 1..(m - 1) /\ r[j] = casts[j]
        BY <2>1, <2>2, <3>1
      <4>2. QED
        BY <4>1
    <3>2. CASE ~(j < i)
      <4>1. PICK n \in 1..(m - 1) : j = n + 1 /\ ~(n < i)
        BY <2>1, <2>3, <3>2
      <4>2. r[n] = casts[j]
        BY <2>2, <4>1
      <4>3. QED
        BY <4>2
    <3>3. QED
      BY <3>1, <3>2
  <2>4. \A n \in 1..(m - 1) : n \in DOMAIN casts' /\ casts'[n] = r[n]
    <3>1. casts' = r \/ \E k \in Casts : casts' = Append(r, k)
      BY <1>7 DEF r
    <3>2. QED
      BY <2>2, <3>1
  <2>5. QED
    BY <2>1, <2>3, <2>4
<1>9. \A k \in Casts : casts' = Append(RemoveAt(casts, i), k)
         => \E n \in DOMAIN casts' : casts'[n] = k
  <2>1. RemoveAt(casts, i) \in Seq(Casts)
    BY CastsType DEF IMembers
  <2>2. \A s \in Seq(Casts), k \in Casts :
           Len(s) + 1 \in DOMAIN Append(s, k) /\ Append(s, k)[Len(s) + 1] = k
    OBVIOUS
  <2>3. QED
    BY <2>1, <2>2
<1>10. ASSUME NEW c \in clients', NEW x \in wants'[c]
       PROVE  \/ got'[c][x] >= cache'[x] \/ c \in skipped'
              \/ x \in todo'[c] \/ Dropping(c)' \/ Coming(c, x)'
  <2>1. c \in Clients /\ c \in clients /\ x \in wants[c] /\ x \in Assets
    BY <1>7 DEF IMembers, members
  <2>t. got[c][x] \in Int /\ got'[c][x] \in Int /\ cache[x] \in Int /\ cache' = cache
        /\ got'[c][x] >= got[c][x]
    BY <1>2, <1>5, <2>1 DEF IBooks
  <2>2. \/ got[c][x] >= cache[x] \/ c \in skipped
        \/ x \in todo[c] \/ Dropping(c) \/ Coming(c, x)
    BY <2>1 DEF IFresh
  <2>3. CASE got[c][x] >= cache[x] \/ c \in skipped \/ x \in todo[c]
    BY <1>2, <1>6, <2>t, <2>3
  \* Dropped by this broadcast, now or in the end.
  <2>4. ASSUME c \in stale
        PROVE  Dropping(c)'
    <3>1. PICK k \in Casts : casts' = Append(RemoveAt(casts, i), k) /\ k.stale = stale
      BY <1>7, <2>4
    <3>2. QED
      BY <1>9, <2>4, <3>1 DEF Dropping
  <2>5. CASE Dropping(c)
    <3>1. PICK j \in DOMAIN casts : c \in casts[j].stale
      BY <2>5 DEF Dropping
    <3>2. CASE j = i
      BY <1>7, <2>4, <3>1, <3>2
    <3>3. CASE j # i
      BY <1>8, <3>1, <3>3 DEF Dropping
    <3>4. QED
      BY <3>2, <3>3
  <2>6. CASE Coming(c, x)
    <3>1. PICK j \in DOMAIN casts :
            /\ casts[j].asset = x /\ casts[j].book >= cache[x]
            /\ casts[j].wait = {} \/ c \in casts[j].rest
      BY <2>6 DEF Coming
    <3>2. CASE j # i
      <4>1. Coming(c, x)'
        BY <1>8, <2>t, <3>1, <3>2 DEF Coming
      <4>2. QED
        BY <4>1
    <3>3. CASE j = i
      <4>1. x = a /\ b >= cache[a] /\ c \in Rest(i)
        BY <1>3, <2>1, <3>1, <3>3 DEF Rest
      <4>2. CASE c \in some
        <5>1. CASE c \in cs
          BY <1>3, <1>5, <2>t, <4>1, <5>1
        <5>2. CASE c \in skipped'
          BY <5>2
        <5>3. CASE link[c] = "gone"
          BY <1>7, <2>1, <2>4, <4>1, <4>2, <5>3
        <5>4. QED
          BY <1>4, <2>1, <4>1, <4>2, <5>1, <5>2, <5>3
      <4>3. CASE c \notin some
        <5>1. PICK k \in Casts : /\ casts' = Append(RemoveAt(casts, i), k)
                                 /\ k.asset = a /\ k.book = b /\ k.rest = Rest(i) \ some
          BY <1>7, <4>1, <4>3
        <5>2. c \in k.rest
          BY <4>1, <4>3, <5>1
        <5>3. Coming(c, x)'
          BY <1>9, <2>t, <4>1, <5>1, <5>2 DEF Coming
        <5>4. QED
          BY <5>3
      <4>4. QED
        BY <4>2, <4>3
    <3>4. QED
      BY <3>2, <3>3
  <2>7. QED
    BY <2>2, <2>3, <2>5, <2>6
<1>11. QED
  BY <1>10 DEF IFresh

\* A cached book that is replayed is the newest there is.
LEMMA ReplayFresh ==
    ASSUME IMembers, IBooks, IFresh, NEW c \in Clients, NEW a \in Assets, Replay(c, a)
    PROVE  IFresh'
<1>1. /\ UNCHANGED <<clients, wants, cache, casts, skipped>> /\ cache[a] \in Int
      /\ todo' = [todo EXCEPT ![c] = @ \ {a}]
  BY DEF Replay, IBooks, members, upstream
<1>2. /\ \A d \in Clients, x \in Assets : got'[d][x] \in Int /\ got'[d][x] >= got[d][x]
      /\ got'[c][a] >= cache[a]
  <2>1. CASE cache[a] = None /\ got' = got
    BY <2>1 DEF IBooks
  <2>2. CASE Gets({c}, a, cache[a])
    <3>1. {c} \in SUBSET Clients
      OBVIOUS
    <3>2. /\ got' \in [Clients -> [Assets -> Int]]
          /\ \A d \in Clients, x \in Assets : got'[d][x] >= got[d][x] /\ got'[d][x] >= None
          /\ \A d \in {c} : got'[d][a] >= cache[a]
      BY <1>1, <2>2, <3>1, GetsIs
    <3>3. QED
      BY <3>2
  <2>3. QED
    BY <2>1, <2>2 DEF Replay
<1>3. ASSUME NEW d \in clients', NEW x \in wants'[d]
      PROVE  \/ got'[d][x] >= cache'[x] \/ d \in skipped'
             \/ x \in todo'[d] \/ Dropping(d)' \/ Coming(d, x)'
  <2>1. d \in clients /\ d \in Clients /\ x \in wants[d] /\ x \in Assets
    BY <1>1 DEF IMembers
  <2>2. got[d][x] \in Int /\ got'[d][x] \in Int /\ cache[x] \in Int /\ got'[d][x] >= got[d][x]
    BY <1>2, <2>1 DEF IBooks
  <2>3. CASE d = c /\ x = a
    BY <1>1, <1>2, <2>3
  <2>4. CASE ~(d = c /\ x = a)
    <3>1. x \in todo[d] => x \in todo'[d]
      BY <1>1, <2>1, <2>4 DEF IBooks
    <3>2. (Dropping(d) => Dropping(d)') /\ (Coming(d, x) => Coming(d, x)')
      BY <1>1 DEF Dropping, Coming
    <3>3. \/ got[d][x] >= cache[x] \/ d \in skipped
          \/ x \in todo[d] \/ Dropping(d) \/ Coming(d, x)
      BY <2>1 DEF IFresh
    <3>4. CASE got[d][x] >= cache[x]
      BY <1>1, <2>2, <3>4
    <3>5. QED
      BY <1>1, <3>1, <3>2, <3>3, <3>4
  <2>5. QED
    BY <2>3, <2>4
<1>4. QED
  BY <1>3 DEF IFresh

\* Every step keeps that promise, or it is fulfilled.
LEMMA StepFresh == IRelay /\ IBooks /\ ITodo /\ IFresh /\ [Next]_vars /\ IMembers' => IFresh'
<1> SUFFICES ASSUME IRelay, IBooks, ITodo, IFresh, [Next]_vars, IMembers'
             PROVE  IFresh'
  OBVIOUS
<1>t. /\ IMembers /\ clients \subseteq Clients /\ wants \in [Clients -> SUBSET Assets]
      /\ wants' \in [Clients -> SUBSET Assets] /\ clients' \subseteq Clients
  BY DEF IRelay, IMembers
<1>1. CASE Cast
  BY <1>1, <1>t, BroadcastFresh DEF Cast
<1>2. CASE \E c \in Clients, a \in Assets : Replay(c, a)
  BY <1>2, <1>t, ReplayFresh
\* Nothing is sent, and nobody wants more.
<1>3. CASE /\ UNCHANGED <<casts, got, skipped, todo>> /\ clients' \subseteq clients
           /\ cache' = cache \/ cache' = [a \in Assets |-> None]
           /\ \A c \in clients' : wants'[c] \subseteq wants[c]
  BY <1>3, <1>t, FreshStill
<1>4. ASSUME NEW a \in Assets, Snapshot(a) \/ Change(a)
      PROVE  IFresh'
  <2>1. UNCHANGED <<members, got, skipped, todo>> /\ book[a] \in Int
    BY <1>4, <1>t DEF Snapshot, Change, history, handlers, IMembers
  <2>2. CASE \E b \in Int : Received(a, b)
    BY <1>t, <2>1, <2>2, ReceivedFresh
  <2>3. CASE UNCHANGED <<cache, casts>>
    BY <1>3, <2>1, <2>3 DEF members
  <2>4. book' = [book EXCEPT ![a] = @ + 1] => book'[a] \in Int
    BY <1>t, <2>1 DEF IMembers
  <2>5. QED
    BY <1>4, <2>1, <2>2, <2>3, <2>4 DEF Snapshot, Change
<1>5. ASSUME NEW c \in Clients, Ends(c), UNCHANGED <<casts, got, skipped, cache>>
      PROVE  IFresh'
  <2>1. /\ clients' = clients \ {c}
        /\ \A d \in clients' : wants'[d] = wants[d] /\ todo'[d] = todo[d]
    BY <1>5, <1>t DEF Ends, Forgets, IBooks
  <2>2. QED
    BY <1>5, <1>t, <2>1, FreshStill
<1>6. ASSUME NEW c \in Clients, Handle(c)
      PROVE  IFresh'
  <2>1. CASE \E a \in Assets : Replay(c, a)
    BY <1>2, <2>1
  <2>2. CASE ~ \E a \in Assets : Replay(c, a)
    <3>1. UNCHANGED <<casts, got, skipped>>
      BY <1>6, <2>2 DEF Handle, Locked, CloseSource, ReplaceSource, ConnectSource, Watch, Answered,
                Leave, history
    <3>2. CASE Ends(c)
      <4>1. cache' = cache
        BY <1>6, <2>2, <3>2, <1>t DEF Handle, Locked, CloseSource, ReplaceSource, ConnectSource,
           Watch, Answered, Leave, upstream, Ends, Moves, IMembers
      <4>2. QED
        BY <1>5, <3>1, <3>2, <4>1
    <3>3. CASE ~Ends(c)
      <4>1. /\ UNCHANGED <<members, todo>>
            /\ cache' = cache \/ cache' = [a \in Assets |-> None]
        BY <1>6, <2>2, <3>3 DEF Handle, Locked, CloseSource, ReplaceSource, ConnectSource, Watch,
           Answered, Leave, upstream
      <4>2. QED
        BY <1>3, <3>1, <4>1 DEF members
    <3>4. QED
      BY <3>2, <3>3
  <2>3. QED
    BY <2>1, <2>2
<1>7. ASSUME NEW c \in Clients, Connect(c)
      PROVE  IFresh'
  <2>1. /\ UNCHANGED <<casts, got, skipped, cache, wants, todo>> /\ clients' = clients \cup {c}
        /\ wants[c] = {}
    BY <1>7 DEF Connect, history, upstream, IRelay, IGhosts, Away
  <2>2. QED
    BY <1>t, <2>1, FreshStill
<1>8. ASSUME NEW c \in Clients, NEW assets \in SUBSET Assets, Subscribe(c, assets)
      PROVE  IFresh'
  <2>1. /\ UNCHANGED <<casts, got, skipped, cache, clients>>
        /\ wants' = [wants EXCEPT ![c] = assets] /\ todo' = [todo EXCEPT ![c] = assets]
    BY <1>8 DEF Subscribe, history, upstream
  <2>2. /\ wants'[c] = assets /\ todo'[c] = assets
        /\ \A d \in Clients \ {c} : wants'[d] = wants[d] /\ todo'[d] = todo[d]
    BY <1>t, <2>1 DEF IBooks
  <2>3. QED
    BY <1>t, <2>1, <2>2, FreshStill
<1>9. CASE \/ \E c \in Clients, how \in {"fast", "slow", "full", "gone"} : Reads(c, how)
           \/ Lose \/ Reconnect \/ Shutdown \/ Stop \/ UNCHANGED vars
  <2>1. UNCHANGED <<casts, got, skipped, todo, cache, members>>
    BY <1>9 DEF Reads, Lose, Reconnect, Shutdown, Stop, vars, upstream, history, handlers
  <2>2. QED
    BY <1>3, <2>1 DEF members
<1>10. QED
  BY <1>1, <1>4, <1>6, <1>7, <1>8, <1>9 DEF Next, Feed

\* When all broadcasts are done, a client that has been answered has the newest book
\* of what it wants, or missed one when too much was unread.
THEOREM AnsweredIsUpToDate == Spec => []UpToDate
<1>1. Init => IRelay /\ IBooks /\ ITodo /\ IFresh
  BY InitRelay, InitBooks, InitFresh
<1>2. /\ IRelay /\ IBooks /\ ITodo /\ IFresh /\ [Next]_vars
      => IRelay' /\ IBooks' /\ ITodo' /\ IFresh'
  BY StepRelay, StepBooks, StepTodo, StepFresh DEF IRelay
<1>3. IRelay /\ ITodo /\ IFresh => UpToDate
  <2> SUFFICES ASSUME IRelay, ITodo, IFresh, casts = <<>>, NEW c \in clients, NEW a \in Assets,
                      pc[c] = "reading", a \in wants[c]
               PROVE  got[c][a] >= cache[a] \/ c \in skipped
    BY DEF UpToDate
  <2>1. DOMAIN casts = {} /\ c \in Clients
    BY DEF IRelay, IMembers
  <2>2. ~Dropping(c) /\ ~Coming(c, a)
    BY <2>1 DEF Dropping, Coming
  <2>3. todo[c] = {}
    BY <2>1 DEF ITodo, Busy, InLock
  <2>4. QED
    BY <2>2, <2>3 DEF IFresh
<1>4. QED
  BY <1>1, <1>2, <1>3, PTL DEF Spec
=============================================================================
