--------------------------- MODULE EventSink_proofs ---------------------------
(* Theorems about EventSink, for any events, any number of attempts and any *)
(* number of errors.                                                        *)
EXTENDS EventSink, FiniteSetTheorems, TLAPS

Txns == [of : Connections \cup {0}, rows : [Events -> Nat], final : BOOLEAN]

Places == {"idle", "ensuring", "connecting", "writing", "committing",
           "joining", "closing", "done"}

(* Where the two users of the connection can be, and what the handler holds. *)

IUsers ==
    /\ pc["thread"] \in {"idle", "ensuring", "connecting", "writing", "committing"}
    /\ pc["close"] \in {"idle", "joining", "ensuring", "connecting", "writing", "committing",
                        "closing", "done"}
    /\ pc["thread"] = "idle" => own["thread"] = 0
    /\ pc["close"] \in {"idle", "joining", "ensuring", "connecting", "done"} => own["close"] = 0
    /\ gone => pc["thread"] = "idle"
    /\ closed <=> pc["close"] # "idle"

IItem ==
    /\ item # Nobody => fate[item] = "handling"
    /\ \A e \in failed : fate[e] = "handled"

IType == TypeOK /\ txn \in Txns /\ IUsers /\ IItem

\* What Keeps() makes of the connections and the transaction.
LEMMA KeepsType ==
    ASSUME NEW S \in SUBSET Connections, txn \in Txns, Keeps(S)
    PROVE  /\ open' \subseteq S /\ open' \subseteq {conn'} \cup {own'["thread"], own'["close"]}
           /\ \A c \in S : c \in {conn', own'["thread"], own'["close"]} => c \in open'
           /\ txn' \in Txns /\ txn'.of \in open' \cup {0}
           /\ txn' = txn \/ txn' = NoTxn
           /\ txn.of \in open' => txn' = txn
<1>1. {own'[u] : u \in Users} = {own'["thread"], own'["close"]}
  BY DEF Users
<1>2. open' = S \cap ({conn'} \cup {own'["thread"], own'["close"]})
  BY <1>1 DEF Keeps
<1>3. txn' = IF txn.of \in open' THEN txn ELSE NoTxn
  BY DEF Keeps
<1>4. NoTxn \in Txns /\ NoTxn.of = 0
  BY DEF NoTxn, NoRows, Txns
<1>5. QED
  BY <1>2, <1>3, <1>4

LEMMA FreeType == Free \subseteq Connections /\ \A c \in Free : c # conn /\ \A u \in Users : c # own[u]
BY DEF Free

\* The choice of a new connection.
LEMMA ConnectsType ==
    ASSUME NEW u \in Users, Connects(u)
    PROVE  \E c \in Connections :
              /\ c # conn /\ c # own["thread"] /\ c # own["close"]
              /\ conn' = c /\ own' = [own EXCEPT ![u] = c] /\ Keeps(open \cup {c})
BY FreeType DEF Connects, Users

LEMMA CommitsType ==
    ASSUME TypeOK, txn \in Txns, NEW c, Commits(c)
    PROVE  /\ stored' \in [Events -> Nat] /\ run' \in {"none", "open", "closed"}
           /\ txn' \in Txns /\ txn'.of \in open \cup {0}
           /\ txn' = txn \/ txn' = NoTxn
<1>1. NoTxn \in Txns /\ NoTxn.of = 0
  BY DEF NoTxn, NoRows, Txns
<1>2. CASE txn.of = c
  BY <1>1, <1>2 DEF Commits, TypeOK, Txns
<1>3. CASE txn.of # c
  BY <1>3 DEF Commits, TypeOK
<1>4. QED
  BY <1>2, <1>3
-----------------------------------------------------------------------------
(* Type correctness.                                                        *)

\* The steps of the workers' items.
Fates == {"new", "pending", "handling", "handled", "evicted", "refused"}

LEMMA PipelineMoves ==
    ASSUME posted \in [Results -> Fates], NEW e \in Results,
           Pipeline!Accept(e) \/ Pipeline!Begin(e) \/ Pipeline!End(e)
    PROVE  posted' \in [Results -> Fates] /\ \A f \in Results \ {e} : posted'[f] = posted[f]
BY DEF Pipeline!Accept, Pipeline!Begin, Pipeline!End, Pipeline!Moves, Fates

LEMMA WorkerMoves ==
    ASSUME fate \in [Events -> Fates], NEW e \in Events,
           \/ Worker!Accept(e) \/ Refused(e) \/ Worker!Evict(e)
           \/ Worker!Begin(e) \/ Worker!End(e)
    PROVE  fate' \in [Events -> Fates] /\ \A f \in Events \ {e} : fate'[f] = fate[f]
BY DEF Worker!Accept, Refused, Worker!Refuse, Worker!Evict, Worker!Begin, Worker!End, Worker!Moves,
       Fates

LEMMA SameFates == Pipeline!Fates = Fates /\ Worker!Fates = Fates
BY DEF Pipeline!Fates, Worker!Fates, Fates

LEMMA InitType == Init => IType
<1> SUFFICES ASSUME Init
             PROVE  IType
  OBVIOUS
<1>1. posted \in [Results -> Fates] /\ fate \in [Events -> Fates]
  BY DEF Init, Pipeline!Init, Worker!Init, Fates
<1>2. txn \in Txns /\ txn.of = 0
  BY DEF Init, NoTxn, NoRows, Txns
<1>3. IUsers /\ IItem
  BY DEF Init, IUsers, IItem, Users
<1>4. stored \in [Events -> Nat]
  BY DEF Init, NoRows
<1>5. TypeOK
  <2>1. closed \in BOOLEAN /\ gone \in BOOLEAN /\ outlived \in BOOLEAN /\ botched \in BOOLEAN
    BY DEF Init
  <2>2. {closed, gone, outlived, botched} \subseteq BOOLEAN
    BY <2>1
  <2>3. item \in Events \cup {Nobody} /\ (item = Nobody <=> pc["thread"] = "idle")
    BY DEF Init, Users
  <2>4. tries \in 0 .. Attempts - 1 /\ errors \in 0..MaxErrors
    BY EventSinkAssumption DEF Init
  <2>5. QED
    BY <1>1, <1>2, <1>4, <2>2, <2>3, <2>4, SameFates DEF Init, TypeOK
<1>6. QED
  BY <1>2, <1>3, <1>5 DEF IType

\* A step that moves an item of a worker and nothing else.
LEMMA ItemsType ==
    ASSUME IType, UNCHANGED <<closed, gone, calls, database, history>>,
           posted' \in [Results -> Fates], fate' \in [Events -> Fates],
           \A e \in Events : fate[e] \in {"handling", "handled"} => fate'[e] = fate[e]
    PROVE  IType'
BY SameFates DEF IType, TypeOK, IUsers, IItem, calls, database, history, Txns

\* A step of a database call, in terms of what IType says of it.
LEMMA CallsType ==
    ASSUME IType,
           fate' \in [Events -> Fates], UNCHANGED <<posted, closed, gone>>,
           item' \in Events \cup {Nobody}, tries' \in 0 .. Attempts - 1,
           item' = Nobody <=> pc'["thread"] = "idle",
           item' # Nobody => fate'[item'] = "handling",
           failed' \subseteq Events, \A e \in failed' : fate'[e] = "handled",
           outlived' \in BOOLEAN, botched' \in BOOLEAN,
           pc' \in [Users -> Places], own' \in [Users -> Connections \cup {0}],
           IUsers', conn' \in Connections \cup {0},
           open' \subseteq Connections, txn' \in Txns, txn'.of \in open' \cup {0},
           stored' \in [Events -> Nat], run' \in {"none", "open", "closed"}, errors' \in 0..MaxErrors
    PROVE  IType'
<1>1. {closed, gone, outlived, botched}' \subseteq BOOLEAN
  BY DEF IType, TypeOK
<1>3. TypeOK'
  BY <1>1, SameFates DEF IType, TypeOK, Places
<1>4. IItem'
  BY DEF IItem
<1>5. QED
  BY <1>3, <1>4 DEF IType

LEMMA CallerSteps ==
    ASSUME IType,
           \/ \E e \in Results : Emit(e) \/ Dispatch(e) \/ Hook(e)
           \/ \E e \in Events : Write(e) \/ Evict(e)
    PROVE  /\ IType' /\ UNCHANGED <<closed, gone, calls, database, history>>
           /\ \A e \in Events : fate[e] # "new" /\ fate[e] # "pending" => fate'[e] = fate[e]
           /\ \A e \in Events : fate'[e] # fate[e] => fate'[e] # "handling" /\ fate'[e] # "handled"
<1>1. posted \in [Results -> Fates] /\ fate \in [Events -> Fates]
  BY SameFates DEF IType, TypeOK
<1>2. /\ posted' \in [Results -> Fates] /\ fate' \in [Events -> Fates]
      /\ UNCHANGED <<closed, gone, calls, database, history>>
      /\ \A e \in Events : fate[e] # "new" /\ fate[e] # "pending" => fate'[e] = fate[e]
      /\ \A e \in Events : fate'[e] # fate[e] => fate'[e] # "handling" /\ fate'[e] # "handled"
  <2>1. CASE \E e \in Results : Emit(e) \/ Dispatch(e)
    BY <1>1, <2>1, PipelineMoves DEF Emit, Dispatch
  <2>2. ASSUME NEW e \in Results, Hook(e)
        PROVE  /\ posted' \in [Results -> Fates] /\ fate' \in [Events -> Fates]
               /\ UNCHANGED <<closed, gone, calls, database, history>>
               /\ \A f \in Events : fate[f] # "new" /\ fate[f] # "pending" => fate'[f] = fate[f]
               /\ \A f \in Events : fate'[f] # fate[f] => fate'[f] # "handling" /\ fate'[f] # "handled"
    <3>1. e \in Events
      BY EventSinkAssumption
    <3>2. fate' \in [Events -> Fates] /\ \A f \in Events \ {e} : fate'[f] = fate[f]
      BY <1>1, <2>2, <3>1, WorkerMoves DEF Hook
    <3>3. fate[e] = "new" /\ fate'[e] \in {"pending", "refused"}
      BY <1>1, <2>2, <3>1 DEF Hook, Refused, Worker!Accept, Worker!Refuse, Worker!Moves
    <3>4. posted' \in [Results -> Fates]
      BY <1>1, <2>2, PipelineMoves DEF Hook
    <3>5. QED
      BY <2>2, <3>2, <3>3, <3>4 DEF Hook
  <2>3. ASSUME NEW e \in Events, Write(e) \/ Evict(e)
        PROVE  /\ posted' \in [Results -> Fates] /\ fate' \in [Events -> Fates]
               /\ UNCHANGED <<closed, gone, calls, database, history>>
               /\ \A f \in Events : fate[f] # "new" /\ fate[f] # "pending" => fate'[f] = fate[f]
               /\ \A f \in Events : fate'[f] # fate[f] => fate'[f] # "handling" /\ fate'[f] # "handled"
    <3>1. fate' \in [Events -> Fates] /\ \A f \in Events \ {e} : fate'[f] = fate[f]
      BY <1>1, <2>3, WorkerMoves DEF Write, Evict
    <3>2. fate[e] \in {"new", "pending"} /\ fate'[e] \in {"pending", "refused", "evicted"}
      BY <1>1, <2>3
      DEF Write, Evict, Refused, Worker!Accept, Worker!Refuse, Worker!Evict, Worker!Moves
    <3>3. QED
      BY <1>1, <2>3, <3>1, <3>2 DEF Write, Evict
  <2>4. QED
    BY <2>1, <2>2, <2>3
<1>3. IType'
  BY <1>2, ItemsType
<1>4. QED
  BY <1>2, <1>3

\* The handler is done with its event: IItem goes on to hold.
LEMMA EndsType ==
    ASSUME IType, NEW from, from # "idle", Ends(from)
    PROVE  /\ item \in Events /\ fate[item] = "handling" /\ fate' = [fate EXCEPT ![item] = "handled"]
           /\ fate' \in [Events -> Fates] /\ item' = Nobody /\ tries' = 0
           /\ pc["thread"] = from /\ pc' = [pc EXCEPT !["thread"] = "idle"]
           /\ own' = [own EXCEPT !["thread"] = 0]
           /\ item \notin failed /\ \A e \in failed \cup {item} : fate'[e] = "handled"
<1>1. pc["thread"] = from /\ pc' = [pc EXCEPT !["thread"] = "idle"]
  BY DEF Ends, Moves
<1>2. item \in Events
  BY <1>1 DEF IType, TypeOK
<1>3. fate \in [Events -> Fates]
  BY SameFates DEF IType, TypeOK
<1>4. fate[item] = "handling" /\ fate' = [fate EXCEPT ![item] = "handled"]
  BY DEF Ends, Worker!End, Worker!Moves
<1>5. item \notin failed
  BY <1>4 DEF IType, IItem
<1>6. fate' \in [Events -> Fates]
  BY <1>3, <1>4 DEF Fates
<1>7. \A e \in failed \cup {item} : fate'[e] = "handled"
  BY <1>2, <1>3, <1>4 DEF IType, IItem, TypeOK
<1>8. QED
  BY <1>1, <1>2, <1>4, <1>5, <1>6, <1>7 DEF Ends

LEMMA StepType == IType /\ [Next]_vars => IType'
<1> SUFFICES ASSUME IType, [Next]_vars
             PROVE  IType'
  OBVIOUS
<1>u. Users = {"thread", "close"} /\ 0 \notin Connections
  BY DEF Users, Connections
<1>t. /\ fate \in [Events -> Fates] /\ pc \in [Users -> Places] /\ own \in [Users -> Connections \cup {0}]
      /\ item \in Events \cup {Nobody} /\ tries \in 0 .. Attempts - 1
      /\ (item = Nobody <=> pc["thread"] = "idle")
      /\ (item # Nobody => fate[item] = "handling") /\ failed \subseteq Events
      /\ \A e \in failed : fate[e] = "handled"
      /\ conn \in Connections \cup {0}
      /\ open \in SUBSET Connections /\ txn \in Txns /\ txn.of \in open \cup {0}
      /\ stored \in [Events -> Nat] /\ run \in {"none", "open", "closed"} /\ errors \in 0..MaxErrors
      /\ IUsers
  BY SameFates DEF IType, TypeOK, IItem, Places
<1>b. outlived \in BOOLEAN /\ botched \in BOOLEAN
  BY DEF IType, TypeOK
<1>1. ASSUME NEW u \in Users, Finds(u) \/ FindsNone(u) \/ Connects(u)
      PROVE  IType'
  <2>1. CASE Finds(u)
    <3>1. Keeps(open) /\ pc[u] = "ensuring" /\ pc' = [pc EXCEPT ![u] = "writing"]
          /\ own' = [own EXCEPT ![u] = conn] /\ conn' = conn
          /\ UNCHANGED <<workers, item, tries, stored, run, errors, history>>
      BY <2>1 DEF Finds, Moves
    <3>2. open' \subseteq Connections /\ txn' \in Txns /\ txn'.of \in open' \cup {0}
      BY <1>t, <3>1, KeepsType
    <3>3. pc' \in [Users -> Places] /\ own' \in [Users -> Connections \cup {0}]
      BY <1>t, <3>1 DEF Places
    <3>4. IUsers' /\ (item' = Nobody <=> pc'["thread"] = "idle")
      BY <1>u, <1>t, <3>1 DEF IUsers, Places, workers
    <3>5. QED
      BY <1>t, <1>b, <3>1, <3>2, <3>3, <3>4, CallsType DEF workers, history
  <2>2. CASE FindsNone(u)
    <3>1. pc[u] = "ensuring" /\ pc' = [pc EXCEPT ![u] = "connecting"]
          /\ UNCHANGED <<workers, item, tries, own, database, history>>
      BY <2>2 DEF FindsNone, Moves
    <3>2. pc' \in [Users -> Places] /\ IUsers' /\ (item' = Nobody <=> pc'["thread"] = "idle")
      BY <1>u, <1>t, <3>1 DEF IUsers, Places, workers
    <3>3. QED
      BY <1>t, <1>b, <3>1, <3>2, CallsType DEF workers, history, database
  <2>3. CASE Connects(u)
    <3>1. PICK c \in Connections : /\ conn' = c /\ own' = [own EXCEPT ![u] = c]
                                   /\ Keeps(open \cup {c})
      BY <2>3, ConnectsType
    <3>2. pc[u] = "connecting" /\ pc' = [pc EXCEPT ![u] = "writing"] /\ run' = "open"
          /\ UNCHANGED <<workers, item, tries, stored, errors, history>>
      BY <2>3 DEF Connects, Moves
    <3>3. open \cup {c} \in SUBSET Connections
      BY <1>t
    <3>4. open' \subseteq Connections /\ txn' \in Txns /\ txn'.of \in open' \cup {0}
      BY <1>t, <3>1, <3>3, KeepsType
    <3>5. pc' \in [Users -> Places] /\ own' \in [Users -> Connections \cup {0}]
      BY <1>t, <3>1, <3>2 DEF Places
    <3>6. IUsers' /\ (item' = Nobody <=> pc'["thread"] = "idle")
      BY <1>u, <1>t, <3>1, <3>2 DEF IUsers, Places, workers
    <3>7. QED
      BY <1>t, <1>b, <3>1, <3>2, <3>4, <3>5, <3>6, CallsType DEF workers, history
  <2>4. QED
    BY <1>1, <2>1, <2>2, <2>3
<1>2. CASE Thread
  <2>1. ASSUME NEW e \in Events, Begin(e)
        PROVE  IType'
    <3>1. /\ pc["thread"] = "idle" /\ pc' = [pc EXCEPT !["thread"] = "ensuring"] /\ ~gone
          /\ item' = e /\ tries' = 0 /\ fate' = [fate EXCEPT ![e] = "handling"] /\ fate[e] = "pending"
          /\ UNCHANGED <<posted, closed, gone, own, database, history>>
      BY <2>1 DEF Begin, Moves, Worker!Begin, Worker!Moves
    <3>2. e # Nobody
      BY EventSinkAssumption
    <3>3. fate' \in [Events -> Fates] /\ fate'[e] = "handling" /\ \A f \in failed : fate'[f] = "handled"
      BY <1>t, <3>1 DEF Fates
    <3>4. pc' \in [Users -> Places] /\ IUsers' /\ pc'["thread"] = "ensuring"
      BY <1>u, <1>t, <3>1 DEF IUsers, Places, database
    <3>5. tries' \in 0 .. Attempts - 1
      BY <3>1, EventSinkAssumption
    <3>6. QED
      BY <1>t, <1>b, <3>1, <3>2, <3>3, <3>4, <3>5, CallsType DEF database, history
  <2>2. CASE Insert
    <3>1. /\ pc["thread"] = "writing" /\ pc' = [pc EXCEPT !["thread"] = "committing"]
          /\ own["thread"] \in open
          /\ txn' = [txn EXCEPT !.of = own["thread"], !.rows = [txn.rows EXCEPT ![item] = @ + 1]]
          /\ UNCHANGED <<workers, item, tries, own, conn, open, stored, run, errors, history>>
      BY <2>2 DEF Insert, Moves, Broken
    <3>2. txn' \in Txns /\ txn'.of \in open'
      <4>1. item \in Events /\ txn.rows \in [Events -> Nat]
        BY <1>t, <3>1 DEF Txns
      <4>2. [txn.rows EXCEPT ![item] = @ + 1] \in [Events -> Nat]
        BY <4>1
      <4>3. QED
        BY <1>t, <3>1, <4>2 DEF Txns
    <3>3. pc' \in [Users -> Places] /\ IUsers' /\ pc'["thread"] = "committing" /\ item # Nobody
      BY <1>u, <1>t, <3>1 DEF IUsers, Places, workers
    <3>4. QED
      BY <1>t, <1>b, <3>1, <3>2, <3>3, CallsType DEF workers, history
  <2>3. CASE Done
    <3>1. Commits(own["thread"]) /\ Ends("committing")
          /\ UNCHANGED <<posted, closed, gone, conn, open, errors, history>>
      BY <2>3 DEF Done, Commit
    <3>2. /\ fate' \in [Events -> Fates] /\ item' = Nobody /\ tries' = 0
          /\ pc["thread"] = "committing" /\ pc' = [pc EXCEPT !["thread"] = "idle"]
          /\ own' = [own EXCEPT !["thread"] = 0]
          /\ \A e \in failed : fate'[e] = "handled"
      BY <3>1, EndsType
    <3>3. /\ stored' \in [Events -> Nat] /\ run' \in {"none", "open", "closed"}
          /\ txn' \in Txns /\ txn'.of \in open \cup {0}
      BY <1>t, <3>1, CommitsType DEF IType
    <3>4. pc' \in [Users -> Places] /\ IUsers' /\ pc'["thread"] = "idle"
          /\ own' \in [Users -> Connections \cup {0}]
      BY <1>u, <1>t, <3>1, <3>2 DEF IUsers, Places
    <3>5. tries' \in 0 .. Attempts - 1
      BY <3>2, EventSinkAssumption
    <3>6. QED
      BY <1>t, <1>b, <3>1, <3>2, <3>3, <3>4, <3>5, CallsType DEF history
  <2>4. CASE AttemptFails
    <3>1. /\ Keeps(open \ {conn}) /\ conn' = 0 /\ Fails("thread")
          /\ UNCHANGED <<posted, closed, gone, stored, run, outlived, botched>>
      BY <2>4 DEF AttemptFails, Resets
    <3>2. open \ {conn} \in SUBSET Connections
      BY <1>t
    <3>3. open' \subseteq Connections /\ txn' \in Txns /\ txn'.of \in open' \cup {0}
      BY <1>t, <3>1, <3>2, KeepsType
    <3>4. errors' \in 0..MaxErrors /\ pc["thread"] \in {"connecting", "writing", "committing"}
      BY <1>t, <3>1, EventSinkAssumption DEF Fails, Refusal, Trouble
    <3>5. CASE /\ MayRetry /\ tries' = tries + 1 /\ Moves("thread", pc["thread"], "ensuring")
               /\ UNCHANGED <<own, fate, item, failed>>
      <4>1. tries' \in 0 .. Attempts - 1
        BY <1>t, <3>5, EventSinkAssumption DEF MayRetry
      <4>2. pc' \in [Users -> Places] /\ IUsers' /\ pc'["thread"] = "ensuring" /\ item # Nobody
        BY <1>u, <1>t, <3>1, <3>4, <3>5 DEF IUsers, Places, Moves
      <4>3. QED
        BY <1>t, <1>b, <3>1, <3>3, <3>4, <3>5, <4>1, <4>2, CallsType
    <3>6. CASE Ends(pc["thread"]) /\ failed' = failed \cup {item}
      <4>1. /\ fate' \in [Events -> Fates] /\ item' = Nobody /\ tries' = 0 /\ item \in Events
            /\ pc' = [pc EXCEPT !["thread"] = "idle"]
            /\ own' = [own EXCEPT !["thread"] = 0]
            /\ \A e \in failed \cup {item} : fate'[e] = "handled"
        BY <3>4, <3>6, EndsType
      <4>2. pc' \in [Users -> Places] /\ IUsers' /\ pc'["thread"] = "idle"
            /\ own' \in [Users -> Connections \cup {0}]
        BY <1>u, <1>t, <3>1, <3>4, <4>1 DEF IUsers, Places
      <4>3. tries' \in 0 .. Attempts - 1
        BY <4>1, EventSinkAssumption
      <4>4. QED
        BY <1>t, <1>b, <3>1, <3>3, <3>4, <3>6, <4>1, <4>2, <4>3, CallsType
    <3>7. QED
      BY <2>4, <3>5, <3>6 DEF AttemptFails
  <2>5. CASE ThreadEnds
    BY <2>5, <1>u, SameFates
    DEF ThreadEnds, IType, TypeOK, IUsers, IItem, calls, database, history, Txns
  <2>6. QED
    BY <1>2, <1>u, <1>1, <2>1, <2>2, <2>3, <2>4, <2>5 DEF Thread
<1>3. CASE Close
  <2>1. /\ pc["close"] = "idle" /\ pc' = [pc EXCEPT !["close"] = "joining"] /\ closed' = TRUE
        /\ UNCHANGED <<posted, fate, gone, item, tries, own, database, history>>
    BY <1>3 DEF Close, Moves
  <2>2. /\ pc' \in [Users -> Places]
        /\ IUsers' /\ pc'["thread"] = pc["thread"]
    BY <1>u, <1>t, <2>1 DEF IUsers, Places, database
  <2>3. {closed, gone, outlived, botched}' \subseteq BOOLEAN
    BY <2>1 DEF IType, TypeOK, history
  <2>4. QED
    BY <1>t, <2>1, <2>2, <2>3, SameFates DEF IType, TypeOK, IItem, Places, database, history
<1>4. CASE Closing
  <2>1. CASE Join
    <3>1. /\ pc["close"] = "joining" /\ pc' = [pc EXCEPT !["close"] = "ensuring"]
          /\ UNCHANGED <<workers, item, tries, own, database, failed, botched>>
      BY <2>1 DEF Join, Moves
    <3>2. outlived' \in BOOLEAN
      BY <2>1 DEF Join
    <3>3. pc' \in [Users -> Places] /\ IUsers' /\ pc'["thread"] = pc["thread"]
      BY <1>u, <1>t, <3>1 DEF IUsers, Places, workers
    <3>4. QED
      BY <1>t, <1>b, <3>1, <3>2, <3>3, CallsType DEF workers, database
  <2>2. CASE CloseUpdate
    <3>1. /\ pc["close"] = "writing" /\ pc' = [pc EXCEPT !["close"] = "committing"]
          /\ own["close"] \in open
          /\ txn' = [txn EXCEPT !.of = own["close"], !.final = TRUE]
          /\ UNCHANGED <<workers, item, tries, own, conn, open, stored, run, errors, history>>
      BY <2>2 DEF CloseUpdate, Moves, Broken
    <3>2. txn' \in Txns /\ txn'.of \in open'
      BY <1>t, <3>1 DEF Txns
    <3>3. pc' \in [Users -> Places] /\ IUsers' /\ pc'["thread"] = pc["thread"]
      BY <1>u, <1>t, <3>1 DEF IUsers, Places, workers
    <3>4. QED
      BY <1>t, <1>b, <3>1, <3>2, <3>3, CallsType DEF workers, history
  <2>3. CASE CloseCommit
    <3>1. /\ pc["close"] = "committing" /\ pc' = [pc EXCEPT !["close"] = "closing"]
          /\ Commits(own["close"])
          /\ UNCHANGED <<workers, item, tries, own, conn, open, errors, history>>
      BY <2>3 DEF CloseCommit, Moves
    <3>2. /\ stored' \in [Events -> Nat] /\ run' \in {"none", "open", "closed"}
          /\ txn' \in Txns /\ txn'.of \in open \cup {0}
      BY <1>t, <3>1, CommitsType DEF IType
    <3>3. pc' \in [Users -> Places] /\ IUsers' /\ pc'["thread"] = pc["thread"]
      BY <1>u, <1>t, <3>1 DEF IUsers, Places, workers
    <3>4. QED
      BY <1>t, <1>b, <3>1, <3>2, <3>3, CallsType DEF workers, history
  <2>4. CASE CloseEnd \/ CloseFails
    <3>1. /\ pc["close"] \in {"closing", "connecting", "writing", "committing"}
          /\ pc' = [pc EXCEPT !["close"] = "done"]
          /\ conn' = 0 /\ own' = [own EXCEPT !["close"] = 0]
          /\ UNCHANGED <<workers, item, tries, stored, run, failed, outlived>>
      BY <2>4 DEF CloseEnd, CloseFails, Returns, Moves, Fails, history
    <3>2. PICK S \in SUBSET Connections : Keeps(S)
      BY <2>4, <1>t DEF CloseEnd, CloseFails
    <3>3. open' \subseteq Connections /\ txn' \in Txns /\ txn'.of \in open' \cup {0}
      BY <1>t, <3>2, KeepsType
    <3>4. errors' \in 0..MaxErrors
      BY <2>4, <1>t, EventSinkAssumption DEF CloseEnd, CloseFails, Fails, Refusal, Trouble
    <3>5. botched' \in BOOLEAN
      BY <2>4, <1>b DEF CloseEnd, CloseFails, history
    <3>6. /\ pc' \in [Users -> Places] /\ IUsers' /\ pc'["thread"] = pc["thread"]
          /\ own' \in [Users -> Connections \cup {0}]
      BY <1>u, <1>t, <3>1 DEF IUsers, Places, workers
    <3>7. QED
      BY <1>t, <1>b, <3>1, <3>3, <3>4, <3>5, <3>6, CallsType DEF workers
  <2>5. QED
    BY <1>4, <1>u, <1>1, <2>1, <2>2, <2>3, <2>4 DEF Closing, Reopens
<1>5. CASE UNCHANGED vars
  BY <1>5, SameFates
  DEF vars, workers, calls, database, history, IType, TypeOK, IUsers, IItem, Txns
<1>6. QED
  BY <1>2, <1>3, <1>4, <1>5, CallerSteps DEF Next

\* The variables keep their types; in particular the handler holds an event exactly
\* while it works, makes no attempt beyond SQLITE_WRITE_ATTEMPTS, and a transaction
\* belongs to an open connection.
THEOREM TypeCorrect == Spec => []TypeOK
<1>1. Init => IType
  BY InitType
<1>2. IType /\ [Next]_vars => IType'
  BY StepType
<1>3. IType => TypeOK
  BY DEF IType
<1>4. QED
  BY <1>1, <1>2, <1>3, PTL DEF Spec
-----------------------------------------------------------------------------
(* The transaction under way.  It holds one event at most, that of the      *)
(* handler unless the handler has failed since; then nobody finds its       *)
(* connection any more, and only close() may still commit it.               *)

Holds(e) == txn.rows[e] > 0

IRows ==
    /\ \A e \in Events : txn.rows[e] <= 1 /\ (Holds(e) => txn.of # 0)
    /\ \A e, f \in Events : Holds(e) /\ Holds(f) => e = f
    /\ pc["thread"] = "writing" => \A e \in Events : Holds(e) => txn.of # own["thread"]
    /\ pc["thread"] = "committing" => \A e \in Events : Holds(e) => e = item /\ txn.of = own["thread"]
    /\ pc["thread"] # "committing" => \A e \in Events : Holds(e) => txn.of # conn
    /\ pc["thread"] = "committing" /\ own["thread"] \in open =>
          (txn.of = own["thread"] /\ Holds(item)) \/ stored[item] >= 1

LEMMA NothingHeld == \A e \in Events : NoTxn.rows[e] = 0
BY DEF NoTxn, NoRows

\* A step of close() that changes the connections.
LEMMA KeepsRows ==
    ASSUME IType, IRows, NEW S \in SUBSET Connections, Keeps(S),
           own'["thread"] = own["thread"], pc'["thread"] = pc["thread"], UNCHANGED <<item, stored>>,
           own["thread"] \in S => own["thread"] \in open,
           conn' = 0 \/ conn' = conn \/ txn.of = 0
    PROVE  IRows'
<1>2. /\ txn' = txn \/ txn' = NoTxn
      /\ open' \subseteq S
      /\ txn.of \in open' => txn' = txn
  BY KeepsType DEF IType
<1>3. pc["thread"] = "committing" => item \in Events
  BY DEF IType, TypeOK
<1>4. CASE txn' = txn
  BY <1>2, <1>3, <1>4 DEF IRows, Holds
<1>5. CASE txn' = NoTxn
  BY <1>2, <1>3, <1>5, NothingHeld DEF IRows, Holds
<1>6. QED
  BY <1>2, <1>4, <1>5

LEMMA StepRows == IType /\ IRows /\ [Next]_vars => IRows'
<1> SUFFICES ASSUME IType, IRows, [Next]_vars
             PROVE  IRows'
  OBVIOUS
<1>t. /\ Users = {"thread", "close"} /\ 0 \notin Connections
      /\ pc \in [Users -> Places] /\ own \in [Users -> Connections \cup {0}]
      /\ conn \in Connections \cup {0} /\ open \in SUBSET Connections
      /\ txn \in Txns /\ stored \in [Events -> Nat]
      /\ (pc["thread"] # "idle" => item \in Events)
  BY DEF Users, Connections, IType, TypeOK, Places
<1>1. CASE Finds("thread") \/ FindsNone("thread") \/ Connects("thread")
  <2>1. CASE Finds("thread")
    <3>1. /\ pc["thread"] = "ensuring" /\ pc'["thread"] = "writing" /\ conn' = conn
          /\ own'["thread"] = conn /\ Keeps(open)
      BY <1>t, <2>1 DEF Finds, Moves
    <3>2. txn' = txn \/ txn' = NoTxn
      BY <1>t, <3>1, KeepsType
    <3>3. QED
      BY <3>1, <3>2, NothingHeld DEF IRows, Holds
  <2>2. CASE FindsNone("thread")
    BY <2>2, <1>t DEF FindsNone, Moves, IRows, Holds, database
  <2>3. CASE Connects("thread")
    <3>1. PICK c \in Connections : Keeps(open \cup {c})
      BY <1>t, <2>3, ConnectsType
    <3>2. txn' = txn \/ txn' = NoTxn
      BY <1>t, <3>1, KeepsType
    <3>3. txn.of = 0 /\ pc'["thread"] = "writing"
      BY <1>t, <2>3 DEF Connects, Moves
    <3>4. \A e \in Events : ~Holds(e)'
      BY <3>2, <3>3, NothingHeld DEF IRows, Holds
    <3>5. \A e \in Events : txn'.rows[e] <= 1
      BY <3>2, NothingHeld DEF IRows
    <3>6. QED
      BY <3>3, <3>4, <3>5 DEF IRows
  <2>4. QED
    BY <1>1, <2>1, <2>2, <2>3
<1>2. CASE Thread
  <2>1. ASSUME NEW e \in Events, Begin(e)
        PROVE  IRows'
    BY <2>1, <1>t DEF Begin, Moves, IRows, Holds, database
  <2>2. CASE Insert
    <3>1. /\ pc["thread"] = "writing" /\ pc'["thread"] = "committing" /\ txn.of \in {0, own["thread"]}
          /\ own["thread"] \in open
          /\ txn' = [txn EXCEPT !.of = own["thread"], !.rows = [txn.rows EXCEPT ![item] = @ + 1]]
          /\ UNCHANGED <<item, own, conn, open, stored>>
      BY <1>t, <2>2 DEF Insert, Moves, Broken, Locked
    <3>2. txn.rows \in [Events -> Nat] /\ item \in Events /\ own["thread"] # 0
      BY <1>t, <3>1 DEF Txns
    <3>3. \A e \in Events : txn.rows[e] = 0
      BY <3>1, <3>2 DEF IRows, Holds
    <3>4. txn'.of = own["thread"] /\ txn'.rows = [txn.rows EXCEPT ![item] = @ + 1]
      BY <1>t, <3>1 DEF Txns
    <3>5. txn'.rows[item] = 1 /\ \A e \in Events \ {item} : txn'.rows[e] = 0
      BY <3>2, <3>3, <3>4
    <3>6. QED
      BY <3>1, <3>2, <3>4, <3>5 DEF IRows, Holds
  <2>3. CASE Done
    <3>1. /\ pc["thread"] = "committing" /\ pc'["thread"] = "idle" /\ conn' = conn
          /\ Commits(own["thread"])
      BY <1>t, <2>3 DEF Done, Commit, Ends, Moves
    <3>2. \A e \in Events : txn'.rows[e] = 0
      <4>1. CASE txn.of = own["thread"]
        BY <3>1, <4>1, NothingHeld DEF Commits
      <4>2. CASE txn.of # own["thread"]
        <5>1. txn' = txn /\ txn.rows \in [Events -> Nat]
          BY <1>t, <3>1, <4>2 DEF Commits, Txns
        <5>2. QED
          BY <3>1, <4>2, <5>1 DEF IRows, Holds
      <4>3. QED
        BY <4>1, <4>2
    <3>3. QED
      BY <3>1, <3>2 DEF IRows, Holds
  <2>4. CASE AttemptFails
    <3>1. /\ pc'["thread"] \in {"ensuring", "idle"} /\ conn' = 0 /\ Keeps(open \ {conn})
      BY <1>t, <2>4 DEF AttemptFails, Resets, Ends, Moves
    <3>2. txn' = txn \/ txn' = NoTxn
      BY <1>t, <3>1, KeepsType
    <3>3. QED
      BY <3>1, <3>2, NothingHeld DEF IRows, Holds
  <2>5. CASE ThreadEnds
    BY <2>5 DEF ThreadEnds, IRows, Holds, calls, database
  <2>6. QED
    BY <1>2, <1>1, <2>1, <2>2, <2>3, <2>4, <2>5 DEF Thread
<1>3. CASE Close
  BY <1>3, <1>t DEF Close, Moves, IRows, Holds, database
<1>4. CASE Closing
  <2>1. CASE Join
    BY <2>1, <1>t DEF Join, Moves, IRows, Holds, database
  <2>2. CASE Finds("close")
    <3>1. /\ pc'["thread"] = pc["thread"] /\ conn' = conn /\ own'["thread"] = own["thread"]
          /\ Keeps(open) /\ UNCHANGED <<item, stored>>
      BY <1>t, <2>2 DEF Finds, Moves
    <3>2. QED
      BY <1>t, <3>1, KeepsRows
  <2>3. CASE Reopens
    BY <2>3, <1>t DEF Reopens, FindsNone, Moves, IRows, Holds, database
  <2>4. CASE Connects("close")
    <3>1. PICK c \in Connections :
             /\ c # own["thread"] /\ own' = [own EXCEPT !["close"] = c] /\ Keeps(open \cup {c})
      BY <1>t, <2>4, ConnectsType
    <3>2. /\ txn.of = 0 /\ pc'["thread"] = pc["thread"] /\ UNCHANGED <<item, stored>>
      BY <1>t, <2>4 DEF Connects, Moves
    <3>3. own'["thread"] = own["thread"] /\ open \cup {c} \in SUBSET Connections
      BY <1>t, <3>1
    <3>4. QED
      BY <3>1, <3>2, <3>3, KeepsRows
  <2>5. CASE CloseUpdate
    <3>1. /\ pc'["thread"] = pc["thread"] /\ txn.of \in {0, own["close"]}
          /\ txn' = [txn EXCEPT !.of = own["close"], !.final = TRUE]
          /\ own["close"] \in open
          /\ UNCHANGED <<item, own, conn, open, stored>>
      BY <1>t, <2>5 DEF CloseUpdate, Moves, Broken, Locked
    <3>2. txn'.rows = txn.rows /\ txn'.of = own["close"] /\ own["close"] # 0
      BY <1>t, <3>1 DEF Txns
    <3>3. \A e \in Events : Holds(e) => txn'.of = txn.of
      BY <3>1, <3>2 DEF IRows
    <3>4. \A e \in Events : Holds(e)' <=> Holds(e)
      BY <3>2 DEF Holds
    <3>5. pc["thread"] = "committing" /\ own["thread"] \in open =>
             (txn'.of = own["thread"] /\ Holds(item)') \/ stored[item] >= 1
      BY <1>t, <3>1, <3>2, <3>3 DEF IRows, Holds
    <3>6. QED
      BY <3>1, <3>2, <3>3, <3>4, <3>5 DEF IRows
  <2>6. CASE CloseCommit
    <3>1. /\ pc'["thread"] = pc["thread"] /\ Commits(own["close"])
          /\ UNCHANGED <<item, own, conn, open>>
      BY <1>t, <2>6 DEF CloseCommit, Moves
    <3>2. CASE txn.of = own["close"]
      <4>1. txn' = NoTxn /\ stored' = [e \in Events |-> stored[e] + txn.rows[e]]
        BY <3>1, <3>2 DEF Commits
      <4>2. txn.rows \in [Events -> Nat]
        BY <1>t DEF Txns
      <4>3. pc["thread"] = "committing" /\ own["thread"] \in open => stored'[item] >= 1
        BY <1>t, <4>1, <4>2 DEF IRows, Holds
      <4>4. QED
        BY <3>1, <4>1, <4>3, NothingHeld DEF IRows, Holds
    <3>3. CASE txn.of # own["close"]
      BY <3>1, <3>3 DEF Commits, IRows, Holds
    <3>4. QED
      BY <3>2, <3>3
  <2>7. CASE CloseEnd \/ CloseFails
    <3>1. /\ pc'["thread"] = pc["thread"] /\ conn' = 0 /\ own'["thread"] = own["thread"]
          /\ UNCHANGED <<item, stored>>
      BY <1>t, <2>7 DEF CloseEnd, CloseFails, Returns, Moves
    <3>2. PICK S \in SUBSET Connections : S \subseteq open /\ Keeps(S)
      BY <1>t, <2>7 DEF CloseEnd, CloseFails
    <3>3. QED
      BY <3>1, <3>2, KeepsRows
  <2>8. QED
    BY <1>4, <2>1, <2>2, <2>3, <2>4, <2>5, <2>6, <2>7 DEF Closing
<1>5. CASE UNCHANGED vars
  BY <1>5 DEF vars, calls, database, IRows, Holds
<1>6. ASSUME UNCHANGED <<calls, database>>
      PROVE  IRows'
  BY <1>6 DEF calls, database, IRows, Holds
<1>7. QED
  BY <1>2, <1>3, <1>4, <1>5, <1>6, CallerSteps DEF Next
-----------------------------------------------------------------------------
(* What the database holds: an event is in it when its handler is done and  *)
(* was not given to on_error, and at most once, but for the single event    *)
(* that close() may have committed on the thread's behalf.                  *)

Ok(e) == IF fate[e] = "handled" /\ e \notin failed THEN 1 ELSE 0
Extra(x, e) == IF e = x THEN 1 ELSE 0
Past == pc["close"] \in {"closing", "done"}

ICount == \E x \in Events \cup {Nobody} :
             /\ ~Past => x = Nobody
             /\ \A e \in Events : stored[e] <= Ok(e) + Extra(x, e)

IDone == \A e \in Events : fate[e] = "handled" /\ e \notin failed => stored[e] >= 1

IStored == IType /\ IRows /\ ICount /\ IDone

\* A step that stores nothing, and after which no event is newly done.
LEMMA StoresNothing ==
    ASSUME ICount, IDone, stored' = stored, \A e \in Events : Ok(e)' = Ok(e), Past => Past'
    PROVE  ICount' /\ IDone'
<1>1. PICK x \in Events \cup {Nobody} :
        (~Past => x = Nobody) /\ \A e \in Events : stored[e] <= Ok(e) + Extra(x, e)
  BY DEF ICount
<1>2. \A e \in Events : Extra(x, e)' = Extra(x, e)
  BY DEF Extra
<1>3. ICount'
  BY <1>1, <1>2 DEF ICount, Extra
<1>4. IDone'
  BY DEF IDone, Ok
<1>5. QED
  BY <1>3, <1>4

\* The thread's commit: its event is done and was stored now, or by close().
LEMMA DoneStores == IStored /\ Done => ICount' /\ IDone'
<1> SUFFICES ASSUME IStored, Done
             PROVE  ICount' /\ IDone'
  OBVIOUS
<1>1. /\ Commits(own["thread"]) /\ Ends("committing")
      /\ UNCHANGED <<failed, conn, open>>
  BY DEF Done, Commit, history
<1>2. PICK i \in Events :
        /\ i = item /\ fate[i] = "handling" /\ fate' = [fate EXCEPT ![i] = "handled"]
        /\ pc["thread"] = "committing" /\ i \notin failed
        /\ pc' = [pc EXCEPT !["thread"] = "idle"]
  BY <1>1, EndsType DEF IStored
<1>3. /\ fate \in [Events -> Fates] /\ stored \in [Events -> Nat] /\ txn.rows \in [Events -> Nat]
      /\ pc \in [Users -> Places]
  BY SameFates DEF IStored, IType, TypeOK, Txns, Places
<1>4. Ok(i) = 0 /\ Ok(i)' = 1 /\ \A e \in Events \ {i} : Ok(e)' = Ok(e)
  <2>1. fate'[i] = "handled" /\ \A e \in Events \ {i} : fate'[e] = fate[e]
    BY <1>2, <1>3
  <2>2. QED
    BY <1>1, <1>2, <2>1 DEF Ok
<1>5. stored'[i] <= stored[i] + 1 /\ stored'[i] >= 1
      /\ \A e \in Events \ {i} : stored'[e] = stored[e]
  <2>1. own["thread"] \in open /\ ((txn.of = own["thread"] /\ Holds(i)) \/ stored[i] >= 1)
    BY <1>1, <1>2 DEF IStored, IRows, Commits
  <2>2. CASE txn.of = own["thread"]
    <3>1. stored' = [e \in Events |-> stored[e] + txn.rows[e]]
      BY <1>1, <2>2 DEF Commits
    <3>2. txn.rows[i] <= 1 /\ \A e \in Events \ {i} : txn.rows[e] = 0
      BY <1>2, <1>3 DEF IStored, IRows, Holds
    <3>3. QED
      BY <1>3, <2>1, <3>1, <3>2 DEF Holds
  <2>3. CASE txn.of # own["thread"]
    BY <1>1, <1>3, <2>1, <2>3 DEF Commits
  <2>4. QED
    BY <2>2, <2>3
<1>6. PICK x \in Events \cup {Nobody} :
        (~Past => x = Nobody) /\ \A e \in Events : stored[e] <= Ok(e) + Extra(x, e)
  BY DEF IStored, ICount
<1>7. \A e \in Events : stored'[e] <= Ok(e)' + Extra(x, e)
  <2>1. \A e \in Events : Extra(x, e) \in {0, 1} /\ Ok(e) \in {0, 1} /\ Ok(e)' \in {0, 1}
    BY DEF Extra, Ok
  <2>2. stored'[i] <= Ok(i)' + Extra(x, i)
    <3>1. stored' \in [Events -> Nat]
      BY <1>1, CommitsType DEF IStored, IType
    <3>2. stored'[i] \in Nat /\ stored[i] \in Nat /\ stored[i] <= Ok(i) + Extra(x, i)
      BY <1>3, <1>6, <3>1
    <3>3. QED
      BY <1>4, <1>5, <2>1, <3>2
  <2>3. QED
    BY <1>4, <1>5, <1>6, <2>2
<1>8. ICount'
  <2>1. pc'["close"] = pc["close"]
    BY <1>2, <1>3 DEF Users
  <2>2. Past' = Past
    BY <2>1 DEF Past
  <2>3. QED
    BY <1>6, <1>7, <2>2 DEF ICount, Extra
<1>9. IDone'
  <2>1. \A e \in Events \ {i} : fate'[e] = fate[e] /\ failed' = failed
    BY <1>1, <1>2, <1>3
  <2>2. QED
    BY <1>5, <2>1 DEF IDone, IStored
<1>10. QED
  BY <1>8, <1>9

\* The commit of close(), the only one: what the transaction holds is stored.
LEMMA CloseStores == IStored /\ CloseCommit => ICount' /\ IDone'
<1> SUFFICES ASSUME IStored, CloseCommit
             PROVE  ICount' /\ IDone'
  OBVIOUS
<1>1. /\ pc["close"] = "committing" /\ pc' = [pc EXCEPT !["close"] = "closing"]
      /\ Commits(own["close"]) /\ UNCHANGED <<fate, failed>>
  BY DEF CloseCommit, Moves, workers, history
<1>2. /\ stored \in [Events -> Nat] /\ stored' \in [Events -> Nat] /\ txn.rows \in [Events -> Nat]
      /\ pc \in [Users -> Places]
  BY <1>1, CommitsType DEF IStored, IType, TypeOK, Txns, Places
<1>3. \A e \in Events : stored[e] <= Ok(e) /\ Ok(e)' = Ok(e) /\ Ok(e) \in {0, 1}
  <2>1. ~Past
    BY <1>1 DEF Past
  <2>2. \A e \in Events : Extra(Nobody, e) = 0
    BY EventSinkAssumption DEF Extra
  <2>3. \A e \in Events : stored[e] <= Ok(e) + 0
    BY <2>1, <2>2 DEF IStored, ICount
  <2>4. QED
    BY <1>1, <1>2, <2>3 DEF Ok
<1>4. PICK x \in Events \cup {Nobody} : \A e \in Events : e # x => ~Holds(e)
  BY DEF IStored, IRows
<1>5. \A e \in Events : stored'[e] >= stored[e] /\ stored'[e] <= Ok(e) + Extra(x, e)
  <2>1. CASE txn.of = own["close"]
    <3>1. stored' = [e \in Events |-> stored[e] + txn.rows[e]]
      BY <1>1, <2>1 DEF Commits
    <3>2. \A e \in Events : txn.rows[e] <= Extra(x, e)
      BY <1>2, <1>4 DEF Extra, Holds, IStored, IRows
    <3>3. \A e \in Events : Extra(x, e) \in {0, 1}
      BY DEF Extra
    <3>4. QED
      BY <1>2, <1>3, <3>1, <3>2, <3>3
  <2>2. CASE txn.of # own["close"]
    BY <1>1, <1>2, <1>3, <2>2 DEF Commits, Extra
  <2>3. QED
    BY <2>1, <2>2
<1>6. ICount'
  <2>1. pc'["close"] = "closing"
    BY <1>1, <1>2 DEF Users
  <2>2. QED
    BY <1>3, <1>5, <2>1 DEF ICount, Past, Extra
<1>7. IDone'
  BY <1>1, <1>2, <1>5 DEF IDone, IStored
<1>8. QED
  BY <1>6, <1>7

LEMMA StepStored == IStored /\ [Next]_vars => IStored'
<1> SUFFICES ASSUME IStored, [Next]_vars
             PROVE  IStored'
  OBVIOUS
<1>0. IType' /\ IRows'
  BY StepType, StepRows DEF IStored
<1> SUFFICES ICount' /\ IDone'
  BY <1>0 DEF IStored
<1>t. Users = {"thread", "close"} /\ pc \in [Users -> Places] /\ fate \in [Events -> Fates]
  BY SameFates DEF Users, IStored, IType, TypeOK, Places
<1>1. ASSUME NEW u \in Users, Finds(u) \/ FindsNone(u) \/ Connects(u)
      PROVE  ICount' /\ IDone'
  <2>1. /\ pc[u] \in {"ensuring", "connecting"} /\ UNCHANGED <<fate, failed, stored>>
        /\ \E to \in {"connecting", "writing"} : pc' = [pc EXCEPT ![u] = to]
    BY <1>1 DEF Finds, FindsNone, Connects, Moves, workers, history, database
  <2>2. (Past => Past') /\ \A e \in Events : Ok(e)' = Ok(e)
    BY <1>t, <2>1 DEF Past, Ok
  <2>3. QED
    BY <2>1, <2>2, StoresNothing DEF IStored
<1>2. CASE Thread
  <2>1. ASSUME NEW e \in Events, Begin(e)
        PROVE  ICount' /\ IDone'
    <3>1. /\ fate[e] = "pending" /\ fate' = [fate EXCEPT ![e] = "handling"]
          /\ pc' = [pc EXCEPT !["thread"] = "ensuring"] /\ UNCHANGED <<stored, failed>>
      BY <2>1 DEF Begin, Moves, Worker!Begin, Worker!Moves, database, history
    <3>2. \A f \in Events : Ok(f)' = Ok(f)
      BY <1>t, <3>1 DEF Ok
    <3>3. Past => Past'
      BY <1>t, <3>1 DEF Past
    <3>4. QED
      BY <3>1, <3>2, <3>3, StoresNothing DEF IStored
  <2>2. CASE Insert
    <3>1. /\ pc' = [pc EXCEPT !["thread"] = "committing"] /\ UNCHANGED <<fate, failed, stored>>
      BY <2>2 DEF Insert, Moves, workers, history
    <3>2. (Past => Past') /\ \A e \in Events : Ok(e)' = Ok(e)
      BY <1>t, <3>1 DEF Past, Ok
    <3>3. QED
      BY <3>1, <3>2, StoresNothing DEF IStored
  <2>3. CASE AttemptFails
    <3>1. stored' = stored /\ pc["thread"] \in {"connecting", "writing", "committing"}
          /\ pc'["close"] = pc["close"]
      BY <1>t, <2>3 DEF AttemptFails, Fails, Ends, Moves
    <3>2. CASE UNCHANGED <<fate, failed>>
      BY <3>1, <3>2, StoresNothing DEF IStored, Past, Ok
    <3>3. CASE Ends(pc["thread"]) /\ failed' = failed \cup {item}
      <4>1. PICK i \in Events : i = item /\ fate[i] = "handling" /\ fate' = [fate EXCEPT ![i] = "handled"]
        BY <3>1, <3>3, EndsType DEF IStored
      <4>2. \A e \in Events : Ok(e)' = Ok(e)
        BY <1>t, <3>3, <4>1 DEF Ok
      <4>3. QED
        BY <3>1, <4>2, StoresNothing DEF IStored, Past
    <3>4. QED
      BY <2>3, <3>2, <3>3 DEF AttemptFails
  <2>4. CASE ThreadEnds
    BY <2>4, StoresNothing DEF ThreadEnds, calls, database, history, IStored, Past, Ok
  <2>5. QED
    BY <1>2, <1>t, <1>1, <2>1, <2>2, <2>3, <2>4, DoneStores DEF Thread
<1>3. CASE Close \/ Join \/ CloseUpdate
  <2>1. /\ pc["close"] \notin {"closing", "done"} /\ UNCHANGED <<fate, failed, stored>>
    BY <1>3 DEF Close, Join, CloseUpdate, Moves, workers, database, history
  <2>2. ~Past /\ \A e \in Events : Ok(e)' = Ok(e)
    BY <2>1 DEF Past, Ok
  <2>3. QED
    BY <2>1, <2>2, StoresNothing DEF IStored
<1>4. CASE CloseEnd \/ CloseFails
  <2>1. /\ pc' = [pc EXCEPT !["close"] = "done"] /\ UNCHANGED <<fate, failed, stored>>
    BY <1>4 DEF CloseEnd, CloseFails, Returns, Moves, workers, history
  <2>2. Past' /\ \A e \in Events : Ok(e)' = Ok(e)
    BY <1>t, <2>1 DEF Past, Ok
  <2>3. QED
    BY <2>1, <2>2, StoresNothing DEF IStored
<1>5. CASE UNCHANGED vars
  BY <1>5, StoresNothing DEF vars, workers, calls, database, history, IStored, Past, Ok
<1>6. ASSUME UNCHANGED <<calls, database, history>>,
             \A e \in Events : fate'[e] # fate[e] => fate'[e] # "handled" /\ fate[e] # "handled"
      PROVE  ICount' /\ IDone'
  BY <1>6, StoresNothing DEF calls, database, history, IStored, Past, Ok
<1>7. CASE \/ \E e \in Results : Emit(e) \/ Dispatch(e) \/ Hook(e)
           \/ \E e \in Events : Write(e) \/ Evict(e)
  <2>1. /\ UNCHANGED <<calls, database, history>>
        /\ \A e \in Events : fate'[e] # fate[e] => fate'[e] # "handled" /\ fate[e] # "handled"
    BY <1>7, CallerSteps DEF IStored
  <2>2. QED
    BY <1>6, <2>1
<1>8. CASE Closing
  BY <1>8, <1>t, <1>1, <1>3, <1>4, CloseStores DEF Closing, Reopens
<1>9. QED
  BY <1>2, <1>3, <1>5, <1>7, <1>8 DEF Next
-----------------------------------------------------------------------------
(* Results are kept: what the hook has handed over is critical, so only a   *)
(* closed sink refuses it and nothing evicts it.                            *)

IResults ==
    \A e \in Results : posted[e] = "handled" =>
        fate[e] \in {"pending", "handling", "handled"} \/ (closed /\ fate[e] = "refused")

\* A step of the sink's thread and of close() moves an event on only.
LEMMA SinkMoves ==
    ASSUME IType, Thread \/ Close \/ Closing
    PROVE  /\ posted' = posted /\ (closed => closed')
           /\ \A e \in Events : fate'[e] = fate[e] \/ fate'[e] \in {"handling", "handled"}
<1>t. fate \in [Events -> Fates]
  BY SameFates DEF IType, TypeOK
<1>1. CASE Thread
  <2>1. ASSUME NEW e \in Events, Begin(e)
        PROVE  /\ posted' = posted /\ (closed => closed')
               /\ \A f \in Events : fate'[f] = fate[f] \/ fate'[f] \in {"handling", "handled"}
    BY <1>t, <2>1 DEF Begin, Worker!Begin, Worker!Moves
  <2>2. CASE Finds("thread") \/ FindsNone("thread") \/ Connects("thread") \/ Insert \/ ThreadEnds
    BY <2>2 DEF Finds, FindsNone, Connects, Insert, ThreadEnds, workers
  <2>3. CASE Done
    <3>1. Worker!End(item) /\ UNCHANGED <<posted, closed>>
      BY <2>3 DEF Done, Ends
    <3>2. QED
      BY <1>t, <3>1 DEF Worker!End, Worker!Moves
  <2>4. CASE AttemptFails
    <3>1. (fate' = fate \/ Worker!End(item)) /\ UNCHANGED <<posted, closed>>
      BY <2>4 DEF AttemptFails, Ends
    <3>2. QED
      BY <1>t, <3>1 DEF Worker!End, Worker!Moves
  <2>5. QED
    BY <1>1, <2>1, <2>2, <2>3, <2>4 DEF Thread
<1>2. CASE Close \/ Closing
  BY <1>2 DEF Close, Closing, Join, Finds, Reopens, FindsNone, Connects, CloseUpdate, CloseCommit,
              CloseEnd, CloseFails, workers
<1>3. QED
  BY <1>1, <1>2

LEMMA StepResults == IType /\ IResults /\ [Next]_vars => IResults'
<1> SUFFICES ASSUME IType, IResults, [Next]_vars
             PROVE  IResults'
  OBVIOUS
<1>t. /\ fate \in [Events -> Fates] /\ posted \in [Results -> Fates] /\ Results \subseteq Events
      /\ \A e \in Events : fate[e] \in Fates
  BY SameFates, EventSinkAssumption DEF IType, TypeOK
<1>1. CASE Thread \/ Close \/ Closing
  BY <1>1, <1>t, SinkMoves DEF IResults
<1>2. ASSUME NEW e \in Results, Emit(e) \/ Dispatch(e) \/ Hook(e)
      PROVE  IResults'
  <2>1. CASE Emit(e) \/ Dispatch(e)
    <3>1. \A f \in Results : posted'[f] = "handled" => posted[f] = "handled"
      BY <1>t, <2>1 DEF Emit, Dispatch, Pipeline!Accept, Pipeline!Begin, Pipeline!Moves
    <3>2. UNCHANGED <<fate, closed>>
      BY <2>1 DEF Emit, Dispatch
    <3>3. QED
      BY <3>1, <3>2 DEF IResults
  <2>2. CASE Hook(e)
    <3>1. \A f \in Results \ {e} : posted'[f] = posted[f]
      BY <1>t, <2>2 DEF Hook, Pipeline!End, Pipeline!Moves
    <3>2. e \in Events /\ (Worker!Accept(e) \/ Refused(e)) /\ closed' = closed
      BY <1>t, <2>2 DEF Hook
    <3>3. \A f \in Events \ {e} : fate'[f] = fate[f]
      BY <1>t, <3>2, WorkerMoves
    <3>4. fate'[e] = "pending" \/ (closed /\ fate'[e] = "refused")
      BY <1>t, <3>2 DEF Refused, Worker!Accept, Worker!Refuse, Worker!Moves
    <3>5. QED
      BY <1>t, <3>1, <3>2, <3>3, <3>4 DEF IResults
  <2>3. QED
    BY <1>2, <2>1, <2>2
<1>3. ASSUME NEW e \in Events, Write(e) \/ Evict(e)
      PROVE  IResults'
  <2>1. e \notin Results /\ UNCHANGED <<posted, closed>>
    BY <1>3 DEF Write, Evict, Worker!Evict
  <2>2. \A f \in Events \ {e} : fate'[f] = fate[f]
    BY <1>t, <1>3, WorkerMoves DEF Write, Evict
  <2>3. QED
    BY <1>t, <2>1, <2>2 DEF IResults
<1>4. CASE UNCHANGED vars
  BY <1>4 DEF vars, workers, IResults
<1>5. QED
  BY <1>1, <1>2, <1>3, <1>4 DEF Next

LEMMA InitStored == Init => IStored /\ IResults
<1> SUFFICES ASSUME Init
             PROVE  IStored /\ IResults
  OBVIOUS
<1>1. IType
  BY InitType
<1>2. IRows
  BY NothingHeld DEF Init, IRows, Holds, Users
<1>3. \A e \in Events : stored[e] = 0 /\ fate[e] = "new"
  BY DEF Init, NoRows, Worker!Init
<1>4. ICount
  BY <1>3 DEF ICount, Ok, Extra, Past
<1>5. IDone
  BY <1>3 DEF IDone
<1>6. IResults
  BY DEF Init, Pipeline!Init, IResults
<1>7. QED
  BY <1>1, <1>2, <1>4, <1>5, <1>6 DEF IStored

\* The result of an order that the pipeline has handed to the hook is on its way to
\* the database, in it, or was given to on_error, unless the sink was closed.
THEOREM ResultsAreKept == Spec => []ResultsKept
<1>1. Init => IStored /\ IResults
  BY InitStored
<1>2. IStored /\ IResults /\ [Next]_vars => IStored' /\ IResults'
  BY StepStored, StepResults DEF IStored
<1>3. IStored /\ IResults => ResultsKept
  BY EventSinkAssumption DEF IStored, IDone, IResults, ResultsKept
<1>4. QED
  BY <1>1, <1>2, <1>3, PTL DEF Spec
-----------------------------------------------------------------------------
(* close() and the thread: before the join only the thread has the          *)
(* connection, after a join that did not time out only close() has.         *)

Early == pc["close"] \in {"idle", "joining"}
Alone == ~Early /\ ~outlived

IEarly == Early =>
    /\ txn.of \in {0, conn}
    /\ pc["thread"] \in {"writing", "committing"} => own["thread"] = conn
    /\ pc["thread"] # "committing" => txn.of = 0

IAlone == Alone =>
    /\ gone /\ \A e \in Events : ~Holds(e) /\ stored[e] <= Ok(e)
    /\ pc["close"] = "committing" => txn.of = own["close"] /\ txn.final
    /\ pc["close"] = "closing" => run = "closed"
    /\ pc["close"] = "done" /\ ~botched => run = "closed" /\ conn = 0 /\ open = {}

ISink == IStored /\ IEarly /\ IAlone

LEMMA EmptyTxn == NoTxn.of = 0 /\ \A e \in Events : NoTxn.rows[e] = 0
BY DEF NoTxn, NoRows

\* The thread's steps before the join.
LEMMA EarlyThread == IStored /\ IEarly /\ Early /\ Thread => IEarly'
<1> SUFFICES ASSUME IStored, IEarly, Early, Thread
             PROVE  IEarly'
  OBVIOUS
<1>t. /\ Users = {"thread", "close"} /\ pc \in [Users -> Places]
      /\ own \in [Users -> Connections \cup {0}] /\ 0 \notin Connections
      /\ conn \in Connections \cup {0} /\ open \in SUBSET Connections
      /\ txn \in Txns /\ txn.of \in open \cup {0}
  BY DEF Users, Connections, IStored, IType, TypeOK, Places
<1>1. ASSUME NEW e \in Events, Begin(e)
      PROVE  IEarly'
  BY <1>1, <1>t DEF Begin, Moves, IEarly, Early, database
<1>2. CASE Finds("thread")
  <2>1. /\ pc["thread"] = "ensuring" /\ pc' = [pc EXCEPT !["thread"] = "writing"]
        /\ own' = [own EXCEPT !["thread"] = conn] /\ conn' = conn /\ Keeps(open)
    BY <1>2 DEF Finds, Moves
  <2>2. txn' = txn \/ txn' = NoTxn
    BY <1>t, <2>1, KeepsType
  <2>3. QED
    BY <1>t, <2>1, <2>2, EmptyTxn DEF IEarly, Early
<1>3. CASE FindsNone("thread")
  BY <1>3, <1>t DEF FindsNone, Moves, IEarly, Early, database
<1>4. CASE Connects("thread")
  <2>1. PICK c \in Connections : /\ conn' = c /\ own' = [own EXCEPT !["thread"] = c]
                                 /\ Keeps(open \cup {c})
    BY <1>t, <1>4, ConnectsType
  <2>2. txn' = txn \/ txn' = NoTxn
    BY <1>t, <2>1, KeepsType
  <2>3. txn.of = 0 /\ pc' = [pc EXCEPT !["thread"] = "writing"]
    BY <1>4 DEF Connects, Moves
  <2>4. QED
    BY <1>t, <2>1, <2>2, <2>3, EmptyTxn DEF IEarly, Early
<1>5. CASE Insert
  <2>1. /\ pc["thread"] = "writing" /\ pc' = [pc EXCEPT !["thread"] = "committing"]
        /\ txn'.of = own["thread"] /\ UNCHANGED <<own, conn>>
    BY <1>t, <1>5 DEF Insert, Moves, Txns
  <2>2. QED
    BY <1>t, <2>1 DEF IEarly, Early
<1>6. CASE Done
  <2>1. /\ pc["thread"] = "committing" /\ pc' = [pc EXCEPT !["thread"] = "idle"] /\ conn' = conn
        /\ Commits(own["thread"])
    BY <1>6 DEF Done, Commit, Ends, Moves
  <2>2. own["thread"] = conn /\ own["thread"] \in open
    BY <2>1 DEF IEarly, Commits
  <2>3. txn'.of = 0
    BY <1>t, <2>1, <2>2, EmptyTxn DEF Commits, IEarly
  <2>4. QED
    BY <1>t, <2>1, <2>3 DEF IEarly, Early
<1>7. CASE AttemptFails
  <2>1. /\ \E to \in {"ensuring", "idle"} : pc' = [pc EXCEPT !["thread"] = to]
        /\ conn' = 0 /\ Keeps(open \ {conn})
    BY <1>7 DEF AttemptFails, Resets, Ends, Moves
  <2>2. txn'.of = 0
    BY <1>t, <2>1, KeepsType, EmptyTxn DEF IEarly
  <2>3. QED
    BY <1>t, <2>1, <2>2 DEF IEarly, Early
<1>8. CASE ThreadEnds
  BY <1>8 DEF ThreadEnds, IEarly, Early, calls, database
<1>9. QED
  BY <1>1, <1>2, <1>3, <1>4, <1>5, <1>6, <1>7, <1>8 DEF Thread

\* A thread that has ended takes no step.
LEMMA GoneIsGone == IType /\ gone => ~Thread
<1> SUFFICES ASSUME IType, gone, Thread
             PROVE  FALSE
  OBVIOUS
<1>1. pc["thread"] = "idle"
  BY DEF IType, IUsers
<1>2. QED
  BY <1>1 DEF Thread, Begin, Finds, FindsNone, Connects, Insert, Done, Ends, AttemptFails, Fails,
              ThreadEnds, Moves

LEMMA StepSink == ISink /\ [Next]_vars => ISink'
<1> SUFFICES ASSUME ISink, [Next]_vars
             PROVE  ISink'
  OBVIOUS
<1>0. IStored'
  BY StepStored DEF ISink
<1> SUFFICES IEarly' /\ IAlone'
  BY <1>0 DEF ISink
<1>t. /\ Users = {"thread", "close"} /\ pc \in [Users -> Places]
      /\ own \in [Users -> Connections \cup {0}] /\ 0 \notin Connections
      /\ conn \in Connections \cup {0} /\ open \in SUBSET Connections
      /\ txn \in Txns /\ txn.of \in open \cup {0}
      /\ IType /\ IRows /\ IUsers
  BY DEF Users, Connections, ISink, IStored, IType, TypeOK, Places
<1>1. CASE Thread
  <2>1. pc'["close"] = pc["close"] /\ outlived' = outlived
    BY <1>1, <1>t DEF Thread, Begin, Finds, FindsNone, Connects, Insert, Done, Ends, AttemptFails,
                      ThreadEnds, Moves, calls, history
  <2>2. IEarly'
    BY <1>1, <2>1, EarlyThread DEF ISink, IEarly, Early
  <2>3. ~Alone
    BY <1>1, <1>t, GoneIsGone DEF ISink, IAlone
  <2>4. QED
    BY <2>1, <2>2, <2>3 DEF IAlone, Alone, Early
<1>2. CASE Close
  BY <1>2, <1>t DEF Close, Moves, ISink, IEarly, IAlone, Early, Alone, database
<1>3. CASE Join
  <2>1. /\ pc["close"] = "joining" /\ pc' = [pc EXCEPT !["close"] = "ensuring"] /\ outlived' = ~gone
        /\ UNCHANGED <<workers, item, tries, own, database, failed, botched>>
    BY <1>3 DEF Join, Moves
  <2>2. pc'["close"] = "ensuring"
    BY <1>t, <2>1
  <2>3. ASSUME ~outlived'
        PROVE  gone' /\ \A e \in Events : ~Holds(e)' /\ stored'[e] <= Ok(e)'
    <3>1. gone /\ gone' /\ pc["thread"] = "idle"
      BY <1>t, <2>1, <2>3 DEF IUsers, workers
    <3>2. txn.of = 0
      BY <2>1, <3>1 DEF ISink, IEarly, Early
    <3>3. \A e \in Events : ~Holds(e)
      BY <1>t, <3>2 DEF IRows
    <3>4. \A e \in Events : stored[e] <= Ok(e) + 0
      <4>1. ~Past
        BY <2>1 DEF Past
      <4>2. \A e \in Events : Extra(Nobody, e) = 0
        BY EventSinkAssumption DEF Extra
      <4>3. QED
        BY <4>1, <4>2 DEF ISink, IStored, ICount
    <3>5. \A e \in Events : stored[e] <= Ok(e)
      BY <1>t, <3>4 DEF Ok, IType, TypeOK
    <3>6. QED
      BY <2>1, <3>1, <3>3, <3>5 DEF Holds, Ok, workers, database
  <2>4. QED
    BY <2>2, <2>3 DEF IEarly, IAlone, Early, Alone
<1>4. CASE Finds("close") \/ Reopens \/ Connects("close")
  <2>1. /\ pc["close"] \in {"ensuring", "connecting"} /\ pc'["close"] \in {"connecting", "writing"}
        /\ UNCHANGED <<workers, stored, failed, outlived>>
    BY <1>4, <1>t DEF Finds, Reopens, FindsNone, Connects, Moves, history, database
  <2>2. txn' = txn \/ txn' = NoTxn
    <3>1. ASSUME Connects("close")
          PROVE  txn' = txn \/ txn' = NoTxn
      <4>1. PICK c \in Connections : Keeps(open \cup {c})
        BY <1>t, <3>1, ConnectsType
      <4>2. QED
        BY <1>t, <4>1, KeepsType
    <3>2. QED
      BY <1>4, <1>t, <3>1, KeepsType DEF Finds, Reopens, FindsNone, database
  <2>3. Alone' => Alone /\ gone' /\ \A e \in Events : ~Holds(e)' /\ stored'[e] <= Ok(e)'
    BY <2>1, <2>2, EmptyTxn DEF ISink, IAlone, Alone, Early, Holds, Ok, workers
  <2>4. QED
    BY <2>1, <2>3 DEF IEarly, IAlone, Early
<1>5. CASE CloseUpdate
  <2>1. /\ pc["close"] = "writing" /\ pc' = [pc EXCEPT !["close"] = "committing"]
        /\ txn' = [txn EXCEPT !.of = own["close"], !.final = TRUE]
        /\ UNCHANGED <<workers, own, stored, failed, outlived>>
    BY <1>5 DEF CloseUpdate, Moves, history
  <2>2. txn'.rows = txn.rows /\ txn'.of = own["close"] /\ txn'.final /\ pc'["close"] = "committing"
    BY <1>t, <2>1 DEF Txns
  <2>3. Alone' => Alone /\ gone' /\ \A e \in Events : ~Holds(e)' /\ stored'[e] <= Ok(e)'
    BY <2>1, <2>2 DEF ISink, IAlone, Alone, Early, Holds, Ok, workers
  <2>4. QED
    BY <2>1, <2>2, <2>3 DEF IEarly, IAlone, Early
<1>6. CASE CloseCommit
  <2>1. /\ pc["close"] = "committing" /\ pc' = [pc EXCEPT !["close"] = "closing"]
        /\ Commits(own["close"]) /\ UNCHANGED <<workers, own, failed, outlived>>
    BY <1>6 DEF CloseCommit, Moves, history
  <2>2. pc'["close"] = "closing"
    BY <1>t, <2>1
  <2>3. ASSUME Alone'
        PROVE  gone' /\ run' = "closed" /\ \A e \in Events : ~Holds(e)' /\ stored'[e] <= Ok(e)'
    <3>1. /\ gone /\ txn.of = own["close"] /\ txn.final
          /\ \A e \in Events : ~Holds(e) /\ stored[e] <= Ok(e)
      BY <2>1, <2>3 DEF ISink, IAlone, Alone, Early
    <3>2. txn' = NoTxn /\ run' = "closed" /\ stored' = [e \in Events |-> stored[e] + txn.rows[e]]
      BY <2>1, <3>1 DEF Commits
    <3>3. stored \in [Events -> Nat] /\ txn.rows \in [Events -> Nat]
      BY <1>t DEF IType, TypeOK, Txns
    <3>4. \A e \in Events : stored'[e] = stored[e]
      BY <3>1, <3>2, <3>3 DEF Holds
    <3>5. QED
      BY <2>1, <3>1, <3>2, <3>4, EmptyTxn DEF Holds, Ok, workers
  <2>4. QED
    BY <2>2, <2>3 DEF IEarly, IAlone, Early
<1>7. CASE CloseEnd \/ CloseFails
  <2>1. /\ pc' = [pc EXCEPT !["close"] = "done"] /\ conn' = 0 /\ own' = [own EXCEPT !["close"] = 0]
        /\ pc["close"] \in {"closing", "connecting", "writing", "committing"}
        /\ UNCHANGED <<workers, stored, run, failed, outlived>>
    BY <1>7 DEF CloseEnd, CloseFails, Returns, Moves, Fails, history
  <2>2. PICK S \in SUBSET Connections : Keeps(S)
    BY <1>7, <1>t DEF CloseEnd, CloseFails
  <2>3. /\ txn' = txn \/ txn' = NoTxn
        /\ open' \subseteq Connections /\ open' \subseteq {conn'} \cup {own'["thread"], own'["close"]}
    BY <1>t, <2>2, KeepsType
  <2>4. pc'["close"] = "done" /\ own'["close"] = 0 /\ own'["thread"] = own["thread"]
    BY <1>t, <2>1
  <2>5. Alone' => Alone /\ gone' /\ \A e \in Events : ~Holds(e)' /\ stored'[e] <= Ok(e)'
    BY <2>1, <2>3, EmptyTxn DEF ISink, IAlone, Alone, Early, Holds, Ok, workers
  <2>6. ASSUME Alone', ~botched'
        PROVE  run' = "closed" /\ conn' = 0 /\ open' = {}
    <3>1. pc["close"] = "closing"
      BY <1>7, <2>6 DEF CloseEnd, CloseFails
    <3>2. run = "closed" /\ gone
      BY <2>5, <2>6, <3>1 DEF ISink, IAlone
    <3>3. own["thread"] = 0
      BY <1>t, <3>2 DEF IUsers
    <3>4. QED
      BY <1>t, <2>1, <2>3, <2>4, <3>2, <3>3
  <2>7. QED
    BY <2>4, <2>5, <2>6 DEF IEarly, IAlone, Early
<1>8. CASE UNCHANGED vars
  BY <1>8 DEF vars, workers, calls, database, history, ISink, IEarly, IAlone, Early, Alone, Holds, Ok
<1>9. CASE \/ \E e \in Results : Emit(e) \/ Dispatch(e) \/ Hook(e)
           \/ \E e \in Events : Write(e) \/ Evict(e)
  <2>1. /\ UNCHANGED <<closed, gone, calls, database, history>>
        /\ \A e \in Events : fate'[e] # fate[e] => fate'[e] # "handled" /\ fate[e] # "handled"
    BY <1>9, <1>t, CallerSteps
  <2>2. \A e \in Events : Ok(e)' = Ok(e)
    BY <2>1 DEF Ok, history
  <2>3. QED
    BY <2>1, <2>2 DEF calls, database, history, ISink, IEarly, IAlone, Early, Alone, Holds
<1>10. QED
  BY <1>1, <1>2, <1>3, <1>4, <1>5, <1>6, <1>7, <1>8, <1>9 DEF Next, Closing

LEMMA InitSink == Init => ISink
<1> SUFFICES ASSUME Init
             PROVE  ISink
  OBVIOUS
<1>1. IStored
  BY InitStored
<1>2. IEarly /\ IAlone
  BY EmptyTxn DEF Init, Users, IEarly, IAlone, Early, Alone
<1>3. QED
  BY <1>1, <1>2 DEF ISink

LEMMA SinkStoresOnce == ISink => StoredOnce
<1> SUFFICES ASSUME ISink
             PROVE  StoredOnce
  OBVIOUS
<1>1. PICK x \in Events \cup {Nobody} :
        (~Past => x = Nobody) /\ \A e \in Events : stored[e] <= Ok(e) + Extra(x, e)
  BY DEF ISink, IStored, ICount
<1>2. \A e \in Events : stored[e] \in Nat /\ Ok(e) \in {0, 1} /\ Extra(x, e) \in {0, 1}
  BY DEF ISink, IStored, IType, TypeOK, Ok, Extra
<1>3. \A e \in Events : stored[e] <= 2
  BY <1>1, <1>2
<1>4. Cardinality({e \in Events : stored[e] = 2}) <= 1
  <2>1. {e \in Events : stored[e] = 2} \subseteq {x}
    BY <1>1, <1>2 DEF Extra
  <2>2. /\ Cardinality({e \in Events : stored[e] = 2}) <= Cardinality({x})
        /\ IsFiniteSet({x}) /\ Cardinality({x}) = 1
    BY <2>1, FS_Singleton, FS_Subset
  <2>3. QED
    BY <2>2
<1>5. ~outlived => \A e \in Events : stored[e] <= Ok(e)
  <2>1. CASE Early
    <3>1. x = Nobody
      BY <1>1, <2>1 DEF Past, Early
    <3>2. \A e \in Events : Extra(x, e) = 0
      BY <3>1, EventSinkAssumption DEF Extra
    <3>3. QED
      BY <1>1, <1>2, <3>2
  <2>2. CASE ~Early
    BY <2>2 DEF ISink, IAlone, Alone
  <2>3. QED
    BY <2>1, <2>2
<1>6. \A e \in Events :
         Ok(e) <= (IF fate[e] \in {"handling", "handled"} /\ e \notin failed THEN 1 ELSE 0)
  BY DEF Ok
<1>7. ~outlived => \A e \in Events :
         stored[e] <= (IF fate[e] \in {"handling", "handled"} /\ e \notin failed THEN 1 ELSE 0)
  BY <1>2, <1>5, <1>6
<1>8. \A e \in Events : fate[e] = "handled" /\ e \notin failed => stored[e] >= 1
  BY DEF ISink, IStored, IDone
<1>9. QED
  BY <1>3, <1>4, <1>7, <1>8 DEF StoredOnce

LEMMA SinkFinalises == ISink => Finalised
BY DEF ISink, IAlone, Alone, Early, Finalised

\* Every event that on_error was not given is stored, and once only; of the events
\* that a thread stores after close() has given it up, one is there twice.
THEOREM EventsStoredOnce == Spec => []StoredOnce
<1>1. Init => ISink
  BY InitSink
<1>2. ISink /\ [Next]_vars => ISink'
  BY StepSink
<1>3. ISink => StoredOnce
  BY SinkStoresOnce
<1>4. QED
  BY <1>1, <1>2, <1>3, PTL DEF Spec

\* A close() that waited for the thread and raised nothing has recorded the end of
\* the run and left no connection open.
THEOREM RunIsFinalised == Spec => []Finalised
<1>1. Init => ISink
  BY InitSink
<1>2. ISink /\ [Next]_vars => ISink'
  BY StepSink
<1>3. ISink => Finalised
  BY SinkFinalises
<1>4. QED
  BY <1>1, <1>2, <1>3, PTL DEF Spec
=============================================================================
