------------------------ MODULE AsyncWorker_proofs ------------------------
(***************************************************************************)
(* Proofs about AsyncWorker, for any number of calls, any queue size and   *)
(* any overflow policy.                                                    *)
(***************************************************************************)
EXTENDS AsyncWorker, FiniteSetTheorems, TLAPS

(* What appending to a sequence and taking its head do to its elements. *)

LEMMA AppendElements ==
    ASSUME NEW S, NEW s \in Seq(S), NEW e \in S
    PROVE  /\ Append(s, e) \in Seq(S)
           /\ Len(Append(s, e)) = Len(s) + 1
           /\ Range(Append(s, e)) = Range(s) \cup {e}
<1>1. /\ Append(s, e) \in Seq(S) /\ Len(Append(s, e)) = Len(s) + 1
      /\ DOMAIN Append(s, e) = 1 .. Len(s) + 1 /\ DOMAIN s = 1 .. Len(s)
      /\ \A n \in 1 .. Len(s) : Append(s, e)[n] = s[n]
      /\ Append(s, e)[Len(s) + 1] = e
      /\ Len(s) \in Nat
  OBVIOUS
<1>2. Range(Append(s, e)) \subseteq Range(s) \cup {e}
  BY <1>1 DEF Range
<1>3. \A x \in Range(s) \cup {e} : x \in Range(Append(s, e))
  BY <1>1 DEF Range
<1>4. QED
  BY <1>1, <1>2, <1>3

LEMMA TailElements ==
    ASSUME NEW S, NEW s \in Seq(S), s # <<>>
    PROVE  /\ Tail(s) \in Seq(S)
           /\ Len(Tail(s)) = Len(s) - 1
           /\ Head(s) \in S
           /\ Range(s) = {Head(s)} \cup Range(Tail(s))
<1>1. /\ Tail(s) \in Seq(S) /\ Len(Tail(s)) = Len(s) - 1 /\ Head(s) \in S
      /\ DOMAIN Tail(s) = 1 .. Len(s) - 1 /\ DOMAIN s = 1 .. Len(s)
      /\ \A n \in 1 .. Len(s) - 1 : Tail(s)[n] = s[n + 1]
      /\ Len(s) \in Nat /\ Len(s) > 0 /\ Head(s) = s[1]
  OBVIOUS
<1>2. \A x \in Range(s) : x \in {Head(s)} \cup Range(Tail(s))
  <2> SUFFICES ASSUME NEW n \in 1 .. Len(s), n # 1
               PROVE  s[n] \in Range(Tail(s))
    BY <1>1 DEF Range
  <2>1. n - 1 \in 1 .. Len(s) - 1 /\ Tail(s)[n - 1] = s[n]
    BY <1>1
  <2>2. QED
    BY <2>1, <1>1 DEF Range
<1>3. \A x \in {Head(s)} \cup Range(Tail(s)) : x \in Range(s)
  BY <1>1 DEF Range
<1>4. QED
  BY <1>1, <1>2, <1>3

LEMMA AppendOnce ==
    ASSUME NEW S, NEW T, NEW s \in Seq(S), NEW e \in S, Once(s, T),
           e \notin T \/ e \notin Range(s)
    PROVE  Once(Append(s, e), T)
<1>1. /\ DOMAIN Append(s, e) = 1 .. Len(s) + 1 /\ DOMAIN s = 1 .. Len(s)
      /\ \A n \in 1 .. Len(s) : Append(s, e)[n] = s[n]
      /\ Append(s, e)[Len(s) + 1] = e
      /\ Len(s) \in Nat
  OBVIOUS
<1>2. \A n \in 1 .. Len(s) : s[n] \in T => s[n] # e
  BY <1>1 DEF Range
<1>3. \A n \in 1 .. Len(s) + 1 : n = Len(s) + 1 \/ n \in 1 .. Len(s)
  BY <1>1
<1>4. QED
  BY <1>1, <1>2, <1>3 DEF Once

LEMMA TailOnce ==
    ASSUME NEW S, NEW T, NEW s \in Seq(S), s # <<>>, Once(s, T)
    PROVE  /\ Once(Tail(s), T)
           /\ Head(s) \in T => Head(s) \notin Range(Tail(s))
<1>1. /\ DOMAIN Tail(s) = 1 .. Len(s) - 1 /\ DOMAIN s = 1 .. Len(s)
      /\ \A n \in 1 .. Len(s) - 1 :
            Tail(s)[n] = s[n + 1] /\ n + 1 \in 1 .. Len(s) /\ n + 1 # 1
      /\ Len(s) \in Nat /\ Len(s) > 0 /\ Head(s) = s[1] /\ 1 \in 1 .. Len(s)
  OBVIOUS
<1>2. \A m, n \in 1 .. Len(s) - 1 : m + 1 = n + 1 => m = n
  OBVIOUS
<1>3. Once(Tail(s), T)
  BY <1>1, <1>2 DEF Once
<1>4. Head(s) \in T => Head(s) \notin Range(Tail(s))
  BY <1>1 DEF Once, Range
<1>5. QED
  BY <1>3, <1>4
-----------------------------------------------------------------------------
(* Type correctness. *)

LEMMA InitTypeOK == Init => TypeOK
<1> SUFFICES ASSUME Init
             PROVE  TypeOK
  OBVIOUS
<1>1. queue \in Seq(Entries) /\ critical \in Seq(Items) /\ Len(queue) <= QueueSize
  BY WorkerAssumption DEF Init
<1>2. stats \in [{"submitted", "processed", "failed", "dropped"} -> Nat]
  BY DEF Init
<1>3. QED
  BY <1>1, <1>2 DEF Init, TypeOK, CallStates, Entered

LEMMA StepTypeOK == TypeOK /\ [Next]_vars => TypeOK'
<1> SUFFICES ASSUME TypeOK, [Next]_vars
             PROVE  TypeOK'
  OBVIOUS
<1> USE DEF TypeOK, CallStates, Entered, Goes, Counted, StartThread
<1>a. /\ Items \subseteq Entries /\ Sentinel \in Entries /\ Token \in Entries
      /\ QueueSize \in Nat
  BY WorkerAssumption DEF Entries
<1>b. \A e \in Entries : Full = FALSE =>
         Append(queue, e) \in Seq(Entries) /\ Len(Append(queue, e)) <= QueueSize
  BY <1>a DEF Full
<1>c. queue # <<>> => /\ Tail(queue) \in Seq(Entries)
                      /\ Len(Tail(queue)) <= QueueSize
                      /\ Head(queue) \in Entries
  BY <1>a
<1>1. ASSUME NEW i \in Items, SubmitCheck(i)
      PROVE  TypeOK'
  BY <1>1 DEF SubmitCheck, lanes, worker, closing, history
<1>2. ASSUME NEW i \in Items, CriticalAppend(i)
      PROVE  TypeOK'
  BY <1>2 DEF CriticalAppend, lanes, worker, closing, history
<1>3. ASSUME NEW i \in Items, CriticalCount(i)
      PROVE  TypeOK'
  BY <1>3 DEF CriticalCount, lanes, worker, closing, history
<1>4. ASSUME NEW i \in Items, CriticalWake(i)
      PROVE  TypeOK'
  BY <1>4, <1>a, <1>b DEF CriticalWake, TokenPut, worker, closing, history
<1>5. ASSUME NEW i \in Items, Put(i)
      PROVE  TypeOK'
  <2>1. queue' \in Seq(Entries) /\ Len(queue') <= QueueSize
    BY <1>5, <1>a, <1>b DEF Put
  <2>2. QED
    BY <1>5, <2>1 DEF Put, worker, closing, history
<1>6. ASSUME NEW i \in Items, PutCount(i)
      PROVE  TypeOK'
  BY <1>6 DEF PutCount, lanes, worker, closing, history
<1>7. ASSUME NEW i \in Items, Overflow(i)
      PROVE  TypeOK'
  BY <1>7 DEF Overflow, lanes, worker, closing, history
<1>8. ASSUME NEW i \in Items, PutTimeout(i)
      PROVE  TypeOK'
  BY <1>8 DEF PutTimeout, lanes, worker, closing, history
<1>9. ASSUME NEW i \in Items, DropOldest(i)
      PROVE  TypeOK'
  BY <1>9, <1>c DEF DropOldest, TakeHead, worker, closing, history
<1>10. ASSUME NEW i \in Items, DropCount(i)
       PROVE  TypeOK'
  BY <1>10 DEF DropCount, lanes, worker, closing, history
<1>11. ASSUME NEW i \in Items, RetryFull(i)
       PROVE  TypeOK'
  BY <1>11 DEF RetryFull, lanes, worker, closing, history
<1>12. ASSUME NEW drain \in BOOLEAN, CloseBegin(drain)
       PROVE  TypeOK'
  <2>1. Range(critical) \subseteq Items
    BY DEF Range
  <2>2. QED
    BY <1>12, <2>1 DEF CloseBegin, lanes, worker
<1>13. CASE Discard
  <2>1. Cardinality({Head(queue)} \cap Items) \in Nat
    BY FS_Singleton, FS_Subset, FS_CardinalityType
  <2>2. QED
    BY <1>13, <1>c, <2>1 DEF Discard, TakeHead, worker
<1>14. CASE DiscardDone
  BY <1>14 DEF DiscardDone, lanes, worker, history
<1>15. CASE CloseSignal
  BY <1>15, <1>a, <1>b DEF CloseSignal, history
<1>16. CASE CloseReturn
  BY <1>16 DEF CloseReturn, lanes, worker, history
<1>17. CASE DrainCritical
  <2>1. critical # <<>> => Head(critical) \in Items /\ Tail(critical) \in Seq(Items)
    OBVIOUS
  <2>2. QED
    BY <1>17, <2>1 DEF DrainCritical, LaneDrained, closing, history
<1>18. CASE Get
  <2>1. overtaken' \in [CriticalItems -> Nat]
    <3>1. CASE Head(queue) \in Items
      BY <1>18, <3>1 DEF Get
    <3>2. CASE Head(queue) \notin Items
      BY <1>18, <3>2 DEF Get
    <3>3. QED
      BY <3>1, <3>2
  <2>2. current' \in Items \cup {NoItem}
    BY <1>18 DEF Get
  <2>3. thread' \in {"stopping", "draining"}
    BY <1>18 DEF Get, AfterGet
  <2>4. QED
    BY <1>18, <1>c, <2>1, <2>2, <2>3 DEF Get, TakeHead, closing
<1>19. CASE Process
  BY <1>19 DEF Process, lanes, closing
<1>20. CASE UNCHANGED vars
  BY <1>20 DEF vars, lanes, worker, closing, history
<1>21. QED
  BY <1>1, <1>2, <1>3, <1>4, <1>5, <1>6, <1>7, <1>8, <1>9, <1>10, <1>11, <1>12,
     <1>13, <1>14, <1>15, <1>16, <1>17, <1>18, <1>19, <1>20
     DEF Next, CallStep, CloserStep, ThreadStep

\* Every reachable state is well typed and no put exceeds maxsize.
THEOREM TypeCorrect == Spec => []TypeOK
<1>1. QED
  BY InitTypeOK, StepTypeOK, PTL DEF Spec
-----------------------------------------------------------------------------
(* Conservation.  Conserved is inductive together with TypeOK. *)

LEMMA InitConserved == Init => Conserved
BY WorkerAssumption DEF Init, Conserved, Once, Entered, Range

\* A step that moves no item keeps Conserved.
LEMMA ConservedUnmoved ==
    ASSUME Conserved,
           UNCHANGED <<queue, critical, current, handled, evicted>>,
           \A i \in Items : call'[i] \in Entered <=> call[i] \in Entered
    PROVE  Conserved'
BY DEF Conserved, Once

\* So does a put of a token or of the sentinel.
LEMMA ConservedSignal ==
    ASSUME TypeOK, Conserved, NEW e \in {Sentinel, Token},
           queue' = Append(queue, e),
           UNCHANGED <<critical, current, handled, evicted>>,
           \A i \in Items : call'[i] \in Entered <=> call[i] \in Entered
    PROVE  Conserved'
<1>1. /\ queue \in Seq(Entries) /\ e \in Entries /\ e \notin Items /\ e # current
      /\ handled \subseteq Items /\ evicted \subseteq Items
      /\ Range(critical) \subseteq Items
  BY WorkerAssumption DEF TypeOK, Entries, Range
<1>2. Range(queue') = Range(queue) \cup {e} /\ Once(queue', Items)
  BY <1>1, AppendElements, AppendOnce DEF Conserved
<1>3. CriticalItems \subseteq Items
  BY WorkerAssumption
<1>4. QED
  BY <1>1, <1>2, <1>3 DEF Conserved

LEMMA StepConserved == TypeOK /\ Conserved /\ [Next]_vars => Conserved'
<1> SUFFICES ASSUME TypeOK, Conserved, [Next]_vars
             PROVE  Conserved'
  OBVIOUS
<1>a. /\ queue \in Seq(Entries) /\ critical \in Seq(Items)
      /\ call \in [Items -> CallStates] /\ current \in Items \cup {NoItem}
      /\ handled \subseteq Items /\ evicted \subseteq Items
      /\ Items \subseteq Entries /\ CriticalItems \subseteq Items
      /\ {Sentinel, Token, NoItem} \cap Items = {} /\ NoItem \notin {Sentinel, Token}
      /\ Sentinel # Token
  BY WorkerAssumption DEF TypeOK, Entries
<1>b. ASSUME NEW i \in Items, NEW from, NEW to, Goes(i, from, to),
             from \in Entered <=> to \in Entered
      PROVE  \A j \in Items : call'[j] \in Entered <=> call[j] \in Entered
  BY <1>a, <1>b DEF Goes
<1>c. queue # <<>> =>
         /\ Tail(queue) \in Seq(Entries) /\ Head(queue) \in Entries
         /\ Range(queue) = {Head(queue)} \cup Range(Tail(queue))
         /\ Once(Tail(queue), Items)
         /\ Head(queue) \in Items => Head(queue) \notin Range(Tail(queue))
  BY <1>a, TailElements, TailOnce DEF Conserved
<1>1. ASSUME NEW i \in Items, SubmitCheck(i)
      PROVE  Conserved'
  <2>1. \A j \in Items : call'[j] \in Entered <=> call[j] \in Entered
    BY <1>1, <1>a DEF SubmitCheck, Goes, Entered
  <2>2. QED
    BY <1>1, <2>1, ConservedUnmoved DEF SubmitCheck, lanes, history
<1>2. ASSUME NEW i \in Items, CriticalAppend(i)
      PROVE  Conserved'
  <2>1. /\ i \in CriticalItems /\ call[i] \notin Entered /\ critical' = Append(critical, i)
        /\ UNCHANGED <<queue, current, handled, evicted>>
        /\ call' = [call EXCEPT ![i] = "appended"]
    BY <1>2 DEF CriticalAppend, Goes, Entered, worker, history
  <2>2. i \notin Range(queue) \cup Range(critical) \cup {current} \cup handled \cup evicted
    BY <2>1 DEF Conserved
  <2>3. Range(critical') = Range(critical) \cup {i} /\ Once(critical', Items)
    BY <1>a, <2>1, <2>2, AppendElements, AppendOnce DEF Conserved
  <2>4. \A j \in Items : call'[j] \in Entered <=> call[j] \in Entered \/ j = i
    BY <1>a, <2>1 DEF Entered
  <2>5. QED
    BY <1>a, <2>1, <2>2, <2>3, <2>4 DEF Conserved
<1>3. ASSUME NEW i \in Items, CriticalCount(i)
      PROVE  Conserved'
  BY <1>3, <1>b, ConservedUnmoved DEF CriticalCount, Entered, lanes, worker, history
<1>4. ASSUME NEW i \in Items, CriticalWake(i)
      PROVE  Conserved'
  <2>1. \A j \in Items : call'[j] \in Entered <=> call[j] \in Entered
    BY <1>4, <1>b DEF CriticalWake, Entered
  <2>2. CASE queue' = queue
    BY <1>4, <2>1, <2>2, ConservedUnmoved DEF CriticalWake, worker, history
  <2>3. CASE queue' = Append(queue, Token)
    BY <1>4, <2>1, <2>3, ConservedSignal DEF CriticalWake, worker, history
  <2>4. QED
    BY <1>4, <2>2, <2>3 DEF CriticalWake, TokenPut
<1>5. ASSUME NEW i \in Items, Put(i)
      PROVE  Conserved'
  <2>1. /\ i \notin CriticalItems /\ call[i] \notin Entered /\ queue' = Append(queue, i)
        /\ UNCHANGED <<critical, current, handled, evicted>>
        /\ call' = [call EXCEPT ![i] = "put"]
    BY <1>5 DEF Put, Goes, Entered, worker, history, RegularItems
  <2>2. i \notin Range(queue) \cup Range(critical) \cup {current} \cup handled \cup evicted
    BY <2>1 DEF Conserved
  <2>3. Range(queue') = Range(queue) \cup {i} /\ Once(queue', Items)
    BY <1>a, <2>1, <2>2, AppendElements, AppendOnce DEF Conserved
  <2>4. \A j \in Items : call'[j] \in Entered <=> call[j] \in Entered \/ j = i
    BY <1>a, <2>1 DEF Entered
  <2>5. QED
    BY <1>a, <2>1, <2>2, <2>3, <2>4 DEF Conserved
<1>6. ASSUME NEW i \in Items, PutCount(i)
      PROVE  Conserved'
  BY <1>6, <1>b, ConservedUnmoved DEF PutCount, Entered, lanes, worker, history
<1>7. ASSUME NEW i \in Items, Overflow(i) \/ PutTimeout(i) \/ DropCount(i) \/ RetryFull(i)
      PROVE  Conserved'
  <2>1. \A j \in Items : call'[j] \in Entered <=> call[j] \in Entered
    BY <1>7, <1>b DEF Overflow, PutTimeout, DropCount, RetryFull, Entered
  <2>2. QED
    BY <1>7, <2>1, ConservedUnmoved
       DEF Overflow, PutTimeout, DropCount, RetryFull, lanes, worker, history
<1>8. ASSUME NEW i \in Items, DropOldest(i)
      PROVE  Conserved'
  <2>1. \A j \in Items : call'[j] \in Entered <=> call[j] \in Entered
    BY <1>8, <1>a DEF DropOldest, Goes, Entered
  <2>2. UNCHANGED <<critical, current, handled>>
    BY <1>8 DEF DropOldest, worker
  <2>3. CASE queue = <<>>
    BY <1>8, <2>1, <2>2, <2>3, ConservedUnmoved DEF DropOldest
  <2>4. CASE queue # <<>>
    <3>1. queue' = Tail(queue) /\ evicted' = evicted \cup ({Head(queue)} \cap Items)
      BY <1>8, <2>4 DEF DropOldest, TakeHead
    <3>2. QED
      BY <1>a, <1>c, <2>1, <2>2, <2>4, <3>1 DEF Conserved
  <2>5. QED
    BY <2>3, <2>4
<1>9. ASSUME NEW drain \in BOOLEAN, CloseBegin(drain)
      PROVE  Conserved'
  BY <1>9, ConservedUnmoved DEF CloseBegin, lanes, worker
<1>10. CASE Discard
  <2>1. /\ queue # <<>> /\ queue' = Tail(queue)
        /\ evicted' = evicted \cup ({Head(queue)} \cap Items)
        /\ UNCHANGED <<critical, call, current, handled>>
    BY <1>10 DEF Discard, TakeHead, worker
  <2>2. QED
    BY <1>a, <1>c, <2>1 DEF Conserved
<1>11. CASE DiscardDone \/ CloseReturn
  BY <1>11, ConservedUnmoved DEF DiscardDone, CloseReturn, lanes, worker, history
<1>12. CASE CloseSignal
  BY <1>12, ConservedSignal DEF CloseSignal, history
<1>13. CASE DrainCritical
  <2>1. UNCHANGED <<queue, call, handled, evicted>> /\ current = NoItem
    BY <1>13 DEF DrainCritical, history
  <2>2. CASE critical = <<>>
    BY <1>13, <2>1, <2>2, ConservedUnmoved DEF DrainCritical, LaneDrained
  <2>3. CASE critical # <<>>
    <3>1. current' = Head(critical) /\ critical' = Tail(critical)
      BY <1>13, <2>3 DEF DrainCritical, LaneDrained
    <3>2. /\ Head(critical) \in Items /\ Once(Tail(critical), Items)
          /\ Range(critical) = {Head(critical)} \cup Range(Tail(critical))
          /\ Head(critical) \notin Range(Tail(critical))
      BY <1>a, <2>3, TailElements, TailOnce DEF Conserved
    <3>3. QED
      BY <1>a, <2>1, <3>1, <3>2 DEF Conserved
  <2>4. QED
    BY <2>2, <2>3
<1>14. CASE Get
  <2>1. /\ queue # <<>> /\ queue' = Tail(queue) /\ current = NoItem
        /\ UNCHANGED <<critical, call, handled, evicted>>
        /\ current' = IF Head(queue) \in Items THEN Head(queue) ELSE current
    BY <1>14 DEF Get, TakeHead
  <2>2. QED
    BY <1>a, <1>c, <2>1 DEF Conserved
<1>15. CASE Process
  <2>1. /\ current # NoItem /\ current' = NoItem /\ handled' = handled \cup {current}
        /\ UNCHANGED <<queue, critical, call, evicted>>
    BY <1>15 DEF Process, lanes
  <2>2. NoItem \notin Range(queue) \cup Range(critical) \cup handled \cup evicted
    BY <1>a DEF Range, Entries
  <2>3. QED
    BY <1>a, <2>1, <2>2 DEF Conserved
<1>16. CASE UNCHANGED vars
  BY <1>16, ConservedUnmoved DEF vars, lanes, worker, history
<1>17. QED
  BY <1>1, <1>2, <1>3, <1>4, <1>5, <1>6, <1>7, <1>8, <1>9, <1>10, <1>11, <1>12,
     <1>13, <1>14, <1>15, <1>16
     DEF Next, CallStep, CloserStep, ThreadStep

\* Under every policy and every race of submitters, close() and the thread, an
\* item handed over is in one place only, and no critical item in a place where
\* items are dropped.
THEOREM NothingLostOrDuplicated == Spec => []Conserved
<1>1. Init => TypeOK /\ Conserved
  BY InitTypeOK, InitConserved
<1>2. TypeOK /\ Conserved /\ [Next]_vars => (TypeOK /\ Conserved)'
  BY StepTypeOK, StepConserved
<1>3. QED
  BY <1>1, <1>2, PTL DEF Spec
-----------------------------------------------------------------------------
(* Refinement: every step of the worker is a step of WorkerPromise on the   *)
(* fates of the items, or changes none of them.                             *)

Refused == {"overflow", "dropped", "refused", "raised"}

Fates == [i \in Items |-> Fate(i)]

LEMMA FateByPlace ==
    ASSUME TypeOK, Conserved, NEW i \in Items
    PROVE  /\ i = current => Fate(i) = "handling"
           /\ i \in handled => Fate(i) = "handled"
           /\ i \in evicted => Fate(i) = "evicted"
           /\ i \in Range(queue) \cup Range(critical) => Fate(i) = "pending"
           /\ call[i] \notin Entered =>
                 Fate(i) = IF call[i] \in Refused THEN "refused" ELSE "new"
           /\ Fate(i) = "handling" => i = current
<1>1. /\ call[i] \notin Entered => i \notin Range(queue) \cup Range(critical)
                                          \cup {current} \cup handled \cup evicted
      /\ i = current => i \notin handled \cup evicted \cup Range(queue) \cup Range(critical)
      /\ i \in handled => i # current /\ i \notin evicted \cup Range(queue) \cup Range(critical)
      /\ i \in evicted => i # current /\ i \notin handled \cup Range(queue) \cup Range(critical)
  BY DEF Conserved
<1>2. QED
  BY <1>1 DEF Fate, Refused, Conserved

\* A step that moves no item and refuses none changes no fate.
LEMMA FatesUnmoved ==
    ASSUME Range(queue)' \cap Items = Range(queue) \cap Items,
           UNCHANGED <<critical, current, handled, evicted>>,
           \A i \in Items : call'[i] \in Refused <=> call[i] \in Refused
    PROVE  Fates' = Fates
<1>1. \A i \in Items : Fate(i)' = Fate(i)
  BY DEF Fate, Refused
<1>2. QED
  BY <1>1 DEF Fates

\* A step that changes the fate of item i alone is that move of WorkerPromise.
LEMMA FatesMove ==
    ASSUME NEW i \in Items, NEW from, NEW to,
           Fate(i) = from, Fate(i)' = to,
           \A j \in Items \ {i} : Fate(j)' = Fate(j)
    PROVE  Promise!Moves(i, from, to)
BY DEF Promise!Moves

LEMMA InitPromise == Init => Promise!Init
BY WorkerAssumption DEF Init, Promise!Init, Fate, Range

LEMMA StepPromise ==
    TypeOK /\ Conserved /\ TypeOK' /\ Conserved' /\ [Next]_vars
    => [Promise!Next]_Fates
<1> SUFFICES ASSUME TypeOK, Conserved, TypeOK', Conserved', [Next]_vars
             PROVE  Promise!Next \/ Fates' = Fates
  BY DEF Fates
<1>a. /\ queue \in Seq(Entries) /\ critical \in Seq(Items)
      /\ call \in [Items -> CallStates] /\ current \in Items \cup {NoItem}
      /\ Items \subseteq Entries /\ CriticalItems \subseteq Items
      /\ Sentinel \in Entries \ Items /\ Token \in Entries \ Items /\ NoItem \notin Items
      /\ Entered \cap Refused = {}
  BY WorkerAssumption DEF TypeOK, Entries, Entered, Refused
<1>b. ASSUME NEW i \in Items, NEW from, NEW to, Goes(i, from, to),
             from \in Refused <=> to \in Refused
      PROVE  \A j \in Items : call'[j] \in Refused <=> call[j] \in Refused
  BY <1>a, <1>b DEF Goes
<1>c. \A e \in Entries \ Items :
         queue' = Append(queue, e) => Range(queue)' \cap Items = Range(queue) \cap Items
  BY <1>a, AppendElements
<1>d. queue # <<>> => /\ Head(queue) \in Entries
                      /\ Range(queue) = {Head(queue)} \cup Range(Tail(queue))
                      /\ Head(queue) \in Items => Head(queue) \notin Range(Tail(queue))
  BY <1>a, TailElements, TailOnce DEF Conserved
<1>e. ASSUME NEW i \in Items, NEW from, NEW to, Goes(i, from, to),
             from \notin Entered \cup Refused, to \in Refused,
             UNCHANGED <<queue, critical, current, handled, evicted>>
      PROVE  Promise!Next
  <2>1. /\ call[i] = from /\ call'[i] = to
        /\ \A j \in Items \ {i} : call'[j] = call[j]
    BY <1>a, <1>e DEF Goes
  <2>2. Fate(i) = "new" /\ Fate(i)' = "refused"
    BY <1>a, <1>e, <2>1 DEF Fate, Refused, Conserved
  <2>3. \A j \in Items \ {i} : Fate(j)' = Fate(j)
    BY <1>e, <2>1 DEF Fate
  <2>4. QED
    BY <2>2, <2>3, FatesMove DEF Promise!Next, Promise!Refuse
<1>1. ASSUME NEW i \in Items, SubmitCheck(i)
      PROVE  Promise!Next \/ Fates' = Fates
  <2>1. UNCHANGED <<queue, critical, current, handled, evicted>>
    BY <1>1 DEF SubmitCheck, lanes, history
  <2>2. CASE closed
    BY <1>1, <1>e, <2>1, <2>2 DEF SubmitCheck, Refused, Entered
  <2>3. CASE ~closed
    BY <1>1, <1>b, <2>1, <2>3, FatesUnmoved DEF SubmitCheck, Refused
  <2>4. QED
    BY <2>2, <2>3
<1>2. ASSUME NEW i \in Items, CriticalAppend(i) \/ Put(i)
      PROVE  Promise!Next
  <2>1. /\ call[i] \notin Entered \cup Refused
        /\ \A j \in Items \ {i} : call'[j] = call[j]
        /\ UNCHANGED <<current, handled, evicted>>
    BY <1>2, <1>a
       DEF CriticalAppend, Put, Goes, Entered, Refused, worker, history
  <2>a. Range(queue)' \cup Range(critical)' = Range(queue) \cup Range(critical) \cup {i}
    <3>1. CASE critical' = Append(critical, i) /\ queue' = queue
      BY <1>a, <3>1, AppendElements
    <3>2. CASE queue' = Append(queue, i) /\ critical' = critical
      BY <1>a, <3>2, AppendElements
    <3>3. QED
      BY <1>2, <3>1, <3>2 DEF CriticalAppend, Put
  <2>2. Fate(i) = "new"
    BY <2>1, FateByPlace
  <2>3. Fate(i)' = "pending"
    BY <1>a, <2>1, <2>a DEF Fate, Conserved
  <2>4. \A j \in Items \ {i} : Fate(j)' = Fate(j)
    BY <2>1, <2>a DEF Fate
  <2>5. QED
    BY <2>2, <2>3, <2>4, FatesMove DEF Promise!Next, Promise!Accept
<1>3. ASSUME NEW i \in Items, CriticalCount(i) \/ PutCount(i)
      PROVE  Fates' = Fates
  BY <1>3, <1>b, FatesUnmoved
     DEF CriticalCount, PutCount, Refused, lanes, worker, history
<1>4. ASSUME NEW i \in Items, CriticalWake(i)
      PROVE  Fates' = Fates
  BY <1>4, <1>a, <1>b, <1>c, FatesUnmoved
     DEF CriticalWake, TokenPut, Refused, worker, history
<1>5. ASSUME NEW i \in Items, Overflow(i) \/ PutTimeout(i) \/ RetryFull(i)
      PROVE  Promise!Next \/ Fates' = Fates
  <2>1. UNCHANGED <<queue, critical, current, handled, evicted>>
    BY <1>5 DEF Overflow, PutTimeout, RetryFull, lanes, worker, history
  <2>2. CASE Goes(i, "checked", "evict")
    BY <1>b, <2>1, <2>2, FatesUnmoved DEF Refused
  <2>3. CASE \E from \in {"checked", "retry"}, to \in Refused : Goes(i, from, to)
    BY <1>e, <2>1, <2>3 DEF Refused, Entered
  <2>4. QED
    BY <1>5, <2>2, <2>3 DEF Overflow, PutTimeout, RetryFull, Refused
<1>6. ASSUME NEW i \in Items, DropCount(i)
      PROVE  Fates' = Fates
  BY <1>6, <1>b, FatesUnmoved DEF DropCount, Refused, lanes, worker, history
<1>7. ASSUME queue # <<>>, queue' = Tail(queue), Head(queue) \in Items,
             evicted' = evicted \cup ({Head(queue)} \cap Items),
             UNCHANGED <<critical, current, handled>>,
             \A j \in Items : call'[j] \in Refused <=> call[j] \in Refused
      PROVE  Promise!Next
  <2>0. PICK h \in Items : h = Head(queue)
    BY <1>7
  <2>1. /\ h \in Range(queue) /\ h \notin Range(Tail(queue))
        /\ Range(queue) = {h} \cup Range(Tail(queue)) /\ evicted' = evicted \cup {h}
    BY <1>7, <1>d, <2>0
  <2>2. Fate(h) = "pending" /\ h \notin CriticalItems
    BY <1>7, <2>1, FateByPlace DEF Conserved
  <2>3. Fate(h)' = "evicted"
    BY <1>7, <2>1 DEF Fate, Conserved
  <2>4. \A j \in Items \ {h} : Fate(j)' = Fate(j)
    BY <1>7, <2>1 DEF Fate, Refused
  <2>5. QED
    BY <1>7, <2>2, <2>3, <2>4, FatesMove DEF Promise!Next, Promise!Evict
<1>8. ASSUME queue # <<>>, queue' = Tail(queue), Head(queue) \notin Items,
             evicted' = evicted \cup ({Head(queue)} \cap Items),
             UNCHANGED <<critical, current, handled>>,
             \A j \in Items : call'[j] \in Refused <=> call[j] \in Refused
      PROVE  Fates' = Fates
  <2>1. Range(queue)' \cap Items = Range(queue) \cap Items
    BY <1>8, <1>d
  <2>2. QED
    BY <1>8, <2>1, FatesUnmoved
<1>9. ASSUME NEW i \in Items, DropOldest(i)
      PROVE  Promise!Next \/ Fates' = Fates
  <2>1. UNCHANGED <<critical, current, handled>>
    BY <1>9 DEF DropOldest, worker
  <2>2. CASE queue = <<>>
    BY <1>9, <1>e, <2>1, <2>2 DEF DropOldest, Refused, Entered
  <2>3. CASE queue # <<>>
    <3>1. /\ queue' = Tail(queue) /\ evicted' = evicted \cup ({Head(queue)} \cap Items)
          /\ \A j \in Items : call'[j] \in Refused <=> call[j] \in Refused
      BY <1>9, <1>b, <2>3 DEF DropOldest, TakeHead, Refused
    <3>2. QED
      BY <1>7, <1>8, <2>1, <2>3, <3>1
  <2>4. QED
    BY <2>2, <2>3
<1>10. ASSUME NEW drain \in BOOLEAN, CloseBegin(drain)
       PROVE  Fates' = Fates
  BY <1>10, FatesUnmoved DEF CloseBegin, lanes, worker
<1>11. CASE Discard
  BY <1>11, <1>7, <1>8 DEF Discard, TakeHead, worker
<1>12. CASE DiscardDone \/ CloseReturn
  BY <1>12, FatesUnmoved DEF DiscardDone, CloseReturn, lanes, worker, history
<1>13. CASE CloseSignal
  BY <1>13, <1>a, <1>c, FatesUnmoved DEF CloseSignal, history
<1>14. ASSUME NEW i \in Items, current = NoItem, current' = i,
              i \in Range(queue) \cup Range(critical),
              Range(queue) \cup Range(critical)
                  = Range(queue)' \cup Range(critical)' \cup {i},
              UNCHANGED <<call, handled, evicted>>
       PROVE  Promise!Next
  <2>1. Fate(i) = "pending"
    BY <1>14, FateByPlace
  <2>2. Fate(i)' = "handling"
    BY <1>14 DEF Fate
  <2>3. \A j \in Items \ {i} : Fate(j)' = Fate(j)
    BY <1>14, <1>a DEF Fate
  <2>4. \A j \in Items : Fate(j) # "handling"
    BY <1>14, <1>a, FateByPlace
  <2>5. QED
    BY <2>1, <2>2, <2>3, <2>4, FatesMove DEF Promise!Next, Promise!Begin
<1>15. CASE DrainCritical
  <2>1. UNCHANGED <<queue, call, handled, evicted>> /\ current = NoItem
    BY <1>15 DEF DrainCritical, history
  <2>2. CASE critical = <<>>
    BY <1>15, <2>1, <2>2, FatesUnmoved DEF DrainCritical, LaneDrained
  <2>3. CASE critical # <<>>
    <3>1. /\ current' = Head(critical) /\ Head(critical) \in Items
          /\ Range(critical) = Range(critical)' \cup {Head(critical)}
      BY <1>15, <1>a, <2>3, TailElements DEF DrainCritical, LaneDrained
    <3>2. QED
      BY <1>14, <2>1, <3>1
  <2>4. QED
    BY <2>2, <2>3
<1>16. CASE Get
  <2>1. /\ queue # <<>> /\ queue' = Tail(queue) /\ current = NoItem
        /\ UNCHANGED <<critical, call, handled, evicted>>
        /\ current' = IF Head(queue) \in Items THEN Head(queue) ELSE current
    BY <1>16 DEF Get, TakeHead
  <2>2. CASE Head(queue) \in Items
    BY <1>14, <1>d, <2>1, <2>2
  <2>3. CASE Head(queue) \notin Items
    <3>1. Range(queue)' \cap Items = Range(queue) \cap Items
      BY <1>d, <2>1, <2>3
    <3>2. QED
      BY <2>1, <2>3, <3>1, FatesUnmoved
  <2>4. QED
    BY <2>2, <2>3
<1>17. CASE Process
  <2>0. PICK c \in Items : c = current
    BY <1>17, <1>a DEF Process
  <2>1. /\ c = current /\ current' = NoItem /\ handled' = handled \cup {c}
        /\ UNCHANGED <<queue, critical, call, evicted>>
    BY <1>17, <2>0 DEF Process, lanes
  <2>2. Fate(c) = "handling"
    BY <2>1 DEF Fate
  <2>3. Fate(c)' = "handled"
    BY <1>a, <2>1 DEF Fate
  <2>4. \A j \in Items \ {c} : Fate(j)' = Fate(j)
    BY <1>a, <2>1 DEF Fate
  <2>5. QED
    BY <2>1, <2>2, <2>3, <2>4, FatesMove DEF Promise!Next, Promise!End
<1>18. CASE UNCHANGED vars
  BY <1>18, FatesUnmoved DEF vars, lanes, worker, closing, history
<1>19. QED
  BY <1>1, <1>2, <1>3, <1>4, <1>5, <1>6, <1>9, <1>10, <1>11, <1>12, <1>13,
     <1>15, <1>16, <1>17, <1>18
     DEF Next, CallStep, CloserStep, ThreadStep

\* The threads, the lanes and the tokens of the worker implement the promise: each
\* item accepted or refused once, handled at most once and one at a time, and
\* none that is critical evicted.
THEOREM WorkerKeepsPromise == Spec => KeepsPromise
<1>1. Init => TypeOK /\ Conserved
  BY InitTypeOK, InitConserved
<1>2. TypeOK /\ Conserved /\ [Next]_vars => (TypeOK /\ Conserved)'
  BY StepTypeOK, StepConserved
<1>3. QED
  BY <1>1, <1>2, InitPromise, StepPromise, PTL
     DEF Spec, KeepsPromise, Promise!Spec, Fates
-----------------------------------------------------------------------------
(* Priority of the critical lane.  PriorityBound alone is not inductive: it *)
(* needs that no item in the lane has been overtaken when the thread is at  *)
(* its get(), and that an item is overtaken only after it was appended.     *)

IPriority ==
    \A i \in CriticalItems :
        /\ overtaken[i] <= 1
        /\ call[i] \notin Entered => overtaken[i] = 0
        /\ thread = "getting" /\ i \in Range(critical) => overtaken[i] = 0

LEMMA StepIPriority == TypeOK /\ Conserved /\ IPriority /\ [Next]_vars => IPriority'
<1> SUFFICES ASSUME TypeOK, Conserved, IPriority, [Next]_vars
             PROVE  IPriority'
  OBVIOUS
<1>a. /\ critical \in Seq(Items) /\ call \in [Items -> CallStates]
      /\ overtaken \in [CriticalItems -> Nat] /\ CriticalItems \subseteq Items
  BY WorkerAssumption DEF TypeOK
<1>1. ASSUME UNCHANGED <<critical, overtaken>>,
             thread' = "getting" => thread = "getting",
             \A i \in Items : call'[i] \notin Entered => call[i] \notin Entered
      PROVE  IPriority'
  BY <1>1, <1>a DEF IPriority
<1>2. ASSUME NEW i \in Items, SubmitCheck(i) \/ CallStep(i) \/ PutTimeout(i),
             ~CriticalAppend(i)
      PROVE  IPriority'
  <2>1. UNCHANGED <<critical, overtaken>> /\ (thread' = "getting" => thread = "getting")
    BY <1>2 DEF SubmitCheck, CallStep, PutTimeout, CriticalCount, CriticalWake, Put,
                PutCount, Overflow, DropOldest, DropCount, RetryFull, StartThread,
                lanes, worker, history
  <2>2. \A j \in Items : call'[j] \notin Entered => call[j] \notin Entered
    BY <1>2, <1>a DEF SubmitCheck, CallStep, PutTimeout, CriticalCount, CriticalWake, Put,
                PutCount, Overflow, DropOldest, DropCount, RetryFull, Goes, Entered
  <2>3. QED
    BY <1>1, <2>1, <2>2
<1>3. ASSUME NEW i \in Items, CriticalAppend(i)
      PROVE  IPriority'
  <2>1. /\ call[i] \notin Entered /\ UNCHANGED <<thread, overtaken>>
        /\ \A j \in Items : call'[j] \notin Entered => call[j] \notin Entered
    BY <1>3, <1>a DEF CriticalAppend, Goes, Entered, worker, history
  <2>2. Range(critical)' = Range(critical) \cup {i}
    BY <1>3, <1>a, AppendElements DEF CriticalAppend
  <2>3. ASSUME NEW j \in CriticalItems
        PROVE  /\ overtaken'[j] <= 1
               /\ call'[j] \notin Entered => overtaken'[j] = 0
               /\ thread' = "getting" /\ j \in Range(critical)' => overtaken'[j] = 0
    BY <1>a, <2>1, <2>2 DEF IPriority
  <2>4. QED
    BY <2>3 DEF IPriority
<1>4. CASE CloserStep \/ \E drain \in BOOLEAN : CloseBegin(drain)
  BY <1>1, <1>4 DEF CloserStep, CloseBegin, Discard, DiscardDone, CloseSignal,
                    CloseReturn, StartThread, lanes, worker, history
<1>5. CASE DrainCritical
  <2>1. UNCHANGED <<call, overtaken>>
    BY <1>5 DEF DrainCritical, history
  <2>2. CASE critical = <<>>
    <3>1. Range(critical)' = {}
      BY <1>5, <2>2 DEF DrainCritical, LaneDrained, Range
    <3>2. QED
      BY <2>1, <3>1 DEF IPriority
  <2>3. CASE critical # <<>>
    BY <1>5, <2>1, <2>3 DEF DrainCritical, LaneDrained, IPriority
  <2>4. QED
    BY <2>2, <2>3
<1>6. CASE Get
  <2>1. /\ thread = "getting" /\ thread' # "getting" /\ UNCHANGED <<critical, call>>
    BY <1>6 DEF Get, AfterGet
  <2>2. ASSUME NEW i \in CriticalItems
        PROVE  /\ overtaken'[i] <= 1
               /\ i \notin Range(critical) => overtaken'[i] = overtaken[i]
    <3>1. CASE Head(queue) \in Items
      BY <1>6, <1>a, <2>1, <3>1 DEF Get, IPriority
    <3>2. CASE Head(queue) \notin Items
      BY <1>6, <3>2 DEF Get, IPriority
    <3>3. QED
      BY <3>1, <3>2
  <2>3. \A i \in CriticalItems : call[i] \notin Entered => i \notin Range(critical)
    BY <1>a DEF Conserved
  <2>4. QED
    BY <2>1, <2>2, <2>3 DEF IPriority
<1>7. CASE Process
  BY <1>1, <1>7 DEF Process, lanes
<1>8. CASE UNCHANGED vars
  BY <1>1, <1>8 DEF vars, lanes, worker, history
<1>9. QED
  BY <1>2, <1>3, <1>4, <1>5, <1>6, <1>7, <1>8 DEF Next, CallStep, ThreadStep

\* However many callers race, at most one regular item starts while a critical
\* item waits in the lane.
THEOREM CriticalFirst == Spec => []PriorityBound
<1>1. Init => TypeOK /\ Conserved /\ IPriority
  <2>1. Init => IPriority
    BY WorkerAssumption DEF Init, IPriority
  <2>2. QED
    BY <2>1, InitTypeOK, InitConserved
<1>2. TypeOK /\ Conserved /\ IPriority /\ [Next]_vars => (TypeOK /\ Conserved /\ IPriority)'
  BY StepTypeOK, StepConserved, StepIPriority
<1>3. IPriority => PriorityBound
  BY DEF IPriority, PriorityBound
<1>4. QED
  BY <1>1, <1>2, <1>3, PTL DEF Spec
-----------------------------------------------------------------------------
(* DrainHonoured.  What close() owes is in the lane, ahead of the sentinel in *)
(* the queue, in the handler or done, or DROP_OLDEST has evicted it.          *)

\* Every sentinel in the queue has the item before it.
Before(q, i) == \A n \in DOMAIN q : q[n] = Sentinel => \E m \in 1..(n - 1) : q[m] = i

Settled(i) == i \in handled \/ (policy = "drop_oldest" /\ i \in evicted)

Kept(i) ==
    \/ Settled(i) \/ i = current \/ i \in Range(critical)
    \/ i \in Range(queue) /\ Before(queue, i)

IDrain ==
    /\ \A i \in Items : call[i] = "evict" => policy = "drop_oldest"
    /\ closer = "open" => owed = {}
    /\ closer \in {"open", "discard", "signal"} =>
          Sentinel \notin Range(queue) /\ thread \notin {"stopping", "exited"}
    /\ closer = "discard" \/ thread = "stopping" => \A i \in owed : i \notin Range(queue)
    /\ \A i \in owed : Kept(i)
    /\ thread = "exited" => \A i \in owed : Settled(i)

LEMMA AppendBefore ==
    ASSUME NEW S, NEW s \in Seq(S), NEW e \in S, NEW i \in Range(s), Before(s, i)
    PROVE  Before(Append(s, e), i)
<1>1. /\ DOMAIN Append(s, e) = 1 .. Len(s) + 1 /\ DOMAIN s = 1 .. Len(s) /\ Len(s) \in Nat
      /\ \A n \in 1 .. Len(s) : Append(s, e)[n] = s[n]
  OBVIOUS
<1>2. PICK k \in 1 .. Len(s) : s[k] = i
  BY <1>1 DEF Range
<1>3. ASSUME NEW n \in DOMAIN Append(s, e), Append(s, e)[n] = Sentinel
      PROVE  \E m \in 1..(n - 1) : Append(s, e)[m] = i
  <2>1. CASE n = Len(s) + 1
    <3>1. k \in 1..(n - 1) /\ Append(s, e)[k] = i
      BY <1>1, <1>2, <2>1
    <3>2. QED
      BY <3>1
  <2>2. CASE n # Len(s) + 1
    <3>1. n \in 1 .. Len(s) /\ s[n] = Sentinel
      BY <1>1, <1>3, <2>2
    <3>2. PICK m \in 1..(n - 1) : s[m] = i
      BY <1>1, <3>1 DEF Before
    <3>3. m \in 1 .. Len(s) /\ Append(s, e)[m] = i
      BY <1>1, <3>1, <3>2
    <3>4. QED
      BY <3>2, <3>3
  <2>3. QED
    BY <2>1, <2>2
<1>4. QED
  BY <1>3 DEF Before

LEMMA TailBefore ==
    ASSUME NEW S, NEW s \in Seq(S), s # <<>>, NEW i, i # Head(s), Before(s, i)
    PROVE  Before(Tail(s), i) /\ Head(s) # Sentinel
<1>1. /\ DOMAIN Tail(s) = 1 .. Len(s) - 1 /\ DOMAIN s = 1 .. Len(s) /\ Len(s) \in Nat \ {0}
      /\ \A n \in 1 .. Len(s) - 1 : Tail(s)[n] = s[n + 1]
      /\ Head(s) = s[1]
  OBVIOUS
<1>2. Head(s) # Sentinel
  <2>1. 1 \in DOMAIN s /\ 1..(1 - 1) = {}
    BY <1>1
  <2>2. QED
    BY <1>1, <2>1 DEF Before
<1>3. ASSUME NEW n \in DOMAIN Tail(s), Tail(s)[n] = Sentinel
      PROVE  \E m \in 1..(n - 1) : Tail(s)[m] = i
  <2>1. n + 1 \in DOMAIN s /\ s[n + 1] = Sentinel /\ n \in 1 .. Len(s) - 1
    BY <1>1, <1>3
  <2>2. PICK m \in 1..((n + 1) - 1) : s[m] = i
    BY <2>1 DEF Before
  <2>3. m # 1
    BY <1>1, <2>2
  <2>4. m - 1 \in 1..(n - 1) /\ m - 1 \in 1 .. Len(s) - 1 /\ (m - 1) + 1 = m
    BY <1>1, <2>1, <2>2, <2>3
  <2>5. Tail(s)[m - 1] = i
    BY <1>1, <2>2, <2>4
  <2>6. QED
    BY <2>4, <2>5
<1>4. QED
  BY <1>2, <1>3 DEF Before

\* Without a sentinel every item is before it.
LEMMA NoSentinel ==
    ASSUME NEW S, NEW s \in Seq(S), Sentinel \notin Range(s), NEW i
    PROVE  Before(s, i)
BY DEF Before, Range

\* What is owed was handed over.
LEMMA OwedEntered ==
    ASSUME TypeOK, Conserved, IDrain, NEW i \in owed
    PROVE  /\ i \in Items /\ call[i] \in Entered
           /\ i \in Range(queue) => Before(queue, i)
<1>1. i \in Items /\ Kept(i)
  BY DEF TypeOK, IDrain
<1>2. QED
  BY <1>1 DEF Kept, Settled, Conserved

LEMMA InitDrain == Init => IDrain
BY DEF Init, IDrain, Range

\* A step that moves no item.
LEMMA DrainUnmoved ==
    ASSUME IDrain, UNCHANGED <<queue, critical, current, handled, evicted, owed, policy, closer>>,
           thread' # thread => thread' \notin {"stopping", "exited"},
           \A i \in Items : call'[i] = "evict" => call[i] = "evict" \/ policy = "drop_oldest"
    PROVE  IDrain'
BY DEF IDrain, Kept, Settled, Before

\* An entry that joins the queue is owed to nobody.
LEMMA DrainAppend ==
    ASSUME TypeOK, Conserved, IDrain, NEW e \in Entries, e \notin owed,
           queue' = Append(queue, e),
           UNCHANGED <<critical, current, handled, evicted, owed, policy, thread>>,
           \/ e # Sentinel /\ UNCHANGED closer
           \/ closer = "signal" /\ closer' = "joining",
           \A i \in Items : call'[i] = "evict" => call[i] = "evict"
    PROVE  IDrain'
<1>1. queue \in Seq(Entries) /\ Range(queue)' = Range(queue) \cup {e}
  BY AppendElements DEF TypeOK
<1>2. ASSUME NEW i \in owed
      PROVE  Kept(i)'
  <2>1. CASE i \in Range(queue) /\ Before(queue, i)
    <3>1. Before(queue', i) /\ i \in Range(queue)'
      BY <1>1, <2>1, AppendBefore
    <3>2. QED
      BY <3>1 DEF Kept
  <2>2. CASE Settled(i) \/ i = current \/ i \in Range(critical)
    BY <2>2 DEF Kept, Settled
  <2>3. QED
    BY <2>1, <2>2 DEF IDrain, Kept
<1>3. QED
  BY <1>1, <1>2 DEF IDrain, Settled

\* The head of the queue is taken.
LEMMA DrainTail ==
    ASSUME TypeOK, Conserved, IDrain, queue # <<>>, queue' = Tail(queue),
           UNCHANGED <<critical, handled, owed, policy, closer>>,
           evicted \subseteq evicted', current' # current => current = NoItem,
           Head(queue) \in owed =>
              current' = Head(queue) \/ (policy = "drop_oldest" /\ Head(queue) \in evicted'),
           \/ UNCHANGED thread \/ thread' = "draining"
           \/ thread' = "stopping" /\ Head(queue) = Sentinel,
           \A i \in Items : call'[i] = "evict" => call[i] = "evict"
    PROVE  IDrain'
<1>1. /\ queue \in Seq(Entries) /\ Range(queue)' \subseteq Range(queue)
      /\ Range(queue) = {Head(queue)} \cup Range(queue)'
  BY TailElements DEF TypeOK
<1>2. ASSUME NEW i \in owed, i \in Range(queue)
      PROVE  i = Head(queue) \/ (Before(queue', i) /\ Head(queue) # Sentinel)
  BY <1>1, <1>2, OwedEntered, TailBefore
<1>3. ASSUME NEW i \in owed
      PROVE  Kept(i)'
  <2>1. CASE i \in Range(queue)
    <3>1. CASE i = Head(queue)
      BY <3>1 DEF Kept, Settled
    <3>2. CASE i # Head(queue)
      BY <1>1, <1>2, <2>1, <3>2 DEF Kept
    <3>3. QED
      BY <3>1, <3>2
  <2>2. CASE i \notin Range(queue)
    <3>1. i # NoItem
      BY WorkerAssumption, OwedEntered
    <3>2. QED
      BY <2>2, <3>1 DEF IDrain, Kept, Settled
  <2>3. QED
    BY <2>1, <2>2
<1>4. thread' = "stopping" => \A i \in owed : i \notin Range(queue)'
  <2>1. CASE thread = "stopping"
    BY <1>1, <2>1 DEF IDrain
  <2>2. CASE thread' = "stopping" /\ Head(queue) = Sentinel
    <3>1. Sentinel \notin owed
      BY WorkerAssumption, OwedEntered
    <3>2. \A i \in owed : i \notin Range(queue)
      BY <1>2, <2>2, <3>1
    <3>3. QED
      BY <1>1, <3>2
  <2>3. QED
    BY <2>1, <2>2
<1>5. Sentinel \in Range(queue)' \/ Head(queue) = Sentinel => Sentinel \in Range(queue)
  BY <1>1
<1>6. QED
  BY <1>1, <1>3, <1>4, <1>5 DEF IDrain, Settled

LEMMA StepDrain == TypeOK /\ Conserved /\ IDrain /\ [Next]_vars => IDrain'
<1> SUFFICES ASSUME TypeOK, Conserved, IDrain, [Next]_vars
             PROVE  IDrain'
  OBVIOUS
<1>a. /\ queue \in Seq(Entries) /\ critical \in Seq(Items) /\ call \in [Items -> CallStates]
      /\ current \in Items \cup {NoItem} /\ NoItem \notin Items /\ Sentinel \notin Items
      /\ Token \notin Items /\ Token # Sentinel /\ owed \subseteq Items
      /\ Items \subseteq Entries /\ {Token, Sentinel} \subseteq Entries
  BY WorkerAssumption DEF TypeOK, Entries
<1>1. ASSUME NEW i \in Items,
             \/ SubmitCheck(i) \/ CriticalCount(i) \/ PutCount(i) \/ Overflow(i)
             \/ DropCount(i) \/ RetryFull(i) \/ PutTimeout(i)
      PROVE  IDrain'
  <2>1. /\ UNCHANGED <<queue, critical, current, handled, evicted, owed, policy, closer>>
        /\ thread' # thread => thread' \notin {"stopping", "exited"}
    BY <1>1 DEF SubmitCheck, CriticalCount, PutCount, Overflow, DropCount, RetryFull,
                PutTimeout, StartThread, lanes, worker, closing, history
  <2>2. \A j \in Items : call'[j] = "evict" => call[j] = "evict" \/ policy = "drop_oldest"
    BY <1>1, <1>a DEF SubmitCheck, CriticalCount, PutCount, Overflow, DropCount, RetryFull,
                PutTimeout, Goes
  <2>3. QED
    BY <2>1, <2>2, DrainUnmoved
<1>2. ASSUME NEW i \in Items, CriticalAppend(i)
      PROVE  IDrain'
  <2>1. /\ critical' = Append(critical, i) /\ Range(critical)' = Range(critical) \cup {i}
        /\ UNCHANGED <<queue, current, handled, evicted, owed, policy, closer, thread>>
    BY <1>2, <1>a, AppendElements DEF CriticalAppend, worker, closing, history
  <2>2. \A j \in Items : call'[j] = "evict" => call[j] = "evict"
    BY <1>2, <1>a DEF CriticalAppend, Goes
  <2>3. QED
    BY <2>1, <2>2 DEF IDrain, Kept, Settled, Before
<1>3. ASSUME NEW i \in Items, CriticalWake(i)
      PROVE  IDrain'
  <2>1. /\ UNCHANGED <<critical, current, handled, evicted, owed, policy, closer, thread>>
        /\ \A j \in Items : call'[j] = "evict" => call[j] = "evict"
    BY <1>3, <1>a DEF CriticalWake, Goes, worker, closing, history
  <2>2. CASE queue' = queue
    BY <2>1, <2>2, DrainUnmoved
  <2>3. CASE queue' = Append(queue, Token)
    BY <1>a, <2>1, <2>3, DrainAppend
  <2>4. QED
    BY <1>3, <2>2, <2>3 DEF CriticalWake, TokenPut
<1>4. ASSUME NEW i \in Items, Put(i)
      PROVE  IDrain'
  <2>1. /\ queue' = Append(queue, i) /\ i \notin owed
        /\ UNCHANGED <<critical, current, handled, evicted, owed, policy, closer, thread>>
    BY <1>4, OwedEntered DEF Put, Goes, Entered, worker, closing, history
  <2>2. \A j \in Items : call'[j] = "evict" => call[j] = "evict"
    BY <1>4, <1>a DEF Put, Goes
  <2>3. QED
    BY <1>a, <2>1, <2>2, DrainAppend
<1>5. ASSUME NEW i \in Items, DropOldest(i)
      PROVE  IDrain'
  <2>1. /\ UNCHANGED <<critical, current, handled, owed, policy, closer, thread>>
        /\ policy = "drop_oldest"
    BY <1>5, <1>a DEF DropOldest, Goes, IDrain, worker, closing
  <2>2. \A j \in Items : call'[j] = "evict" => call[j] = "evict"
    BY <1>5, <1>a DEF DropOldest, Goes
  <2>3. CASE queue = <<>>
    <3>1. UNCHANGED <<queue, evicted>>
      BY <1>5, <2>3 DEF DropOldest
    <3>2. QED
      BY <2>1, <2>2, <3>1, DrainUnmoved
  <2>4. CASE queue # <<>>
    <3>1. queue' = Tail(queue) /\ evicted' = evicted \cup ({Head(queue)} \cap Items)
      BY <1>5, <2>4 DEF DropOldest, TakeHead
    <3>2. QED
      BY <1>a, <2>1, <2>2, <2>4, <3>1, DrainTail
  <2>5. QED
    BY <2>3, <2>4
<1>6. ASSUME NEW drain \in BOOLEAN, CloseBegin(drain)
      PROVE  IDrain'
  <2>1. /\ closer = "open" /\ closer' = IF drain THEN "signal" ELSE "discard"
        /\ owed' = Range(critical) \cup (IF drain THEN Range(queue) \cap Items ELSE {})
        /\ UNCHANGED <<queue, critical, call, current, handled, evicted, policy, thread>>
    BY <1>6 DEF CloseBegin, lanes, worker
  <2>2. Sentinel \notin Range(queue) /\ thread \notin {"stopping", "exited"}
    BY <2>1 DEF IDrain
  <2>3. \A i \in owed' : Kept(i)'
    BY <1>a, <2>1, <2>2, NoSentinel DEF Kept
  <2>4. ~drain => \A i \in owed' : i \notin Range(queue)
    BY <2>1 DEF Conserved
  <2>5. QED
    BY <2>1, <2>2, <2>3, <2>4 DEF IDrain
<1>7. CASE Discard
  <2>1. /\ closer = "discard" /\ queue # <<>> /\ queue' = Tail(queue)
        /\ evicted \subseteq evicted'
        /\ UNCHANGED <<critical, call, current, handled, owed, policy, closer, thread>>
    BY <1>7 DEF Discard, TakeHead, worker
  <2>2. Head(queue) \notin owed
    BY <1>a, <2>1, TailElements DEF IDrain
  <2>3. QED
    BY <2>1, <2>2, DrainTail
<1>8. CASE DiscardDone \/ CloseReturn
  BY <1>8 DEF DiscardDone, CloseReturn, IDrain, Kept, Settled, Before, lanes, worker, history
<1>9. CASE CloseSignal
  <2>1. /\ closer = "signal" /\ closer' = "joining" /\ queue' = Append(queue, Sentinel)
        /\ UNCHANGED <<critical, call, current, handled, evicted, owed, policy>>
        /\ \/ UNCHANGED thread
           \/ thread = "none" /\ thread' = "draining"
    BY <1>9 DEF CloseSignal, StartThread, history
  <2>2. /\ Range(queue)' = Range(queue) \cup {Sentinel} /\ queue' \in Seq(Entries)
    BY <1>a, <2>1, AppendElements
  <2>3. ASSUME NEW i \in owed
        PROVE  Kept(i)'
    <3>1. CASE i \in Range(queue) /\ Before(queue, i)
      BY <1>a, <2>1, <2>2, <3>1, AppendBefore DEF Kept
    <3>2. CASE Settled(i) \/ i = current \/ i \in Range(critical)
      BY <2>1, <3>2 DEF Kept, Settled
    <3>3. QED
      BY <3>1, <3>2 DEF IDrain, Kept
  <2>4. QED
    BY <2>1, <2>3 DEF IDrain
<1>10. CASE DrainCritical
  <2>1. /\ thread \in {"draining", "stopping"} /\ current = NoItem
        /\ UNCHANGED <<queue, call, handled, evicted, owed, policy, closer>>
    BY <1>10 DEF DrainCritical, closing, history
  <2>2. CASE critical = <<>>
    <3>1. /\ thread' = IF thread = "draining" THEN "getting" ELSE "exited"
          /\ UNCHANGED <<critical, current>> /\ Range(critical) = {}
      BY <1>10, <2>2 DEF DrainCritical, LaneDrained, Range
    <3>2. thread = "stopping" => \A i \in owed : Settled(i)
      BY <1>a, <2>1, <3>1 DEF IDrain, Kept
    <3>3. QED
      BY <2>1, <3>1, <3>2 DEF IDrain, Kept, Settled, Before
  <2>3. CASE critical # <<>>
    <3>1. /\ current' = Head(critical) /\ critical' = Tail(critical) /\ UNCHANGED thread
      BY <1>10, <2>3 DEF DrainCritical, LaneDrained
    <3>2. Range(critical) = {Head(critical)} \cup Range(critical)'
      BY <1>a, <2>3, <3>1, TailElements
    <3>3. \A i \in owed : Kept(i)'
      BY <1>a, <2>1, <3>1, <3>2 DEF IDrain, Kept, Settled, Before
    <3>4. QED
      BY <2>1, <3>1, <3>3 DEF IDrain, Settled
  <2>4. QED
    BY <2>2, <2>3
<1>11. CASE Get
  <2>1. /\ thread = "getting" /\ current = NoItem /\ queue # <<>> /\ queue' = Tail(queue)
        /\ thread' = IF Head(queue) = Sentinel THEN "stopping" ELSE "draining"
        /\ current' = IF Head(queue) \in Items THEN Head(queue) ELSE current
        /\ UNCHANGED <<critical, call, handled, evicted, owed, policy, closer>>
    BY <1>11 DEF Get, TakeHead, AfterGet, closing
  <2>2. QED
    BY <1>a, <2>1, DrainTail
<1>12. CASE Process
  <2>1. /\ current # NoItem /\ handled' = handled \cup {current}
        /\ \/ UNCHANGED thread
           \/ thread' = "dead"
        /\ UNCHANGED <<queue, critical, call, evicted, owed, policy, closer>>
    BY <1>12 DEF Process, lanes, closing
  <2>2. \A i \in owed : Kept(i)'
    BY <2>1 DEF IDrain, Kept, Settled, Before
  <2>3. QED
    BY <2>1, <2>2 DEF IDrain, Settled
<1>13. CASE UNCHANGED vars
  BY <1>13, DrainUnmoved DEF vars, lanes, worker, closing, history
<1>14. QED
  BY <1>1, <1>2, <1>3, <1>4, <1>5, <1>6, <1>7, <1>8, <1>9, <1>10, <1>11, <1>12, <1>13
     DEF Next, CallStep, CloserStep, ThreadStep

\* When the thread has ended by the sentinel, what close() found and had to have
\* processed is done, for any number of callers and any size of the queue.
THEOREM CloseDrains == Spec => []DrainHonoured
<1>1. Init => TypeOK /\ Conserved /\ IDrain
  BY InitTypeOK, InitConserved, InitDrain
<1>2. TypeOK /\ Conserved /\ IDrain /\ [Next]_vars => (TypeOK /\ Conserved /\ IDrain)'
  BY StepTypeOK, StepConserved, StepDrain
<1>3. IDrain => DrainHonoured
  BY DEF IDrain, Settled, DrainHonoured
<1>4. QED
  BY <1>1, <1>2, <1>3, PTL DEF Spec
=============================================================================
