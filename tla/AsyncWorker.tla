---------------------------- MODULE AsyncWorker ----------------------------
(***************************************************************************)
(* runtime/async_worker.py: a daemon thread that runs a blocking handler   *)
(* for items submitted by any number of caller threads.  Regular items go  *)
(* through a bounded queue with an overflow policy, critical items through *)
(* an unbounded lane the thread drains first.                              *)
(*                                                                         *)
(* One submit() call is one process, named by the item it submits, so any  *)
(* two calls may overlap.  A step is what a thread does under one lock of  *)
(* the worker or of queue.Queue: between two steps every other thread may  *)
(* run.  start() is part of the step that follows it: it only makes the    *)
(* thread's first step possible.                                           *)
(***************************************************************************)
EXTENDS Integers, Sequences, FiniteSets, Functions

CONSTANTS Items,          \* the items submitted, one per call of submit()
          CriticalItems,  \* those submitted with critical=True
          FailingItems,   \* those the handler raises for
          OnErrorRaises,  \* may the on_error callback raise as well?
          QueueSize,      \* maxsize of the bounded queue
          Policies,       \* the overflow policies a worker may be built with
          Sentinel,       \* the queue entry that stops the thread
          Token,          \* the queue entry that wakes it for the critical lane
          NoItem          \* the thread is not inside the handler

AllPolicies == {"drop_newest", "drop_oldest", "block", "raise"}

ASSUME WorkerAssumption ==
    /\ CriticalItems \subseteq Items /\ FailingItems \subseteq Items
    /\ IsFiniteSet(Items)
    /\ OnErrorRaises \in BOOLEAN
    /\ QueueSize \in Nat \ {0}
    /\ Policies \subseteq AllPolicies
    /\ {Sentinel, Token, NoItem} \cap Items = {}
    /\ Sentinel # Token /\ NoItem \notin {Sentinel, Token}

VARIABLES policy,     \* overflow_policy, fixed at construction
          queue,      \* _queue
          critical,   \* _critical
          call,       \* where each submit() call is
          thread,     \* where _run is
          current,    \* the item the handler is working on
          closed,     \* _closed
          closer,     \* where the close() call is
          discarded,  \* local count of _drop_all_pending
          stats,      \* _submitted, _processed, _failed, _dropped
          handled,    \* history: items the handler is done with
          evicted,    \* history: items taken out of the queue unprocessed
          owed,       \* history: items close() found and must have processed
          overtaken   \* history: regular items begun while one was in the lane

lanes == <<queue, critical>>
worker == <<thread, current>>
closing == <<policy, closed, closer, discarded>>
history == <<handled, evicted, owed, overtaken>>
vars == <<lanes, call, worker, closing, stats, history>>

RegularItems == Items \ CriticalItems

Entries == Items \cup {Sentinel, Token}

Full == Len(queue) >= QueueSize

Counted(counter, n) == stats' = [stats EXCEPT ![counter] = @ + n]

Goes(i, from, to) == call[i] = from /\ call' = [call EXCEPT ![i] = to]

StartThread == thread' = IF thread = "none" THEN "draining" ELSE thread

\* get() and get_nowait() of a queue that is not empty.  Fault: the entry stays.
TakeHeadPeeks == UNCHANGED queue
TakeHead == queue' = Tail(queue)

Init ==
    /\ policy \in Policies
    /\ queue = <<>> /\ critical = <<>>
    /\ call = [i \in Items |-> "new"]
    /\ thread = "none" /\ current = NoItem
    /\ closed = FALSE /\ closer = "open" /\ discarded = 0
    /\ stats = [submitted |-> 0, processed |-> 0, failed |-> 0, dropped |-> 0]
    /\ handled = {} /\ evicted = {} /\ owed = {}
    /\ overtaken = [i \in CriticalItems |-> 0]
-----------------------------------------------------------------------------
(* submit(): the entry, and the critical lane *)

SubmitCheck(i) ==
    /\ Goes(i, "new", IF closed THEN "refused" ELSE "checked")
    /\ StartThread
    /\ UNCHANGED <<lanes, current, closing, stats, history>>

\* Fault: a critical item takes a free slot of the queue instead of the lane.
CriticalAppendToQueue(i) ==
    /\ i \in CriticalItems /\ Goes(i, "checked", "appended")
    /\ IF Full THEN critical' = Append(critical, i) /\ UNCHANGED queue
               ELSE queue' = Append(queue, i) /\ UNCHANGED critical
    /\ UNCHANGED <<worker, closing, stats, history>>

CriticalAppend(i) ==
    /\ i \in CriticalItems /\ Goes(i, "checked", "appended")
    /\ critical' = Append(critical, i)
    /\ UNCHANGED <<queue, worker, closing, stats, history>>

CriticalCount(i) ==
    /\ Goes(i, "appended", "counted")
    /\ Counted("submitted", 1)
    /\ UNCHANGED <<lanes, worker, closing, history>>

\* put_nowait of the wake-up token, queue.Full swallowed.  Faults: the bound is
\* ignored; no token is put.
TokenPutUnbounded == Append(queue, Token)
TokenPutNever == queue
TokenPut == IF Full THEN queue ELSE Append(queue, Token)

CriticalWake(i) ==
    /\ Goes(i, "counted", "accepted")
    /\ queue' = TokenPut
    /\ UNCHANGED <<critical, worker, closing, stats, history>>
-----------------------------------------------------------------------------
(* submit(): the bounded queue and its overflow policies *)

\* The first put, or the second one of DROP_OLDEST.
Put(i) ==
    /\ i \in RegularItems /\ ~Full
    /\ Goes(i, "checked", "put") \/ Goes(i, "retry", "put")
    /\ queue' = Append(queue, i)
    /\ UNCHANGED <<critical, worker, closing, stats, history>>

PutCount(i) ==
    /\ Goes(i, "put", "accepted")
    /\ Counted("submitted", 1)
    /\ UNCHANGED <<lanes, worker, closing, history>>

\* queue.Full of the first put, when the policy does not wait.
Overflow(i) ==
    /\ i \in RegularItems /\ Full
    /\ \/ policy = "raise" /\ Goes(i, "checked", "raised")
       \/ policy = "drop_newest" /\ Goes(i, "checked", "overflow")
       \/ policy = "drop_oldest" /\ Goes(i, "checked", "evict")
    /\ UNCHANGED <<lanes, worker, closing, stats, history>>

\* BLOCK with a timeout that runs out.
PutTimeout(i) ==
    /\ i \in RegularItems /\ Full /\ policy = "block"
    /\ Goes(i, "checked", "overflow")
    /\ UNCHANGED <<lanes, worker, closing, stats, history>>

\* The sentinel counts as dropped, a token does not.
CountsAsDropped(e) == e # Token

\* _drop_oldest_pending takes whatever is first: an item, a token, the sentinel.
DropOldest(i) ==
    /\ IF queue = <<>>
       THEN Goes(i, "evict", "overflow") /\ UNCHANGED <<queue, evicted>>
       ELSE /\ Goes(i, "evict", IF CountsAsDropped(Head(queue)) THEN "popped"
                                                               ELSE "retry")
            /\ TakeHead
            /\ evicted' = evicted \cup ({Head(queue)} \cap Items)
    /\ UNCHANGED <<critical, worker, closing, stats, handled, owed, overtaken>>

DropCount(i) ==
    /\ Goes(i, "popped", "retry") \/ Goes(i, "overflow", "dropped")
    /\ Counted("dropped", 1)
    /\ UNCHANGED <<lanes, worker, closing, history>>

\* The second put_nowait of DROP_OLDEST has no handler for queue.Full.
RetryFull(i) ==
    /\ Full /\ Goes(i, "retry", "raised")
    /\ UNCHANGED <<lanes, worker, closing, stats, history>>
-----------------------------------------------------------------------------
(* close() *)

CloseBegin(drain) ==
    /\ closer = "open"
    /\ closed' = TRUE
    /\ closer' = IF drain THEN "signal" ELSE "discard"
    /\ owed' = Range(critical) \cup (IF drain THEN Range(queue) \cap Items ELSE {})
    /\ UNCHANGED <<lanes, call, worker, policy, discarded, stats, handled,
                   evicted, overtaken>>

\* One iteration of _drop_all_pending, and its end.
Discard ==
    /\ closer = "discard" /\ queue # <<>>
    /\ TakeHead
    /\ discarded' = discarded + Cardinality({Head(queue)} \cap Items)
    /\ evicted' = evicted \cup ({Head(queue)} \cap Items)
    /\ UNCHANGED <<critical, call, worker, policy, closed, closer, stats,
                   handled, owed, overtaken>>

DiscardDone ==
    /\ closer = "discard" /\ queue = <<>>
    /\ Counted("dropped", discarded)
    /\ closer' = "signal" /\ discarded' = 0
    /\ UNCHANGED <<lanes, call, worker, policy, closed, history>>

\* put() of the sentinel waits for room, without a timeout.
CloseSignal ==
    /\ closer = "signal" /\ ~Full
    /\ StartThread
    /\ queue' = Append(queue, Sentinel)
    /\ closer' = "joining"
    /\ UNCHANGED <<critical, call, current, policy, closed, discarded, stats,
                   history>>

\* join(timeout) returns when the thread has ended or the timeout runs out.
CloseReturn ==
    /\ closer = "joining"
    /\ closer' = "returned"
    /\ UNCHANGED <<lanes, call, worker, policy, closed, discarded, stats, history>>
-----------------------------------------------------------------------------
(* the worker thread *)

\* Fault: the drain after the sentinel is left out.
LaneDrainedOrStopping == critical = <<>> \/ thread = "stopping"
LaneDrained == critical = <<>>

\* One popleft of _drain_critical, or the end of its loop.
DrainCritical ==
    /\ thread \in {"draining", "stopping"} /\ current = NoItem
    /\ IF LaneDrained
       THEN /\ thread' = IF thread = "draining" THEN "getting" ELSE "exited"
            /\ UNCHANGED <<critical, current>>
       ELSE /\ current' = Head(critical) /\ critical' = Tail(critical)
            /\ UNCHANGED thread
    /\ UNCHANGED <<queue, call, closing, stats, history>>

\* Where _run goes on after an entry.  Faults: the lane is not drained between
\* two regular items; the sentinel is treated as a token.
AfterGetNoDrain(e) ==
    IF e = Sentinel THEN "stopping" ELSE IF e = Token THEN "draining" ELSE "getting"
AfterGetNoStop(e) == IF e \in Entries THEN "draining" ELSE "dead"
AfterGet(e) == IF e = Sentinel THEN "stopping" ELSE "draining"

Get ==
    /\ thread = "getting" /\ current = NoItem /\ queue # <<>>
    /\ TakeHead
    /\ thread' = AfterGet(Head(queue))
    /\ IF Head(queue) \in Items
       THEN /\ current' = Head(queue)
            /\ overtaken' = [i \in CriticalItems |->
                  overtaken[i] + (IF i \in Range(critical) THEN 1 ELSE 0)]
       ELSE UNCHANGED <<current, overtaken>>
    /\ UNCHANGED <<critical, call, closing, stats, handled, evicted, owed>>

\* _process: the handler returns, or raises, and then on_error may raise too,
\* which ends the thread.
Process ==
    /\ current # NoItem
    /\ handled' = handled \cup {current}
    /\ current' = NoItem
    /\ Counted(IF current \in FailingItems THEN "failed" ELSE "processed", 1)
    /\ \/ UNCHANGED thread
       \/ OnErrorRaises /\ current \in FailingItems /\ thread' = "dead"
    /\ UNCHANGED <<lanes, call, closing, evicted, owed, overtaken>>
-----------------------------------------------------------------------------
CallStep(i) ==
    \/ CriticalAppend(i) \/ CriticalCount(i) \/ CriticalWake(i)
    \/ Put(i) \/ PutCount(i) \/ Overflow(i)
    \/ DropOldest(i) \/ DropCount(i) \/ RetryFull(i)

CloserStep == Discard \/ DiscardDone \/ CloseSignal \/ CloseReturn

ThreadStep == DrainCritical \/ Get \/ Process

Next ==
    \/ \E i \in Items : SubmitCheck(i) \/ CallStep(i) \/ PutTimeout(i)
    \/ \E drain \in BOOLEAN : CloseBegin(drain)
    \/ CloserStep
    \/ ThreadStep

Spec == Init /\ [][Next]_vars

\* A thread that can run does; nobody has to submit, to close or to time out.
Fairness ==
    /\ \A i \in Items : WF_vars(CallStep(i))
    /\ WF_vars(CloserStep)
    /\ WF_vars(ThreadStep)

FairSpec == Spec /\ Fairness
-----------------------------------------------------------------------------
(* Properties *)

\* The calls whose item is in the worker's hands.
Entered == {"appended", "counted", "put", "accepted"}

CallStates == Entered \cup {"new", "checked", "evict", "popped", "retry",
                            "overflow", "dropped", "refused", "raised"}

\* Types, and the bound of the queue: no put exceeds maxsize, whatever tokens
\* and sentinels are mixed with the items.
TypeOK ==
    /\ policy \in Policies
    /\ queue \in Seq(Entries) /\ Len(queue) <= QueueSize
    /\ critical \in Seq(Items)
    /\ call \in [Items -> CallStates]
    /\ thread \in {"none", "draining", "getting", "stopping", "exited", "dead"}
    /\ current \in Items \cup {NoItem}
    /\ closed \in BOOLEAN
    /\ closer \in {"open", "discard", "signal", "joining", "returned"}
    /\ discarded \in Nat
    /\ stats \in [{"submitted", "processed", "failed", "dropped"} -> Nat]
    /\ handled \subseteq Items /\ evicted \subseteq Items /\ owed \subseteq Items
    /\ overtaken \in [CriticalItems -> Nat]

\* No member of S occurs twice in the sequence s.
Once(s, S) == \A m, n \in DOMAIN s : s[m] = s[n] /\ s[m] \in S => m = n

\* An item whose call has handed it over is in exactly one place (the queue, the
\* critical lane, the handler, done, evicted), once, and no other item is in
\* any; a critical item is never in the queue, where overflow and close() drop.
Conserved ==
    /\ Once(queue, Items) /\ Once(critical, Items)
    /\ \A i \in Items :
          call[i] \in Entered <=> i \in Range(queue) \cup Range(critical)
                                       \cup {current} \cup handled \cup evicted
    /\ Range(queue) \cap (Range(critical) \cup {current} \cup handled \cup evicted) = {}
    /\ Range(critical) \cap ({current} \cup handled \cup evicted) = {}
    /\ current \notin handled \cup evicted
    /\ handled \cap evicted = {}
    /\ Range(critical) \subseteq CriticalItems
    /\ CriticalItems \cap (Range(queue) \cup evicted) = {}

\* "A full queue means it is already busy and will drain the critical lane before
\* its next regular item": at most one regular item starts while a critical item
\* waits in the lane, the one the thread was already about to take.
PriorityBound == \A i \in CriticalItems : overtaken[i] <= 1

\* close(): when the thread has ended, everything close() found in the lane, and
\* with drain=True in the queue, went through the handler; only DROP_OLDEST may
\* still have evicted a regular item for a submission that was under way.
DrainHonoured ==
    thread = "exited" =>
        owed \subseteq handled \cup (IF policy = "drop_oldest" THEN evicted ELSE {})

\* The docstring's "They are never dropped": a critical item whose submit() has
\* returned True is handled by the time the thread has ended.  A submission that
\* passed the closed check before close() and appends after the thread's last
\* drain breaks it.
CriticalNeverLost ==
    thread = "exited" =>
        \A i \in CriticalItems : call[i] = "accepted" => i \in handled

\* What WorkerPromise sees of an item.
Fate(i) ==
    IF i = current THEN "handling"
    ELSE IF i \in handled THEN "handled"
    ELSE IF i \in evicted THEN "evicted"
    ELSE IF i \in Range(queue) \cup Range(critical) THEN "pending"
    ELSE IF call[i] \in {"overflow", "dropped", "refused", "raised"} THEN "refused"
    ELSE "new"

Promise == INSTANCE WorkerPromise WITH fate <- [i \in Items |-> Fate(i)]

\* The worker implements WorkerPromise: no item is handled twice or two at once,
\* and no critical item is evicted, under every policy and every race.
KeepsPromise == Promise!Spec

\* No lost wake-up: a critical item in the lane of an open worker is handled,
\* also when its token found the queue full or was taken by DROP_OLDEST.
CriticalHandled ==
    \A i \in CriticalItems :
        (i \in Range(critical) /\ ~closed) ~> (i \in handled \/ thread = "dead")

\* close() stops the thread, under every policy that cannot evict the sentinel.
ThreadStops ==
    (closed /\ policy # "drop_oldest") ~> (thread \in {"exited", "dead"})
=============================================================================
