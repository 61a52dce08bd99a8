------------------------------ MODULE EventSink ------------------------------
(***************************************************************************)
(* runtime/sqlite_sink.py over runtime/order_hooks.py: the results of      *)
(* orders go through the pipeline's worker to a hook, which writes them to *)
(* the sink as other events are; the sink's worker inserts them into a     *)
(* database, with a connection that it and close() share.                  *)
(*                                                                         *)
(* Of the two workers this module uses no more than WorkerPromise, which   *)
(* AsyncWorker is shown to keep.  A step of the database is one call of    *)
(* sqlite3; each of them may fail.                                         *)
(***************************************************************************)
EXTENDS Integers, FiniteSets

CONSTANTS Events,         \* the events written, each once
          Results,        \* those that are results of orders
          Nobody,         \* no event
          Attempts,       \* SQLITE_WRITE_ATTEMPTS
          MaxErrors       \* bound: calls of sqlite3 that fail by themselves

ASSUME EventSinkAssumption ==
    /\ IsFiniteSet(Events) /\ Results \subseteq Events /\ Nobody \notin Events
    /\ Attempts \in Nat \ {0} /\ MaxErrors \in Nat

VARIABLES
    posted, fate,         \* what became of the items of the two workers
    closed,               \* _closed
    gone,                 \* the sink's thread has ended
    item, tries,          \* of that thread: the event it handles, failed attempts
    pc, own,              \* of the thread and of close(): step, and its conn
    conn,                 \* _conn, 0 for None
    open,                 \* the connections that are not closed
    txn,                  \* the transaction under way: whose, and what it writes
    stored, run,          \* the database: copies of each event, the row of the run
    errors,
    failed,               \* history: events given to on_error
    outlived, botched     \* history: the join of close() timed out; it failed

Pipeline == INSTANCE WorkerPromise WITH Items <- Results, CriticalItems <- Results, fate <- posted
Worker == INSTANCE WorkerPromise WITH Items <- Events, CriticalItems <- Results

workers == <<posted, fate, closed, gone>>
calls == <<item, tries, pc, own>>
database == <<conn, open, txn, stored, run, errors>>
history == <<failed, outlived, botched>>
vars == <<workers, calls, database, history>>

\* _conn, and one that each of two users still holds.
Connections == 1..3
Users == {"thread", "close"}
NoRows == [e \in Events |-> 0]
NoTxn == [of |-> 0, rows |-> NoRows, final |-> FALSE]

Init ==
    /\ Pipeline!Init /\ Worker!Init /\ closed = FALSE /\ gone = FALSE
    /\ item = Nobody /\ tries = 0
    /\ pc = [u \in Users |-> "idle"] /\ own = [u \in Users |-> 0]
    /\ conn = 0 /\ open = {} /\ txn = NoTxn
    /\ stored = NoRows /\ run = "none" /\ errors = 0
    /\ failed = {} /\ outlived = FALSE /\ botched = FALSE

Moves(u, from, to) == pc[u] = from /\ pc' = [pc EXCEPT ![u] = to]
-----------------------------------------------------------------------------
(* Callers: emit_result(), the hook and write().                            *)

Emit(e) ==
    /\ Pipeline!Accept(e) /\ UNCHANGED <<fate, closed, gone, calls, database, history>>

Dispatch(e) ==
    /\ Pipeline!Begin(e) /\ UNCHANGED <<fate, closed, gone, calls, database, history>>

\* submit() returns FALSE, or write() finds the sink closed.  A critical event is
\* not refused for lack of room.  Fault: the hook submits it as any other.
RefusedWhenFull(e) == Worker!Refuse(e)
Refused(e) == (e \in Results => closed) /\ Worker!Refuse(e)

Hook(e) ==
    /\ posted[e] = "handling" /\ (Worker!Accept(e) \/ Refused(e)) /\ Pipeline!End(e)
    /\ UNCHANGED <<closed, gone, calls, database, history>>

Write(e) ==
    /\ e \notin Results /\ (Worker!Accept(e) \/ Refused(e))
    /\ UNCHANGED <<posted, closed, gone, calls, database, history>>

\* An overflow policy, or close(drain=False).
Evict(e) ==
    /\ Worker!Evict(e) /\ UNCHANGED <<posted, closed, gone, calls, database, history>>
-----------------------------------------------------------------------------
(* The connection.  A call of sqlite3 fails by itself, as often as MaxErrors  *)
(* allows, or because its connection is closed, or another one keeps the      *)
(* database locked.                                                           *)

Trouble == errors < MaxErrors /\ errors' = errors + 1
Refusal(why) == (why /\ UNCHANGED errors) \/ Trouble

Locked(c) == txn.of \notin {0, c}
Broken(c) == c \notin open \/ Locked(c)

\* Which connections stay open: none that is closed, and none that nobody holds.
\* What a connection has not committed is lost with it.
Keeps(connections) ==
    /\ open' = connections \cap ({conn'} \cup {own'[u] : u \in Users})
    /\ txn' = IF txn.of \in open' THEN txn ELSE NoTxn

\* _ensure_connection(): its look at _conn, and then a new connection, whose
\* schema and row of the run are committed before it becomes _conn.
Finds(u) ==
    /\ conn # 0 /\ Moves(u, "ensuring", "writing")
    /\ own' = [own EXCEPT ![u] = conn] /\ conn' = conn /\ Keeps(open)
    /\ UNCHANGED <<workers, item, tries, stored, run, errors, history>>

FindsNone(u) ==
    /\ conn = 0 /\ Moves(u, "ensuring", "connecting")
    /\ UNCHANGED <<workers, item, tries, own, database, history>>

\* A new connection is any that nobody holds.
Free == Connections \ ({conn} \cup {own[u] : u \in Users})

Connects(u) ==
    /\ Moves(u, "connecting", "writing") /\ txn.of = 0
    /\ \E c \in Free : /\ c = CHOOSE d \in Free : TRUE
                      /\ conn' = c /\ own' = [own EXCEPT ![u] = c] /\ Keeps(open \cup {c})
    /\ run' = "open"
    /\ UNCHANGED <<workers, item, tries, stored, errors, history>>

\* commit() commits whatever was written with the connection, by anybody.
Commits(c) ==
    /\ c \in open
    /\ IF txn.of = c
       THEN /\ stored' = [e \in Events |-> stored[e] + txn.rows[e]]
            /\ run' = IF txn.final THEN "closed" ELSE run
            /\ txn' = NoTxn
       ELSE UNCHANGED <<stored, run, txn>>
-----------------------------------------------------------------------------
(* _handle_event(), on the thread of the sink's worker.                     *)

Begin(e) ==
    /\ ~gone /\ Worker!Begin(e) /\ Moves("thread", "idle", "ensuring")
    /\ item' = e /\ tries' = 0
    /\ UNCHANGED <<posted, closed, gone, own, database, history>>

Insert ==
    /\ Moves("thread", "writing", "committing") /\ ~Broken(own["thread"])
    /\ txn' = [txn EXCEPT !.of = own["thread"], !.rows = [txn.rows EXCEPT ![item] = @ + 1]]
    /\ UNCHANGED <<workers, item, tries, own, conn, open, stored, run, errors, history>>

\* The handler is done with its event.
Ends(from) ==
    /\ Worker!End(item) /\ item' = Nobody /\ tries' = 0
    /\ Moves("thread", from, "idle") /\ own' = [own EXCEPT !["thread"] = 0]

\* Fault: what is inserted waits for a later commit.
NoCommit == own["thread"] \in open /\ UNCHANGED <<stored, run, txn>>
Commit == Commits(own["thread"])

Done ==
    /\ Commit /\ Ends("committing")
    /\ UNCHANGED <<posted, closed, gone, conn, open, errors, history>>

\* _reset_connection().  Fault: the next attempt goes on with the connection.
KeepsConnection == conn' = conn /\ Keeps(open)
Resets == conn' = 0 /\ Keeps(open \ {conn})

\* Fault: the last attempt is not counted.
MayRetryOnceMore == tries < Attempts
MayRetry == tries + 1 < Attempts

Fails(u) ==
    \/ pc[u] = "connecting" /\ Refusal(txn.of # 0)
    \/ pc[u] = "writing" /\ Refusal(Broken(own[u]))
    \/ pc[u] = "committing" /\ Refusal(own[u] \notin open)

AttemptFails ==
    /\ Fails("thread")
    /\ \/ /\ MayRetry /\ tries' = tries + 1 /\ Moves("thread", pc["thread"], "ensuring")
          /\ UNCHANGED <<own, fate, item, failed>>
       \/ ~MayRetry /\ Ends(pc["thread"]) /\ failed' = failed \cup {item}
    /\ Resets
    /\ UNCHANGED <<posted, closed, gone, stored, run, outlived, botched>>

\* WorkerPromise says nothing of what a closed worker leaves behind.
ThreadEnds ==
    /\ closed /\ ~gone /\ pc["thread"] = "idle" /\ gone' = TRUE
    /\ UNCHANGED <<posted, fate, closed, calls, database, history>>
-----------------------------------------------------------------------------
(* close() and _close_connection().                                         *)

Close ==
    /\ ~closed /\ closed' = TRUE /\ Moves("close", "idle", "joining")
    /\ UNCHANGED <<posted, fate, gone, item, tries, own, database, history>>

\* The join returns with the thread, or after its timeout.
Join ==
    /\ Moves("close", "joining", "ensuring") /\ outlived' = ~gone
    /\ UNCHANGED <<workers, item, tries, own, database, failed, botched>>

CloseUpdate ==
    /\ Moves("close", "writing", "committing") /\ ~Broken(own["close"])
    /\ txn' = [txn EXCEPT !.of = own["close"], !.final = TRUE]
    /\ UNCHANGED <<workers, item, tries, own, conn, open, stored, run, errors, history>>

CloseCommit ==
    /\ Commits(own["close"]) /\ Moves("close", "committing", "closing")
    /\ UNCHANGED <<workers, item, tries, own, conn, open, errors, history>>

Returns ==
    /\ conn' = 0 /\ own' = [own EXCEPT !["close"] = 0]
    /\ Moves("close", pc["close"], "done")

\* Fault: a connection that was reset is not opened again for this.
LeavesIt ==
    /\ conn = 0 /\ pc["close"] = "ensuring" /\ Returns /\ Keeps(open)
    /\ UNCHANGED <<workers, item, tries, stored, run, errors, history>>
Reopens == FindsNone("close")

CloseEnd ==
    /\ pc["close"] = "closing" /\ Returns /\ Keeps(open \ {own["close"]})
    /\ UNCHANGED <<workers, item, tries, stored, run, errors, history>>

\* Any exception is printed, and _conn forgotten.
CloseFails ==
    /\ Fails("close") /\ Returns /\ Keeps(open) /\ botched' = TRUE
    /\ UNCHANGED <<workers, item, tries, stored, run, failed, outlived>>
-----------------------------------------------------------------------------
Thread ==
    \/ \E e \in Events : Begin(e)
    \/ Finds("thread") \/ FindsNone("thread") \/ Connects("thread")
    \/ Insert \/ Done \/ AttemptFails \/ ThreadEnds

Closing ==
    \/ Join \/ Finds("close") \/ Reopens \/ Connects("close")
    \/ CloseUpdate \/ CloseCommit \/ CloseEnd \/ CloseFails

Next ==
    \/ \E e \in Results : Emit(e) \/ Dispatch(e) \/ Hook(e)
    \/ \E e \in Events : Write(e) \/ Evict(e)
    \/ Thread \/ Close \/ Closing

Spec == Init /\ [][Next]_vars
-----------------------------------------------------------------------------
(* Properties.                                                              *)

\* Types; beyond them, the handler holds an event from Begin to Ends, makes no
\* more than SQLITE_WRITE_ATTEMPTS, and a transaction belongs to an open
\* connection.
TypeOK ==
    /\ posted \in [Results -> Pipeline!Fates] /\ fate \in [Events -> Worker!Fates]
    /\ {closed, gone, outlived, botched} \subseteq BOOLEAN
    /\ item \in Events \cup {Nobody} /\ (item = Nobody <=> pc["thread"] = "idle")
    /\ tries \in 0 .. Attempts - 1
    /\ pc \in [Users -> {"idle", "ensuring", "connecting", "writing", "committing",
                         "joining", "closing", "done"}]
    /\ own \in [Users -> Connections \cup {0}] /\ conn \in Connections \cup {0}
    /\ open \subseteq Connections /\ txn.of \in open \cup {0}
    /\ stored \in [Events -> Nat] /\ run \in {"none", "open", "closed"}
    /\ errors \in 0..MaxErrors /\ failed \subseteq Events

\* Whatever its attempts meet, an event that on_error was not given is in the
\* database once its handler is done, and once only; one that it was given is
\* not.  Only a thread that outlived the join of close() stores an event again:
\* close() may commit what the thread has inserted and close the connection under
\* its own commit().  That happens to one event, once.
StoredOnce ==
    /\ \A e \in Events : fate[e] = "handled" /\ e \notin failed => stored[e] >= 1
    /\ ~outlived =>
         \A e \in Events :
            stored[e] <= (IF fate[e] \in {"handling", "handled"} /\ e \notin failed THEN 1 ELSE 0)
    /\ \A e \in Events : stored[e] <= 2
    /\ Cardinality({e \in Events : stored[e] = 2}) <= 1

\* The result of an order that the post-order pipeline has handed to the hook is
\* in the database, or on its way to it, or was given to on_error, unless the
\* sink was closed: pressure on either queue never loses it.
ResultsKept ==
    \A e \in Results :
        posted[e] = "handled" =>
            \/ fate[e] \in {"pending", "handling"} \/ stored[e] >= 1 \/ e \in failed
            \/ closed /\ fate[e] = "refused"

\* A close() that returns with the thread ended and without an exception has
\* recorded the end of the run, also when the last write had lost the connection
\* (285-306); no connection is left open, and nothing changes that afterwards.
Finalised ==
    pc["close"] = "done" /\ ~outlived /\ ~botched => run = "closed" /\ conn = 0 /\ open = {}
=============================================================================
