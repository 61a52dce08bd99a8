-------------------------- MODULE StrategySessions --------------------------
(***************************************************************************)
(* mcp/session/strategy_manager.py and the run loop of base/strategy.py:   *)
(* the MCP server creates, watches, pauses, resumes and stops strategies   *)
(* that run in threads of their own.                                       *)
(*                                                                         *)
(* call_tool runs a tool handler to its end on the server's event loop and *)
(* cleanup() follows the last one, so the manager's callers are one        *)
(* process, op; it interleaves with every strategy thread between any two  *)
(* of its steps.  _instance_lock is held across steps by cleanup() only.   *)
(* Time is abstract: a join() ends when the thread has ended or, at any    *)
(* moment, by its timeout; a cached status may expire at any moment.       *)
(* Init, Next and the like are named for the sessions: MarketMaking_proofs *)
(* extends this module and MarketMaking.                                   *)
(***************************************************************************)
EXTENDS Integers, FiniteSets, Functions

CONSTANTS Sessions,    \* the sessions that may be created, by id
          CacheMax,    \* STATUS_CACHE_MAX_SIZE
          NoSession    \* op is not about one session

ASSUME SessionAssumption ==
    /\ IsFiniteSet(Sessions) /\ NoSession \notin Sessions
    /\ CacheMax \in Nat \ {0}

VARIABLES sessions,    \* registered: the keys of _sessions
          status,      \* StrategySession.status
          running,     \* Strategy.is_running
          pc,          \* where the strategy thread is
          cache,       \* _status_cache: the "status" field of each entry
          orphaned,    \* the keys of _orphaned_sessions
          op,          \* the manager call in progress
          ahead,       \* cleanup(): sessions still to be stopped
          failed,      \* cleanup(): failed_sessions
          closed,      \* history: stopped by stop_strategy(), not paused since
          excused      \* history: running by word of resume_strategy(), or reported
                       \* before registration

book == <<sessions, orphaned, ahead, failed>>
history == <<closed, excused>>
sessionVars == <<pc, status, running, cache, book, op, history>>

Idle == [at |-> "idle", on |-> NoSession, saw |-> "none"]

SessionsInit ==
    /\ sessions = {} /\ orphaned = {} /\ ahead = {} /\ failed = {}
    /\ status = [s \in Sessions |-> "running"]
    /\ running = [s \in Sessions |-> FALSE]
    /\ pc = [s \in Sessions |-> "none"]
    /\ cache = <<>>
    /\ op = Idle
    /\ closed = {} /\ excused = {}

Alive(s) == pc[s] \notin {"none", "ended"}

\* One manager call: it starts when none is in progress, and goes on from there.
Begins(at, s) == op = Idle /\ op' = [Idle EXCEPT !.at = at, !.on = s]
Goes(s, from, to) == op.at = from /\ op.on = s /\ op' = [op EXCEPT !.at = to]
Returns(s, from) == op.at = from /\ op.on = s /\ op' = Idle

Moves(s, from, to) == pc[s] = from /\ pc' = [pc EXCEPT ![s] = to]

\* Only the loop reads the flag: it is kept while the thread is in it.
Flag(s, b) == running' = [running EXCEPT ![s] = b /\ pc[s] = "loop"]
Marks(s, st) == status' = [status EXCEPT ![s] = st]

\* Fault: the entry is left in the cache.
KeepCached(s) == UNCHANGED cache
ClearCached(s) == cache' = Restrict(cache, DOMAIN cache \ {s})

\* join(timeout) of a thread that goes on.  Fault: without a timeout.
JoinForever(s) == Alive(s) /\ FALSE
TimesOut(s) == Alive(s)

LockFree == op.at \notin {"cleanup", "cleanupJoin", "cleanupForce"}
-----------------------------------------------------------------------------
(* The strategy thread: Strategy.run(), then the end of _run_strategy().    *)

\* setup(): market or tokens are missing, or an exception.
SetupFails(s) ==
    /\ Moves(s, "setup", "left")
    /\ UNCHANGED <<status, running, cache, book, op, history>>

\* is_running is set after setup(), whatever stop() or a pause made of it before.
Start(s) ==
    /\ Moves(s, "setup", "loop")
    /\ running' = [running EXCEPT ![s] = TRUE]
    /\ UNCHANGED <<status, cache, book, op, history>>

\* The while condition finds the flag cleared.  Fault: only if the session has
\* been marked as well.
SeesMark(s) == ~running[s] /\ status[s] # "running"
SeesFlag(s) == ~running[s]

LoopStopped(s) ==
    /\ SeesFlag(s)
    /\ Moves(s, "loop", "cleanup")
    /\ UNCHANGED <<status, running, cache, book, op, history>>

\* The loop ends by the duration, or by an exception of on_tick(), and the finally
\* block clears the flag.
LoopEnd(s) ==
    /\ Moves(s, "loop", "cleanup")
    /\ Flag(s, FALSE)
    /\ UNCHANGED <<status, cache, book, op, history>>

\* Strategy.cleanup() cancels, liquidates, waits and stops the client.  What
\* on_tick() or cleanup() itself raised leaves run() with it.
StrategyCleanup(s) ==
    /\ Moves(s, "cleanup", "left")
    /\ UNCHANGED <<status, running, cache, book, op, history>>

\* run() returned, or raised.  Fault: only a failure is marked.
MarkFailure(s) == \E st \in {status[s], "error"} : Marks(s, st)
MarkOutcome(s) == \E st \in {"stopped", "error"} : Marks(s, st)

\* The last lock section of _run_strategy().
Report(s) ==
    /\ LockFree
    /\ Moves(s, "left", "reported")
    /\ IF s \in sessions
       THEN MarkOutcome(s) /\ excused' = excused \ {s}
       ELSE UNCHANGED status /\ excused' = excused \cup {s}
    /\ ClearCached(s)
    /\ UNCHANGED <<running, book, op, closed>>

\* The thread is alive until it has left _run_strategy().
End(s) ==
    /\ Moves(s, "reported", "ended")
    /\ UNCHANGED <<status, running, cache, book, op, history>>
-----------------------------------------------------------------------------
(* create, pause, resume *)

\* create_session(): the thread starts before the session is registered.
Create(s) ==
    /\ Moves(s, "none", "setup")
    /\ Begins("register", s)
    /\ UNCHANGED <<status, running, cache, book, history>>

Register(s) ==
    /\ Returns(s, "register")
    /\ sessions' = sessions \cup {s}
    /\ UNCHANGED <<pc, status, running, cache, orphaned, ahead, failed, history>>

Pause(s) ==
    /\ s \in sessions
    /\ Begins("pause", s)
    /\ Flag(s, FALSE)
    /\ UNCHANGED <<pc, status, cache, book, history>>

PauseMark(s) ==
    /\ Returns(s, "pause")
    /\ Marks(s, "paused")
    /\ closed' = closed \ {s}
    /\ excused' = excused \ {s}
    /\ UNCHANGED <<pc, running, cache, book>>

\* Refused unless the status is PAUSED.
Resume(s) ==
    /\ s \in sessions /\ status[s] = "paused"
    /\ Begins("resume", s)
    /\ Flag(s, TRUE)
    /\ UNCHANGED <<pc, status, cache, book, history>>

ResumeMark(s) ==
    /\ Returns(s, "resume")
    /\ Marks(s, "running")
    /\ excused' = excused \cup {s}
    /\ UNCHANGED <<pc, running, cache, book, closed>>
-----------------------------------------------------------------------------
(* stop_strategy(): graceful, then forced, then the session is closed *)

Stop(s) ==
    /\ s \in sessions
    /\ Begins(IF Alive(s) THEN "join" ELSE "clear", s)
    /\ Flag(s, FALSE)
    /\ UNCHANGED <<pc, status, cache, book, history>>

StopJoined(s) ==
    /\ ~Alive(s)
    /\ Goes(s, "join", "clear") \/ Goes(s, "force", "clear")
    /\ UNCHANGED <<pc, status, running, cache, book, history>>

StopForce(s) ==
    /\ TimesOut(s)
    /\ Goes(s, "join", "force")
    /\ Flag(s, FALSE)
    /\ UNCHANGED <<pc, status, cache, book, history>>

StopOrphan(s) ==
    /\ TimesOut(s)
    /\ Goes(s, "force", "clear")
    /\ orphaned' = orphaned \cup {s}
    /\ UNCHANGED <<pc, status, running, cache, sessions, ahead, failed, history>>

StopClear(s) ==
    /\ Goes(s, "clear", "close")
    /\ ClearCached(s)
    /\ UNCHANGED <<pc, status, running, book, history>>

StopClose(s) ==
    /\ Returns(s, "close")
    /\ Marks(s, "stopped")
    /\ closed' = closed \cup {s}
    /\ excused' = excused \ {s}
    /\ UNCHANGED <<pc, running, cache, book>>
-----------------------------------------------------------------------------
(* get_status(): a hit returns at once; a miss computes outside the lock *)

\* _compute_status() first calls the strategy's refresh_state(), as get_metrics()
\* does.  That writes the snapshots the strategy thread decides from, none of this
\* module's variables: MarketMaking has it, as Query.
StatusCompute(s) ==
    /\ s \in sessions /\ op = Idle
    /\ op' = [at |-> "store", on |-> s, saw |-> status[s]]
    /\ UNCHANGED <<pc, status, running, cache, book, history>>

\* Fault: the size of the cache is not checked before the entry is added.
RoomAlways(kept) == kept \subseteq Sessions
Room(kept) == Cardinality(kept) < CacheMax

\* _evict_stale_cache_entries(): the expired entries go; what is over the limit
\* would go too, but the limit is checked before an entry is added.
StatusStore(s) ==
    /\ Returns(s, "store")
    /\ \E kept \in SUBSET DOMAIN cache :
          cache' = IF Room(kept)
                   THEN [t \in kept \cup {s} |-> IF t = s THEN op.saw ELSE cache[t]]
                   ELSE Restrict(cache, kept)
    /\ UNCHANGED <<pc, status, running, book, history>>
-----------------------------------------------------------------------------
(* cleanup(): the sessions one after the other, with the lock held *)

CleanupBegin ==
    /\ Begins("cleanup", NoSession)
    /\ ahead' = sessions
    /\ UNCHANGED <<pc, status, running, cache, sessions, orphaned, failed, history>>

CleanupStop(s) ==
    /\ op.at = "cleanup" /\ s \in ahead
    /\ ahead' = ahead \ {s}
    /\ Flag(s, FALSE)
    /\ op' = IF Alive(s) THEN [op EXCEPT !.at = "cleanupJoin", !.on = s] ELSE op
    /\ UNCHANGED <<pc, status, cache, sessions, orphaned, failed, history>>

CleanupJoined(s) ==
    /\ ~Alive(s)
    /\ op.on = s /\ op.at \in {"cleanupJoin", "cleanupForce"}
    /\ op' = [op EXCEPT !.at = "cleanup", !.on = NoSession]
    /\ UNCHANGED <<pc, status, running, cache, book, history>>

CleanupForce(s) ==
    /\ TimesOut(s)
    /\ Goes(s, "cleanupJoin", "cleanupForce")
    /\ Flag(s, FALSE)
    /\ UNCHANGED <<pc, status, cache, book, history>>

Failed(s) == failed' = failed \cup {s}

CleanupOrphan(s) ==
    /\ TimesOut(s)
    /\ op.at = "cleanupForce" /\ op.on = s
    /\ op' = [op EXCEPT !.at = "cleanup", !.on = NoSession]
    /\ orphaned' = orphaned \cup {s}
    /\ Failed(s)
    /\ UNCHANGED <<pc, status, running, cache, sessions, ahead, history>>

CleanupEnd ==
    /\ op.at = "cleanup" /\ ahead = {}
    /\ op' = [op EXCEPT !.at = "exited"]
    /\ sessions' = sessions \cap failed
    /\ cache' = Restrict(cache, DOMAIN cache \ (sessions \ failed))
    /\ UNCHANGED <<pc, status, running, orphaned, ahead, failed, history>>
-----------------------------------------------------------------------------
ThreadStep(s) ==
    \/ SetupFails(s) \/ Start(s) \/ LoopStopped(s)
    \/ StrategyCleanup(s) \/ Report(s) \/ End(s)

CallBegin(s) == Create(s) \/ Pause(s) \/ Resume(s) \/ Stop(s) \/ StatusCompute(s)

CallStep(s) ==
    \/ Register(s) \/ PauseMark(s) \/ ResumeMark(s)
    \/ StopJoined(s) \/ StopForce(s) \/ StopOrphan(s) \/ StopClear(s) \/ StopClose(s)
    \/ StatusStore(s)
    \/ CleanupStop(s) \/ CleanupJoined(s) \/ CleanupForce(s) \/ CleanupOrphan(s)

CallGoesOn == CleanupEnd \/ \E s \in Sessions : CallStep(s)

SessionsNext ==
    \/ \E s \in Sessions : ThreadStep(s) \/ LoopEnd(s) \/ CallBegin(s)
    \/ CleanupBegin
    \/ CallGoesOn

SessionsSpec == SessionsInit /\ [][SessionsNext]_sessionVars

\* Threads are scheduled and their network calls return; a join() has a timeout.
\* Nobody has to call the manager, and on_tick() need not end a strategy.
SessionsFairSpec ==
    /\ SessionsSpec
    /\ \A s \in Sessions : WF_sessionVars(ThreadStep(s))
    /\ WF_sessionVars(CallGoesOn)
-----------------------------------------------------------------------------
(* Properties *)

ThreadStates == {"none", "setup", "loop", "cleanup", "left",
                 "reported", "ended"}

OpStates == {"idle", "register", "pause", "resume", "join", "force", "clear",
             "close", "store", "cleanup", "cleanupJoin", "cleanupForce", "exited"}

Statuses == {"running", "paused", "stopped", "error"}

\* Types, and the bound of the status cache.
SessionsTypeOK ==
    /\ sessions \subseteq Sessions /\ orphaned \subseteq Sessions
    /\ ahead \subseteq Sessions /\ failed \subseteq Sessions
    /\ status \in [Sessions -> Statuses]
    /\ running \in [Sessions -> BOOLEAN]
    /\ pc \in [Sessions -> ThreadStates]
    /\ DOMAIN cache \subseteq Sessions /\ Range(cache) \subseteq Statuses
    /\ Cardinality(DOMAIN cache) <= CacheMax
    /\ op \in [at : OpStates, on : Sessions \cup {NoSession}, saw : Statuses \cup {"none"}]
    /\ closed \subseteq Sessions /\ excused \subseteq Sessions

\* After stop_strategy() has returned, neither the session nor its cached status
\* says running or paused, although the thread may still be ending, until
\* somebody pauses the session again.
StopSticks ==
    \A s \in Sessions : s \in closed =>
        /\ status[s] \in {"stopped", "error"}
        /\ s \in DOMAIN cache => cache[s] \in {"stopped", "error"}

\* A registered session that says running has a live thread, with two exceptions:
\* the thread ended before create_session() registered the session, and
\* resume_strategy() was called for it.
RunningIsAlive ==
    \A s \in sessions :
        status[s] = "running" => Alive(s) \/ s \in excused

\* A thread in its loop whose flag is cleared ends, cleanup included, unless
\* resume_strategy() raises the flag before the thread has looked at it.
StopHeard ==
    \A s \in Sessions :
        (pc[s] = "loop" /\ ~running[s]) ~> (pc[s] = "ended" \/ running[s])

\* cleanup() ends although it holds the lock the ending threads wait for.
CleanupEnds == (op.at = "cleanup") ~> (op.at = "exited")
=============================================================================
