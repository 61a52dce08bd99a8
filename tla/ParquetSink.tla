----------------------------- MODULE ParquetSink -----------------------------
(***************************************************************************)
(* The files of one asset in backtest/crawler/polymarket_crawler.py: rows  *)
(* go through an unbounded queue to a writer thread, files are flushed and *)
(* stale locks removed by threads of their own, and when the asset leaves  *)
(* the market list the poll loop closes, uploads and removes its files.    *)
(* Each path (one per type of event) has a lock in a dictionary that two   *)
(* of the threads prune.                                                   *)
(*                                                                         *)
(* A step is what a thread does between two points where another thread    *)
(* that needs no lock matters; opening a path and adding a row are two,    *)
(* which another lock of the path may part. A flush is one: of a path with *)
(* two locks the properties say nothing. Opening, writing and closing a    *)
(* file may raise: in the writer's and the flush thread that ends the      *)
(* program, in a removal the poll loop logs it and goes on.                *)
(***************************************************************************)
EXTENDS Sequences, FiniteSets, Integers

CONSTANTS Paths,
          At,             \* the paths of the rows, in the order they arrive
          None,
          FlushEvery,     \* flush_every_rows
          Attempts,       \* attempts of an upload (5 in the code)
          MaxFinals       \* bound: times the asset is removed from the list

ASSUME SinkAssumption ==
    /\ At \in Seq(Paths) /\ IsFiniteSet(Paths)
    /\ None \notin Paths \cup Nat \cup {"writer", "flush", "poll"}
    /\ FlushEvery \in Nat \ {0} /\ Attempts \in Nat \ {0} /\ MaxFinals \in Nat

VARIABLES
    s3,                   \* whether a bucket is configured
    desired,              \* the asset is in state.asset_meta
    queue, arrived,       \* write_queue, and how many rows ever entered it
    locks, held,          \* _locks, and who holds each lock
    writer, buf,          \* _writers and _buffers
    disk, stored,         \* the file of each path, and its object in the bucket
    pc, at, key, todo,    \* of each thread: step, path, lock, paths ahead
    tries, finals, crashed,
    written,              \* history: rows write_event() has taken
    past,                 \* history: paths a removal is done with
    late,                 \* history: paths opened again after that
    broken,               \* history: paths whose lock was removed in use
    kept,                 \* history: paths whose upload was given up
    failed                \* history: paths whose file a removal could not close

files == <<writer, buf, disk, stored>>
threads == <<pc, at, key, todo>>
history == <<written, past, late, broken, kept, failed>>
vars == <<s3, desired, queue, arrived, locks, held, files, threads, tries, finals,
          crashed, history>>

Rows == 1..Len(At)

\* One writer loop, one flush loop, one poll loop and one clean-up loop: each
\* waits for its own thread before it starts the next.
Lockers == {"writer", "flush", "poll"}
Threads == Lockers \cup {"tidy"}

\* As many locks as can exist at once: one per path, one per thread.
Locks == 1..(Cardinality(Paths) + Cardinality(Lockers))
NoFile == [there |-> FALSE, whole |-> FALSE, rows |-> {}]
File(rows, whole) == [there |-> TRUE, whole |-> whole, rows |-> rows]

Init ==
    /\ s3 \in BOOLEAN /\ desired = TRUE /\ queue = <<>> /\ arrived = 0
    /\ locks = [p \in Paths |-> None] /\ held = [l \in Locks |-> None]
    /\ writer = [p \in Paths |-> "none"] /\ buf = [p \in Paths |-> {}]
    /\ disk = [p \in Paths |-> NoFile] /\ stored = [p \in Paths |-> NoFile]
    /\ pc = [t \in Threads |-> "idle"] /\ at = [t \in Threads |-> None]
    /\ key = [t \in Threads |-> None] /\ todo = [t \in Threads |-> {}]
    /\ tries = 0 /\ finals = 0 /\ crashed = FALSE
    /\ written = {} /\ past = {} /\ late = {} /\ broken = {} /\ kept = {} /\ failed = {}

Moves(t, to) == pc' = [pc EXCEPT ![t] = to]
Open(p) == writer[p] # "none"
-----------------------------------------------------------------------------
(* The event loop: handlers and poll_markets_loop().                        *)

\* A handler looks the asset up under state.lock; put() on the unbounded queue
\* does not wait.
Arrive ==
    /\ ~crashed /\ desired /\ arrived < Len(At)
    /\ arrived' = arrived + 1 /\ queue' = Append(queue, arrived')
    /\ UNCHANGED <<s3, desired, locks, held, files, threads, tries, finals, crashed, history>>

\* The asset is no longer listed: it is forgotten, then its files are finalized.
Unlist ==
    /\ ~crashed /\ desired /\ pc["poll"] = "idle" /\ finals < MaxFinals
    /\ desired' = FALSE /\ finals' = finals + 1
    /\ Moves("poll", "next") /\ todo' = [todo EXCEPT !["poll"] = Paths]
    /\ UNCHANGED <<s3, queue, arrived, locks, held, files, at, key, tries, crashed, history>>

List ==
    /\ ~crashed /\ ~desired /\ pc["poll"] = "idle" /\ desired' = TRUE
    /\ UNCHANGED <<s3, queue, arrived, locks, held, files, threads, tries, finals, crashed, history>>
-----------------------------------------------------------------------------
(* The locks.                                                               *)

\* _get_lock(): the lock of the path, or a new one that no thread knows.
Unknown == {l \in Locks : /\ \A p \in Paths : locks[p] # l
                          /\ \A t \in Lockers : key[t] # l}
GetLock(t, p) ==
    \E l \in Locks :
        /\ IF locks[p] # None THEN l = locks[p] ELSE l = CHOOSE u \in Unknown : TRUE
        /\ locks' = [locks EXCEPT ![p] = l] /\ key' = [key EXCEPT ![t] = l]
        /\ at' = [at EXCEPT ![t] = p] /\ Moves(t, "locking")

\* An entry goes while a thread has taken the lock from the dictionary.
Prunes(p) ==
    /\ locks' = [locks EXCEPT ![p] = None]
    /\ broken' = IF locks[p] # None /\ \E t \in Lockers : key[t] = locks[p]
                 THEN broken \cup {p} ELSE broken

\* "with lock".  Fault: the lock is not waited for.
EntersAnyway(t) == held' = [held EXCEPT ![key[t]] = t]
Takes(t) == held[key[t]] = None /\ held' = [held EXCEPT ![key[t]] = t]

Leaves(t, to) ==
    /\ held' = [held EXCEPT ![key[t]] = None]
    /\ key' = [key EXCEPT ![t] = None] /\ Moves(t, to)
-----------------------------------------------------------------------------
(* write_event(), the thread of writer_loop().                              *)

WriteLookup ==
    /\ ~crashed /\ pc["writer"] = "idle" /\ queue # <<>>
    /\ GetLock("writer", At[Head(queue)])
    /\ UNCHANGED <<s3, desired, queue, arrived, held, files, todo, tries, finals, crashed, history>>

\* _open_writer_if_needed(): a new ParquetWriter truncates the file.
WriteOpen ==
    LET p == at["writer"] IN
    /\ ~crashed /\ pc["writer"] = "locking" /\ Takes("writer") /\ Moves("writer", "inside")
    /\ IF Open(p) THEN UNCHANGED <<writer, buf, disk, late>>
       ELSE /\ writer' = [writer EXCEPT ![p] = "linked"] /\ buf' = [buf EXCEPT ![p] = {}]
            /\ disk' = [disk EXCEPT ![p] = File({}, FALSE)]
            /\ late' = IF p \in past THEN late \cup {p} ELSE late
    /\ UNCHANGED <<s3, desired, queue, arrived, locks, stored, at, key, todo, tries, finals,
                   crashed, written, past, broken, kept, failed>>

\* Rows reach the file at the path unless that file has been removed meanwhile.
Flushed(p, rows) ==
    IF writer[p] = "linked" THEN [disk EXCEPT ![p].rows = @ \cup rows] ELSE disk

\* Fault: a full buffer is cleared and not written.
DropsFull(p, rows) ==
    IF Cardinality(rows) < FlushEvery
    THEN buf' = [buf EXCEPT ![p] = rows] /\ UNCHANGED disk
    ELSE buf' = [buf EXCEPT ![p] = {}] /\ UNCHANGED disk
Buffers(p, rows) ==
    IF Cardinality(rows) < FlushEvery
    THEN buf' = [buf EXCEPT ![p] = rows] /\ UNCHANGED disk
    ELSE buf' = [buf EXCEPT ![p] = {}] /\ disk' = Flushed(p, rows)

WriteAppend ==
    LET p == at["writer"]  r == Head(queue) IN
    /\ ~crashed /\ pc["writer"] = "inside" /\ Open(p)
    /\ Buffers(p, buf[p] \cup {r})
    /\ Leaves("writer", "idle") /\ queue' = Tail(queue) /\ written' = written \cup {r}
    /\ UNCHANGED <<s3, desired, arrived, locks, writer, stored, at, todo, tries, finals, crashed,
                   past, late, broken, kept, failed>>

\* The row's table or its file cannot be made; the file may be empty by then.
OpenFails ==
    LET p == at["writer"] IN
    /\ ~crashed /\ pc["writer"] = "locking" /\ held[key["writer"]] = None /\ ~Open(p)
    /\ disk' \in {disk, [disk EXCEPT ![p] = File({}, FALSE)]}
    /\ late' = IF p \in past THEN late \cup {p} ELSE late
    /\ crashed' = TRUE
    /\ UNCHANGED <<s3, desired, queue, arrived, locks, held, writer, buf, stored, threads, tries,
                   finals, written, past, broken, kept, failed>>

\* The buffer is gone (KeyError), or is full and write_table() raises.  As in
\* OpenFails, that ends the writer loop and with it main().
WriteFails ==
    LET p == at["writer"]  r == Head(queue) IN
    /\ ~crashed /\ pc["writer"] = "inside" /\ crashed' = TRUE
    /\ Open(p) => Cardinality(buf[p] \cup {r}) >= FlushEvery
    /\ UNCHANGED <<s3, desired, queue, arrived, locks, held, files, threads, tries, finals, history>>
-----------------------------------------------------------------------------
(* flush_all(), the thread of flush_loop().                                 *)

FlushStart ==
    /\ ~crashed /\ pc["flush"] = "idle" /\ \E p \in Paths : Open(p)
    /\ todo' = [todo EXCEPT !["flush"] = {p \in Paths : Open(p)}] /\ Moves("flush", "next")
    /\ UNCHANGED <<s3, desired, queue, arrived, locks, held, files, at, key, tries, finals,
                   crashed, history>>

FlushLookup(p) ==
    /\ ~crashed /\ pc["flush"] = "next" /\ p \in todo["flush"] /\ GetLock("flush", p)
    /\ todo' = [todo EXCEPT !["flush"] = @ \ {p}]
    /\ UNCHANGED <<s3, desired, queue, arrived, held, files, tries, finals, crashed, history>>

Enter(t) ==
    /\ ~crashed /\ t # "writer" /\ pc[t] = "locking"
    /\ Takes(t) /\ Moves(t, "inside")
    /\ UNCHANGED <<s3, desired, queue, arrived, locks, files, at, key, todo, tries, finals,
                   crashed, history>>

FlushPath ==
    LET p == at["flush"] IN
    /\ ~crashed /\ pc["flush"] = "inside" /\ Leaves("flush", "next")
    /\ disk' = IF Open(p) THEN Flushed(p, buf[p]) ELSE disk
    /\ buf' = [buf EXCEPT ![p] = {}]
    /\ UNCHANGED <<s3, desired, queue, arrived, locks, writer, stored, at, todo, tries, finals,
                   crashed, history>>

\* write_table() raises: the flush loop ends, and with it main().
FlushFails ==
    LET p == at["flush"] IN
    /\ ~crashed /\ pc["flush"] = "inside" /\ Open(p) /\ buf[p] # {} /\ crashed' = TRUE
    /\ UNCHANGED <<s3, desired, queue, arrived, locks, held, files, threads, tries, finals, history>>

FlushEnd ==
    /\ ~crashed /\ pc["flush"] = "next" /\ todo["flush"] = {} /\ Moves("flush", "idle")
    /\ UNCHANGED <<s3, desired, queue, arrived, locks, held, files, at, key, todo, tries,
                   finals, crashed, history>>
-----------------------------------------------------------------------------
(* finalize_asset(), a thread of poll_markets_loop().                       *)

\* On to the next path, which is done with.
Passes(p, to) == Moves("poll", to) /\ past' = past \cup {p}

FinalizeSkip(p) ==
    /\ ~crashed /\ pc["poll"] = "next" /\ p \in todo["poll"]
    /\ ~Open(p) /\ ~disk[p].there
    /\ Passes(p, "next") /\ todo' = [todo EXCEPT !["poll"] = @ \ {p}]
    /\ UNCHANGED <<s3, desired, queue, arrived, locks, held, files, at, key, tries, finals,
                   crashed, written, late, broken, kept, failed>>

FinalizeLookup(p) ==
    /\ ~crashed /\ pc["poll"] = "next" /\ p \in todo["poll"]
    /\ Open(p) \/ disk[p].there
    /\ GetLock("poll", p) /\ todo' = [todo EXCEPT !["poll"] = @ \ {p}]
    /\ UNCHANGED <<s3, desired, queue, arrived, held, files, tries, finals, crashed, history>>

\* The rest of the buffer.  Fault: the writer is closed without it.
LosesRest(p) == disk[p].rows
Rest(p) == disk[p].rows \cup buf[p]

FinalizeClose ==
    LET p == at["poll"] IN
    /\ ~crashed /\ pc["poll"] = "inside" /\ Leaves("poll", "closed") /\ past' = past \cup {p}
    /\ disk' = IF writer[p] = "linked" THEN [disk EXCEPT ![p] = File(Rest(p), TRUE)] ELSE disk
    /\ writer' = [writer EXCEPT ![p] = "none"] /\ buf' = [buf EXCEPT ![p] = {}]
    /\ UNCHANGED <<s3, desired, queue, arrived, locks, stored, at, todo, tries, finals, crashed,
                   written, late, broken, kept, failed>>

\* write_table() or close() raises when the writer and the buffer are out of their
\* dictionaries: the rest of the rows is in the file or nowhere, and the file has a
\* footer or not.  The poll loop logs it; the other paths stay open.
FinalizeFails ==
    LET p == at["poll"] IN
    /\ ~crashed /\ pc["poll"] = "inside" /\ Open(p) /\ Leaves("poll", "idle")
    /\ \E rows \in {disk[p].rows, Rest(p)}, whole \in BOOLEAN :
          disk' = IF writer[p] = "linked" THEN [disk EXCEPT ![p] = File(rows, whole)] ELSE disk
    /\ writer' = [writer EXCEPT ![p] = "none"] /\ buf' = [buf EXCEPT ![p] = {}]
    /\ past' = past \cup {p} /\ failed' = failed \cup {p}
    /\ UNCHANGED <<s3, desired, queue, arrived, locks, stored, at, todo, tries, finals, crashed,
                   written, late, broken, kept>>

\* It raised for an asset that left the list together with this one.
FinalizeNever ==
    /\ ~crashed /\ pc["poll"] = "next" /\ todo["poll"] = Paths /\ Moves("poll", "idle")
    /\ UNCHANGED <<s3, desired, queue, arrived, locks, held, files, at, key, todo, tries, finals,
                   crashed, history>>

FinalizeForget ==
    LET p == at["poll"] IN
    /\ ~crashed /\ pc["poll"] = "closed" /\ Moves("poll", "checking") /\ Prunes(p)
    /\ UNCHANGED <<s3, desired, queue, arrived, held, files, at, key, todo, tries, finals,
                   crashed, written, past, late, kept, failed>>

FinalizeCheck ==
    /\ ~crashed /\ pc["poll"] = "checking"
    /\ Moves("poll", IF ~disk[at["poll"]].there THEN "next"
                     ELSE IF s3 THEN "uploading" ELSE "removing")
    /\ UNCHANGED <<s3, desired, queue, arrived, locks, held, files, at, key, todo, tries,
                   finals, crashed, history>>

Upload ==
    LET p == at["poll"] IN
    /\ ~crashed /\ pc["poll"] = "uploading" /\ Moves("poll", "removing")
    /\ stored' = [stored EXCEPT ![p] = disk[p]] /\ tries' = 0
    /\ UNCHANGED <<s3, desired, queue, arrived, locks, held, writer, buf, disk, at, key, todo,
                   finals, crashed, history>>

\* A file whose upload was given up stays where it is.
GivenUp == "next"

UploadFails ==
    LET p == at["poll"] IN
    /\ ~crashed /\ pc["poll"] = "uploading"
    /\ IF tries + 1 < Attempts THEN tries' = tries + 1 /\ UNCHANGED <<pc, kept>>
       ELSE tries' = 0 /\ Moves("poll", GivenUp) /\ kept' = kept \cup {p}
    /\ UNCHANGED <<s3, desired, queue, arrived, locks, held, files, at, key, todo, finals,
                   crashed, written, past, late, broken, failed>>

\* os.remove(): a writer that has the file open goes on with one nobody sees.
Remove ==
    LET p == at["poll"] IN
    /\ ~crashed /\ pc["poll"] = "removing" /\ Moves("poll", "next")
    /\ disk' = [disk EXCEPT ![p] = NoFile]
    /\ writer' = [writer EXCEPT ![p] = IF @ = "linked" THEN "unlinked" ELSE @]
    /\ UNCHANGED <<s3, desired, queue, arrived, locks, held, buf, stored, at, key, todo, tries,
                   finals, crashed, history>>

FinalizeEnd ==
    /\ ~crashed /\ pc["poll"] = "next" /\ todo["poll"] = {} /\ Moves("poll", "idle")
    /\ UNCHANGED <<s3, desired, queue, arrived, locks, held, files, at, key, todo, tries,
                   finals, crashed, history>>
-----------------------------------------------------------------------------
(* cleanup_stale_locks(), the thread of lock_cleanup_loop().                *)

Listed == {p \in Paths : locks[p] # None}

TidyStart ==
    /\ ~crashed /\ pc["tidy"] = "idle" /\ Moves("tidy", "reading")
    /\ todo' = [todo EXCEPT !["tidy"] = Listed]
    /\ UNCHANGED <<s3, desired, queue, arrived, locks, held, files, at, key, tries, finals,
                   crashed, history>>

\* A dictionary that changed its size while it was read: RuntimeError.
TidyRead ==
    /\ ~crashed /\ pc["tidy"] = "reading" /\ Moves("tidy", "next")
    /\ todo' = [todo EXCEPT !["tidy"] = {p \in Listed : ~Open(p)}]
    /\ crashed' = (Cardinality(Listed) # Cardinality(todo["tidy"]))
    /\ UNCHANGED <<s3, desired, queue, arrived, locks, held, files, at, key, tries, finals, history>>

\* An entry that is gone: KeyError.  Both end the loop and with it main().
TidyDelete(p) ==
    /\ ~crashed /\ pc["tidy"] = "next" /\ p \in todo["tidy"]
    /\ todo' = [todo EXCEPT !["tidy"] = @ \ {p}]
    /\ IF p \in Listed THEN Prunes(p) /\ UNCHANGED crashed
       ELSE crashed' = TRUE /\ UNCHANGED <<locks, broken>>
    /\ UNCHANGED <<s3, desired, queue, arrived, held, files, pc, at, key, tries, finals, written,
                   past, late, kept, failed>>

TidyEnd ==
    /\ ~crashed /\ pc["tidy"] = "next" /\ todo["tidy"] = {} /\ Moves("tidy", "idle")
    /\ UNCHANGED <<s3, desired, queue, arrived, locks, held, files, at, key, todo, tries,
                   finals, crashed, history>>
-----------------------------------------------------------------------------
Write == WriteLookup \/ WriteOpen \/ OpenFails \/ WriteAppend \/ WriteFails
Flush == FlushStart \/ FlushPath \/ FlushFails \/ FlushEnd \/ \E p \in Paths : FlushLookup(p)
Finalize ==
    \/ FinalizeClose \/ FinalizeFails \/ FinalizeNever \/ FinalizeForget \/ FinalizeCheck
    \/ Upload \/ UploadFails \/ Remove \/ FinalizeEnd
    \/ \E p \in Paths : FinalizeSkip(p) \/ FinalizeLookup(p)
Tidy == TidyStart \/ TidyRead \/ TidyEnd \/ \E p \in Paths : TidyDelete(p)

Next ==
    \/ Arrive \/ Unlist \/ List \/ Write \/ Flush \/ Finalize \/ Tidy
    \/ \E t \in Lockers : Enter(t)

Spec == Init /\ [][Next]_vars
-----------------------------------------------------------------------------
(* Properties.                                                              *)

\* The locks of _get_lock() do their work as long as none is removed from the
\* dictionary while a thread uses it: no two threads work on a path at once,
\* and a row finds the writer it opened.
LocksWork ==
    \A p \in Paths \ broken :
       /\ Cardinality({t \in Lockers : at[t] = p /\ pc[t] = "inside"}) <= 1
       /\ at["writer"] = p /\ pc["writer"] = "inside" => Open(p)

\* A path used as the code expects: its lock never removed in use, no row after its
\* asset was finalized, and its file closed without an error.
Calm(p) == p \notin broken \cup late \cup failed

\* The rows of a path that can still be read: those of complete files and, while the
\* program runs, of the open file and the buffer.
Readable(f) == IF f.whole THEN f.rows ELSE {}
Safe(p) ==
    Readable(disk[p]) \cup Readable(stored[p])
        \cup (IF Open(p) /\ ~crashed THEN disk[p].rows \cup buf[p] ELSE {})

\* Rows that write_event() took are not lost while the program runs, whatever
\* flushes, uploads that fail and removals happen and whichever other path a removal
\* fails at; a crash takes none that a removal was done with.  Without a bucket a
\* removal deletes the only copy, so it holds till then.
RowsKept ==
    \A r \in written :
       /\ Calm(At[r])
       /\ IF At[r] \in past THEN s3 ELSE ~crashed
       => r \in Safe(At[r])

\* finalize_asset() leaves complete files of every path it got to and could close:
\* in the bucket, or on disk when the upload was given up.
Delivered ==
    \A p \in past :
       Calm(p) /\ s3 /\ pc["poll"] = "idle" /\ ~desired =>
          \E f \in {stored[p]} \cup (IF p \in kept THEN {disk[p]} ELSE {}) :
             /\ {r \in written : At[r] = p} \subseteq f.rows
             /\ f.there => f.whole
=============================================================================
