-------------------------- MODULE ParquetSink_proofs --------------------------
(* Theorems about ParquetSink, for any paths, rows and number of attempts and *)
(* removals, with a bucket and without.                                       *)
EXTENDS ParquetSink, FiniteSetTheorems, SequenceTheorems, TLAPS

FileType == [there : BOOLEAN, whole : BOOLEAN, rows : SUBSET Rows]
Steps == {"idle", "next", "reading", "locking", "inside", "closed", "checking", "uploading",
          "removing"}

\* The types of what the threads share and of where they are.
ITypes ==
    /\ s3 \in BOOLEAN /\ finals \in Nat /\ queue \in Seq(Rows) /\ arrived \in 0..Len(At)
    /\ writer \in [Paths -> {"none", "linked", "unlinked"}] /\ buf \in [Paths -> SUBSET Rows]
    /\ disk \in [Paths -> FileType] /\ stored \in [Paths -> FileType]
    /\ pc \in [Threads -> Steps] /\ at \in [Threads -> Paths \cup {None}]
    /\ key \in [Threads -> Locks \cup {None}] /\ todo \in [Threads -> SUBSET Paths]
    /\ held \in [Locks -> Lockers \cup {None}] /\ locks \in [Paths -> Locks \cup {None}]
    /\ past \subseteq Paths /\ written \subseteq Rows

Using(t) == pc[t] \in {"locking", "inside"}
Ahead == {"closed", "checking", "uploading", "removing"}

\* A thread that uses a lock has it from the dictionary, and it is still there unless
\* it was removed in use; inside is who holds it.
ILocks ==
    /\ \A t \in Lockers : Using(t) => at[t] \in Paths /\ key[t] \in Locks
    /\ \A t \in Lockers : pc[t] = "inside" => held[key[t]] = t
    /\ \A t \in Lockers : Using(t) /\ at[t] \notin broken => locks[at[t]] = key[t]

\* The removal is at a path until it is done with it; the writer thread is at the path
\* of the first row of the queue.
IPlaces ==
    /\ pc["poll"] \in Ahead => at["poll"] \in Paths
    /\ Using("writer") => queue # <<>> /\ at["writer"] = At[Head(queue)]

\* What a row and a lock are.
LEMMA RowsAndLocks ==
    /\ \A r \in Rows : At[r] \in Paths
    /\ None \notin Locks /\ None \notin Lockers /\ None \notin Paths
    /\ Lockers \subseteq Threads
<1>1. Len(At) \in Nat /\ \A r \in 1..Len(At) : At[r] \in Paths
  BY SinkAssumption
<1>2. None \notin Locks
  BY SinkAssumption DEF Locks
<1>3. QED
  BY <1>1, <1>2, SinkAssumption DEF Rows, Lockers, Threads

\* The queue after its head is taken, or a row is added.
LEMMA QueueType ==
    ASSUME ITypes, queue # <<>>
    PROVE  /\ Head(queue) \in Rows /\ At[Head(queue)] \in Paths /\ Tail(queue) \in Seq(Rows)
           /\ \A r \in Rows : Append(queue, r) \in Seq(Rows) /\ Head(Append(queue, r)) = Head(queue)
                              /\ Append(queue, r) # <<>>
<1>1. queue \in Seq(Rows)
  BY DEF ITypes
<1>2. Head(queue) \in Rows /\ Tail(queue) \in Seq(Rows)
  BY <1>1, HeadTailProperties
<1>3. Len(queue) \in Nat \ {0}
  BY <1>1, EmptySeq
<1>4. ASSUME NEW r \in Rows
      PROVE  Append(queue, r) \in Seq(Rows) /\ Head(Append(queue, r)) = Head(queue) /\ Append(queue, r) # <<>>
  BY <1>1, <1>3
<1>5. QED
  BY <1>2, <1>4, RowsAndLocks

LEMMA InitTypes == Init => ITypes /\ ILocks /\ IPlaces
<1>1. NoFile \in FileType
  BY DEF NoFile, FileType
<1>2. 0 \in 0..Len(At)
  BY SinkAssumption
<1>3. QED
  BY <1>1, <1>2 DEF Init, ITypes, ILocks, IPlaces, Using, Ahead, Threads, Lockers, Steps

\* What getting, taking and leaving a lock do to the types.
LEMMA GetLockType ==
    ASSUME ITypes, NEW t \in Lockers, NEW p \in Paths, GetLock(t, p)
    PROVE  /\ locks' \in [Paths -> Locks \cup {None}] /\ key' \in [Threads -> Locks \cup {None}]
           /\ at' \in [Threads -> Paths \cup {None}] /\ pc' \in [Threads -> Steps]
BY RowsAndLocks DEF GetLock, Moves, ITypes, Steps

LEMMA LeavesType ==
    ASSUME ITypes, NEW t \in Lockers, NEW to \in Steps, Leaves(t, to)
    PROVE  /\ held' \in [Locks -> Lockers \cup {None}] /\ key' \in [Threads -> Locks \cup {None}]
           /\ pc' \in [Threads -> Steps]
BY RowsAndLocks DEF Leaves, Moves, ITypes

LEMMA TakesType ==
    ASSUME ITypes, NEW t \in Lockers, Takes(t), Moves(t, "inside")
    PROVE  held' \in [Locks -> Lockers \cup {None}] /\ pc' \in [Threads -> Steps]
BY RowsAndLocks DEF Takes, Moves, ITypes, Steps

LEMMA FlushedType ==
    ASSUME ITypes, NEW p \in Paths, NEW rows \in SUBSET Rows
    PROVE  /\ Flushed(p, rows) \in [Paths -> FileType]
           /\ \A q \in Paths : q # p => Flushed(p, rows)[q] = disk[q]
           /\ Flushed(p, rows)[p].there = disk[p].there /\ Flushed(p, rows)[p].whole = disk[p].whole
           /\ Flushed(p, rows)[p].rows = IF writer[p] = "linked" THEN disk[p].rows \cup rows ELSE disk[p].rows
<1>1. disk \in [Paths -> FileType] /\ disk[p] \in FileType
  BY DEF ITypes
<1>2. CASE writer[p] = "linked"
  <2> DEFINE f == [disk[p] EXCEPT !.rows = @ \cup rows]
  <2>1. f \in FileType /\ f.there = disk[p].there /\ f.whole = disk[p].whole /\ f.rows = disk[p].rows \cup rows
    BY <1>1 DEF FileType
  <2>2. Flushed(p, rows) = [disk EXCEPT ![p] = f]
    BY <1>1, <1>2 DEF Flushed
  <2> HIDE DEF f
  <2>3. QED
    BY <1>1, <1>2, <2>1, <2>2
<1>3. CASE writer[p] # "linked"
  BY <1>1, <1>3 DEF Flushed
<1>4. QED
  BY <1>2, <1>3

\* Where a thread that goes on has got to.
LEMMA MovesType ==
    ASSUME ITypes, NEW t \in Threads, NEW to \in Steps, Moves(t, to)
    PROVE  pc' \in [Threads -> Steps] /\ pc'[t] = to /\ \A u \in Threads \ {t} : pc'[u] = pc[u]
BY DEF Moves, ITypes

LEMMA StepTypes == ITypes /\ ILocks /\ IPlaces /\ [Next]_vars => ITypes'
<1> SUFFICES ASSUME ITypes, ILocks, IPlaces, [Next]_vars
             PROVE  ITypes'
  OBVIOUS
<1>s. /\ "idle" \in Steps /\ "next" \in Steps /\ "reading" \in Steps /\ "inside" \in Steps
      /\ "closed" \in Steps /\ "checking" \in Steps /\ "uploading" \in Steps
      /\ "removing" \in Steps
  BY DEF Steps
<1>t. /\ "writer" \in Lockers /\ "flush" \in Lockers /\ "poll" \in Lockers
      /\ \A t \in Lockers : t \in Threads
      /\ "writer" \in Threads /\ "flush" \in Threads /\ "poll" \in Threads /\ "tidy" \in Threads
  BY DEF Lockers, Threads
<1>f. /\ NoFile \in FileType /\ File({}, FALSE) \in FileType
      /\ \A rows \in SUBSET Rows : File(rows, TRUE) \in FileType
  BY DEF NoFile, File, FileType
<1>1. CASE Arrive
  <2>1. arrived' \in 1..Len(At) /\ arrived' \in 0..Len(At)
    BY <1>1, SinkAssumption DEF Arrive, ITypes
  <2>2. Append(queue, arrived') \in Seq(Rows)
    BY <2>1 DEF ITypes, Rows
  <2>3. QED
    BY <1>1, <2>1, <2>2 DEF Arrive, ITypes, files, threads, history
<1>2. CASE Unlist
  BY <1>2, <1>s, <1>t, MovesType DEF Unlist, ITypes, files, history
<1>3. CASE List
  BY <1>3 DEF List, ITypes, files, threads, history
<1>4. CASE WriteLookup
  BY <1>4, <1>s, <1>t, GetLockType, QueueType DEF WriteLookup, ITypes, files, history
<1>5. CASE WriteOpen
  <2> DEFINE p == at["writer"]
  <2>1. p \in Paths /\ pc["writer"] = "locking" /\ Takes("writer") /\ Moves("writer", "inside")
    BY <1>5, <1>t DEF WriteOpen, ILocks, Using
  <2>2. /\ held' \in [Locks -> Lockers \cup {None}] /\ pc' \in [Threads -> Steps]
    BY <1>s, <1>t, <2>1, TakesType
  <2>3. /\ writer' = writer \/ writer' = [writer EXCEPT ![p] = "linked"]
        /\ buf' = buf \/ buf' = [buf EXCEPT ![p] = {}]
        /\ disk' = disk \/ disk' = [disk EXCEPT ![p] = File({}, FALSE)]
        /\ UNCHANGED <<s3, finals, queue, arrived, stored, at, key, todo, locks, past, written>>
    BY <1>5 DEF WriteOpen
  <2>4. writer' \in [Paths -> {"none", "linked", "unlinked"}] /\ buf' \in [Paths -> SUBSET Rows]
    BY <2>1, <2>3 DEF ITypes
  <2>5. disk' \in [Paths -> FileType]
    BY <1>f, <2>1, <2>3 DEF ITypes
  <2>6. QED
    BY <2>2, <2>3, <2>4, <2>5 DEF ITypes
<1>6. CASE WriteAppend
  <2> DEFINE p == at["writer"]  r == Head(queue)
  <2>1. p \in Paths /\ queue # <<>> /\ Leaves("writer", "idle") /\ Buffers(p, buf[p] \cup {r})
    BY <1>6, <1>t DEF WriteAppend, ILocks, IPlaces, Using
  <2>2. /\ held' \in [Locks -> Lockers \cup {None}] /\ key' \in [Threads -> Locks \cup {None}]
        /\ pc' \in [Threads -> Steps]
    BY <1>s, <1>t, <2>1, LeavesType
  <2>3. r \in Rows /\ Tail(queue) \in Seq(Rows) /\ buf[p] \cup {r} \in SUBSET Rows
    BY <2>1, QueueType DEF ITypes
  <2>4. Flushed(p, buf[p] \cup {r}) \in [Paths -> FileType]
    BY <2>1, <2>3, FlushedType
  <2>5. buf' \in [Paths -> SUBSET Rows] /\ disk' \in [Paths -> FileType]
    BY <2>1, <2>3, <2>4 DEF Buffers, ITypes
  <2>6. /\ queue' = Tail(queue) /\ written' = written \cup {r}
        /\ UNCHANGED <<s3, finals, arrived, writer, stored, at, todo, locks, past>>
    BY <1>6 DEF WriteAppend
  <2>7. QED
    BY <2>2, <2>3, <2>5, <2>6 DEF ITypes
<1>7. CASE WriteFails \/ FlushFails
  BY <1>7 DEF WriteFails, FlushFails, ITypes, files, threads, history
<1>7a. CASE OpenFails
  <2>1. at["writer"] \in Paths
    BY <1>7a, <1>t DEF OpenFails, ILocks, Using
  <2>2. disk' = disk \/ disk' = [disk EXCEPT ![at["writer"]] = File({}, FALSE)]
    BY <1>7a DEF OpenFails
  <2>3. disk' \in [Paths -> FileType]
    BY <1>f, <2>1, <2>2 DEF ITypes
  <2>4. UNCHANGED <<s3, finals, queue, arrived, writer, buf, stored, pc, at, key, todo, held, locks,
                    past, written>>
    BY <1>7a DEF OpenFails, threads
  <2>5. QED
    BY <2>3, <2>4 DEF ITypes
<1>8. CASE FlushStart
  BY <1>8, <1>s, <1>t, MovesType DEF FlushStart, ITypes, files, history
<1>8a. CASE FlushEnd
  BY <1>8a, <1>s, <1>t, MovesType DEF FlushEnd, ITypes, files, history
<1>9. ASSUME NEW p \in Paths, FlushLookup(p)
      PROVE  ITypes'
  BY <1>9, <1>s, <1>t, GetLockType DEF FlushLookup, ITypes, files, history
<1>10. ASSUME NEW t \in Lockers, Enter(t)
       PROVE  ITypes'
  BY <1>10, <1>s, <1>t, TakesType DEF Enter, ITypes, files, history
<1>11. CASE FlushPath
  <2> DEFINE p == at["flush"]
  <2>1. p \in Paths /\ Leaves("flush", "next")
    BY <1>11, <1>t DEF FlushPath, ILocks, Using
  <2>2. /\ held' \in [Locks -> Lockers \cup {None}] /\ key' \in [Threads -> Locks \cup {None}]
        /\ pc' \in [Threads -> Steps]
    BY <1>s, <1>t, <2>1, LeavesType
  <2>3. Flushed(p, buf[p]) \in [Paths -> FileType]
    BY <2>1, FlushedType DEF ITypes
  <2>4. /\ disk' = disk \/ disk' = Flushed(p, buf[p])
        /\ buf' = [buf EXCEPT ![p] = {}]
        /\ UNCHANGED <<s3, finals, queue, arrived, writer, stored, at, todo, locks, past, written>>
    BY <1>11 DEF FlushPath, history
  <2>5. QED
    BY <2>1, <2>2, <2>3, <2>4 DEF ITypes
<1>12. ASSUME NEW p \in Paths, FinalizeSkip(p)
       PROVE  ITypes'
  BY <1>12, <1>s, <1>t, MovesType DEF FinalizeSkip, Passes, ITypes, files
<1>13. ASSUME NEW p \in Paths, FinalizeLookup(p)
       PROVE  ITypes'
  BY <1>13, <1>s, <1>t, GetLockType DEF FinalizeLookup, ITypes, files, history
<1>14. CASE FinalizeClose
  <2> DEFINE p == at["poll"]
  <2>1. p \in Paths /\ Leaves("poll", "closed")
    BY <1>14, <1>t DEF FinalizeClose, ILocks, Using
  <2>2. /\ held' \in [Locks -> Lockers \cup {None}] /\ key' \in [Threads -> Locks \cup {None}]
        /\ pc' \in [Threads -> Steps]
    BY <1>s, <1>t, <2>1, LeavesType
  <2>3. Rest(p) \in SUBSET Rows
    BY <2>1 DEF Rest, ITypes, FileType
  <2>4. disk' \in [Paths -> FileType]
    BY <1>14, <1>f, <2>1, <2>3 DEF FinalizeClose, ITypes
  <2>5. /\ writer' = [writer EXCEPT ![p] = "none"] /\ buf' = [buf EXCEPT ![p] = {}]
        /\ past' = past \cup {p}
        /\ UNCHANGED <<s3, finals, queue, arrived, stored, at, todo, locks, written>>
    BY <1>14 DEF FinalizeClose
  <2>6. QED
    BY <2>1, <2>2, <2>4, <2>5 DEF ITypes
<1>14a. CASE FinalizeFails
  <2> DEFINE p == at["poll"]
  <2>1. p \in Paths /\ Leaves("poll", "idle")
    BY <1>14a, <1>t DEF FinalizeFails, ILocks, Using
  <2>2. /\ held' \in [Locks -> Lockers \cup {None}] /\ key' \in [Threads -> Locks \cup {None}]
        /\ pc' \in [Threads -> Steps]
    BY <1>s, <1>t, <2>1, LeavesType
  <2>3. disk' \in [Paths -> FileType]
    <3>1. PICK rows \in {disk[p].rows, Rest(p)}, whole \in BOOLEAN :
             disk' = disk \/ disk' = [disk EXCEPT ![p] = File(rows, whole)]
      BY <1>14a DEF FinalizeFails
    <3>2. rows \in SUBSET Rows
      BY <2>1 DEF Rest, ITypes, FileType
    <3>3. File(rows, whole) \in FileType
      BY <3>2 DEF File, FileType
    <3>4. QED
      BY <2>1, <3>1, <3>3 DEF ITypes
  <2>4. /\ writer' = [writer EXCEPT ![p] = "none"] /\ buf' = [buf EXCEPT ![p] = {}]
        /\ past' = past \cup {p}
        /\ UNCHANGED <<s3, finals, queue, arrived, stored, at, todo, locks, written>>
    BY <1>14a DEF FinalizeFails
  <2>5. QED
    BY <2>1, <2>2, <2>3, <2>4 DEF ITypes
<1>14b. CASE FinalizeNever
  BY <1>14b, <1>s, <1>t, MovesType DEF FinalizeNever, ITypes, files, history
<1>15. CASE FinalizeForget
  BY <1>15, <1>s, <1>t, MovesType DEF FinalizeForget, Prunes, ITypes, files
<1>16. CASE FinalizeCheck
  BY <1>16, <1>s, <1>t, MovesType DEF FinalizeCheck, ITypes, files, history
<1>17. CASE Upload
  <2>1. at["poll"] \in Paths
    BY <1>17, <1>t DEF Upload, IPlaces, Ahead
  <2>2. QED
    BY <1>17, <1>s, <1>t, <2>1, MovesType DEF Upload, ITypes, history
<1>18. CASE UploadFails
  BY <1>18, <1>s, <1>t, MovesType DEF UploadFails, GivenUp, ITypes, files
<1>19. CASE Remove
  <2> DEFINE p == at["poll"]
  <2>1. p \in Paths /\ Moves("poll", "next")
    BY <1>19, <1>t DEF Remove, IPlaces, Ahead
  <2>2. disk' = [disk EXCEPT ![p] = NoFile] /\ writer' \in [Paths -> {"none", "linked", "unlinked"}]
    BY <1>19, <2>1 DEF Remove, ITypes
  <2>3. disk' \in [Paths -> FileType] /\ pc' \in [Threads -> Steps]
    BY <1>s, <1>t, <1>f, <2>1, <2>2, MovesType DEF ITypes
  <2>4. QED
    BY <1>19, <2>2, <2>3 DEF Remove, ITypes, history
<1>20. CASE FinalizeEnd
  BY <1>20, <1>s, <1>t, MovesType DEF FinalizeEnd, ITypes, files, history
<1>21. CASE TidyStart \/ TidyRead \/ TidyEnd
  BY <1>21, <1>s, <1>t, MovesType DEF TidyStart, TidyRead, TidyEnd, Listed, ITypes, files, history
<1>22. ASSUME NEW p \in Paths, TidyDelete(p)
       PROVE  ITypes'
  BY <1>22, <1>s DEF TidyDelete, Prunes, ITypes, files
<1>23. CASE UNCHANGED vars
  BY <1>23 DEF vars, ITypes, files, threads, history
<1>24. QED
  BY <1>1, <1>2, <1>3, <1>4, <1>5, <1>6, <1>7, <1>7a, <1>8, <1>8a, <1>9, <1>10, <1>11, <1>12, <1>13, <1>14,
     <1>14a, <1>14b, <1>15, <1>16, <1>17, <1>18, <1>19, <1>20, <1>21, <1>22, <1>23
     DEF Next, Write, Flush, Finalize, Tidy

-----------------------------------------------------------------------------
(* LocksWork.                                                                *)

LEMMA GetLockKeeps ==
    ASSUME ITypes, ILocks, NEW t \in Lockers, NEW p \in Paths, ~Using(t), GetLock(t, p),
           UNCHANGED <<held, broken>>
    PROVE  ILocks'
<1>1. PICK l \in Locks : /\ locks[p] # None => l = locks[p]
                         /\ locks' = [locks EXCEPT ![p] = l] /\ key' = [key EXCEPT ![t] = l]
                         /\ at' = [at EXCEPT ![t] = p] /\ pc' = [pc EXCEPT ![t] = "locking"]
  BY DEF GetLock, Moves
<1>2. t \in Threads /\ \A u \in Lockers : u \in Threads
  BY RowsAndLocks
<1>3. /\ key'[t] = l /\ at'[t] = p /\ pc'[t] = "locking" /\ locks'[p] = l
      /\ \A u \in Lockers \ {t} : key'[u] = key[u] /\ at'[u] = at[u] /\ pc'[u] = pc[u]
      /\ \A q \in Paths \ {p} : locks'[q] = locks[q]
  BY <1>1, <1>2 DEF ITypes
<1>4. ASSUME NEW u \in Lockers \ {t}, Using(u), at[u] \notin broken
      PROVE  locks'[at[u]] = key[u]
  <2>1. locks[at[u]] = key[u] /\ key[u] \in Locks /\ at[u] \in Paths
    BY <1>4 DEF ILocks
  <2>2. key[u] # None
    BY <2>1, RowsAndLocks
  <2>3. QED
    BY <1>1, <1>3, <2>1, <2>2
<1>5. QED
  BY <1>1, <1>3, <1>4 DEF ILocks, Using

LEMMA TakesKeeps ==
    ASSUME ITypes, ILocks, NEW t \in Lockers, pc[t] = "locking", Takes(t), Moves(t, "inside"),
           UNCHANGED <<locks, at, key, broken>>
    PROVE  ILocks'
<1>1. t \in Threads /\ \A u \in Lockers : u \in Threads
  BY RowsAndLocks
<1>2. /\ pc'[t] = "inside" /\ \A u \in Lockers \ {t} : pc'[u] = pc[u]
      /\ key[t] \in Locks /\ held[key[t]] = None /\ held'[key[t]] = t
      /\ \A l \in Locks \ {key[t]} : held'[l] = held[l]
  BY <1>1 DEF Takes, Moves, ITypes, ILocks, Using
<1>3. ASSUME NEW u \in Lockers, pc'[u] = "inside"
      PROVE  held'[key[u]] = u
  <2>1. CASE u = t
    BY <1>2, <2>1
  <2>2. CASE u # t
    <3>1. held[key[u]] = u /\ key[u] \in Locks
      BY <1>2, <1>3, <2>2 DEF ILocks, Using
    <3>2. key[u] # key[t]
      BY <1>2, <3>1, RowsAndLocks
    <3>3. QED
      BY <1>2, <3>1, <3>2
  <2>3. QED
    BY <2>1, <2>2
<1>4. \A u \in Lockers : Using(u)' => Using(u)
  BY <1>2 DEF Using
<1>5. QED
  BY <1>3, <1>4 DEF ILocks, Using

LEMMA LeavesKeeps ==
    ASSUME ITypes, ILocks, NEW t \in Lockers, pc[t] = "inside", NEW to \in Steps,
           to \notin {"locking", "inside"}, Leaves(t, to), UNCHANGED <<locks, at, broken>>
    PROVE  ILocks'
<1>1. t \in Threads /\ \A u \in Lockers : u \in Threads
  BY RowsAndLocks
<1>2. /\ pc'[t] = to /\ \A u \in Lockers \ {t} : pc'[u] = pc[u] /\ key'[u] = key[u]
      /\ held[key[t]] = t /\ \A l \in Locks \ {key[t]} : held'[l] = held[l]
  BY <1>1 DEF Leaves, Moves, ITypes, ILocks, Using
<1>3. \A u \in Lockers : Using(u)' => u # t /\ Using(u)
  BY <1>2 DEF Using
<1>4. ASSUME NEW u \in Lockers, pc'[u] = "inside"
      PROVE  held'[key'[u]] = u
  <2>1. u # t
    BY <1>2, <1>4
  <2>2. held[key[u]] = u /\ key[u] \in Locks
    BY <1>2, <1>4, <2>1 DEF ILocks, Using
  <2>3. QED
    BY <1>2, <2>1, <2>2
<1>5. QED
  BY <1>2, <1>3, <1>4 DEF ILocks, Using

\* A thread outside the locks moves, or an entry is removed.
LEMMA OutsideKeeps ==
    ASSUME ITypes, ILocks, UNCHANGED <<at, key, held>>,
           \A t \in Lockers : Using(t)' => pc'[t] = pc[t],
           UNCHANGED <<locks, broken>> \/ \E p \in Paths : Prunes(p)
    PROVE  ILocks'
<1>1. \A t \in Lockers : Using(t)' => Using(t)
  BY DEF Using
<1>2. ASSUME NEW t \in Lockers, Using(t), at[t] \notin broken'
      PROVE  locks'[at[t]] = key[t]
  <2>1. CASE UNCHANGED <<locks, broken>>
    BY <1>2, <2>1 DEF ILocks
  <2>2. ASSUME NEW p \in Paths, Prunes(p)
        PROVE  locks'[at[t]] = key[t]
    <3>1. at[t] \in Paths /\ at[t] \notin broken /\ locks[at[t]] = key[t] /\ key[t] # None
      BY <1>2, <2>2, RowsAndLocks DEF ILocks, Prunes
    <3>2. at[t] # p
      BY <1>2, <2>2, <3>1 DEF Prunes
    <3>3. QED
      BY <2>2, <3>1, <3>2 DEF Prunes, ITypes
  <2>3. QED
    BY <2>1, <2>2
<1>3. \A t \in Lockers : pc'[t] = "inside" => held'[key'[t]] = t
  BY DEF ILocks, Using
<1>4. QED
  BY <1>1, <1>2, <1>3 DEF ILocks

LEMMA StepLocks == ITypes /\ ILocks /\ IPlaces /\ [Next]_vars => ILocks'
<1> SUFFICES ASSUME ITypes, ILocks, IPlaces, [Next]_vars
             PROVE  ILocks'
  OBVIOUS
<1>t. /\ "writer" \in Lockers /\ "flush" \in Lockers /\ "poll" \in Lockers /\ "tidy" \notin Lockers
      /\ "writer" \in Threads /\ "flush" \in Threads /\ "poll" \in Threads /\ "tidy" \in Threads
  BY DEF Lockers, Threads
<1>s. /\ "idle" \in Steps /\ "next" \in Steps /\ "reading" \in Steps
      /\ "closed" \in Steps /\ "checking" \in Steps /\ "uploading" \in Steps
      /\ "removing" \in Steps
  BY DEF Steps
\* What a thread does outside the locks.
<1>1. ASSUME NEW t \in Threads, NEW to \in Steps \ {"locking", "inside"}, Moves(t, to) \/ pc' = pc,
             UNCHANGED <<at, key, held>>, UNCHANGED <<locks, broken>> \/ \E p \in Paths : Prunes(p)
      PROVE  ILocks'
  <2>1. \A u \in Threads : pc'[u] = pc[u] \/ pc'[u] = to
    BY <1>1, MovesType
  <2>2. \A u \in Lockers : Using(u)' => pc'[u] = pc[u]
    BY <1>1, <2>1, RowsAndLocks DEF Using
  <2>3. QED
    BY <1>1, <2>2, OutsideKeeps
<1>2. CASE WriteLookup
  <2>1. queue # <<>> /\ ~Using("writer") /\ GetLock("writer", At[Head(queue)])
        /\ UNCHANGED <<held, broken>>
    BY <1>2 DEF WriteLookup, Using, history
  <2>2. QED
    BY <1>t, <2>1, QueueType, GetLockKeeps
<1>3. ASSUME NEW p \in Paths, FlushLookup(p)
      PROVE  ILocks'
  <2>1. ~Using("flush") /\ GetLock("flush", p) /\ UNCHANGED <<held, broken>>
    BY <1>3 DEF FlushLookup, Using, history
  <2>2. QED
    BY <1>t, <2>1, GetLockKeeps
<1>4. ASSUME NEW p \in Paths, FinalizeLookup(p)
      PROVE  ILocks'
  <2>1. ~Using("poll") /\ GetLock("poll", p) /\ UNCHANGED <<held, broken>>
    BY <1>4 DEF FinalizeLookup, Using, history
  <2>2. QED
    BY <1>t, <2>1, GetLockKeeps
<1>5. CASE WriteOpen
  BY <1>5, <1>t, TakesKeeps DEF WriteOpen
<1>6. ASSUME NEW t \in Lockers, Enter(t)
      PROVE  ILocks'
  BY <1>6, TakesKeeps DEF Enter, history
<1>7. CASE WriteAppend
  BY <1>7, <1>t, <1>s, LeavesKeeps DEF WriteAppend
<1>8. CASE FlushPath
  BY <1>8, <1>t, <1>s, LeavesKeeps DEF FlushPath, history
<1>9. CASE FinalizeClose
  BY <1>9, <1>t, <1>s, LeavesKeeps DEF FinalizeClose
<1>9a. CASE FinalizeFails
  BY <1>9a, <1>t, <1>s, LeavesKeeps DEF FinalizeFails
<1>10. CASE Arrive \/ List \/ OpenFails \/ WriteFails \/ FlushFails \/ UNCHANGED vars
  <2>1. UNCHANGED <<pc, at, key, held, locks, broken>>
    BY <1>10 DEF Arrive, List, OpenFails, WriteFails, FlushFails, vars, threads, history
  <2>2. QED
    BY <1>1, <1>t, <1>s, <2>1
<1>11. CASE Unlist
  BY <1>1, <1>11, <1>t, <1>s DEF Unlist, history
<1>12. CASE FlushStart
  BY <1>1, <1>12, <1>t, <1>s DEF FlushStart, history
<1>13. CASE FlushEnd
  BY <1>1, <1>13, <1>t, <1>s DEF FlushEnd, history
<1>14. ASSUME NEW p \in Paths, FinalizeSkip(p)
       PROVE  ILocks'
  BY <1>1, <1>14, <1>t, <1>s DEF FinalizeSkip, Passes
<1>15. CASE FinalizeForget
  <2>1. at["poll"] \in Paths
    BY <1>15 DEF FinalizeForget, IPlaces, Ahead
  <2>2. QED
    BY <1>1, <1>15, <1>t, <1>s, <2>1 DEF FinalizeForget
<1>16. CASE FinalizeCheck
  <2>1. \E to \in {"next", "uploading", "removing"} : Moves("poll", to)
    BY <1>16 DEF FinalizeCheck
  <2>2. QED
    BY <1>1, <1>16, <1>t, <1>s, <2>1 DEF FinalizeCheck, history
<1>17. CASE Upload
  BY <1>1, <1>17, <1>t, <1>s DEF Upload, history
<1>18. CASE UploadFails
  BY <1>1, <1>18, <1>t, <1>s DEF UploadFails, GivenUp
<1>19. CASE Remove
  BY <1>1, <1>19, <1>t, <1>s DEF Remove, history
<1>20. CASE FinalizeEnd \/ FinalizeNever
  BY <1>1, <1>20, <1>t, <1>s DEF FinalizeEnd, FinalizeNever, history
<1>21. CASE TidyStart \/ TidyRead \/ TidyEnd
  <2>1. \E to \in {"reading", "next", "idle"} : Moves("tidy", to)
    BY <1>21 DEF TidyStart, TidyRead, TidyEnd
  <2>2. UNCHANGED <<at, key, held, locks, broken>>
    BY <1>21 DEF TidyStart, TidyRead, TidyEnd, history
  <2>3. QED
    BY <1>1, <1>t, <1>s, <2>1, <2>2
<1>22. ASSUME NEW p \in Paths, TidyDelete(p)
       PROVE  ILocks'
  BY <1>1, <1>22, <1>t, <1>s DEF TidyDelete
<1>23. QED
  BY <1>2, <1>3, <1>4, <1>5, <1>6, <1>7, <1>8, <1>9, <1>9a, <1>10, <1>11, <1>12, <1>13, <1>14, <1>15,
     <1>16, <1>17, <1>18, <1>19, <1>20, <1>21, <1>22 DEF Next, Write, Flush, Finalize, Tidy

\* What the steps of the other threads leave of the writer thread and of the removal.
LEMMA Apart ==
    ASSUME ITypes, [Next]_vars
    PROVE  /\ \/ WriteLookup \/ WriteOpen \/ WriteAppend
              \/ pc'["writer"] = pc["writer"] /\ at'["writer"] = at["writer"]
                    /\ (Arrive \/ queue' = queue)
           /\ \/ Unlist \/ Finalize \/ Enter("poll")
              \/ pc'["poll"] = pc["poll"] /\ at'["poll"] = at["poll"]
<1>1. "writer" \in Threads /\ "poll" \in Threads /\ "flush" \in Threads /\ "tidy" \in Threads
  BY DEF Threads, Lockers
<1>2. CASE WriteLookup \/ WriteOpen \/ WriteAppend
  BY <1>1, <1>2 DEF WriteLookup, WriteOpen, WriteAppend, GetLock, Leaves, Moves, ITypes
<1>3. CASE Arrive \/ List \/ OpenFails \/ WriteFails \/ FlushFails \/ UNCHANGED vars
           \/ \E p \in Paths : TidyDelete(p)
  BY <1>3 DEF Arrive, List, OpenFails, WriteFails, FlushFails, vars, threads, TidyDelete
<1>4. CASE FlushStart \/ FlushEnd \/ FlushPath \/ \E p \in Paths : FlushLookup(p)
  BY <1>1, <1>4 DEF FlushStart, FlushEnd, FlushPath, FlushLookup, GetLock, Leaves, Moves, ITypes
<1>5. CASE TidyStart \/ TidyRead \/ TidyEnd
  BY <1>1, <1>5 DEF TidyStart, TidyRead, TidyEnd, Moves, ITypes
<1>6. CASE Unlist \/ \E p \in Paths : FinalizeSkip(p) \/ FinalizeLookup(p)
  BY <1>1, <1>6 DEF Unlist, FinalizeSkip, Passes, FinalizeLookup, GetLock, Moves, Finalize, ITypes
<1>7. CASE FinalizeClose \/ FinalizeFails \/ FinalizeForget \/ FinalizeCheck
  <2>1. /\ at' = at /\ queue' = queue
        /\ \E to \in {"closed", "idle", "checking", "next", "uploading", "removing"} : Moves("poll", to)
    BY <1>7 DEF FinalizeClose, FinalizeFails, FinalizeForget, FinalizeCheck, Leaves
  <2>2. pc'["writer"] = pc["writer"]
    BY <1>1, <2>1 DEF Moves, ITypes
  <2>3. QED
    BY <1>7, <2>1, <2>2 DEF Finalize
<1>8. CASE Upload \/ UploadFails \/ Remove \/ FinalizeEnd \/ FinalizeNever
  <2>1. pc'["writer"] = pc["writer"] /\ at'["writer"] = at["writer"] /\ queue' = queue
    BY <1>1, <1>8 DEF Upload, UploadFails, GivenUp, Remove, FinalizeEnd, FinalizeNever, Moves, ITypes
  <2>2. QED
    BY <1>8, <2>1 DEF Finalize
<1>9. ASSUME NEW t \in Lockers, Enter(t)
      PROVE  /\ pc'["writer"] = pc["writer"] /\ at' = at /\ queue' = queue
             /\ t = "poll" \/ pc'["poll"] = pc["poll"]
  BY <1>1, <1>9 DEF Enter, Moves, ITypes
<1>10. CASE \E t \in Lockers : Enter(t)
  BY <1>9, <1>10
<1>11. QED
  BY <1>2, <1>3, <1>4, <1>5, <1>6, <1>7, <1>8, <1>10 DEF Next, Write, Flush, Finalize, Tidy

LEMMA StepPlaces == ITypes /\ ILocks /\ IPlaces /\ [Next]_vars => IPlaces'
<1> SUFFICES ASSUME ITypes, ILocks, IPlaces, [Next]_vars
             PROVE  IPlaces'
  OBVIOUS
<1>t. "writer" \in Threads /\ "poll" \in Threads /\ "poll" \in Lockers
  BY DEF Threads, Lockers
<1>1. Using("writer")' => queue' # <<>> /\ at'["writer"] = At[Head(queue')]
  <2>1. CASE WriteLookup \/ WriteOpen
    <3>1. queue' = queue /\ queue # <<>>
      BY <2>1 DEF WriteLookup, WriteOpen, IPlaces, Using
    <3>2. at'["writer"] = At[Head(queue)]
      BY <1>t, <2>1 DEF WriteLookup, WriteOpen, GetLock, IPlaces, Using, ITypes
    <3>3. QED
      BY <3>1, <3>2
  <2>2. CASE WriteAppend
    BY <1>t, <2>2 DEF WriteAppend, Leaves, Moves, Using, ITypes
  <2>3. CASE /\ pc'["writer"] = pc["writer"] /\ at'["writer"] = at["writer"]
             /\ Arrive \/ queue' = queue
    <3>1. CASE queue' = queue
      BY <2>3, <3>1 DEF IPlaces, Using
    <3>2. CASE Arrive /\ Using("writer")
      <4>1. queue' = Append(queue, arrived') /\ arrived' \in Rows
        BY <3>2, SinkAssumption DEF Arrive, ITypes, Rows
      <4>2. QED
        BY <2>3, <3>2, <4>1, QueueType DEF IPlaces
    <3>3. QED
      BY <2>3, <3>1, <3>2 DEF Using
  <2>4. QED
    BY <2>1, <2>2, <2>3, Apart
<1>2. pc'["poll"] \in Ahead => at'["poll"] \in Paths
  <2>1. CASE pc'["poll"] = pc["poll"] /\ at'["poll"] = at["poll"]
    BY <2>1 DEF IPlaces
  <2>2. CASE Unlist \/ FinalizeEnd \/ FinalizeNever \/ FinalizeFails \/ Enter("poll")
             \/ \E p \in Paths : FinalizeSkip(p) \/ FinalizeLookup(p)
    BY <1>t, <2>2 DEF Unlist, FinalizeEnd, FinalizeNever, FinalizeFails, Leaves, Enter, FinalizeSkip, FinalizeLookup, Passes, GetLock, Moves, Ahead, ITypes
  <2>3. CASE FinalizeClose
    BY <1>t, <2>3 DEF FinalizeClose, ILocks, Using
  <2>4. CASE FinalizeForget \/ FinalizeCheck \/ Upload \/ UploadFails \/ Remove
    BY <2>4 DEF FinalizeForget, FinalizeCheck, Upload, UploadFails, Remove, IPlaces, Ahead
  <2>5. QED
    BY <2>1, <2>2, <2>3, <2>4, Apart DEF Finalize
<1>3. QED
  BY <1>1, <1>2 DEF IPlaces

\* Two threads that are inside at one path share its lock, unless it was removed in use.
LEMMA OneInside ==
    ASSUME ITypes, ILocks, NEW t \in Lockers, NEW u \in Lockers, pc[t] = "inside", pc[u] = "inside",
           at[t] = at[u], at[t] \notin broken
    PROVE  t = u
BY DEF ILocks, Using

\* Which steps touch the files and what is said of them.
Touches ==
    \/ WriteOpen \/ OpenFails \/ WriteAppend \/ FlushPath \/ FinalizeClose \/ FinalizeFails
    \/ Upload \/ Remove

LEMMA FilesStay ==
    ASSUME [Next]_vars
    PROVE  /\ Touches \/ UNCHANGED <<files, written, late>>
           /\ \/ FinalizeClose \/ FinalizeFails \/ \E p \in Paths : FinalizeSkip(p)
              \/ past' = past
           /\ FinalizeFails \/ failed' = failed
           /\ s3' = s3 /\ broken \subseteq broken'
           /\ UploadFails \/ kept' = kept
           /\ crashed => crashed'
<1>1. CASE WriteOpen \/ OpenFails \/ WriteAppend \/ FlushPath \/ FinalizeClose \/ FinalizeFails
  BY <1>1 DEF Touches, WriteOpen, OpenFails, WriteAppend, FlushPath, FinalizeClose, FinalizeFails, history
<1>2. CASE Upload \/ Remove
  BY <1>2 DEF Touches, Upload, Remove, history
<1>3. CASE Arrive \/ List \/ Unlist \/ WriteLookup \/ WriteFails \/ FlushStart \/ FlushFails \/ FlushEnd
           \/ UNCHANGED vars
  BY <1>3 DEF Arrive, List, Unlist, WriteLookup, WriteFails, FlushStart, FlushFails, FlushEnd, vars,
              history
<1>4. CASE TidyStart \/ TidyRead \/ TidyEnd \/ FinalizeCheck \/ FinalizeEnd \/ FinalizeNever
           \/ \E t \in Lockers : Enter(t)
  BY <1>4 DEF TidyStart, TidyRead, TidyEnd, FinalizeCheck, FinalizeEnd, FinalizeNever, Enter, history
<1>5. CASE UploadFails \/ FinalizeForget
  BY <1>5 DEF UploadFails, FinalizeForget, Prunes
<1>6. ASSUME NEW p \in Paths,
             FinalizeSkip(p) \/ FinalizeLookup(p) \/ FlushLookup(p) \/ TidyDelete(p)
      PROVE  /\ UNCHANGED <<files, written, late, s3, kept, failed>> /\ broken \subseteq broken'
             /\ FinalizeSkip(p) \/ past' = past
             /\ ~crashed
  BY <1>6 DEF FinalizeSkip, FinalizeLookup, FlushLookup, TidyDelete, Prunes, history
<1>7. QED
  BY <1>1, <1>2, <1>3, <1>4, <1>5, <1>6 DEF Next, Write, Flush, Finalize, Tidy

\* The writer of the path at which the writer thread is inside stays open.
IWriter == pc["writer"] = "inside" /\ at["writer"] \notin broken => Open(at["writer"])

LEMMA StepWriter == ITypes /\ ILocks /\ IPlaces /\ IWriter /\ [Next]_vars => IWriter'
<1> SUFFICES ASSUME ITypes, ILocks, IPlaces, IWriter, [Next]_vars,
                    pc'["writer"] = "inside", at'["writer"] \notin broken'
             PROVE  writer'[at'["writer"]] # "none"
  BY DEF IWriter, Open
<1>t. "writer" \in Threads /\ "writer" \in Lockers /\ "poll" \in Lockers /\ "writer" # "poll"
  BY DEF Threads, Lockers
<1>1. CASE WriteOpen
  <2>1. at["writer"] \in Paths
    BY <1>1, <1>t DEF WriteOpen, ILocks, Using
  <2>2. QED
    BY <1>1, <2>1 DEF WriteOpen, ITypes, Open
<1>2. CASE WriteLookup \/ WriteAppend
  BY <1>2, <1>t DEF WriteLookup, WriteAppend, GetLock, Leaves, Moves, ITypes
<1>3. CASE ~(WriteOpen \/ WriteLookup \/ WriteAppend)
  <2>1. pc["writer"] = "inside" /\ at'["writer"] = at["writer"] /\ at["writer"] \notin broken
    BY <1>3, Apart, FilesStay
  <2>2. at["writer"] \in Paths /\ writer[at["writer"]] # "none"
    BY <1>t, <2>1 DEF ILocks, IWriter, Using, Open
  <2>3. CASE FinalizeClose \/ FinalizeFails
    <3>1. at["poll"] # at["writer"]
      BY <1>t, <2>1, <2>3, OneInside DEF FinalizeClose, FinalizeFails
    <3>2. QED
      BY <2>1, <2>2, <2>3, <3>1 DEF FinalizeClose, FinalizeFails, ITypes
  <2>4. CASE Remove
    BY <2>1, <2>2, <2>4 DEF Remove, ITypes
  <2>5. CASE writer' = writer
    BY <2>1, <2>2, <2>5
  <2>6. CASE FlushPath \/ Upload \/ OpenFails
    BY <2>5, <2>6 DEF FlushPath, Upload, OpenFails
  <2>7. QED
    BY <1>3, <2>3, <2>4, <2>5, <2>6, FilesStay DEF Touches, files
<1>4. QED
  BY <1>1, <1>2, <1>3

\* While no lock is removed from the dictionary in use, no two threads work on a path at
\* once, and a row finds the writer it opened.
THEOREM LocksHold == Spec => []LocksWork
<1>1. Init => ITypes /\ ILocks /\ IPlaces /\ IWriter
  <2>1. Init => IWriter
    BY DEF Init, IWriter, Threads, Lockers
  <2>2. QED
    BY <2>1, InitTypes
<1>2. /\ ITypes /\ ILocks /\ IPlaces /\ IWriter /\ [Next]_vars
      => ITypes' /\ ILocks' /\ IPlaces' /\ IWriter'
  BY StepTypes, StepLocks, StepPlaces, StepWriter
<1>3. ITypes /\ ILocks /\ IWriter => LocksWork
  <2> SUFFICES ASSUME ITypes, ILocks, IWriter, NEW p \in Paths \ broken
               PROVE  /\ Cardinality({t \in Lockers : at[t] = p /\ pc[t] = "inside"}) <= 1
                      /\ at["writer"] = p /\ pc["writer"] = "inside" => Open(p)
    BY DEF LocksWork
  <2> DEFINE inside == {t \in Lockers : at[t] = p /\ pc[t] = "inside"}
  <2>1. \A t, u \in inside : t = u
    BY OneInside
  <2>2. CASE inside = {}
    BY <2>2, FS_EmptySet DEF IWriter
  <2>3. ASSUME NEW t \in inside
        PROVE  Cardinality(inside) <= 1
    <3>1. inside = {t}
      BY <2>1, <2>3
    <3>2. QED
      BY <3>1, FS_Singleton
  <2>4. at["writer"] = p /\ pc["writer"] = "inside" => Open(p)
    BY DEF IWriter
  <2>5. Cardinality(inside) <= 1
    BY <2>2, <2>3, FS_EmptySet
  <2>6. QED
    BY <2>4, <2>5
<1>4. QED
  BY <1>1, <1>2, <1>3, PTL DEF Spec

-----------------------------------------------------------------------------
(* RowsKept and Delivered.  A path that no removal is done with is written by *)
(* one writer and has all its rows; one that is done with is written no more, *)
(* until a late row opens it anew.                                            *)

Taken(p) == {r \in written : At[r] = p}

\* What a step that is not about p leaves of it.
Same(p) ==
    /\ writer'[p] = writer[p] /\ buf'[p] = buf[p] /\ disk'[p] = disk[p] /\ stored'[p] = stored[p]
    /\ Taken(p)' = Taken(p) /\ (p \in late' <=> p \in late) /\ (p \in past' <=> p \in past)
    /\ (p \in failed' <=> p \in failed)

FileOK(p) ==
    /\ writer[p] = "none" => buf[p] = {}
    /\ p \notin past => /\ Taken(p) \subseteq buf[p] \cup disk[p].rows
                        /\ writer[p] = "none" => Taken(p) = {} /\ (~disk[p].there \/ crashed)
    /\ p \in past /\ p \notin late => writer[p] = "none"
    /\ writer[p] = "unlinked" => p \in late
    /\ p \in late => p \in past

IFiles == \A p \in Paths : FileOK(p)

\* The removal is at a path it is done with, and what it uploads or removes is there.
IPast ==
    /\ pc["poll"] \in Ahead => at["poll"] \in past
    /\ pc["poll"] \in {"uploading", "removing"} => disk[at["poll"]].there
    /\ pc["poll"] = "uploading" => s3

LEMMA InitFiles == Init => IFiles /\ IPast
BY DEF Init, IFiles, FileOK, IPast, Taken, NoFile, Ahead, Threads, Lockers

\* _open_writer_if_needed().
LEMMA OpenIs ==
    ASSUME ITypes, WriteOpen, NEW p \in Paths, p = at["writer"]
    PROVE  /\ UNCHANGED <<past, kept, s3, stored, written, failed>>
           /\ \A q \in Paths : q # p => Same(q)
           /\ \/ Same(p)
              \/ /\ writer[p] = "none" /\ writer'[p] = "linked" /\ buf'[p] = {} /\ disk'[p].there
                 /\ p \in late' <=> p \in past \cup late
                 /\ Taken(p)' = Taken(p)
<1>2. UNCHANGED <<past, kept, s3, stored, written, failed>>
  BY DEF WriteOpen
<1>3. \A q \in Paths : Taken(q)' = Taken(q)
  BY <1>2 DEF Taken
<1>4. CASE writer[p] # "none"
  <2>1. UNCHANGED <<writer, buf, disk, late>>
    BY <1>4 DEF WriteOpen, Open
  <2>2. QED
    BY <1>2, <1>3, <2>1 DEF Same
<1>5. CASE writer[p] = "none"
  <2>1. /\ writer' = [writer EXCEPT ![p] = "linked"] /\ buf' = [buf EXCEPT ![p] = {}]
        /\ disk' = [disk EXCEPT ![p] = File({}, FALSE)]
        /\ late' = IF p \in past THEN late \cup {p} ELSE late
    BY <1>5 DEF WriteOpen, Open
  <2>2. /\ \A q \in Paths : q # p => /\ writer'[q] = writer[q] /\ buf'[q] = buf[q] /\ disk'[q] = disk[q]
                                     /\ q \in late' <=> q \in late
        /\ writer'[p] = "linked" /\ buf'[p] = {} /\ disk'[p] = File({}, FALSE)
        /\ p \in late' <=> p \in past \cup late
    BY <2>1 DEF ITypes
  <2>3. disk'[p].there
    BY <2>2 DEF File
  <2>4. QED
    BY <1>2, <1>3, <1>5, <2>2, <2>3 DEF Same
<1>6. QED
  BY <1>4, <1>5

\* write_event(), up to the end of its lock.
LEMMA AppendIs ==
    ASSUME ITypes, IPlaces, WriteAppend, NEW p \in Paths, p = at["writer"]
    PROVE  /\ UNCHANGED <<writer, stored, past, late, kept, s3, failed>>
           /\ \A q \in Paths : q # p => Same(q)
           /\ writer[p] # "none" /\ disk'[p].there = disk[p].there
           /\ writer[p] = "linked" /\ Taken(p) \subseteq buf[p] \cup disk[p].rows
                 => Taken(p)' \subseteq buf'[p] \cup disk'[p].rows
<1>1. queue # <<>> /\ p = At[Head(queue)]
  <2>1. Using("writer")
    BY DEF WriteAppend, Using
  <2>2. QED
    BY <2>1 DEF IPlaces
<1>r. PICK r \in Rows : r = Head(queue)
  BY <1>1, QueueType
<1>w. PICK rows \in SUBSET Rows : rows = buf[p] \cup {r}
  BY DEF ITypes
<1>3. /\ UNCHANGED <<writer, stored, past, late, kept, s3, failed>>
      /\ written' = written \cup {r} /\ writer[p] # "none" /\ Buffers(p, rows)
  BY <1>r, <1>w DEF WriteAppend, Open
<1>4. /\ \A q \in Paths : q # p => Taken(q)' = Taken(q)
      /\ Taken(p)' = Taken(p) \cup {r}
  BY <1>1, <1>r, <1>3 DEF Taken
<1>5. \/ buf' = [buf EXCEPT ![p] = rows] /\ disk' = disk
      \/ buf' = [buf EXCEPT ![p] = {}] /\ disk' = Flushed(p, rows)
  BY <1>3 DEF Buffers
<1>6. /\ \A q \in Paths : q # p => Flushed(p, rows)[q] = disk[q]
      /\ Flushed(p, rows)[p].there = disk[p].there
      /\ writer[p] = "linked" => Flushed(p, rows)[p].rows = disk[p].rows \cup rows
  BY FlushedType
<1>7. /\ \A q \in Paths : q # p => buf'[q] = buf[q] /\ disk'[q] = disk[q]
      /\ disk'[p].there = disk[p].there
      /\ \/ buf'[p] = rows /\ disk'[p] = disk[p]
         \/ buf'[p] = {} /\ disk'[p] = Flushed(p, rows)[p]
  BY <1>5, <1>6 DEF ITypes
<1>8. writer[p] = "linked" => buf'[p] \cup disk'[p].rows = buf[p] \cup disk[p].rows \cup {r}
  BY <1>w, <1>6, <1>7
<1>9. \A q \in Paths : q # p => Same(q)
  BY <1>3, <1>4, <1>7 DEF Same
<1>10. QED
  BY <1>3, <1>4, <1>7, <1>8, <1>9

\* flush_all() at one path.
LEMMA FlushIs ==
    ASSUME ITypes, FlushPath, NEW p \in Paths, p = at["flush"]
    PROVE  /\ UNCHANGED <<writer, stored, past, late, kept, s3, written, failed>>
           /\ \A q \in Paths : q # p => Same(q)
           /\ buf'[p] = {} /\ disk'[p].there = disk[p].there /\ Taken(p)' = Taken(p)
           /\ writer[p] = "none" => disk' = disk
           /\ writer[p] = "linked" => disk'[p].rows = disk[p].rows \cup buf[p]
<1>2. /\ UNCHANGED <<writer, stored, past, late, kept, s3, written, failed>>
      /\ buf' = [buf EXCEPT ![p] = {}]
      /\ disk' = IF writer[p] # "none" THEN Flushed(p, buf[p]) ELSE disk
  BY DEF FlushPath, Open, history
<1>3. /\ \A q \in Paths : q # p => Flushed(p, buf[p])[q] = disk[q]
      /\ Flushed(p, buf[p])[p].there = disk[p].there
      /\ writer[p] = "linked" => Flushed(p, buf[p])[p].rows = disk[p].rows \cup buf[p]
  <2>1. PICK rows \in SUBSET Rows : rows = buf[p]
    BY DEF ITypes
  <2>2. /\ \A q \in Paths : q # p => Flushed(p, rows)[q] = disk[q]
        /\ Flushed(p, rows)[p].there = disk[p].there
        /\ writer[p] = "linked" => Flushed(p, rows)[p].rows = disk[p].rows \cup rows
    BY FlushedType
  <2>3. QED
    BY <2>1, <2>2
<1>4. \A q \in Paths : Taken(q)' = Taken(q)
  BY <1>2 DEF Taken
<1>5. buf'[p] = {} /\ \A q \in Paths : q # p => buf'[q] = buf[q]
  BY <1>2 DEF ITypes
<1>6. \A q \in Paths : q # p => Same(q)
  BY <1>2, <1>3, <1>4, <1>5 DEF Same
<1>7. QED
  BY <1>2, <1>3, <1>4, <1>5, <1>6

\* finalize_asset(): the writer is closed, the file uploaded, and removed.
LEMMA CloseIs ==
    ASSUME ITypes, FinalizeClose, NEW p \in Paths, p = at["poll"]
    PROVE  /\ UNCHANGED <<stored, late, kept, s3, written, failed>> /\ past' = past \cup {p}
           /\ \A q \in Paths : q # p => Same(q)
           /\ writer'[p] = "none" /\ buf'[p] = {} /\ Taken(p)' = Taken(p)
           /\ IF writer[p] = "linked"
              THEN disk'[p].there /\ disk'[p].whole /\ disk'[p].rows = disk[p].rows \cup buf[p]
              ELSE disk' = disk
<1>1. /\ UNCHANGED <<stored, late, kept, s3, written, failed>> /\ past' = past \cup {p}
      /\ writer' = [writer EXCEPT ![p] = "none"] /\ buf' = [buf EXCEPT ![p] = {}]
      /\ disk' = IF writer[p] = "linked" THEN [disk EXCEPT ![p] = File(Rest(p), TRUE)] ELSE disk
  BY DEF FinalizeClose
<1>2. /\ \A q \in Paths : Taken(q)' = Taken(q)
  BY <1>1 DEF Taken
<1>3. /\ \A q \in Paths : q # p => writer'[q] = writer[q] /\ buf'[q] = buf[q] /\ disk'[q] = disk[q]
      /\ writer'[p] = "none" /\ buf'[p] = {}
      /\ writer[p] = "linked" => disk'[p] = File(Rest(p), TRUE)
  BY <1>1 DEF ITypes
<1>4. \A q \in Paths : q # p => Same(q)
  BY <1>1, <1>2, <1>3 DEF Same
<1>5. QED
  BY <1>1, <1>2, <1>3, <1>4 DEF File, Rest

\* A file that cannot be opened, or cannot be closed.
LEMMA OpenFailsIs ==
    ASSUME ITypes, OpenFails, NEW p \in Paths, p = at["writer"]
    PROVE  /\ UNCHANGED <<writer, buf, stored, past, kept, s3, written, failed>> /\ crashed'
           /\ \A q \in Paths : q # p => Same(q)
           /\ writer[p] = "none" /\ Taken(p)' = Taken(p) /\ (p \in late' <=> p \in past \cup late)
           /\ disk[p].there => disk'[p].there
<1>1. /\ UNCHANGED <<writer, buf, stored, past, kept, s3, written, failed>> /\ crashed'
      /\ disk' = disk \/ disk' = [disk EXCEPT ![p] = File({}, FALSE)]
      /\ late' = IF p \in past THEN late \cup {p} ELSE late
      /\ writer[p] = "none"
  BY DEF OpenFails, Open
<1>2. \A q \in Paths : Taken(q)' = Taken(q)
  BY <1>1 DEF Taken
<1>3. /\ \A q \in Paths : q # p => disk'[q] = disk[q] /\ (q \in late' <=> q \in late)
      /\ disk'[p] = disk[p] \/ disk'[p] = File({}, FALSE)
  BY <1>1 DEF ITypes
<1>4. File({}, FALSE).there
  BY DEF File
<1>5. QED
  BY <1>1, <1>2, <1>3, <1>4 DEF Same

LEMMA FailsIs ==
    ASSUME ITypes, FinalizeFails, NEW p \in Paths, p = at["poll"]
    PROVE  /\ UNCHANGED <<stored, late, kept, s3, written>>
           /\ past' = past \cup {p} /\ failed' = failed \cup {p}
           /\ \A q \in Paths : q # p => Same(q)
           /\ writer'[p] = "none" /\ buf'[p] = {} /\ Taken(p)' = Taken(p)
           /\ disk[p].there => disk'[p].there
<1>1. /\ UNCHANGED <<stored, late, kept, s3, written>>
      /\ past' = past \cup {p} /\ failed' = failed \cup {p}
      /\ writer' = [writer EXCEPT ![p] = "none"] /\ buf' = [buf EXCEPT ![p] = {}]
  BY DEF FinalizeFails
<1>w. PICK rows \in {disk[p].rows, Rest(p)}, whole \in BOOLEAN :
         disk' = disk \/ disk' = [disk EXCEPT ![p] = File(rows, whole)]
  BY DEF FinalizeFails
<1>2. \A q \in Paths : Taken(q)' = Taken(q)
  BY <1>1 DEF Taken
<1>3. /\ \A q \in Paths : q # p => disk'[q] = disk[q]
      /\ disk[p].there => disk'[p].there
  BY <1>w DEF File, ITypes
<1>4. /\ \A q \in Paths : q # p => writer'[q] = writer[q] /\ buf'[q] = buf[q]
      /\ writer'[p] = "none" /\ buf'[p] = {}
  BY <1>1 DEF ITypes
<1>5. QED
  BY <1>1, <1>2, <1>3, <1>4 DEF Same

LEMMA UploadIs ==
    ASSUME ITypes, Upload, NEW p \in Paths, p = at["poll"]
    PROVE  /\ UNCHANGED <<writer, buf, disk, past, late, kept, s3, written, failed>>
           /\ \A q \in Paths : q # p => Same(q)
           /\ stored'[p] = disk[p] /\ Taken(p)' = Taken(p)
BY DEF Upload, history, Same, Taken, ITypes

LEMMA RemoveIs ==
    ASSUME ITypes, Remove, NEW p \in Paths, p = at["poll"]
    PROVE  /\ UNCHANGED <<buf, stored, past, late, kept, s3, written, failed>>
           /\ \A q \in Paths : q # p => Same(q)
           /\ disk'[p] = NoFile /\ Taken(p)' = Taken(p)
           /\ writer'[p] = IF writer[p] = "linked" THEN "unlinked" ELSE writer[p]
BY DEF Remove, history, Same, Taken, ITypes

LEMMA StepFiles ==
    ITypes /\ ILocks /\ IPlaces /\ IFiles /\ IPast /\ [Next]_vars => IFiles'
<1> SUFFICES ASSUME ITypes, ILocks, IPlaces, IFiles, IPast, [Next]_vars, NEW q \in Paths
             PROVE  FileOK(q)'
  BY DEF IFiles
<1>t. "writer" \in Lockers /\ "poll" \in Lockers /\ "flush" \in Lockers
  BY DEF Lockers
<1>q. FileOK(q)
  BY DEF IFiles
<1>c. crashed => crashed'
  BY FilesStay
<1>1. CASE Same(q)
  BY <1>1, <1>c, <1>q DEF Same, FileOK
<1>2. CASE WriteOpen
  <2>1. PICK p \in Paths : p = at["writer"]
    BY <1>t, <1>2 DEF WriteOpen, ILocks, Using
  <2>2. CASE q = p
    BY <1>1, <1>2, <1>q, <2>1, <2>2, OpenIs DEF FileOK
  <2>3. QED
    BY <1>1, <1>2, <2>1, <2>2, OpenIs
<1>3. CASE WriteAppend
  <2>1. PICK p \in Paths : p = at["writer"]
    BY <1>t, <1>3 DEF WriteAppend, ILocks, Using
  <2>2. CASE q = p
    <3>1. /\ UNCHANGED <<writer, past, late>> /\ writer[q] # "none"
          /\ writer[q] = "linked" /\ Taken(q) \subseteq buf[q] \cup disk[q].rows
                => Taken(q)' \subseteq buf'[q] \cup disk'[q].rows
      BY <1>3, <2>1, <2>2, AppendIs
    <3>2. q \notin past => writer[q] = "linked"
      BY <1>q, <3>1 DEF FileOK, ITypes
    <3>3. writer'[q] = writer[q] /\ (q \in past' <=> q \in past) /\ (q \in late' <=> q \in late)
      BY <3>1
    <3>4. q \notin past => Taken(q)' \subseteq buf'[q] \cup disk'[q].rows
      BY <1>q, <3>1, <3>2 DEF FileOK
    <3>5. /\ q \in past /\ q \notin late => writer[q] = "none"
          /\ writer[q] = "unlinked" => q \in late
          /\ q \in late => q \in past
      BY <1>q DEF FileOK
    <3>6. writer'[q] # "none"
      BY <3>1
    <3>7. QED
      BY <3>3, <3>4, <3>5, <3>6 DEF FileOK
  <2>3. QED
    BY <1>1, <1>3, <2>1, <2>2, AppendIs
<1>4. CASE FlushPath
  <2>1. PICK p \in Paths : p = at["flush"]
    BY <1>t, <1>4 DEF FlushPath, ILocks, Using
  <2>2. CASE q = p
    <3>1. /\ UNCHANGED <<writer, past, late>> /\ buf'[q] = {} /\ disk'[q].there = disk[q].there
          /\ Taken(q)' = Taken(q)
          /\ writer[q] = "none" => disk' = disk
          /\ writer[q] = "linked" => disk'[q].rows = disk[q].rows \cup buf[q]
      BY <1>4, <2>1, <2>2, FlushIs
    <3>2. q \notin past => writer[q] \in {"none", "linked"}
      BY <1>q DEF FileOK, ITypes
    <3>3. writer'[q] = writer[q] /\ (q \in past' <=> q \in past) /\ (q \in late' <=> q \in late)
      BY <3>1
    <3>4. ASSUME q \notin past
          PROVE  /\ Taken(q)' \subseteq buf'[q] \cup disk'[q].rows
                 /\ writer[q] = "none" => Taken(q)' = {} /\ (~disk'[q].there \/ crashed')
      <4>1. /\ Taken(q) \subseteq buf[q] \cup disk[q].rows
            /\ writer[q] = "none" => Taken(q) = {} /\ (~disk[q].there \/ crashed)
        BY <1>q, <3>4 DEF FileOK
      <4>2. CASE writer[q] = "none"
        BY <1>c, <3>1, <4>1, <4>2
      <4>3. CASE writer[q] = "linked"
        BY <3>1, <4>1, <4>3
      <4>4. QED
        BY <3>2, <3>4, <4>2, <4>3
    <3>5. /\ q \in past /\ q \notin late => writer[q] = "none"
          /\ writer[q] = "unlinked" => q \in late
          /\ q \in late => q \in past
      BY <1>q DEF FileOK
    <3>6. buf'[q] = {}
      BY <3>1
    <3>7. QED
      BY <3>3, <3>4, <3>5, <3>6 DEF FileOK
  <2>3. QED
    BY <1>1, <1>4, <2>1, <2>2, FlushIs
<1>5. CASE FinalizeClose
  <2>1. PICK p \in Paths : p = at["poll"]
    BY <1>t, <1>5 DEF FinalizeClose, ILocks, Using
  <2>2. CASE q = p
    BY <1>5, <1>q, <2>1, <2>2, CloseIs DEF FileOK
  <2>3. QED
    BY <1>1, <1>5, <2>1, <2>2, CloseIs
<1>5a. CASE OpenFails
  <2>1. PICK p \in Paths : p = at["writer"]
    BY <1>t, <1>5a DEF OpenFails, ILocks, Using
  <2>2. CASE q = p
    <3>1. /\ UNCHANGED <<writer, buf, past>> /\ writer[q] = "none" /\ Taken(q)' = Taken(q)
          /\ crashed' /\ (q \in late' <=> q \in past \cup late)
      BY <1>5a, <2>1, <2>2, OpenFailsIs
    <3>2. writer'[q] = "none" /\ buf'[q] = buf[q] /\ (q \in past' <=> q \in past)
      BY <3>1
    <3>3. /\ buf[q] = {} /\ (q \in late => q \in past)
          /\ q \notin past => Taken(q) = {}
      BY <1>q, <3>1 DEF FileOK
    <3>4. QED
      BY <3>1, <3>2, <3>3 DEF FileOK
  <2>3. QED
    BY <1>1, <1>5a, <2>1, <2>2, OpenFailsIs
<1>5b. CASE FinalizeFails
  <2>1. PICK p \in Paths : p = at["poll"]
    BY <1>t, <1>5b DEF FinalizeFails, ILocks, Using
  <2>2. CASE q = p
    BY <1>5b, <1>q, <2>1, <2>2, FailsIs DEF FileOK
  <2>3. QED
    BY <1>1, <1>5b, <2>1, <2>2, FailsIs
<1>6. CASE Upload
  <2>1. PICK p \in Paths : p = at["poll"]
    BY <1>6 DEF Upload, IPlaces, Ahead
  <2>2. CASE q = p
    <3>1. UNCHANGED <<writer, buf, disk, past, late>> /\ Taken(q)' = Taken(q)
      BY <1>6, <2>1, <2>2, UploadIs
    <3>2. QED
      BY <1>c, <1>q, <3>1 DEF FileOK
  <2>3. QED
    BY <1>1, <1>6, <2>1, <2>2, UploadIs
<1>7. CASE Remove
  <2>1. PICK p \in Paths : p = at["poll"] /\ p \in past
    BY <1>7 DEF Remove, IPlaces, IPast, Ahead
  <2>2. CASE q = p
    BY <1>7, <1>q, <2>1, <2>2, RemoveIs DEF FileOK
  <2>3. QED
    BY <1>1, <1>7, <2>1, <2>2, RemoveIs
<1>8. ASSUME NEW p \in Paths, FinalizeSkip(p)
      PROVE  FileOK(q)'
  <2>1. /\ UNCHANGED <<writer, buf, disk, written, late>> /\ past' = past \cup {p}
        /\ writer[p] = "none"
    BY <1>8 DEF FinalizeSkip, Passes, Open, files
  <2>2. Taken(q)' = Taken(q)
    BY <2>1 DEF Taken
  <2>3. QED
    BY <1>q, <1>c, <2>1, <2>2 DEF FileOK
<1>9. CASE ~Touches /\ past' = past
  <2>1. UNCHANGED <<files, written, late, past, failed>>
    BY <1>9, FilesStay DEF Touches
  <2>2. Same(q)
    BY <2>1 DEF Same, Taken, files
  <2>3. QED
    BY <1>1, <2>2
<1>10. QED
  BY <1>2, <1>3, <1>4, <1>5, <1>5a, <1>5b, <1>6, <1>7, <1>8, <1>9, FilesStay DEF Touches

\* Only Remove takes a file away.
LEMMA StillThere ==
    ASSUME ITypes, ILocks, IPlaces, [Next]_vars, ~Remove, NEW q \in Paths, disk[q].there
    PROVE  disk'[q].there
<1>t. "writer" \in Lockers /\ "poll" \in Lockers /\ "flush" \in Lockers
  BY DEF Lockers
<1>1. CASE Same(q)
  BY <1>1 DEF Same
<1>2. CASE WriteOpen
  <2>1. PICK p \in Paths : p = at["writer"]
    BY <1>t, <1>2 DEF WriteOpen, ILocks, Using
  <2>2. QED
    BY <1>1, <1>2, <2>1, OpenIs
<1>3. CASE WriteAppend
  <2>1. PICK p \in Paths : p = at["writer"]
    BY <1>t, <1>3 DEF WriteAppend, ILocks, Using
  <2>2. QED
    BY <1>1, <1>3, <2>1, AppendIs
<1>4. CASE FlushPath
  <2>1. PICK p \in Paths : p = at["flush"]
    BY <1>t, <1>4 DEF FlushPath, ILocks, Using
  <2>2. QED
    BY <1>1, <1>4, <2>1, FlushIs
<1>5. CASE FinalizeClose
  <2>1. PICK p \in Paths : p = at["poll"]
    BY <1>t, <1>5 DEF FinalizeClose, ILocks, Using
  <2>2. QED
    BY <1>1, <1>5, <2>1, CloseIs
<1>5a. CASE OpenFails
  <2>1. PICK p \in Paths : p = at["writer"]
    BY <1>t, <1>5a DEF OpenFails, ILocks, Using
  <2>2. QED
    BY <1>1, <1>5a, <2>1, OpenFailsIs
<1>5b. CASE FinalizeFails
  <2>1. PICK p \in Paths : p = at["poll"]
    BY <1>t, <1>5b DEF FinalizeFails, ILocks, Using
  <2>2. QED
    BY <1>1, <1>5b, <2>1, FailsIs
<1>6. CASE disk' = disk
  BY <1>6
<1>7. CASE Upload
  BY <1>6, <1>7 DEF Upload
<1>8. QED
  BY <1>2, <1>3, <1>4, <1>5, <1>5a, <1>5b, <1>6, <1>7, FilesStay DEF Touches, files

LEMMA StepPast == ITypes /\ ILocks /\ IPlaces /\ IPast /\ [Next]_vars => IPast'
<1> SUFFICES ASSUME ITypes, ILocks, IPlaces, IPast, [Next]_vars
             PROVE  IPast'
  OBVIOUS
<1>t. "poll" \in Threads /\ "poll" \in Lockers
  BY DEF Threads, Lockers
<1>1. CASE Unlist
  BY <1>t, <1>1 DEF Unlist, Moves, IPast, Ahead, ITypes
<1>2. ASSUME NEW to \in {"next", "locking", "inside", "idle"}, pc'["poll"] = to
      PROVE  IPast'
  BY <1>2 DEF IPast, Ahead
<1>3. CASE FinalizeEnd \/ FinalizeNever \/ FinalizeFails \/ Remove
  <2>1. pc'["poll"] \in {"next", "idle"}
    BY <1>t, <1>3 DEF FinalizeEnd, FinalizeNever, FinalizeFails, Leaves, Remove, Moves, ITypes
  <2>2. QED
    BY <1>2, <2>1
<1>4. ASSUME NEW p \in Paths, FinalizeSkip(p) \/ FinalizeLookup(p)
      PROVE  IPast'
  <2>1. pc'["poll"] \in {"next", "locking"}
    BY <1>t, <1>4 DEF FinalizeSkip, Passes, FinalizeLookup, GetLock, Moves, ITypes
  <2>2. QED
    BY <1>2, <2>1
<1>5. CASE Enter("poll")
  <2>1. pc'["poll"] = "inside"
    BY <1>t, <1>5 DEF Enter, Moves, ITypes
  <2>2. QED
    BY <1>2, <2>1
<1>6. CASE FinalizeClose
  <2>1. /\ pc'["poll"] = "closed" /\ at' = at
        /\ past' = past \cup {at["poll"]}
    BY <1>t, <1>6 DEF FinalizeClose, Leaves, Moves, ITypes, IPast
  <2>2. QED
    BY <2>1 DEF IPast, Ahead
<1>7. CASE FinalizeForget
  <2>1. UNCHANGED <<at, past>> /\ pc["poll"] = "closed" /\ pc'["poll"] = "checking"
    BY <1>t, <1>7 DEF FinalizeForget, Moves, ITypes
  <2>2. QED
    BY <2>1 DEF IPast, Ahead
<1>8. CASE FinalizeCheck
  <2>1. UNCHANGED <<at, past, disk, s3>> /\ pc["poll"] = "checking"
    BY <1>8 DEF FinalizeCheck, files, history
  <2>2. PICK there \in BOOLEAN : there = disk[at["poll"]].there
    BY <1>8 DEF FinalizeCheck, IPlaces, Ahead, ITypes, FileType
  <2>3. pc' = [pc EXCEPT !["poll"] = IF ~there THEN "next" ELSE IF s3 THEN "uploading" ELSE "removing"]
    BY <1>8, <2>2 DEF FinalizeCheck, Moves
  <2>4. CASE ~there
    <3>1. pc'["poll"] = "next"
      BY <1>t, <2>3, <2>4 DEF ITypes
    <3>2. QED
      BY <2>1, <3>1 DEF IPast, Ahead
  <2>5. CASE there /\ s3
    <3>1. pc'["poll"] = "uploading"
      BY <1>t, <2>3, <2>5 DEF ITypes
    <3>2. QED
      BY <2>1, <2>2, <2>5, <3>1 DEF IPast, Ahead
  <2>6. CASE there /\ ~s3
    <3>1. pc'["poll"] = "removing"
      BY <1>t, <2>3, <2>6 DEF ITypes
    <3>2. QED
      BY <2>1, <2>2, <2>6, <3>1 DEF IPast, Ahead
  <2>7. QED
    BY <2>4, <2>5, <2>6
<1>9. CASE Upload \/ UploadFails
  <2>1. /\ UNCHANGED <<at, past, disk, s3>> /\ pc["poll"] = "uploading"
        /\ pc'["poll"] \in {"uploading", "removing", "next"}
    BY <1>t, <1>9 DEF Upload, UploadFails, GivenUp, Moves, files, history, ITypes
  <2>2. QED
    BY <2>1 DEF IPast, Ahead
<1>10. CASE pc'["poll"] = pc["poll"] /\ at'["poll"] = at["poll"] /\ ~Remove /\ ~Unlist /\ ~Finalize
  <2>1. past' = past /\ s3' = s3
    BY <1>10, FilesStay DEF Finalize
  <2>2. pc["poll"] \in {"uploading", "removing"} => disk'[at["poll"]].there
    BY StillThere, <1>10 DEF IPlaces, IPast, Ahead
  <2>3. QED
    BY <1>10, <2>1, <2>2 DEF IPast
<1>11. QED
  BY <1>1, <1>3, <1>4, <1>5, <1>6, <1>7, <1>8, <1>9, <1>10, Apart DEF Finalize

\* Where the removal is.
Here(p) == pc["poll"] \in Ahead /\ at["poll"] = p
Removing(p) == pc["poll"] = "removing" /\ at["poll"] = p

\* With a bucket, a file that a removal is done with has all its rows and is complete, and
\* is only there while the removal goes on or when its upload was given up; where it is
\* gone, or about to go, the bucket has the rows.
KeptOK(p) ==
    s3 /\ p \in past /\ p \notin late \cup failed =>
       /\ disk[p].there => /\ Taken(p) \subseteq disk[p].rows /\ disk[p].whole
                           /\ p \in kept \/ Here(p)
       /\ ~disk[p].there \/ Removing(p) => Taken(p) \subseteq stored[p].rows

IKept == \A p \in Paths : KeptOK(p)
IWhole ==
    \A p \in Paths : /\ p \notin late \cup failed /\ stored[p].there => stored[p].whole
                     /\ ~stored[p].there => stored[p].rows = {}

LEMMA InitKept == Init => IKept /\ IWhole
BY DEF Init, IKept, IWhole, KeptOK, NoFile

\* What is left of it where neither the file nor the place of the removal moves.
LEMMA KeptStays ==
    ASSUME NEW q \in Paths, KeptOK(q), Same(q), s3' = s3, kept \subseteq kept',
           Here(q) => Here(q)', Removing(q)' => Removing(q)
    PROVE  KeptOK(q)'
BY DEF KeptOK, Same

LEMMA StepKept ==
    ITypes /\ ILocks /\ IPlaces /\ IFiles /\ IPast /\ IKept /\ [Next]_vars => IKept'
<1> SUFFICES ASSUME ITypes, ILocks, IPlaces, IFiles, IPast, IKept, [Next]_vars, NEW q \in Paths
             PROVE  KeptOK(q)'
  BY DEF IKept
<1>t. /\ "writer" \in Lockers /\ "poll" \in Lockers /\ "flush" \in Lockers
      /\ "writer" \in Threads /\ "poll" \in Threads /\ "flush" \in Threads
  BY DEF Lockers, Threads
<1>q. FileOK(q) /\ KeptOK(q)
  BY DEF IFiles, IKept
<1>k. s3' = s3 /\ kept \subseteq kept'
  <2>1. UploadFails => kept \subseteq kept'
    BY DEF UploadFails
  <2>2. QED
    BY <2>1, FilesStay
\* The removal stays where it is, or is not at q.
<1>1. ASSUME Same(q), pc'["poll"] = pc["poll"], at'["poll"] = at["poll"]
      PROVE  KeptOK(q)'
  BY <1>1, <1>q, <1>k, KeptStays DEF Here, Removing
<1>2. ASSUME Same(q), ~Here(q), ~Removing(q)'
      PROVE  KeptOK(q)'
  BY <1>2, <1>q, <1>k, KeptStays
<1>3. CASE WriteOpen
  <2>1. PICK p \in Paths : p = at["writer"]
    BY <1>t, <1>3 DEF WriteOpen, ILocks, Using
  <2>2. pc'["poll"] = pc["poll"] /\ at'["poll"] = at["poll"]
    BY <1>t, <1>3 DEF WriteOpen, Moves, ITypes
  <2>3. CASE q = p /\ writer'[q] # writer[q]
    <3>1. /\ UNCHANGED past /\ (q \in late' <=> q \in past \cup late)
      BY <1>3, <2>1, <2>3, OpenIs DEF Same
    <3>2. QED
      BY <3>1 DEF KeptOK
  <2>4. q = p /\ writer'[q] = writer[q] => Same(q)
    BY <1>3, <2>1, OpenIs
  <2>5. QED
    BY <1>1, <1>3, <2>1, <2>2, <2>3, <2>4, OpenIs
<1>4. CASE WriteAppend
  <2>1. PICK p \in Paths : p = at["writer"]
    BY <1>t, <1>4 DEF WriteAppend, ILocks, Using
  <2>2. pc'["poll"] = pc["poll"] /\ at'["poll"] = at["poll"]
    BY <1>t, <1>4 DEF WriteAppend, Leaves, Moves, ITypes
  <2>3. CASE q = p
    <3>1. UNCHANGED <<past, late, failed>> /\ writer[q] # "none"
      BY <1>4, <2>1, <2>3, AppendIs
    <3>2. QED
      BY <1>q, <3>1 DEF FileOK, KeptOK
  <2>4. QED
    BY <1>1, <1>4, <2>1, <2>2, <2>3, AppendIs
<1>5. CASE FlushPath
  <2>1. PICK p \in Paths : p = at["flush"]
    BY <1>t, <1>5 DEF FlushPath, ILocks, Using
  <2>2. pc'["poll"] = pc["poll"] /\ at'["poll"] = at["poll"]
    BY <1>t, <1>5 DEF FlushPath, Leaves, Moves, ITypes
  <2>3. CASE q = p
    <3>1. /\ UNCHANGED <<past, late, kept, stored, failed>> /\ Taken(q)' = Taken(q)
          /\ writer[q] = "none" => disk' = disk
      BY <1>5, <2>1, <2>3, FlushIs
    <3>2. QED
      BY <1>q, <1>k, <2>2, <3>1 DEF FileOK, KeptOK, Here, Removing
  <2>4. QED
    BY <1>1, <1>5, <2>1, <2>2, <2>3, FlushIs
<1>6. CASE FinalizeClose
  <2>1. PICK p \in Paths : p = at["poll"]
    BY <1>t, <1>6 DEF FinalizeClose, ILocks, Using
  <2>2. /\ pc["poll"] = "inside" /\ pc'["poll"] = "closed" /\ at'["poll"] = at["poll"]
    BY <1>t, <1>6 DEF FinalizeClose, Leaves, Moves, ITypes
  <2>3. ~Here(q) /\ ~Removing(q)'
    BY <2>2 DEF Here, Removing, Ahead
  <2>4. CASE q = p
    <3>1. /\ UNCHANGED <<stored, late, kept, failed>> /\ Taken(q)' = Taken(q)
          /\ IF writer[q] = "linked"
             THEN disk'[q].there /\ disk'[q].whole /\ disk'[q].rows = disk[q].rows \cup buf[q]
             ELSE disk' = disk
      BY <1>6, <2>1, <2>4, CloseIs
    <3>2. Here(q)'
      BY <2>1, <2>2, <2>4 DEF Here, Ahead
    <3>3. SUFFICES ASSUME s3, q \notin late \cup failed
                   PROVE  KeptOK(q)'
      BY <1>k, <3>1 DEF KeptOK
    <3>4. CASE writer[q] = "linked"
      <4>1. q \notin past /\ Taken(q) \subseteq buf[q] \cup disk[q].rows
        BY <1>q, <3>3, <3>4 DEF FileOK
      <4>2. QED
        BY <2>3, <3>1, <3>2, <3>4, <4>1 DEF KeptOK
    <3>5. CASE writer[q] = "none"
      <4>1. ~crashed
        BY <1>6 DEF FinalizeClose
      <4>2. QED
        BY <1>q, <2>3, <3>1, <3>2, <3>3, <3>5, <4>1 DEF FileOK, KeptOK
    <3>6. QED
      BY <1>q, <3>3, <3>4, <3>5 DEF FileOK, ITypes
  <2>5. QED
    BY <1>2, <1>6, <2>1, <2>3, <2>4, CloseIs
<1>7. CASE Upload
  <2>1. PICK p \in Paths : p = at["poll"]
    BY <1>7 DEF Upload, IPlaces, Ahead
  <2>2. pc["poll"] = "uploading" /\ pc'["poll"] = "removing" /\ at'["poll"] = at["poll"]
    BY <1>t, <1>7 DEF Upload, Moves, ITypes
  <2>3. CASE q = p
    <3>1. /\ UNCHANGED <<disk, past, late, kept, failed>> /\ Taken(q)' = Taken(q)
          /\ stored'[q] = disk[q] /\ disk[q].there /\ Here(q)'
      BY <1>7, <2>1, <2>2, <2>3, UploadIs DEF IPast, Here, Ahead
    <3>2. QED
      BY <1>q, <1>k, <3>1 DEF KeptOK
  <2>4. QED
    BY <1>2, <1>7, <2>1, <2>2, <2>3, UploadIs DEF Here, Removing
<1>8. CASE Remove
  <2>1. PICK p \in Paths : p = at["poll"]
    BY <1>8 DEF Remove, IPlaces, Ahead
  <2>2. pc["poll"] = "removing" /\ pc'["poll"] = "next" /\ at'["poll"] = at["poll"]
    BY <1>t, <1>8 DEF Remove, Moves, ITypes
  <2>3. CASE q = p
    <3>1. /\ UNCHANGED <<stored, past, late, kept, failed>> /\ Taken(q)' = Taken(q)
          /\ ~disk'[q].there /\ Removing(q)
      BY <1>8, <2>1, <2>2, <2>3, RemoveIs DEF NoFile, Removing
    <3>2. QED
      BY <1>q, <1>k, <3>1 DEF KeptOK
  <2>4. QED
    BY <1>2, <1>8, <2>1, <2>2, <2>3, RemoveIs DEF Here, Removing
<1>8a. CASE OpenFails
  <2>1. PICK p \in Paths : p = at["writer"]
    BY <1>t, <1>8a DEF OpenFails, ILocks, Using
  <2>2. pc'["poll"] = pc["poll"] /\ at'["poll"] = at["poll"]
    BY <1>8a DEF OpenFails, threads
  <2>3. CASE q = p
    <3>1. past' = past /\ (q \in late' <=> q \in past \cup late)
      BY <1>8a, <2>1, <2>3, OpenFailsIs
    <3>2. QED
      BY <3>1 DEF KeptOK
  <2>4. QED
    BY <1>1, <1>8a, <2>1, <2>2, <2>3, OpenFailsIs
<1>8b. CASE FinalizeFails
  <2>1. PICK p \in Paths : p = at["poll"]
    BY <1>t, <1>8b DEF FinalizeFails, ILocks, Using
  <2>2. pc["poll"] = "inside" /\ pc'["poll"] = "idle"
    BY <1>t, <1>8b DEF FinalizeFails, Leaves, Moves, ITypes
  <2>3. ~Here(q) /\ ~Removing(q)'
    BY <2>2 DEF Here, Removing, Ahead
  <2>4. CASE q = p
    <3>1. q \in failed'
      BY <1>8b, <2>1, <2>4, FailsIs
    <3>2. QED
      BY <3>1 DEF KeptOK
  <2>5. QED
    BY <1>2, <1>8b, <2>1, <2>3, <2>4, FailsIs
<1>9. ASSUME NEW p \in Paths, FinalizeSkip(p)
      PROVE  KeptOK(q)'
  <2>1. /\ UNCHANGED <<writer, buf, disk, stored, written, late, kept, failed>> /\ past' = past \cup {p}
        /\ writer[p] = "none" /\ ~disk[p].there
    BY <1>9 DEF FinalizeSkip, Passes, Open, files
  <2>2. Taken(q)' = Taken(q)
    BY <2>1 DEF Taken
  <2>3. ~Here(q) /\ ~Removing(q)'
    BY <1>t, <1>9 DEF FinalizeSkip, Passes, Moves, Here, Removing, Ahead, ITypes
  <2>4. CASE q = p /\ q \notin past
    BY <1>q, <2>1, <2>2, <2>3, <2>4 DEF FileOK, KeptOK
  <2>5. CASE q # p \/ q \in past
    <3>1. Same(q)
      BY <2>1, <2>2, <2>5 DEF Same
    <3>2. QED
      BY <1>2, <2>3, <3>1
  <2>6. QED
    BY <2>4, <2>5
<1>10. CASE ~Touches /\ past' = past
  <2>1. UNCHANGED <<files, written, late, past, failed>>
    BY <1>10, FilesStay DEF Touches
  <2>2. Same(q)
    BY <2>1 DEF Same, Taken, files
  <2>3. CASE Unlist \/ FinalizeEnd \/ FinalizeNever \/ Enter("poll")
             \/ \E p \in Paths : FinalizeSkip(p) \/ FinalizeLookup(p)
    <3>1. ~Here(q) /\ ~Removing(q)'
      BY <1>t, <2>3 DEF Unlist, FinalizeEnd, FinalizeNever, Enter, FinalizeSkip, FinalizeLookup, Passes,
                        GetLock, Moves, Here, Removing, Ahead, ITypes
    <3>2. QED
      BY <1>2, <2>2, <3>1
  <2>4. CASE FinalizeForget
    <3>1. at'["poll"] = at["poll"] /\ pc["poll"] = "closed" /\ pc'["poll"] = "checking"
      BY <1>t, <2>4 DEF FinalizeForget, Moves, ITypes
    <3>2. (Here(q) => Here(q)') /\ ~Removing(q)'
      BY <3>1 DEF Here, Removing, Ahead
    <3>3. QED
      BY <1>q, <1>k, <2>2, <3>2, KeptStays
  <2>5. CASE FinalizeCheck
    <3>1. at'["poll"] = at["poll"] /\ pc["poll"] = "checking" /\ kept' = kept
      BY <2>5 DEF FinalizeCheck, history
    <3>2. PICK there \in BOOLEAN : there = disk[at["poll"]].there
      BY <2>5 DEF FinalizeCheck, IPlaces, Ahead, ITypes, FileType
    <3>3. pc' = [pc EXCEPT !["poll"] = IF ~there THEN "next" ELSE IF s3 THEN "uploading" ELSE "removing"]
      BY <2>5, <3>2 DEF FinalizeCheck, Moves
    <3>4. CASE ~s3
      BY <1>k, <3>4 DEF KeptOK
    <3>5. CASE s3 /\ there
      <4>1. pc'["poll"] = "uploading"
        BY <1>t, <3>3, <3>5 DEF ITypes
      <4>2. (Here(q) => Here(q)') /\ ~Removing(q)'
        BY <3>1, <4>1 DEF Here, Removing, Ahead
      <4>3. QED
        BY <1>q, <1>k, <2>2, <4>2, KeptStays
    <3>6. CASE s3 /\ ~there
      <4>1. pc'["poll"] = "next"
        BY <1>t, <3>3, <3>6 DEF ITypes
      <4>2. ~Removing(q)' /\ (Here(q) => ~disk[q].there)
        BY <3>2, <3>6, <4>1 DEF Here, Removing
      <4>3. QED
        BY <1>q, <1>k, <2>2, <4>2 DEF KeptOK, Same
    <3>7. QED
      BY <3>4, <3>5, <3>6
  <2>6. CASE UploadFails
    <3>1. at'["poll"] = at["poll"] /\ pc["poll"] = "uploading"
      BY <2>6 DEF UploadFails
    <3>2. pc'["poll"] = "uploading" \/ (pc'["poll"] = "next" /\ at["poll"] \in kept')
      BY <1>t, <2>6, <3>1 DEF UploadFails, GivenUp, Moves, ITypes
    <3>3. ~Removing(q)' /\ (Here(q) => Here(q)' \/ q \in kept')
      BY <3>1, <3>2 DEF Here, Removing, Ahead
    <3>4. QED
      BY <1>q, <1>k, <2>2, <3>3 DEF KeptOK, Same
  <2>7. QED
    BY <1>1, <1>10, <2>2, <2>3, <2>4, <2>5, <2>6, Apart DEF Finalize, Touches
<1>11. QED
  BY <1>3, <1>4, <1>5, <1>6, <1>7, <1>8, <1>8a, <1>8b, <1>9, <1>10, FilesStay DEF Touches

\* What is uploaded is complete.
LEMMA StepWhole ==
    ITypes /\ ILocks /\ IPlaces /\ IPast /\ IKept /\ IWhole /\ [Next]_vars => IWhole'
<1> SUFFICES ASSUME ITypes, ILocks, IPlaces, IPast, IKept, IWhole, [Next]_vars, NEW q \in Paths
             PROVE  /\ q \notin late' \cup failed' /\ stored'[q].there => stored'[q].whole
                    /\ ~stored'[q].there => stored'[q].rows = {}
  BY DEF IWhole
<1>1. late \subseteq late' /\ failed \subseteq failed'
  <2>1. WriteOpen \/ OpenFails => late \subseteq late'
    BY DEF WriteOpen, OpenFails, Open
  <2>2. WriteAppend \/ FlushPath \/ FinalizeClose \/ FinalizeFails \/ Upload \/ Remove => late' = late
    BY DEF WriteAppend, FlushPath, FinalizeClose, FinalizeFails, Upload, Remove, history
  <2>3. FinalizeFails => failed \subseteq failed'
    BY DEF FinalizeFails
  <2>4. QED
    BY <2>1, <2>2, <2>3, FilesStay DEF Touches
<1>2. CASE stored'[q] = stored[q]
  BY <1>1, <1>2 DEF IWhole
<1>3. CASE Upload
  <2>1. PICK p \in Paths : p = at["poll"]
    BY <1>3 DEF Upload, IPlaces, Ahead
  <2>2. p \in past /\ disk[p].there /\ s3
    BY <1>3, <2>1 DEF Upload, IPast, Ahead
  <2>3. CASE q = p
    <3>1. stored'[q] = disk[q] /\ (q \notin late \cup failed => disk[q].whole)
      BY <1>3, <2>1, <2>2, <2>3, UploadIs DEF IKept, KeptOK
    <3>2. QED
      BY <1>1, <2>2, <2>3, <3>1
  <2>4. CASE q # p
    BY <1>2, <1>3, <2>1, <2>4, UploadIs DEF Same
  <2>5. QED
    BY <2>3, <2>4
<1>4. CASE WriteOpen \/ OpenFails \/ WriteAppend \/ FlushPath \/ FinalizeClose \/ FinalizeFails \/ Remove
  BY <1>2, <1>4 DEF WriteOpen, OpenFails, WriteAppend, FlushPath, FinalizeClose, FinalizeFails, Remove
<1>5. QED
  BY <1>2, <1>3, <1>4, FilesStay DEF Touches, files

\* The inductive invariant of the files.
IInv == ITypes /\ ILocks /\ IPlaces /\ IFiles /\ IPast /\ IKept /\ IWhole

LEMMA Invariant == Spec => []IInv
<1>1. Init => IInv
  BY InitTypes, InitFiles, InitKept DEF IInv
<1>2. IInv /\ [Next]_vars => IInv'
  BY StepTypes, StepLocks, StepPlaces, StepFiles, StepPast, StepKept, StepWhole DEF IInv
<1>3. QED
  BY <1>1, <1>2, PTL DEF Spec

\* Of a path whose lock was never removed in use, that got no row after its asset was
\* finalized and whose file could be closed, write_event() loses no row while the program
\* runs, nor in a crash once a removal is done with the path - without a bucket till then.
THEOREM NoRowLost == Spec => []RowsKept
<1>1. IInv => RowsKept
  <2> SUFFICES ASSUME IInv, NEW r \in written, Calm(At[r]), IF At[r] \in past THEN s3 ELSE ~crashed
               PROVE  r \in Safe(At[r])
    BY DEF RowsKept
  <2>1. PICK p \in Paths : p = At[r]
    BY RowsAndLocks DEF IInv, ITypes
  <2>2. FileOK(p) /\ KeptOK(p) /\ p \notin late \cup failed /\ r \in Taken(p)
    BY <2>1 DEF IInv, IFiles, IKept, Calm, Taken
  <2>3. CASE p \notin past
    <3>1. ~crashed /\ writer[p] # "none" /\ r \in buf[p] \cup disk[p].rows
      BY <2>1, <2>2, <2>3 DEF FileOK
    <3>2. QED
      BY <2>1, <3>1 DEF Safe, Open
  <2>4. CASE p \in past
    <3>1. CASE disk[p].there
      BY <2>1, <2>2, <2>4, <3>1 DEF KeptOK, Safe, Readable
    <3>2. CASE ~disk[p].there
      <4>1. r \in stored[p].rows
        BY <2>1, <2>2, <2>4, <3>2 DEF KeptOK
      <4>2. stored[p].whole
        BY <2>2, <4>1 DEF IInv, IWhole
      <4>3. QED
        BY <2>1, <4>1, <4>2 DEF Safe, Readable
    <3>3. QED
      BY <3>1, <3>2
  <2>5. QED
    BY <2>3, <2>4
<1>2. QED
  BY <1>1, Invariant, PTL

\* After a removal each such path that it got to has a complete file with all its rows:
\* in the bucket, or on disk when its upload was given up.
THEOREM FilesDelivered == Spec => []Delivered
<1>1. IInv => Delivered
  <2> SUFFICES ASSUME IInv, NEW p \in past, Calm(p), s3, pc["poll"] = "idle"
               PROVE  \E f \in {stored[p]} \cup (IF p \in kept THEN {disk[p]} ELSE {}) :
                         /\ {r \in written : At[r] = p} \subseteq f.rows
                         /\ f.there => f.whole
    BY DEF Delivered
  <2>1. p \in Paths /\ p \notin late \cup failed /\ KeptOK(p) /\ ~Here(p)
    BY DEF IInv, ITypes, IKept, Calm, Here, Ahead
  <2>2. CASE disk[p].there
    <3>1. p \in kept /\ Taken(p) \subseteq disk[p].rows /\ disk[p].whole
      BY <2>1, <2>2 DEF KeptOK
    <3>2. QED
      BY <3>1 DEF Taken
  <2>3. CASE ~disk[p].there
    <3>1. Taken(p) \subseteq stored[p].rows /\ (stored[p].there => stored[p].whole)
      BY <2>1, <2>3 DEF KeptOK, IInv, IWhole
    <3>2. QED
      BY <3>1 DEF Taken
  <2>4. QED
    BY <2>2, <2>3
<1>2. QED
  BY <1>1, Invariant, PTL
===============================================================================
