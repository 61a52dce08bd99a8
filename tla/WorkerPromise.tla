--------------------------- MODULE WorkerPromise ---------------------------
(***************************************************************************)
(* What runtime/async_worker.py promises to a caller of submit(), without  *)
(* its queue, its critical lane, its wake-up tokens or its threads: an     *)
(* item is accepted or refused once, an accepted item reaches the handler  *)
(* at most once, the handler runs for one item at a time, and only an item *)
(* that was not submitted as critical may be evicted.                      *)
(***************************************************************************)
CONSTANTS Items,          \* the items of all submit() calls
          CriticalItems   \* those submitted with critical=True

VARIABLE fate             \* what became of each item

Fates == {"new", "pending", "handling", "handled", "evicted", "refused"}

Init == fate = [i \in Items |-> "new"]

Moves(i, from, to) == fate[i] = from /\ fate' = [fate EXCEPT ![i] = to]

Accept(i) == Moves(i, "new", "pending")

Refuse(i) == Moves(i, "new", "refused")

Begin(i) == /\ \A j \in Items : fate[j] # "handling"
            /\ Moves(i, "pending", "handling")

End(i) == Moves(i, "handling", "handled")

Evict(i) == i \notin CriticalItems /\ Moves(i, "pending", "evicted")

Next == \E i \in Items : Accept(i) \/ Refuse(i) \/ Begin(i) \/ End(i) \/ Evict(i)

Spec == Init /\ [][Next]_fate
=============================================================================
