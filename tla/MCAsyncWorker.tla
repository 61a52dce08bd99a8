--------------------------- MODULE MCAsyncWorker ---------------------------
(* Small instances of AsyncWorker for TLC. *)
EXTENDS AsyncWorker, TLC

CONSTANTS r1, r2, c1

MCItems == {r1, r2, c1}
MCCritical == {c1}
MCFailing == {r1}
=============================================================================
