----------------------------- MODULE MCTaskPool -----------------------------
(* TLC instances of TaskPool: callers, workers and tasks.                   *)
EXTENDS TaskPool

CONSTANTS main, c2, w1, w2, w3, console, r1, r2
=============================================================================
