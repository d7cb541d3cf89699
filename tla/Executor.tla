------------------------------ MODULE Executor ------------------------------
(***************************************************************************)
(* What a task pool promises its users, without threads: tasks start in    *)
(* the order they were submitted, each once, nothing starts after the pool *)
(* was closed, and the pool is not gone while a task runs.  TaskPool.tla   *)
(* is shown to implement it.                                               *)
(***************************************************************************)
EXTENDS Sequences

CONSTANT Task

VARIABLES pending,   \* tasks submitted and not started
          active,    \* tasks running
          closed,    \* the destructor has begun
          destroyed  \* the destructor has returned

vars == <<pending, active, closed, destroyed>>

Init ==
  /\ pending = <<>>
  /\ active = {}
  /\ closed = FALSE
  /\ destroyed = FALSE

Submit(t) ==
  /\ ~closed
  /\ pending' = Append(pending, t)
  /\ UNCHANGED <<active, closed, destroyed>>

Start ==
  /\ ~closed
  /\ pending # <<>>
  /\ Head(pending) \notin active
  /\ active' = active \cup {Head(pending)}
  /\ pending' = Tail(pending)
  /\ UNCHANGED <<closed, destroyed>>

Finish(t) ==
  /\ t \in active
  /\ ~destroyed
  /\ active' = active \ {t}
  /\ UNCHANGED <<pending, closed, destroyed>>

Close ==
  /\ closed' = TRUE
  /\ UNCHANGED <<pending, active, destroyed>>

Destroy ==
  /\ closed
  /\ active = {}
  /\ destroyed' = TRUE
  /\ UNCHANGED <<pending, active, closed>>

Next ==
  \/ \E t \in Task : Submit(t) \/ Finish(t)
  \/ Start
  \/ Close
  \/ Destroy

Spec == Init /\ [][Next]_vars
=============================================================================
