--------------------------- MODULE TaskPoolProofs ---------------------------
(* Proofs about TaskPool for every finite set of workers and callers, every *)
(* set of tasks and every keep_task_num: no notification is lost, no task   *)
(* is left to nobody, and the pool implements Executor.                     *)
EXTENDS TaskPool, FiniteSetTheorems, TLAPS

-----------------------------------------------------------------------------
(* Counting workers by where they are *)

In(L) == {w \in Worker : worker[w] \in L}

WaitingLabels == {"poll", "blocked", "woken", "decide"}
RunningLabels == {"running", "finished"}
ComingLabels == {"start", "poll", "woken"}

(* The sets the invariant counts are sets of workers at some labels.        *)
LEMMA InSets ==
  /\ Waiting = In(WaitingLabels)
  /\ Running = In(RunningLabels)
  /\ Coming = In(ComingLabels)
BY DEF In, Waiting, Running, Coming, WaitingLabels, RunningLabels, ComingLabels

LEMMA InFinite ==
  ASSUME NEW L
  PROVE  IsFiniteSet(In(L)) /\ Cardinality(In(L)) \in Nat
BY WorkerAssumption, FS_Subset, FS_CardinalityType DEF In

(* One worker goes from one label to another.                               *)
LEMMA Moves ==
  ASSUME worker \in [Worker -> WorkerLabels], NEW w \in Worker, NEW l, NEW L,
         worker' = [worker EXCEPT ![w] = l]
  PROVE  /\ worker[w] \in L /\ l \in L =>
              Cardinality(In(L)') = Cardinality(In(L))
         /\ worker[w] \notin L /\ l \notin L =>
              Cardinality(In(L)') = Cardinality(In(L))
         /\ worker[w] \notin L /\ l \in L =>
              Cardinality(In(L)') = Cardinality(In(L)) + 1
         /\ worker[w] \in L /\ l \notin L =>
              /\ Cardinality(In(L)') = Cardinality(In(L)) - 1
              /\ Cardinality(In(L)) > 0
<1>1. CASE worker[w] \in L <=> l \in L
  <2>1. In(L)' = In(L)
    BY <1>1 DEF In
  <2> QED
    BY <1>1, <2>1
<1>2. CASE worker[w] \notin L /\ l \in L
  <2>1. In(L)' = In(L) \cup {w} /\ w \notin In(L)
    BY <1>2 DEF In
  <2> QED
    BY <1>2, <2>1, InFinite, FS_AddElement
<1>3. CASE worker[w] \in L /\ l \notin L
  <2>1. In(L)' = In(L) \ {w} /\ w \in In(L)
    BY <1>3 DEF In
  <2>2. Cardinality(In(L)') = Cardinality(In(L)) - 1
    BY <2>1, InFinite, FS_RemoveElement
  <2>3. Cardinality(In(L)) # 0
    BY <2>1, InFinite, FS_EmptySet
  <2> QED
    BY <1>3, <2>2, <2>3, InFinite
<1> QED
  BY <1>1, <1>2, <1>3

Counts == /\ Cardinality(Waiting) \in Nat
          /\ Cardinality(Running) \in Nat
          /\ Cardinality(Coming) \in Nat
          /\ Cardinality(Pending) \in Nat

LEMMA CountsNat == Counts /\ Counts'
<1>1. \A S \in SUBSET Worker : Cardinality(S) \in Nat
  BY WorkerAssumption, FS_Subset, FS_CardinalityType
<1>2. \A S \in SUBSET Caller : Cardinality(S) \in Nat
  BY CallerAssumption, FS_Subset, FS_CardinalityType
<1>3. /\ Waiting \in SUBSET Worker /\ Running \in SUBSET Worker
      /\ Coming \in SUBSET Worker /\ Pending \in SUBSET Caller
  BY DEF Waiting, Running, Coming, Pending
<1>4. /\ Waiting' \in SUBSET Worker /\ Running' \in SUBSET Worker
      /\ Coming' \in SUBSET Worker /\ Pending' \in SUBSET Caller
  BY DEF Waiting, Running, Coming, Pending
<1> QED
  BY <1>1, <1>2, <1>3, <1>4 DEF Counts

Counted(l, L) == IF l \in L THEN 1 ELSE 0

(* The counts after a worker went from label a to label b.                  *)
CountsMove(a, b) ==
  /\ Cardinality(Waiting') =
       Cardinality(Waiting) + Counted(b, WaitingLabels) - Counted(a, WaitingLabels)
  /\ Cardinality(Running') =
       Cardinality(Running) + Counted(b, RunningLabels) - Counted(a, RunningLabels)
  /\ Cardinality(Coming') =
       Cardinality(Coming) + Counted(b, ComingLabels) - Counted(a, ComingLabels)
  /\ a \in WaitingLabels => Cardinality(Waiting) > 0
  /\ a \in RunningLabels => Cardinality(Running) > 0

LEMMA MoveCounts ==
  ASSUME worker \in [Worker -> WorkerLabels], NEW w \in Worker, NEW l,
         worker' = [worker EXCEPT ![w] = l]
  PROVE  CountsMove(worker[w], l)
<1>1. /\ Waiting = In(WaitingLabels) /\ Waiting' = In(WaitingLabels)'
      /\ Running = In(RunningLabels) /\ Running' = In(RunningLabels)'
      /\ Coming = In(ComingLabels) /\ Coming' = In(ComingLabels)'
  BY InSets DEF In, Waiting, Running, Coming, WaitingLabels, RunningLabels, ComingLabels
<1>2. ASSUME NEW L
      PROVE  /\ Cardinality(In(L)') = Cardinality(In(L))
                  + (IF l \in L THEN 1 ELSE 0)
                  - (IF worker[w] \in L THEN 1 ELSE 0)
             /\ worker[w] \in L => Cardinality(In(L)) > 0
             /\ Cardinality(In(L)) \in Nat
  <2>1. Cardinality(In(L)) \in Nat
    BY InFinite
  <2>2. Cardinality(In(L)) > 0 \/ worker[w] \notin L
    <3>1. worker[w] \in L => w \in In(L)
      BY DEF In
    <3> QED
      BY <3>1, <2>1, InFinite, FS_EmptySet
  <2>3. /\ worker[w] \in L /\ l \in L =>
              Cardinality(In(L)') = Cardinality(In(L))
        /\ worker[w] \notin L /\ l \notin L =>
              Cardinality(In(L)') = Cardinality(In(L))
        /\ worker[w] \notin L /\ l \in L =>
              Cardinality(In(L)') = Cardinality(In(L)) + 1
        /\ worker[w] \in L /\ l \notin L =>
              Cardinality(In(L)') = Cardinality(In(L)) - 1
    BY Moves, Zenon
  <2> QED
    BY <2>1, <2>2, <2>3
<1> QED
  BY <1>1, <1>2 DEF CountsMove, Counted

-----------------------------------------------------------------------------
(* Each action keeps the invariant: the workers *)

(* A new worker counts itself.                                              *)
LEMMA EnterStep ==
  ASSUME IInv, NEW w \in Worker, Enter(w)
  PROVE  IInv'
<1> USE DEF IInv, TypeOK
<1>1. /\ worker[w] = "start" /\ worker' = [worker EXCEPT ![w] = "poll"]
      /\ task_lock = Free /\ task_lock' = w
      /\ watting_task_num' = watting_task_num + 1
      /\ UNCHANGED <<task_list, is_cancel, threads_handle, running_task_num,
                     func, run, submitted, destructor>>
  BY DEF Enter, At, Goto, callerVars
<1>2. /\ Cardinality(Waiting') = Cardinality(Waiting) + 1
      /\ Cardinality(Running') = Cardinality(Running)
      /\ Cardinality(Coming') = Cardinality(Coming)
      /\ Counts
  <2>1. CountsMove(worker[w], "poll")
    BY <1>1, MoveCounts
  <2> QED
    BY <1>1, <2>1, CountsNat
       DEF CountsMove, Counted, WaitingLabels, RunningLabels, ComingLabels, Counts
<1>3. Blocked' = Blocked /\ Pending' = Pending /\ Started' = Started
  BY <1>1 DEF Blocked, Pending, Started, At
<1>4. TypeOK'
  BY <1>1 DEF WorkerLabels
<1>5. CountersMatch'
  BY <1>1, <1>2 DEF CountersMatch, Counts
<1>6. NoLostWakeup'
  BY <1>1, <1>2, <1>3 DEF NoLostWakeup
<1>7. LockOwner'
  BY <1>1, WorkerAssumption DEF LockOwner
<1>8. TasksOnce'
  BY <1>1 DEF TasksOnce, At
<1>9. DestructorAgrees'
  BY <1>1, <1>3 DEF DestructorAgrees, At, Listed
<1>10. FirstTaskStarts'
  BY <1>1, <1>3 DEF FirstTaskStarts
<1>11. LastWorkerStays'
  BY <1>1 DEF LastWorkerStays, Staying
<1>12. Listed'
  BY <1>1 DEF Listed
<1> QED
  BY <1>4, <1>5, <1>6, <1>7, <1>8, <1>9, <1>10, <1>11, <1>12

(* A worker that has the mutex, or can have it, takes a task.               *)
LEMMA TakeStep ==
  ASSUME IInv, NEW w \in Worker, worker[w] \in {"poll", "woken"},
         task_lock \in {w, Free}, ~is_cancel, Take(w),
         UNCHANGED <<is_cancel, callerVars>>
  PROVE  IInv'
<1> USE DEF IInv, TypeOK
<1> DEFINE t == Head(task_list)
<1>1. /\ worker[w] \in {"poll", "woken"}
      /\ worker' = [worker EXCEPT ![w] = "running"]
      /\ task_lock \in {w, Free} /\ task_lock' = Free
      /\ task_list # <<>> /\ task_list' = Tail(task_list)
      /\ func' = [func EXCEPT ![w] = t]
      /\ watting_task_num' = watting_task_num - 1
      /\ running_task_num' = running_task_num + 1
      /\ ~is_cancel
      /\ UNCHANGED <<is_cancel, threads_handle, run, submitted, destructor>>
  BY DEF Take, Goto, callerVars
<1>2. /\ Cardinality(Waiting') = Cardinality(Waiting) - 1
      /\ Cardinality(Waiting) > 0
      /\ Cardinality(Running') = Cardinality(Running) + 1
      /\ Cardinality(Coming') = Cardinality(Coming) - 1
      /\ Counts
  <2>1. CountsMove(worker[w], "running")
    BY <1>1, MoveCounts
  <2> QED
    BY <1>1, <2>1, CountsNat
       DEF CountsMove, Counted, WaitingLabels, RunningLabels, ComingLabels, Counts
<1>3. Blocked' = Blocked /\ Pending' = Pending /\ Started' = Started
  BY <1>1 DEF Blocked, Pending, Started, At
<1>4. /\ task_list' \in Seq(Task) /\ Len(task_list') = Len(task_list) - 1
      /\ t \in Task /\ t = task_list[1] /\ 1 \in 1..Len(task_list)
      /\ \A i \in 1..Len(task_list') :
           task_list'[i] = task_list[i+1] /\ i+1 \in 1..Len(task_list)
  BY <1>1
<1>5. TypeOK'
  BY <1>1, <1>2, <1>4 DEF WorkerLabels, CountersMatch, Counts
<1>6. CountersMatch'
  BY <1>1, <1>2 DEF CountersMatch, Counts
<1>7. NoLostWakeup'
  BY <1>1, <1>2, <1>3, <1>4 DEF NoLostWakeup, Counts
<1>8. LockOwner'
  BY <1>1, WorkerAssumption DEF LockOwner
<1>9. TasksOnce'
  <2>1. /\ t \in submitted /\ t # NoTask
        /\ \A v \in Worker : func[v] # t
        /\ \A j \in 1..Len(task_list) : task_list[j] = t => j = 1
    BY <1>4, TaskAssumption DEF TasksOnce
  <2>2. \A i \in 1..Len(task_list') :
          /\ task_list'[i] \in submitted
          /\ \A v \in Worker : func'[v] # task_list'[i]
          /\ \A j \in 1..Len(task_list') : task_list'[i] = task_list'[j] => i = j
    <3> SUFFICES ASSUME NEW i \in 1..Len(task_list')
                 PROVE  /\ task_list'[i] \in submitted
                        /\ \A v \in Worker : func'[v] # task_list'[i]
                        /\ \A j \in 1..Len(task_list') :
                              task_list'[i] = task_list'[j] => i = j
      OBVIOUS
    <3>1. /\ i \in Nat /\ i > 0 /\ i+1 \in 1..Len(task_list)
          /\ task_list'[i] = task_list[i+1]
      BY <1>4
    <3>2. task_list[i+1] \in submitted /\ \A v \in Worker : func[v] # task_list[i+1]
      BY <3>1 DEF TasksOnce
    <3>3. task_list[i+1] # t
      BY <2>1, <3>1
    <3>4. ASSUME NEW j \in 1..Len(task_list'), task_list'[i] = task_list'[j]
          PROVE  i = j
      <4>1. j+1 \in 1..Len(task_list) /\ task_list'[j] = task_list[j+1] /\ j \in Nat
        BY <1>4
      <4>2. i+1 = j+1
        BY <3>1, <3>4, <4>1 DEF TasksOnce
      <4> QED
        BY <4>1, <4>2, <3>1
    <3> QED
      BY <1>1, <3>1, <3>2, <3>3, <3>4
  <2>3. \A v \in Worker : func'[v] # NoTask <=> worker'[v] = "running"
    BY <1>1, <2>1 DEF TasksOnce, At
  <2>4. \A v, u \in Worker : func'[v] = func'[u] /\ func'[v] # NoTask => v = u
    BY <1>1, <2>1 DEF TasksOnce
  <2>5. \A v \in Worker : func'[v] \in submitted \cup {NoTask}
    BY <1>1, <2>1 DEF TasksOnce
  <2> QED
    BY <1>1, <2>2, <2>3, <2>4, <2>5 DEF TasksOnce, At
<1>10. DestructorAgrees'
  BY <1>1, <1>3 DEF DestructorAgrees
<1>11. FirstTaskStarts'
  BY <1>1, <1>3 DEF FirstTaskStarts, Started, At
<1>12. LastWorkerStays'
  BY <1>1 DEF LastWorkerStays, Staying
<1>13. Listed'
  BY <1>1 DEF Listed
<1> QED
  BY <1>5, <1>6, <1>7, <1>8, <1>9, <1>10, <1>11, <1>12, <1>13

(* It finds none and blocks: the queue is empty, so nothing waits for it.   *)
LEMMA BlockStep ==
  ASSUME IInv, NEW w \in Worker, worker[w] \in {"poll", "woken"},
         task_lock \in {w, Free}, ~is_cancel, Block(w),
         UNCHANGED <<is_cancel, callerVars>>
  PROVE  IInv'
<1> USE DEF IInv, TypeOK
<1>1. /\ worker[w] \in {"poll", "woken"}
      /\ worker' = [worker EXCEPT ![w] = "blocked"]
      /\ task_lock \in {w, Free} /\ task_lock' = Free
      /\ task_list = <<>> /\ ~is_cancel
      /\ UNCHANGED <<task_list, watting_task_num, running_task_num, is_cancel,
                     threads_handle, func, run, submitted, destructor>>
  BY DEF Block, Goto, callerVars
<1>2. /\ Cardinality(Waiting') = Cardinality(Waiting)
      /\ Cardinality(Running') = Cardinality(Running)
      /\ Counts /\ Counts'
  <2>1. CountsMove(worker[w], "blocked")
    BY <1>1, MoveCounts
  <2> QED
    BY <1>1, <2>1, CountsNat
       DEF CountsMove, Counted, WaitingLabels, RunningLabels, ComingLabels, Counts
<1>3. TypeOK'
  BY <1>1 DEF WorkerLabels
<1>4. CountersMatch'
  BY <1>1, <1>2 DEF CountersMatch
<1>5. NoLostWakeup'
  <2>1. Len(task_list') = 0
    BY <1>1
  <2> QED
    BY <2>1, <1>2 DEF NoLostWakeup, Counts
<1>6. LockOwner'
  BY <1>1, WorkerAssumption DEF LockOwner
<1>7. TasksOnce'
  BY <1>1 DEF TasksOnce, At
<1>8. DestructorAgrees'
  BY <1>1 DEF DestructorAgrees, Pending
<1>9. FirstTaskStarts'
  BY <1>1 DEF FirstTaskStarts
<1>10. LastWorkerStays'
  BY <1>1 DEF LastWorkerStays, Staying
<1>11. Listed'
  BY <1>1 DEF Listed
<1> QED
  BY <1>3, <1>4, <1>5, <1>6, <1>7, <1>8, <1>9, <1>10, <1>11

(* A worker that sees is_cancel goes on to leave.                           *)
LEMMA CancelledStep ==
  ASSUME IInv, NEW w \in Worker, worker[w] \in {"poll", "woken"},
         task_lock \in {w, Free}, task_lock' = w, is_cancel,
         watting_task_num' \in {watting_task_num, watting_task_num - 1},
         worker' = [worker EXCEPT ![w] = "leave"],
         UNCHANGED <<task_list, running_task_num, is_cancel, threads_handle, func,
                     run, submitted, destructor>>
  PROVE  IInv'
<1> USE DEF IInv, TypeOK
<1>1. /\ Cardinality(Running') = Cardinality(Running)
      /\ Cardinality(Waiting') = Cardinality(Waiting) - 1
      /\ Cardinality(Waiting) > 0
      /\ Counts
  <2>1. CountsMove(worker[w], "leave")
    BY MoveCounts
  <2> QED
    BY <2>1, CountsNat DEF CountsMove, Counted, WaitingLabels, RunningLabels, Counts
<1>2. Blocked' = Blocked /\ Pending' = Pending /\ Started' = Started
  BY DEF Blocked, Pending, Started, At
<1>3. TypeOK'
  BY <1>1 DEF WorkerLabels, CountersMatch, Counts
<1>4. CountersMatch' /\ NoLostWakeup' /\ LastWorkerStays'
  BY <1>1 DEF CountersMatch, NoLostWakeup, LastWorkerStays, Counts
<1>5. LockOwner'
  BY WorkerAssumption DEF LockOwner
<1>6. TasksOnce'
  BY DEF TasksOnce, At
<1>7. DestructorAgrees'
  BY <1>2 DEF DestructorAgrees, At, Listed
<1>8. FirstTaskStarts' /\ Listed'
  BY <1>2 DEF FirstTaskStarts, Listed
<1> QED
  BY <1>3, <1>4, <1>5, <1>6, <1>7, <1>8

LEMMA PollStep ==
  ASSUME IInv, NEW w \in Worker, Poll(w)
  PROVE  IInv'
<1>1. worker[w] = "poll" /\ task_lock = w
  BY DEF Poll, At, IInv, LockOwner
<1>2. CASE ~is_cancel /\ Take(w)
  BY <1>1, <1>2, TakeStep DEF Poll
<1>3. CASE ~is_cancel /\ Block(w)
  BY <1>1, <1>3, BlockStep DEF Poll
<1>4. CASE is_cancel
  BY <1>1, <1>4, CancelledStep DEF Poll, Goto, IInv, TypeOK, callerVars
<1> QED
  BY <1>2, <1>3, <1>4 DEF Poll

LEMMA WakeStep ==
  ASSUME IInv, NEW w \in Worker, Wake(w)
  PROVE  IInv'
<1>1. worker[w] = "woken" /\ task_lock = Free
  BY DEF Wake, At
<1>2. CASE ~is_cancel /\ Take(w)
  BY <1>1, <1>2, TakeStep DEF Wake
<1>3. CASE ~is_cancel /\ Block(w)
  BY <1>1, <1>3, BlockStep DEF Wake
<1>4. CASE is_cancel
  BY <1>1, <1>4, CancelledStep DEF Wake, Goto, IInv, TypeOK, callerVars
<1> QED
  BY <1>2, <1>3, <1>4 DEF Wake

(* A wakeup without a notification only adds a worker on its way.           *)
LEMMA SpuriousWakeStep ==
  ASSUME IInv, NEW w \in Worker, SpuriousWake(w)
  PROVE  IInv'
<1> USE DEF IInv, TypeOK
<1>1. /\ worker[w] = "blocked" /\ worker' = [worker EXCEPT ![w] = "woken"]
      /\ UNCHANGED <<task_lock, task_list, watting_task_num, running_task_num,
                     is_cancel, threads_handle, func, run, submitted, destructor>>
  BY DEF SpuriousWake, At, Goto, callerVars
<1>2. /\ Cardinality(Waiting') = Cardinality(Waiting)
      /\ Cardinality(Running') = Cardinality(Running)
      /\ Cardinality(Coming') = Cardinality(Coming) + 1
      /\ Counts
  <2>1. CountsMove(worker[w], "woken")
    BY <1>1, MoveCounts
  <2> QED
    BY <1>1, <2>1, CountsNat
       DEF CountsMove, Counted, WaitingLabels, RunningLabels, ComingLabels, Counts
<1>3. Blocked # {} /\ Blocked' \subseteq Blocked /\ Pending' = Pending
  BY <1>1 DEF Blocked, Pending, At
<1>4. TypeOK'
  BY <1>1 DEF WorkerLabels
<1>5. CountersMatch'
  BY <1>1, <1>2 DEF CountersMatch
<1>6. NoLostWakeup'
  BY <1>1, <1>2, <1>3 DEF NoLostWakeup, Counts
<1>7. LockOwner'
  BY <1>1 DEF LockOwner
<1>8. TasksOnce'
  BY <1>1 DEF TasksOnce, At
<1>9. DestructorAgrees'
  BY <1>1, <1>3 DEF DestructorAgrees, At
<1>10. FirstTaskStarts'
  BY <1>1 DEF FirstTaskStarts, Started, At
<1>11. LastWorkerStays'
  BY <1>1 DEF LastWorkerStays, Staying
<1>12. Listed'
  BY <1>1 DEF Listed
<1> QED
  BY <1>4, <1>5, <1>6, <1>7, <1>8, <1>9, <1>10, <1>11, <1>12

(* A task returns.                                                          *)
LEMMA FinishStep ==
  ASSUME IInv, NEW w \in Worker, Finish(w)
  PROVE  IInv'
<1> USE DEF IInv, TypeOK
<1>1. /\ worker[w] = "running" /\ worker' = [worker EXCEPT ![w] = "finished"]
      /\ func' = [func EXCEPT ![w] = NoTask]
      /\ UNCHANGED <<task_lock, task_list, watting_task_num, running_task_num,
                     is_cancel, threads_handle, run, submitted, destructor>>
  BY DEF Finish, At, Goto, callerVars
<1>2. /\ Cardinality(Waiting') = Cardinality(Waiting)
      /\ Cardinality(Running') = Cardinality(Running)
      /\ Cardinality(Coming') = Cardinality(Coming)
  <2>1. CountsMove(worker[w], "finished")
    BY <1>1, MoveCounts
  <2> QED
    BY <1>1, <2>1, CountsNat
       DEF CountsMove, Counted, WaitingLabels, RunningLabels, ComingLabels, Counts
<1>3. Blocked' = Blocked /\ Pending' = Pending /\ Started' = Started
  BY <1>1 DEF Blocked, Pending, Started, At
<1>4. TypeOK'
  BY <1>1 DEF WorkerLabels
<1>5. CountersMatch' /\ NoLostWakeup'
  BY <1>1, <1>2, <1>3 DEF CountersMatch, NoLostWakeup
<1>6. LockOwner'
  BY <1>1 DEF LockOwner
<1>7. TasksOnce'
  <2>1. \A i \in 1..Len(task_list) : task_list[i] # NoTask
    BY TaskAssumption
  <2> QED
    BY <1>1, <2>1 DEF TasksOnce, At
<1>8. DestructorAgrees'
  BY <1>1, <1>3 DEF DestructorAgrees, At
<1>9. FirstTaskStarts'
  BY <1>1, <1>3 DEF FirstTaskStarts
<1>10. LastWorkerStays'
  BY <1>1 DEF LastWorkerStays, Staying
<1>11. Listed'
  BY <1>1 DEF Listed
<1> QED
  BY <1>4, <1>5, <1>6, <1>7, <1>8, <1>9, <1>10, <1>11

(* The worker counts itself as waiting again.  If that makes it one too     *)
(* many there is another waiting or running worker, and that one stays.     *)
LEMMA ReenterStep ==
  ASSUME IInv, NEW w \in Worker, Reenter(w)
  PROVE  IInv'
<1> USE DEF IInv, TypeOK
<1>1. /\ worker[w] = "finished" /\ worker' = [worker EXCEPT ![w] = "decide"]
      /\ task_lock = Free /\ task_lock' = w
      /\ running_task_num' = running_task_num - 1
      /\ watting_task_num' = watting_task_num + 1
      /\ UNCHANGED <<task_list, is_cancel, threads_handle, func, run, submitted,
                     destructor>>
  BY DEF Reenter, At, Goto, callerVars
<1>2. /\ Cardinality(Waiting') = Cardinality(Waiting) + 1
      /\ Cardinality(Running') = Cardinality(Running) - 1
      /\ Cardinality(Running) > 0
      /\ Cardinality(Coming') = Cardinality(Coming)
      /\ Counts /\ Counts'
  <2>1. CountsMove(worker[w], "decide")
    BY <1>1, MoveCounts
  <2> QED
    BY <1>1, <2>1, CountsNat
       DEF CountsMove, Counted, WaitingLabels, RunningLabels, ComingLabels, Counts
<1>3. Blocked' = Blocked /\ Pending' = Pending /\ Started' = Started
  BY <1>1 DEF Blocked, Pending, Started, At
<1>4. TypeOK'
  BY <1>1, <1>2 DEF WorkerLabels, CountersMatch, Counts
<1>5. CountersMatch'
  BY <1>1, <1>2 DEF CountersMatch, Counts
<1>6. NoLostWakeup'
  BY <1>1, <1>2, <1>3 DEF NoLostWakeup
<1>7. LockOwner'
  BY <1>1, WorkerAssumption DEF LockOwner
<1>8. TasksOnce'
  BY <1>1 DEF TasksOnce, At
<1>9. DestructorAgrees'
  BY <1>1, <1>3 DEF DestructorAgrees, At
<1>10. FirstTaskStarts'
  BY <1>1, <1>3 DEF FirstTaskStarts
<1>11. LastWorkerStays'
  <2> SUFFICES ASSUME keep_task_num > 0, ~is_cancel, Staying' = {}
               PROVE  FALSE
    BY <1>1 DEF LastWorkerStays
  <2>1. TooMany'
    BY <1>1 DEF Staying, At
  <2>2. Cardinality(Waiting') + Cardinality(Running') >= 2
    <3>1. /\ watting_task_num' = Cardinality(Waiting')
          /\ running_task_num' = Cardinality(Running')
      BY <1>1, <1>5 DEF CountersMatch
    <3>2. running_task_num' + watting_task_num' > keep_task_num
      BY <2>1 DEF TooMany
    <3> QED
      BY <3>1, <3>2, <1>2, KeepAssumption DEF Counts
  <2>3. Running' = {}
    BY DEF Running, Staying
  <2>4. \A v \in Worker : v \in Waiting' => worker'[v] = "decide"
    BY DEF Waiting, Staying
  <2>5. \A v \in Worker : worker'[v] = "decide" => v = w
    BY <1>1, WorkerAssumption DEF LockOwner
  <2>6. Waiting' = {w}
    BY <2>4, <2>5, <1>1 DEF Waiting
  <2>7. Cardinality(Waiting') = 1 /\ Cardinality(Running') = 0
    BY <2>3, <2>6, FS_Singleton, FS_EmptySet
  <2> QED
    BY <2>2, <2>7
<1>12. Listed'
  BY <1>1 DEF Listed
<1> QED
  BY <1>4, <1>5, <1>6, <1>7, <1>8, <1>9, <1>10, <1>11, <1>12

(* One worker too many is not one that stays; any other goes on.            *)
LEMMA DecideStep ==
  ASSUME IInv, NEW w \in Worker, Decide(w)
  PROVE  IInv'
<1> USE DEF IInv, TypeOK
<1>1. /\ worker[w] = "decide"
      /\ UNCHANGED <<task_lock, task_list, running_task_num, is_cancel,
                     threads_handle, func, run, submitted, destructor>>
  BY DEF Decide, At, callerVars
<1>2. task_lock = w /\ \A v \in Worker : v # w => worker[v] # "decide"
  BY <1>1 DEF LockOwner
<1>3. CASE /\ TooMany /\ watting_task_num' = watting_task_num - 1
           /\ worker' = [worker EXCEPT ![w] = "leave"]
  <2>1. /\ Cardinality(Waiting') = Cardinality(Waiting) - 1
        /\ Cardinality(Waiting) > 0
        /\ Cardinality(Running') = Cardinality(Running)
        /\ Cardinality(Coming') = Cardinality(Coming)
        /\ Counts
    <3>1. CountsMove(worker[w], "leave")
      BY <1>3, MoveCounts
    <3> QED
      BY <1>1, <3>1, CountsNat
         DEF CountsMove, Counted, WaitingLabels, RunningLabels, ComingLabels, Counts
  <2>2. Blocked' = Blocked /\ Pending' = Pending /\ Started' = Started
    BY <1>1, <1>3 DEF Blocked, Pending, Started, At
  <2>3. TypeOK'
    BY <1>1, <1>3, <2>1 DEF WorkerLabels, CountersMatch, Counts
  <2>4. CountersMatch' /\ NoLostWakeup'
    BY <1>1, <1>3, <2>1, <2>2 DEF CountersMatch, NoLostWakeup, Counts
  <2>5. LockOwner' /\ TasksOnce'
    BY <1>1, <1>3 DEF LockOwner, TasksOnce, At
  <2>6. DestructorAgrees'
    BY <1>1, <1>3, <2>2 DEF DestructorAgrees, At
  <2>7. FirstTaskStarts' /\ Listed'
    BY <1>1, <1>3, <2>2 DEF FirstTaskStarts, Listed
  <2>8. LastWorkerStays'
    <3>1. \A v \in Staying : v \in Staying'
      BY <1>1, <1>2, <1>3 DEF Staying, At
    <3> QED
      BY <1>1, <2>2, <3>1 DEF LastWorkerStays
  <2> QED
    BY <2>3, <2>4, <2>5, <2>6, <2>7, <2>8
<1>4. CASE /\ UNCHANGED watting_task_num
           /\ worker' = [worker EXCEPT ![w] = "poll"]
  <2>1. /\ Cardinality(Waiting') = Cardinality(Waiting)
        /\ Cardinality(Running') = Cardinality(Running)
        /\ Cardinality(Coming') = Cardinality(Coming) + 1
        /\ Counts
    <3>1. CountsMove(worker[w], "poll")
      BY <1>4, MoveCounts
    <3> QED
      BY <1>1, <3>1, CountsNat
         DEF CountsMove, Counted, WaitingLabels, RunningLabels, ComingLabels, Counts
  <2>2. Blocked' = Blocked /\ Pending' = Pending /\ Started' = Started
    BY <1>1, <1>4 DEF Blocked, Pending, Started, At
  <2>3. TypeOK'
    BY <1>1, <1>4 DEF WorkerLabels
  <2>4. CountersMatch' /\ NoLostWakeup'
    BY <1>1, <1>4, <2>1, <2>2 DEF CountersMatch, NoLostWakeup, Counts
  <2>5. LockOwner' /\ TasksOnce'
    BY <1>1, <1>4 DEF LockOwner, TasksOnce, At
  <2>6. DestructorAgrees'
    BY <1>1, <1>4, <2>2 DEF DestructorAgrees, At
  <2>7. FirstTaskStarts' /\ Listed' /\ LastWorkerStays'
    BY <1>1, <1>4, <2>2 DEF FirstTaskStarts, Listed, LastWorkerStays, Staying
  <2> QED
    BY <2>3, <2>4, <2>5, <2>6, <2>7
<1> QED
  BY <1>3, <1>4 DEF Decide, Goto

(* A worker ends, and takes its thread from the list if nobody joins it.    *)
LEMMA LeaveStep ==
  ASSUME IInv, NEW w \in Worker, Leave(w)
  PROVE  IInv'
<1> USE DEF IInv, TypeOK
<1>1. /\ worker[w] = "leave" /\ worker' = [worker EXCEPT ![w] = "gone"]
      /\ task_lock = w /\ task_lock' = Free
      /\ threads_handle' = IF is_cancel THEN threads_handle ELSE threads_handle \ {w}
      /\ UNCHANGED <<task_list, watting_task_num, running_task_num, is_cancel,
                     func, run, submitted, destructor>>
  BY DEF Leave, HandleOnExit, At, Goto, callerVars, LockOwner
<1>2. /\ Cardinality(Waiting') = Cardinality(Waiting)
      /\ Cardinality(Running') = Cardinality(Running)
      /\ Cardinality(Coming') = Cardinality(Coming)
  <2>1. CountsMove(worker[w], "gone")
    BY <1>1, MoveCounts
  <2> QED
    BY <1>1, <2>1, CountsNat
       DEF CountsMove, Counted, WaitingLabels, RunningLabels, ComingLabels, Counts
<1>3. /\ Blocked' = Blocked /\ Pending' = Pending /\ Started' = Started
      /\ Staying' = Staying
  BY <1>1 DEF Blocked, Pending, Started, Staying, TooMany, At
<1>4. TypeOK'
  BY <1>1 DEF WorkerLabels
<1>5. CountersMatch' /\ NoLostWakeup'
  BY <1>1, <1>2, <1>3 DEF CountersMatch, NoLostWakeup
<1>6. LockOwner'
  BY <1>1, WorkerAssumption DEF LockOwner
<1>7. TasksOnce'
  BY <1>1 DEF TasksOnce, At
<1>8. DestructorAgrees'
  BY <1>1, <1>3 DEF DestructorAgrees, At
<1>9. FirstTaskStarts' /\ LastWorkerStays'
  BY <1>1, <1>3 DEF FirstTaskStarts, LastWorkerStays
<1>10. Listed'
  BY <1>1 DEF Listed
<1> QED
  BY <1>4, <1>5, <1>6, <1>7, <1>8, <1>9, <1>10

-----------------------------------------------------------------------------
(* Each action keeps the invariant: the callers of Run *)

(* A caller is in Run or not.                                               *)
LEMMA PendingMoves ==
  ASSUME run \in [Caller -> {"idle", "check", "notify", "spawn"}],
         NEW c \in Caller, NEW l, run' = [run EXCEPT ![c] = l]
  PROVE  /\ run[c] = "idle" /\ l # "idle" =>
              Cardinality(Pending') = Cardinality(Pending) + 1
         /\ run[c] # "idle" /\ l # "idle" => Pending' = Pending
         /\ run[c] # "idle" /\ l = "idle" =>
              Cardinality(Pending') = Cardinality(Pending) - 1
<1>1. IsFiniteSet(Pending)
  BY CallerAssumption, FS_Subset DEF Pending
<1>2. CASE run[c] = "idle" /\ l # "idle"
  <2>1. Pending' = Pending \cup {c} /\ c \notin Pending
    BY <1>2 DEF Pending
  <2> QED
    BY <1>1, <1>2, <2>1, FS_AddElement
<1>3. CASE run[c] # "idle" /\ l = "idle"
  <2>1. Pending' = Pending \ {c} /\ c \in Pending
    BY <1>3 DEF Pending
  <2> QED
    BY <1>1, <1>3, <2>1, FS_RemoveElement
<1>4. CASE run[c] # "idle" /\ l # "idle"
  BY <1>4 DEF Pending
<1> QED
  BY <1>2, <1>3, <1>4

(* One more task in the queue, one more call that will see to it.           *)
LEMMA PushStep ==
  ASSUME IInv, NEW c \in Caller, NEW t \in Task, Push(c, t)
  PROVE  IInv'
<1> USE DEF IInv, TypeOK
<1>1. /\ run[c] = "idle" /\ run' = [run EXCEPT ![c] = "check"]
      /\ destructor = "none" /\ t \notin submitted
      /\ task_list' = Append(task_list, t)
      /\ submitted' = submitted \cup {t}
      /\ UNCHANGED <<task_lock, watting_task_num, is_cancel, threads_handle,
                     destructor, worker, func, running_task_num>>
  BY DEF Push, Return, workerVars
<1>2. Cardinality(Pending') = Cardinality(Pending) + 1
  <2>1. /\ run \in [Caller -> {"idle", "check", "notify", "spawn"}]
        /\ run[c] = "idle" /\ run' = [run EXCEPT ![c] = "check"]
    BY <1>1
  <2> HIDE DEF IInv, TypeOK
  <2>2. run[c] = "idle" /\ "check" # "idle" =>
          Cardinality(Pending') = Cardinality(Pending) + 1
    BY <2>1, PendingMoves, Zenon
  <2> QED
    BY <2>1, <2>2
<1>3. /\ Waiting' = Waiting /\ Running' = Running /\ Coming' = Coming
      /\ Blocked' = Blocked /\ Started' = Started /\ Staying' = Staying
  BY <1>1 DEF Waiting, Running, Coming, Blocked, Started, Staying, TooMany, At
<1>4. /\ Len(task_list') = Len(task_list) + 1
      /\ task_list'[Len(task_list) + 1] = t
      /\ \A i \in 1..Len(task_list) : task_list'[i] = task_list[i]
  BY <1>1
<1>5. TypeOK'
  BY <1>1
<1>6. CountersMatch'
  BY <1>1, <1>3 DEF CountersMatch
<1>7. NoLostWakeup'
  BY <1>1, <1>2, <1>3, <1>4, CountsNat DEF NoLostWakeup, Counts
<1>8. LockOwner' /\ Listed' /\ LastWorkerStays'
  BY <1>1, <1>3 DEF LockOwner, Listed, LastWorkerStays
<1>9. TasksOnce'
  <2>1. t # NoTask /\ \A v \in Worker : func[v] # t
    BY <1>1, TaskAssumption DEF TasksOnce
  <2>2. ASSUME NEW i \in 1..Len(task_list')
        PROVE  \/ i = Len(task_list) + 1 /\ task_list'[i] = t
               \/ /\ i \in 1..Len(task_list) /\ task_list'[i] = task_list[i]
                  /\ task_list[i] # t
    BY <1>1, <1>4 DEF TasksOnce
  <2>3. \A i, j \in 1..Len(task_list') : task_list'[i] = task_list'[j] => i = j
    BY <2>2 DEF TasksOnce
  <2>4. \A i \in 1..Len(task_list') :
          /\ task_list'[i] \in submitted'
          /\ \A v \in Worker : func[v] # task_list'[i]
    BY <1>1, <2>1, <2>2 DEF TasksOnce
  <2> QED
    BY <1>1, <2>3, <2>4 DEF TasksOnce, At
<1>10. DestructorAgrees'
  BY <1>1 DEF DestructorAgrees
<1>11. FirstTaskStarts'
  BY <1>1 DEF FirstTaskStarts
<1> QED
  BY <1>5, <1>6, <1>7, <1>8, <1>9, <1>10, <1>11

(* If no worker was ever started none is waiting, and Run starts one.       *)
LEMMA CheckStep ==
  ASSUME IInv, NEW c \in Caller, Check(c)
  PROVE  IInv'
<1> USE DEF IInv, TypeOK
<1>1. /\ run[c] = "check"
      /\ run' = [run EXCEPT ![c] = IF SomebodyWaits THEN "notify" ELSE "spawn"]
      /\ UNCHANGED <<task_lock, task_list, watting_task_num, is_cancel,
                     threads_handle, submitted, destructor, worker, func,
                     running_task_num>>
  BY DEF Check, Return, workerVars
<1>2. /\ Pending' = Pending /\ c \in Pending
      /\ Waiting' = Waiting /\ Running' = Running /\ Coming' = Coming
      /\ Blocked' = Blocked /\ Started' = Started /\ Staying' = Staying
  BY <1>1 DEF Pending, Waiting, Running, Coming, Blocked, Started, Staying, TooMany, At
<1>3. TypeOK'
  BY <1>1
<1>4. CountersMatch' /\ NoLostWakeup'
  BY <1>1, <1>2 DEF CountersMatch, NoLostWakeup
<1>5. LockOwner' /\ Listed' /\ LastWorkerStays' /\ TasksOnce'
  BY <1>1, <1>2 DEF LockOwner, Listed, LastWorkerStays, TasksOnce, At
<1>6. DestructorAgrees'
  BY <1>1, <1>2 DEF DestructorAgrees, At
<1>7. FirstTaskStarts'
  <2> SUFFICES ASSUME Started = {}
               PROVE  run'[c] = "spawn"
    BY <1>1, <1>2 DEF FirstTaskStarts
  <2>1. Waiting = {}
    BY DEF Waiting, Started, At
  <2>2. ~is_cancel
    BY <1>2 DEF DestructorAgrees
  <2>3. watting_task_num = 0
    BY <2>1, <2>2, FS_EmptySet DEF CountersMatch
  <2> QED
    BY <1>1, <2>3 DEF SomebodyWaits
<1> QED
  BY <1>3, <1>4, <1>5, <1>6, <1>7

(* The call wakes a blocked worker, unless there is none.                   *)
LEMMA NotifyStep ==
  ASSUME IInv, NEW c \in Caller, Notify(c)
  PROVE  IInv'
<1> USE DEF IInv, TypeOK
<1>1. /\ run[c] = "notify" /\ run' = [run EXCEPT ![c] = "idle"]
      /\ UNCHANGED <<task_lock, task_list, watting_task_num, is_cancel,
                     threads_handle, submitted, destructor, func,
                     running_task_num>>
  BY DEF Notify, Return
<1>2. c \in Pending /\ Cardinality(Pending') = Cardinality(Pending) - 1
  BY <1>1, PendingMoves DEF Pending
<1>3. ~is_cancel
  BY <1>2 DEF DestructorAgrees
<1>4. CASE Blocked = {} /\ UNCHANGED worker
  <2>1. /\ Waiting' = Waiting /\ Running' = Running /\ Coming' = Coming
        /\ Blocked' = Blocked /\ Started' = Started /\ Staying' = Staying
    BY <1>1, <1>4 DEF Waiting, Running, Coming, Blocked, Started, Staying, TooMany, At
  <2>2. TypeOK'
    BY <1>1, <1>4
  <2>3. CountersMatch' /\ NoLostWakeup'
    BY <1>1, <1>4, <2>1 DEF CountersMatch, NoLostWakeup
  <2>4. LockOwner' /\ Listed' /\ LastWorkerStays' /\ TasksOnce'
    BY <1>1, <1>4, <2>1 DEF LockOwner, Listed, LastWorkerStays, TasksOnce, At
  <2>5. DestructorAgrees'
    BY <1>1, <1>3 DEF DestructorAgrees
  <2>6. FirstTaskStarts'
    BY <1>1, <2>1 DEF FirstTaskStarts
  <2> QED
    BY <2>2, <2>3, <2>4, <2>5, <2>6
<1>5. ASSUME NEW w \in Blocked, worker' = [worker EXCEPT ![w] = "woken"]
      PROVE  IInv'
  <2>1. w \in Worker /\ worker[w] = "blocked"
    BY DEF Blocked, At
  <2>2. /\ Cardinality(Waiting') = Cardinality(Waiting)
        /\ Cardinality(Running') = Cardinality(Running)
        /\ Cardinality(Coming') = Cardinality(Coming) + 1
    <3>1. CountsMove(worker[w], "woken")
      BY <1>5, <2>1, MoveCounts
    <3> QED
      BY <2>1, <3>1, CountsNat
         DEF CountsMove, Counted, WaitingLabels, RunningLabels, ComingLabels, Counts
  <2>3. TypeOK'
    BY <1>1, <1>5 DEF WorkerLabels
  <2>4. CountersMatch'
    BY <1>1, <2>2 DEF CountersMatch
  <2>5. NoLostWakeup'
    BY <1>1, <1>2, <1>3, <2>2, CountsNat DEF NoLostWakeup, Counts
  <2>6. LockOwner' /\ Listed' /\ TasksOnce'
    BY <1>1, <1>5, <2>1 DEF LockOwner, Listed, TasksOnce, At
  <2>7. DestructorAgrees'
    BY <1>1, <1>3 DEF DestructorAgrees
  <2>8. FirstTaskStarts' /\ LastWorkerStays'
    BY <1>1, <1>5, <2>1 DEF FirstTaskStarts, LastWorkerStays, Started, Staying, At
  <2> QED
    BY <2>3, <2>4, <2>5, <2>6, <2>7, <2>8
<1> QED
  BY <1>4, <1>5 DEF Notify, Goto

(* The call starts a worker.                                                *)
LEMMA SpawnStep ==
  ASSUME IInv, NEW c \in Caller, Spawn(c)
  PROVE  IInv'
<1> USE DEF IInv, TypeOK
<1>1. PICK w \in Worker : /\ worker[w] = "none"
                          /\ worker' = [worker EXCEPT ![w] = "start"]
                          /\ threads_handle' = threads_handle \cup {w}
  BY DEF Spawn, At, Goto
<1>2. /\ run[c] = "spawn" /\ run' = [run EXCEPT ![c] = "idle"]
      /\ UNCHANGED <<task_lock, task_list, watting_task_num, is_cancel,
                     submitted, destructor, func, running_task_num>>
  BY DEF Spawn, Return
<1>3. c \in Pending /\ Cardinality(Pending') = Cardinality(Pending) - 1
  BY <1>2, PendingMoves DEF Pending
<1>4. ~is_cancel
  BY <1>3 DEF DestructorAgrees
<1>5. /\ Cardinality(Waiting') = Cardinality(Waiting)
      /\ Cardinality(Running') = Cardinality(Running)
      /\ Cardinality(Coming') = Cardinality(Coming) + 1
  <2>1. CountsMove(worker[w], "start")
    BY <1>1, MoveCounts
  <2> QED
    BY <1>1, <2>1, CountsNat
       DEF CountsMove, Counted, WaitingLabels, RunningLabels, ComingLabels, Counts
<1>6. Blocked' = Blocked
  BY <1>1 DEF Blocked, At
<1>7. TypeOK'
  BY <1>1, <1>2 DEF WorkerLabels
<1>8. CountersMatch'
  BY <1>2, <1>5 DEF CountersMatch
<1>9. NoLostWakeup'
  BY <1>2, <1>3, <1>5, <1>6, CountsNat DEF NoLostWakeup, Counts
<1>10. LockOwner' /\ Listed' /\ TasksOnce'
  BY <1>1, <1>2 DEF LockOwner, Listed, TasksOnce, At
<1>11. DestructorAgrees'
  BY <1>2, <1>4 DEF DestructorAgrees
<1>12. FirstTaskStarts' /\ LastWorkerStays'
  BY <1>1, <1>2 DEF FirstTaskStarts, LastWorkerStays, Started, Staying, At
<1> QED
  BY <1>7, <1>8, <1>9, <1>10, <1>11, <1>12

-----------------------------------------------------------------------------
(* Each action keeps the invariant: the destructor *)

LEMMA CancelStep ==
  ASSUME IInv, Cancel
  PROVE  IInv'
<1> USE DEF IInv, TypeOK
<1>1. /\ destructor = "none" /\ destructor' = "notify" /\ is_cancel'
      /\ Pending = {} /\ is_cancel' \in BOOLEAN
      /\ UNCHANGED <<task_lock, task_list, watting_task_num, threads_handle, run,
                     submitted, worker, func, running_task_num>>
  BY DEF Cancel, Pending, workerVars
<1>2. /\ Waiting' = Waiting /\ Running' = Running /\ Pending' = Pending
      /\ Started' = Started
  BY <1>1 DEF Waiting, Running, Pending, Started, At
<1>3. TypeOK'
  BY <1>1
<1>4. CountersMatch' /\ NoLostWakeup' /\ LastWorkerStays'
  BY <1>1, <1>2 DEF CountersMatch, NoLostWakeup, LastWorkerStays
<1>5. LockOwner' /\ TasksOnce' /\ Listed'
  BY <1>1 DEF LockOwner, TasksOnce, Listed, At
<1>6. DestructorAgrees'
  BY <1>1, <1>2 DEF DestructorAgrees
<1>7. FirstTaskStarts'
  BY <1>1, <1>2 DEF FirstTaskStarts
<1> QED
  BY <1>3, <1>4, <1>5, <1>6, <1>7

LEMMA NotifyAllStep ==
  ASSUME IInv, NotifyAll
  PROVE  IInv'
<1> USE DEF IInv, TypeOK
<1>1. /\ destructor = "notify" /\ destructor' = "join" /\ is_cancel
      /\ worker' = [w \in Worker |-> IF worker[w] = "blocked" THEN "woken" ELSE worker[w]]
      /\ UNCHANGED <<task_lock, task_list, watting_task_num, is_cancel,
                     threads_handle, run, submitted, running_task_num, func>>
  BY DEF NotifyAll, At, DestructorAgrees
<1>2. /\ Waiting' = Waiting /\ Running' = Running /\ Pending' = Pending
      /\ Started' = Started /\ Blocked' = {}
  BY <1>1 DEF Waiting, Running, Pending, Started, Blocked, At
<1>3. TypeOK'
  BY <1>1 DEF WorkerLabels
<1>4. CountersMatch' /\ NoLostWakeup' /\ LastWorkerStays'
  BY <1>1, <1>2 DEF CountersMatch, NoLostWakeup, LastWorkerStays
<1>5. LockOwner' /\ TasksOnce' /\ Listed'
  BY <1>1 DEF LockOwner, TasksOnce, Listed, At
<1>6. DestructorAgrees'
  BY <1>1, <1>2 DEF DestructorAgrees
<1>7. FirstTaskStarts'
  BY <1>1, <1>2 DEF FirstTaskStarts
<1> QED
  BY <1>3, <1>4, <1>5, <1>6, <1>7

LEMMA JoinAllStep ==
  ASSUME IInv, JoinAll
  PROVE  IInv'
<1> USE DEF IInv, TypeOK
<1>1. /\ destructor = "join" /\ destructor' = "done" /\ is_cancel
      /\ \A w \in threads_handle : worker[w] = "gone"
      /\ UNCHANGED <<task_lock, task_list, watting_task_num, is_cancel,
                     threads_handle, run, submitted, worker, func,
                     running_task_num>>
  BY DEF JoinAll, At, DestructorAgrees, workerVars
<1>2. /\ Waiting' = Waiting /\ Running' = Running /\ Pending' = Pending
      /\ Started' = Started /\ Blocked' = Blocked
  BY <1>1 DEF Waiting, Running, Pending, Started, Blocked, At
<1>3. TypeOK'
  BY <1>1
<1>4. CountersMatch' /\ NoLostWakeup' /\ LastWorkerStays'
  BY <1>1, <1>2 DEF CountersMatch, NoLostWakeup, LastWorkerStays
<1>5. LockOwner' /\ TasksOnce' /\ Listed'
  BY <1>1 DEF LockOwner, TasksOnce, Listed, At
<1>6. DestructorAgrees'
  BY <1>1, <1>2 DEF DestructorAgrees, At
<1>7. FirstTaskStarts'
  BY <1>1, <1>2 DEF FirstTaskStarts
<1> QED
  BY <1>3, <1>4, <1>5, <1>6, <1>7

-----------------------------------------------------------------------------
(* The theorems *)

LEMMA InitInvariant == Init => IInv
<1> SUFFICES ASSUME Init PROVE IInv
  OBVIOUS
<1> USE DEF Init
<1>1. /\ Waiting = {} /\ Running = {} /\ Blocked = {} /\ Started = {}
      /\ Pending = {}
  BY DEF Waiting, Running, Blocked, Started, Pending, At
<1>2. TypeOK
  <2>1. task_list \in Seq(Task)
    OBVIOUS
  <2>2. /\ run \in [Caller -> {"idle", "check", "notify", "spawn"}]
        /\ worker \in [Worker -> WorkerLabels]
        /\ func \in [Worker -> Task \cup {NoTask}]
    BY DEF WorkerLabels
  <2>3. is_cancel \in BOOLEAN /\ task_lock \in Worker \cup {Free}
    OBVIOUS
  <2>4. /\ threads_handle \subseteq Worker /\ submitted \subseteq Task
        /\ watting_task_num \in Nat /\ running_task_num \in Nat
    OBVIOUS
  <2> QED
    BY <2>1, <2>2, <2>3, <2>4 DEF TypeOK
<1>3. CountersMatch
  BY <1>1, FS_EmptySet DEF CountersMatch
<1>4. NoLostWakeup /\ FirstTaskStarts /\ LastWorkerStays
  BY <1>1 DEF NoLostWakeup, FirstTaskStarts, LastWorkerStays
<1>5. LockOwner /\ Listed
  BY WorkerAssumption DEF LockOwner, Listed
<1>6. TasksOnce
  BY DEF TasksOnce, At
<1>7. DestructorAgrees
  BY <1>1 DEF DestructorAgrees
<1> QED
  BY <1>2, <1>3, <1>4, <1>5, <1>6, <1>7 DEF IInv

LEMMA NextInvariant == IInv /\ [Next]_vars => IInv'
<1> SUFFICES ASSUME IInv, [Next]_vars PROVE IInv'
  OBVIOUS
<1>1. ASSUME NEW c \in Caller, CallerStep(c)
      PROVE  IInv'
  BY <1>1, CheckStep, NotifyStep, SpawnStep DEF CallerStep
<1>2. ASSUME NEW c \in Caller, NEW t \in Task, Push(c, t)
      PROVE  IInv'
  BY <1>2, PushStep
<1>3. ASSUME NEW w \in Worker, WorkerStep(w)
      PROVE  IInv'
  BY <1>3, EnterStep, PollStep, WakeStep, ReenterStep, DecideStep, LeaveStep
     DEF WorkerStep
<1>4. ASSUME NEW w \in Worker, SpuriousWake(w) \/ Finish(w)
      PROVE  IInv'
  BY <1>4, SpuriousWakeStep, FinishStep
<1>5. CASE Cancel \/ NotifyAll \/ JoinAll
  BY <1>5, CancelStep, NotifyAllStep, JoinAllStep
<1>6. CASE UNCHANGED vars
  <2>1. UNCHANGED <<Waiting, Running, Coming, Pending, Blocked, Started, Staying>>
    BY <1>6 DEF vars, Waiting, Running, Coming, Pending, Blocked, Started, Staying,
       TooMany, At
  <2>2. TypeOK' /\ LockOwner' /\ TasksOnce' /\ Listed'
    BY <1>6 DEF vars, IInv, TypeOK, LockOwner, TasksOnce, Listed, At
  <2>3. CountersMatch' /\ NoLostWakeup' /\ FirstTaskStarts' /\ LastWorkerStays'
    BY <1>6, <2>1 DEF vars, IInv, CountersMatch, NoLostWakeup, FirstTaskStarts,
       LastWorkerStays
  <2>4. DestructorAgrees'
    BY <1>6, <2>1 DEF vars, IInv, DestructorAgrees, At
  <2> QED
    BY <2>2, <2>3, <2>4 DEF IInv
<1> QED
  BY <1>1, <1>2, <1>3, <1>4, <1>5, <1>6 DEF Next

(* The inductive invariant holds for every number of workers, callers and   *)
(* tasks and for every keep_task_num.                                       *)
THEOREM Invariance == Spec => []IInv
BY InitInvariant, NextInvariant, PTL DEF Spec

(* watting_task_num and running_task_num count what they are named for.     *)
THEOREM Counters == Spec => []CountersMatch
<1>1. IInv => CountersMatch
  BY DEF IInv
<1> QED
  BY <1>1, Invariance, PTL

(* While a worker is blocked, every queued task has a worker, or a call of  *)
(* Run, on its way.                                                         *)
THEOREM WakeupsReachTheQueue == Spec => []NoLostWakeup
<1>1. IInv => NoLostWakeup
  BY DEF IInv
<1> QED
  BY <1>1, Invariance, PTL

(* With keep_task_num > 0 a queued task is never left to nobody.            *)
THEOREM TasksHaveWorkers == Spec => []NeverIdleWithWork
<1>1. IInv => NeverIdleWithWork
  <2> SUFFICES ASSUME IInv, keep_task_num > 0, task_list # <<>>, ~is_cancel,
                      Pending = {}, Coming = {}, Running = {}
               PROVE  \E w \in Worker : At(w, "decide") /\ ~TooMany
    BY DEF NeverIdleWithWork
  <2>1. Started # {}
    BY DEF IInv, FirstTaskStarts, Pending
  <2>2. PICK w \in Worker : w \in Staying
    BY <2>1 DEF IInv, LastWorkerStays, Staying
  <2>3. Blocked = {}
    <3>1. Cardinality(Coming) = 0 /\ Cardinality(Pending) = 0
      BY FS_EmptySet
    <3>2. Len(task_list) > 0
      BY DEF IInv, TypeOK
    <3> QED
      BY <3>1, <3>2 DEF IInv, NoLostWakeup
  <2> QED
    BY <2>2, <2>3 DEF Staying, Blocked, Coming, Running, At
<1> QED
  BY <1>1, Invariance, PTL

(* A live thread is in threads_handle, and none is left when the destructor *)
(* returns.                                                                 *)
THEOREM ThreadsJoined == Spec => []WorkersListed
<1>1. IInv => WorkersListed
  BY DEF IInv, WorkersListed, Listed, DestructorAgrees, At
<1> QED
  BY <1>1, Invariance, PTL

(* The destructor walks a list that nobody changes.                         *)
THEOREM ListStable == Spec => ListStableWhileJoined
<1>1. IInv /\ [Next]_vars => [is_cancel => UNCHANGED threads_handle]_vars
  <2> SUFFICES ASSUME IInv, Next, is_cancel
               PROVE  UNCHANGED threads_handle
    BY DEF vars
  <2>1. \A c \in Caller : ~Spawn(c)
    BY DEF IInv, DestructorAgrees, Pending, Spawn
  <2> QED
    BY <2>1 DEF Next, CallerStep, WorkerStep, Push, Check, Notify, Enter, Poll,
       Wake, Take, Block, SpuriousWake, Finish, Reenter, Decide, Leave,
       HandleOnExit, Cancel, NotifyAll, JoinAll
<1> QED
  BY <1>1, Invariance, PTL DEF Spec, ListStableWhileJoined

Active == {func[w] : w \in Worker} \ {NoTask}

(* A worker that takes a task starts the first of the queue.                *)
LEMMA TakeStarts ==
  ASSUME IInv, NEW w \in Worker, worker[w] \in {"poll", "woken"}, ~is_cancel,
         Take(w), UNCHANGED <<is_cancel, callerVars>>
  PROVE  Exec!Start
<1> USE DEF IInv, TypeOK
<1>1. /\ task_list # <<>> /\ task_list' = Tail(task_list)
      /\ func' = [func EXCEPT ![w] = Head(task_list)]
      /\ UNCHANGED <<is_cancel, destructor>>
  BY DEF Take, callerVars
<1>2. Head(task_list) = task_list[1] /\ 1 \in 1..Len(task_list) /\ Head(task_list) \in Task
  BY <1>1
<1>3. func[w] = NoTask
  BY DEF TasksOnce, At
<1>4. Head(task_list) \notin Active /\ Head(task_list) # NoTask
  BY <1>2, TaskAssumption DEF TasksOnce, Active
<1>5. Active' = Active \cup {Head(task_list)}
  BY <1>1, <1>3, <1>4 DEF Active
<1> QED
  BY <1>1, <1>4, <1>5 DEF Exec!Start, Active

(* The pool implements the abstract executor: Push submits, Take starts,    *)
(* the return of a task finishes it, Cancel closes and JoinAll destroys.    *)
THEOREM Refinement == Spec => ImplementsExecutor
<1>1. Init => Exec!Init
  BY DEF Init, Exec!Init
<1>2. IInv /\ [Next]_vars => [Exec!Next]_(Exec!vars)
  <2> SUFFICES ASSUME IInv, [Next]_vars
               PROVE  Exec!Next \/ UNCHANGED Exec!vars
    BY DEF Exec!vars
  <2>1. ASSUME NEW c \in Caller, CallerStep(c)
        PROVE  UNCHANGED Exec!vars
    BY <2>1 DEF CallerStep, Check, Notify, Spawn, Exec!vars, workerVars
  <2>2. ASSUME NEW c \in Caller, NEW t \in Task, Push(c, t)
        PROVE  Exec!Submit(t)
    BY <2>2 DEF Push, Exec!Submit, workerVars, IInv, DestructorAgrees
  <2>3. ASSUME NEW w \in Worker, Enter(w) \/ Reenter(w) \/ Decide(w) \/ Leave(w)
                                \/ SpuriousWake(w)
        PROVE  UNCHANGED Exec!vars
    BY <2>3 DEF Enter, Reenter, Decide, Leave, SpuriousWake, Exec!vars, callerVars
  <2>4. ASSUME NEW w \in Worker, Poll(w) \/ Wake(w)
        PROVE  Exec!Start \/ UNCHANGED Exec!vars
    <3>1. worker[w] \in {"poll", "woken"} /\ UNCHANGED <<is_cancel, callerVars>>
      BY <2>4 DEF Poll, Wake, At
    <3>2. CASE ~is_cancel /\ Take(w)
      BY <3>1, <3>2, TakeStarts
    <3>3. CASE ~is_cancel /\ Block(w)
      BY <3>1, <3>3 DEF Block, Exec!vars, callerVars
    <3>4. CASE is_cancel
      BY <2>4, <3>1, <3>4 DEF Poll, Wake, Exec!vars, callerVars
    <3> QED
      BY <2>4, <3>2, <3>3, <3>4 DEF Poll, Wake
  <2>5. ASSUME NEW w \in Worker, Finish(w)
        PROVE  \E t \in Task : Exec!Finish(t)
    <3> USE DEF IInv, TypeOK
    <3>1. /\ worker[w] = "running" /\ func' = [func EXCEPT ![w] = NoTask]
          /\ UNCHANGED <<task_list, is_cancel, destructor>>
      BY <2>5 DEF Finish, At, callerVars
    <3>2. func[w] \in Task /\ func[w] # NoTask
      BY <3>1 DEF TasksOnce, At
    <3>3. \A v \in Worker : v # w => func[v] # func[w]
      BY <3>2 DEF TasksOnce
    <3>4. Active' = Active \ {func[w]} /\ func[w] \in Active
      BY <3>1, <3>2, <3>3 DEF Active
    <3>5. destructor # "done"
      BY <3>1 DEF DestructorAgrees, Listed, At
    <3> QED
      BY <3>1, <3>2, <3>4, <3>5 DEF Exec!Finish, Active
  <2>6. CASE Cancel
    BY <2>6 DEF Cancel, Exec!Next, Exec!Close, workerVars
  <2>7. CASE NotifyAll
    BY <2>7 DEF NotifyAll, Exec!vars
  <2>8. CASE JoinAll
    <3> USE DEF IInv, TypeOK
    <3>1. /\ destructor' = "done" /\ is_cancel
          /\ UNCHANGED <<task_list, is_cancel, func>>
      BY <2>8 DEF JoinAll, workerVars, DestructorAgrees
    <3>2. \A w \in Worker : worker[w] # "running"
      BY <2>8 DEF JoinAll, Listed, At
    <3>3. Active = {}
      BY <3>2 DEF Active, TasksOnce, At
    <3> QED
      BY <3>1, <3>3 DEF Exec!Next, Exec!Destroy, Active
  <2>9. CASE UNCHANGED vars
    BY <2>9 DEF vars, Exec!vars
  <2> QED
    BY <2>1, <2>2, <2>3, <2>4, <2>5, <2>6, <2>7, <2>8, <2>9
       DEF Next, WorkerStep, Exec!Next
<1> QED
  BY <1>1, <1>2, Invariance, PTL DEF Spec, ImplementsExecutor, Exec!Spec
=============================================================================
