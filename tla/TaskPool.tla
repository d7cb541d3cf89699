------------------------------ MODULE TaskPool ------------------------------
(***************************************************************************)
(* LiMao::Service::TaskPool (task_pool.cpp): worker threads that take      *)
(* tasks from one queue.  Run() pushes the task under task_lock, and then, *)
(* without it, reads watting_task_num to decide whether to notify a        *)
(* waiting worker or to start a new one.  A worker that finds more than    *)
(* keep_task_num workers around after its task ends itself.  The           *)
(* destructor cancels and joins them all.                                  *)
(*                                                                         *)
(* What one thread does under task_lock is one step where nothing but the  *)
(* mutex could observe its parts; watting_task_num is read without the     *)
(* mutex, so every value it takes is a state of its own.                   *)
(***************************************************************************)
EXTENDS Naturals, Sequences, FiniteSets

CONSTANTS
  Caller,        \* the threads that call Run and destroy the pool
  Worker,        \* std::threads; a bound on how many Run can start
  Task,          \* each is submitted at most once; bounds the calls of Run
  Endless,       \* tasks that need not return
  keep_task_num,
  Free,          \* nobody holds task_lock
  NoTask

ASSUME CallerAssumption == IsFiniteSet(Caller)
ASSUME WorkerAssumption == IsFiniteSet(Worker) /\ Free \notin Worker
ASSUME TaskAssumption == NoTask \notin Task /\ Endless \subseteq Task
ASSUME KeepAssumption == keep_task_num \in Nat

VARIABLES
  task_lock,         \* the worker that keeps the mutex from step to step
  task_list,
  watting_task_num,
  running_task_num,
  is_cancel,
  threads_handle,    \* the workers whose std::thread the pool owns
  run,               \* caller -> where it is in Run
  submitted,         \* tasks that Run was called with
  worker,            \* worker -> where it is in its loop
  func,              \* worker -> the task it runs
  destructor         \* where the destructor is

vars == <<task_lock, task_list, watting_task_num, running_task_num, is_cancel,
          threads_handle, run, submitted, worker, func, destructor>>

callerVars == <<run, submitted, destructor>>
workerVars == <<worker, func, running_task_num>>

Init ==
  /\ task_lock = Free
  /\ task_list = <<>>
  /\ watting_task_num = 0
  /\ running_task_num = 0
  /\ is_cancel = FALSE
  /\ threads_handle = {}
  /\ run = [c \in Caller |-> "idle"]
  /\ submitted = {}
  /\ worker = [w \in Worker |-> "none"]
  /\ func = [w \in Worker |-> NoTask]
  /\ destructor = "none"

At(w, label) == worker[w] = label
Goto(w, label) == worker' = [worker EXCEPT ![w] = label]
Return(c, label) == run' = [run EXCEPT ![c] = label]

Blocked == {w \in Worker : At(w, "blocked")}

-----------------------------------------------------------------------------
(* Run *)

(* The task is queued under the mutex, which is then given up.             *)
Push(c, t) ==
  /\ run[c] = "idle"
  /\ destructor = "none"
  /\ t \notin submitted
  /\ task_lock = Free
  /\ task_list' = Append(task_list, t)
  /\ submitted' = submitted \cup {t}
  /\ Return(c, "check")
  /\ UNCHANGED <<task_lock, watting_task_num, is_cancel, threads_handle,
                 destructor, workerVars>>

(* Read without the mutex.                                                 *)
SomebodyWaits == watting_task_num > 0

Check(c) ==
  /\ run[c] = "check"
  /\ Return(c, IF SomebodyWaits THEN "notify" ELSE "spawn")
  /\ UNCHANGED <<task_lock, task_list, watting_task_num, is_cancel,
                 threads_handle, submitted, destructor, workerVars>>

(* Mutant: only a task that finds the queue empty is notified. *)
Notify_FirstOnly(c) ==
  /\ run[c] = "notify"
  /\ IF Blocked = {} \/ Len(task_list) > 1
       THEN UNCHANGED worker
       ELSE \E w \in Blocked : Goto(w, "woken")
  /\ Return(c, "idle")
  /\ UNCHANGED <<task_lock, task_list, watting_task_num, is_cancel,
                 threads_handle, submitted, destructor, running_task_num, func>>

(* notify_one wakes one of the threads blocked on getter, if there is one. *)
Notify(c) ==
  /\ run[c] = "notify"
  /\ IF Blocked = {}
       THEN UNCHANGED worker
       ELSE \E w \in Blocked : Goto(w, "woken")
  /\ Return(c, "idle")
  /\ UNCHANGED <<task_lock, task_list, watting_task_num, is_cancel,
                 threads_handle, submitted, destructor, running_task_num, func>>

(* Mutant: the handle of the new thread is not kept. *)
Spawn_NotListed(c) ==
  /\ run[c] = "spawn"
  /\ task_lock = Free
  /\ \E w \in Worker : At(w, "none") /\ Goto(w, "start")
  /\ Return(c, "idle")
  /\ UNCHANGED <<task_lock, task_list, watting_task_num, is_cancel,
                 threads_handle, submitted, destructor, running_task_num, func>>

(* A thread is started and listed under the mutex, which it needs first.   *)
Spawn(c) ==
  /\ run[c] = "spawn"
  /\ task_lock = Free
  /\ \E w \in Worker :
       /\ At(w, "none")
       /\ Goto(w, "start")
       /\ threads_handle' = threads_handle \cup {w}
  /\ Return(c, "idle")
  /\ UNCHANGED <<task_lock, task_list, watting_task_num, is_cancel,
                 submitted, destructor, running_task_num, func>>

-----------------------------------------------------------------------------
(* The loop of a worker *)

(* It counts itself as waiting and keeps the mutex.                        *)
Enter(w) ==
  /\ At(w, "start")
  /\ task_lock = Free
  /\ task_lock' = w
  /\ watting_task_num' = watting_task_num + 1
  /\ Goto(w, "poll")
  /\ UNCHANGED <<task_list, is_cancel, threads_handle, running_task_num, func,
                 callerVars>>

(* wait() finds a task: the worker takes it and gives up the mutex ...     *)
Take(w) ==
  /\ task_list # <<>>
  /\ func' = [func EXCEPT ![w] = Head(task_list)]
  /\ task_list' = Tail(task_list)
  /\ watting_task_num' = watting_task_num - 1
  /\ running_task_num' = running_task_num + 1
  /\ task_lock' = Free
  /\ Goto(w, "running")
  /\ UNCHANGED threads_handle

(* ... or there is none: it gives up the mutex and blocks, in one step.    *)
Block(w) ==
  /\ task_list = <<>>
  /\ task_lock' = Free
  /\ Goto(w, "blocked")
  /\ UNCHANGED <<task_list, watting_task_num, running_task_num, threads_handle,
                 func>>

(* The test of while (iscancel==false) with the mutex held.                *)
Poll(w) ==
  /\ At(w, "poll")
  /\ UNCHANGED <<is_cancel, callerVars>>
  /\ \/ ~is_cancel /\ (Take(w) \/ Block(w))
     \/ /\ is_cancel
        /\ Goto(w, "leave")
        /\ UNCHANGED <<task_lock, task_list, watting_task_num, running_task_num,
                       threads_handle, func>>

(* wait() has the mutex again, after a notification.                       *)
Wake(w) ==
  /\ At(w, "woken")
  /\ task_lock = Free
  /\ UNCHANGED <<is_cancel, callerVars>>
  /\ \/ ~is_cancel /\ (Take(w) \/ Block(w))
     \/ /\ is_cancel
        /\ watting_task_num' = watting_task_num - 1
        /\ task_lock' = w
        /\ Goto(w, "leave")
        /\ UNCHANGED <<task_list, running_task_num, threads_handle, func>>

(* wait() may also wake for no reason.                                     *)
SpuriousWake(w) ==
  /\ At(w, "blocked")
  /\ Goto(w, "woken")
  /\ UNCHANGED <<task_lock, task_list, watting_task_num, running_task_num,
                 is_cancel, threads_handle, func, callerVars>>

(* func() returns.                                                         *)
Finish(w) ==
  /\ At(w, "running")
  /\ func' = [func EXCEPT ![w] = NoTask]
  /\ Goto(w, "finished")
  /\ UNCHANGED <<task_lock, task_list, watting_task_num, running_task_num,
                 is_cancel, threads_handle, callerVars>>

Reenter(w) ==
  /\ At(w, "finished")
  /\ task_lock = Free
  /\ task_lock' = w
  /\ running_task_num' = running_task_num - 1
  /\ watting_task_num' = watting_task_num + 1
  /\ Goto(w, "decide")
  /\ UNCHANGED <<task_list, is_cancel, threads_handle, func, callerVars>>

(* Mutant: the limit is reached one worker too early. *)
TooMany_AtLimit == running_task_num + watting_task_num >= keep_task_num

TooMany == running_task_num + watting_task_num > keep_task_num

Decide(w) ==
  /\ At(w, "decide")
  /\ IF TooMany
       THEN watting_task_num' = watting_task_num - 1 /\ Goto(w, "leave")
       ELSE UNCHANGED watting_task_num /\ Goto(w, "poll")
  /\ UNCHANGED <<task_lock, task_list, running_task_num, is_cancel,
                 threads_handle, func, callerVars>>

(* Mutant: a worker removes itself although the pool is being destroyed. *)
HandleOnExit_Always(w) == threads_handle' = threads_handle \ {w}

(* A worker that ends itself takes its std::thread out of the pool, unless *)
(* the destructor is going to join it.                                     *)
HandleOnExit(w) ==
  threads_handle' = IF is_cancel THEN threads_handle ELSE threads_handle \ {w}

Leave(w) ==
  /\ At(w, "leave")
  /\ HandleOnExit(w)
  /\ task_lock' = Free
  /\ Goto(w, "gone")
  /\ UNCHANGED <<task_list, watting_task_num, running_task_num, is_cancel, func,
                 callerVars>>

-----------------------------------------------------------------------------
(* The destructor; nobody may be inside Run *)

Cancel ==
  /\ destructor = "none"
  /\ \A c \in Caller : run[c] = "idle"
  /\ task_lock = Free
  /\ is_cancel' = TRUE
  /\ destructor' = "notify"
  /\ UNCHANGED <<task_lock, task_list, watting_task_num, threads_handle, run,
                 submitted, workerVars>>

(* Mutant: only one of the blocked workers is told. *)
NotifyAll_One ==
  /\ destructor = "notify"
  /\ IF Blocked = {}
       THEN UNCHANGED worker
       ELSE \E w \in Blocked : Goto(w, "woken")
  /\ destructor' = "join"
  /\ UNCHANGED <<task_lock, task_list, watting_task_num, is_cancel,
                 threads_handle, run, submitted, running_task_num, func>>

NotifyAll ==
  /\ destructor = "notify"
  /\ worker' = [w \in Worker |-> IF At(w, "blocked") THEN "woken" ELSE worker[w]]
  /\ destructor' = "join"
  /\ UNCHANGED <<task_lock, task_list, watting_task_num, is_cancel,
                 threads_handle, run, submitted, running_task_num, func>>

(* The loop over threads_handle ends when every thread in it has ended.    *)
JoinAll ==
  /\ destructor = "join"
  /\ \A w \in threads_handle : At(w, "gone")
  /\ destructor' = "done"
  /\ UNCHANGED <<task_lock, task_list, watting_task_num, is_cancel,
                 threads_handle, run, submitted, workerVars>>

-----------------------------------------------------------------------------
CallerStep(c) == Check(c) \/ Notify(c) \/ Spawn(c)

WorkerStep(w) ==
  Enter(w) \/ Poll(w) \/ Wake(w) \/ Reenter(w) \/ Decide(w) \/ Leave(w)

Next ==
  \/ \E c \in Caller : CallerStep(c) \/ \E t \in Task : Push(c, t)
  \/ \E w \in Worker : WorkerStep(w) \/ SpuriousWake(w) \/ Finish(w)
  \/ Cancel
  \/ NotifyAll
  \/ JoinAll

Spec == Init /\ [][Next]_vars

(* Threads that can take a step do; tasks return unless they are endless;  *)
(* nobody has to call Run or to destroy the pool.                          *)
Fairness ==
  /\ \A c \in Caller : WF_vars(CallerStep(c))
  /\ \A w \in Worker : WF_vars(WorkerStep(w))
  /\ \A w \in Worker : WF_vars(func[w] \notin Endless /\ Finish(w))
  /\ WF_vars(NotifyAll)
  /\ WF_vars(JoinAll)

FairSpec == Spec /\ Fairness

-----------------------------------------------------------------------------
(* Properties *)

WorkerLabels == {"none", "start", "poll", "blocked", "woken", "running",
                 "finished", "decide", "leave", "gone"}

TypeOK ==
  /\ task_lock \in Worker \cup {Free}
  /\ task_list \in Seq(Task)
  /\ watting_task_num \in Nat
  /\ running_task_num \in Nat
  /\ is_cancel \in BOOLEAN
  /\ threads_handle \subseteq Worker
  /\ run \in [Caller -> {"idle", "check", "notify", "spawn"}]
  /\ submitted \subseteq Task
  /\ worker \in [Worker -> WorkerLabels]
  /\ func \in [Worker -> Task \cup {NoTask}]
  /\ destructor \in {"none", "notify", "join", "done"}

(* The number that Run reads without the mutex is at every moment the      *)
(* number of workers that count themselves as waiting, the ones that have  *)
(* just taken the mutex included; the other one counts the tasks under way.*)
Waiting == {w \in Worker : worker[w] \in {"poll", "blocked", "woken", "decide"}}
Running == {w \in Worker : worker[w] \in {"running", "finished"}}

CountersMatch ==
  /\ watting_task_num >= Cardinality(Waiting)
  /\ ~is_cancel => watting_task_num = Cardinality(Waiting)
  /\ running_task_num = Cardinality(Running)

(* No notification is lost: while a worker is blocked on getter, there are *)
(* at least as many workers on their way to the queue, or calls of Run     *)
(* that are going to wake or start one, as tasks in it.                    *)
Coming == {w \in Worker : worker[w] \in {"start", "poll", "woken"}}
Pending == {c \in Caller : run[c] # "idle"}

NoLostWakeup ==
  Blocked # {} /\ ~is_cancel =>
    Len(task_list) <= Cardinality(Coming) + Cardinality(Pending)

(* What keeps those true.  The mutex is held by the worker that is between *)
(* taking and giving it up; a worker has a task exactly while it runs one; *)
(* tasks are queued and run once; the destructor and is_cancel agree, and  *)
(* nobody blocks once everybody was notified; the first task starts a      *)
(* worker, and the last worker stays.                                      *)
LockOwner ==
  \A w \in Worker : task_lock = w <=> worker[w] \in {"poll", "decide", "leave"}

TasksOnce ==
  /\ \A w \in Worker : func[w] # NoTask <=> At(w, "running")
  /\ \A v, w \in Worker : func[v] = func[w] /\ func[v] # NoTask => v = w
  /\ \A w \in Worker : func[w] \in submitted \cup {NoTask}
  /\ \A i \in 1..Len(task_list) :
       /\ task_list[i] \in submitted
       /\ \A w \in Worker : func[w] # task_list[i]
       /\ \A j \in 1..Len(task_list) : task_list[i] = task_list[j] => i = j

DestructorAgrees ==
  /\ is_cancel <=> destructor # "none"
  /\ is_cancel => Pending = {}
  /\ destructor \in {"join", "done"} => Blocked = {}
  /\ destructor = "done" => \A w \in threads_handle : At(w, "gone")

Started == {w \in Worker : ~At(w, "none")}
Staying == {w \in Worker : \/ worker[w] \in {"start", "poll", "blocked", "woken"}
                           \/ worker[w] \in {"running", "finished"}
                           \/ At(w, "decide") /\ ~TooMany}

FirstTaskStarts ==
  task_list # <<>> /\ Started = {} => \E c \in Caller : run[c] \in {"check", "spawn"}

LastWorkerStays ==
  keep_task_num > 0 /\ Started # {} /\ ~is_cancel => Staying # {}

Listed == \A w \in Worker : worker[w] \notin {"none", "gone"} => w \in threads_handle

IInv ==
  /\ TypeOK
  /\ CountersMatch
  /\ NoLostWakeup
  /\ LockOwner
  /\ TasksOnce
  /\ DestructorAgrees
  /\ FirstTaskStarts
  /\ LastWorkerStays
  /\ Listed

(* A queued task is never left to nobody: some worker will look at the     *)
(* queue again when what it runs returns, or a call of Run has yet to wake *)
(* or start one.  This needs keep_task_num > 0: it is the last worker that *)
(* does not end itself.                                                    *)
NeverIdleWithWork ==
  keep_task_num > 0 /\ task_list # <<>> /\ ~is_cancel =>
    \/ Pending # {}
    \/ \E w \in Coming \cup Running : TRUE
    \/ \E w \in Worker : At(w, "decide") /\ ~TooMany

(* Every thread that is alive is in threads_handle: one that ends itself   *)
(* finds its std::thread there (task_pool.cpp looks for it and uses the    *)
(* pointer unchecked), and the destructor joins all the others; when it    *)
(* has returned no thread uses the pool.                                   *)
WorkersListed ==
  /\ Listed
  /\ destructor = "done" => \A w \in Worker : worker[w] \in {"none", "gone"}

(* While the destructor walks threads_handle, without the mutex, nobody    *)
(* else changes the list or frees a thread it is going to join.            *)
ListStableWhileJoined == [][is_cancel => UNCHANGED threads_handle]_vars

(* The pool is an executor: FIFO, each task started once, none after the   *)
(* destructor began, none running when it returns.                         *)
Exec == INSTANCE Executor WITH
  pending <- task_list,
  active <- {func[w] : w \in Worker} \ {NoTask},
  closed <- is_cancel,
  destroyed <- (destructor = "done")

ImplementsExecutor == Exec!Spec

(* A task that was submitted starts, unless the pool is destroyed first or *)
(* nobody is left but workers with a task that does not return, such as    *)
(* the console loop of MainServer::Start: Run may rely on a worker that is *)
(* counted as waiting and about to take that task.                         *)
Queued(t) == \E i \in 1..Len(task_list) : task_list[i] = t

OnlyEndless ==
  LET Left == {w \in Started : ~At(w, "gone")}
  IN  Left # {} /\ \A w \in Left : func[w] \in Endless

TaskStarts == \A t \in Task : Queued(t) ~> ~Queued(t) \/ is_cancel \/ OnlyEndless

(* ~TaskPool returns once the tasks under way have.                        *)
DestructionCompletes ==
  is_cancel ~> destructor = "done" \/ \E w \in Worker : func[w] \in Endless
=============================================================================
