-------------------------------- MODULE Server --------------------------------
(***************************************************************************)
(* The main loop of the server: MainServer::Start (main.cpp) waits in      *)
(* ConnectionPool::WaitReadableActive (connection_pool.cpp) for something  *)
(* to read, takes the readable connections out of the pool and has one     *)
(* task of the task pool for each read a packet, deal with it and put the  *)
(* connection back.  Putting it back writes a byte to a pipe, which wakes  *)
(* the loop that waits without it.                                         *)
(*                                                                         *)
(* A connection is named by its socket number, which the system gives out  *)
(* again once the socket is closed; TCPConnection (Network.cpp) closes it  *)
(* with the last of its counted handles.  Handles are with the list, the   *)
(* loop and the copies that it makes, the tasks, and user_connections of   *)
(* the user module, which keeps one for each user that is online.  The     *)
(* copies that DealMessage and DealConnectionClosed make and drop while    *)
(* their caller has a handle are not counted.                              *)
(*                                                                         *)
(* The task pool is used as Executor describes it; packets are whole here, *)
(* module Transport reads and writes them.  Who may sign in or off is the  *)
(* subject of UserControl.                                                 *)
(***************************************************************************)
EXTENDS Naturals, FiniteSets, SequencesExt

CONSTANTS
  Conn,        \* socket numbers for connections; the system has no others
  Worker,      \* threads of the task pool
  Uid,         \* users, the keys of user_connections in their order
  Main,        \* the thread of the loop
  Nobody,      \* no thread
  None,        \* no connection
  PipeSize,    \* bytes that the pipe holds (65536)
  MaxInbox,    \* bounds the packets that wait in a socket
  MaxKnocks    \* bounds the connections that wait to be accepted

ASSUME ThreadAssumption ==
  Main \notin Worker /\ Nobody \notin Worker \cup {Main} /\ IsFiniteSet(Worker)
ASSUME ConnAssumption == Conn \subseteq Nat /\ None \notin Conn
ASSUME UidAssumption == Uid \subseteq Nat /\ IsFiniteSet(Uid)
ASSUME BoundAssumption == PipeSize \in Nat \ {0} /\ {MaxInbox, MaxKnocks} \subseteq Nat

Thread == Worker \cup {Main}

VARIABLES
  knocks,    \* clients that want to connect
  peer,      \* connection -> what its client does: "here", "gone", "none"
  inbox,     \* connection -> packets that wait in the socket
  handles,   \* connection -> *reference_counter; the socket is closed at 0
  pool,      \* ConnectionPool::connections
  pipe,      \* bytes in loop_fd
  mutex,     \* who holds ConnectionPool::mutex
  tail,      \* thread -> the list as push_back found it
  main,      \* where the loop is
  sets,      \* the connections watched, after select those found readable
  knocked,   \* whether the server socket was readable
  newcomer,  \* the connection that Accept returned
  lst,       \* the connections taken, until the loop has gone through them
  batch,     \* those of lst for which there is no task yet
  turn,      \* the connection of the loop's turn, of which it has two copies
  queue,     \* the tasks that no thread has started
  job,       \* worker -> the connection of its task
  step,      \* worker -> where its task is
  online,    \* user_connections: user -> connection
  is_close,  \* the console said exit
  crossed,   \* history: connections pushed while another was being pushed
  shut       \* history: open connections that a task said were closed

clients == <<knocks, peer, inbox>>
taken == <<lst, batch, turn>>
loop == <<main, sets, knocked, newcomer, taken>>
tasks == <<queue, job, step>>
list == <<pool, tail, crossed>>
users == <<online, shut>>
vars == <<knocks, peer, inbox, handles, pool, pipe, mutex, tail, main, sets,
          knocked, newcomer, lst, batch, turn, queue, job, step, online,
          is_close, crossed, shut>>

(* The pool was made and the server socket added to it, which left a byte. *)
Init ==
  /\ knocks = 0
  /\ peer = [c \in Conn |-> "none"]
  /\ inbox = [c \in Conn |-> 0]
  /\ handles = [c \in Conn |-> 0]
  /\ pool = {}
  /\ pipe = 1
  /\ mutex = Nobody
  /\ tail = [t \in Thread |-> {}]
  /\ main = "snapshot"
  /\ sets = {} /\ knocked = FALSE
  /\ newcomer = None
  /\ lst = {} /\ batch = {} /\ turn = None
  /\ queue = <<>>
  /\ job = [w \in Worker |-> None]
  /\ step = [w \in Worker |-> "idle"]
  /\ online = [u \in Uid |-> None]
  /\ is_close = FALSE
  /\ crossed = {} /\ shut = {}

Alive == main \notin {"dead", "stopped"}

-----------------------------------------------------------------------------
(* Clients and the console *)

Knock ==
  /\ Alive /\ knocks < MaxKnocks
  /\ knocks' = knocks + 1
  /\ UNCHANGED <<peer, inbox, handles, pipe, mutex, loop, tasks, list, users, is_close>>

SendPacket(c) ==
  /\ Alive /\ peer[c] = "here" /\ inbox[c] < MaxInbox
  /\ inbox' = [inbox EXCEPT ![c] = @ + 1]
  /\ UNCHANGED <<knocks, peer, handles, pipe, mutex, loop, tasks, list, users, is_close>>

HangUp(c) ==
  /\ Alive /\ peer[c] = "here"
  /\ peer' = [peer EXCEPT ![c] = "gone"]
  /\ UNCHANGED <<knocks, inbox, handles, pipe, mutex, loop, tasks, list, users, is_close>>

Exit ==
  /\ Alive /\ ~is_close
  /\ is_close' = TRUE
  /\ UNCHANGED <<clients, handles, pipe, mutex, loop, tasks, list, users>>

-----------------------------------------------------------------------------
(* Handles *)

One(condition) == IF condition THEN 1 ELSE 0

(* The number of a socket that no handle is left of is free.               *)
Release(left) ==
  /\ handles' = left
  /\ peer' = [c \in Conn |-> IF left[c] = 0 THEN "none" ELSE peer[c]]
  /\ inbox' = [c \in Conn |-> IF left[c] = 0 THEN 0 ELSE inbox[c]]
  /\ shut' = {c \in shut : left[c] > 0}

Drop(c, n) == Release([handles EXCEPT ![c] = @ - n])

(* A user's entry gets a handle of its own, or none; the one that it had   *)
(* is dropped.                                                             *)
SetEntry(u, c) ==
  /\ online' = [online EXCEPT ![u] = c]
  /\ Release([d \in Conn |-> handles[d] + One(d = c) - One(d = online[u])])

-----------------------------------------------------------------------------
(* push_back links the new node behind the one it found last; where two    *)
(* threads do so at once, what one of them linked is lost.                 *)

Pushing == {job[w] : w \in {v \in Worker : step[v] = "pushed"}}
             \cup (IF main = "pushed" THEN {newcomer} ELSE {})

PushBegin(t, c) ==
  /\ tail' = [tail EXCEPT ![t] = pool]
  /\ crossed' = IF Pushing = {} THEN crossed ELSE crossed \cup Pushing \cup {c}
  /\ UNCHANGED pool

PushEnd(t, c) ==
  /\ pool' = tail[t] \cup {c}
  /\ tail' = [tail EXCEPT ![t] = {}]
  /\ UNCHANGED crossed

-----------------------------------------------------------------------------
(* WaitReadableActive, in the loop *)

LoopAt(label) == main = label
Goto(label) == main' = label

Snapshot ==
  /\ LoopAt("snapshot") /\ mutex = Nobody
  /\ sets' = pool
  /\ Goto("select")
  /\ UNCHANGED <<clients, handles, pipe, mutex, knocked, newcomer, taken, tasks,
                 list, users, is_close>>

Readable(c) == inbox[c] > 0 \/ peer[c] = "gone"

(* Mutant: the byte stays in the pipe. *)
Select_KeepsByte ==
  /\ LoopAt("select")
  /\ sets' = {c \in sets : Readable(c)}
  /\ knocked' = (knocks > 0)
  /\ sets' # {} \/ knocked' \/ pipe > 0
  /\ Goto("take")
  /\ UNCHANGED <<clients, handles, pipe, mutex, newcomer, taken, tasks, list, users,
                 is_close>>

(* Of the pipe one byte is read, however many there are.                   *)
Select ==
  /\ LoopAt("select")
  /\ sets' = {c \in sets : Readable(c)}
  /\ knocked' = (knocks > 0)
  /\ sets' # {} \/ knocked' \/ pipe > 0
  /\ pipe' = IF pipe > 0 THEN pipe - 1 ELSE pipe
  /\ Goto("take")
  /\ UNCHANGED <<clients, handles, mutex, newcomer, taken, tasks, list, users, is_close>>

(* A second passes: an exception, and the only place where the loop looks  *)
(* whether it is to stop.  The sending service goes, then ~TaskPool waits. *)
Timeout ==
  /\ LoopAt("select")
  /\ pipe = 0 /\ knocks = 0 /\ \A c \in sets : ~Readable(c)
  /\ Goto(IF is_close THEN "closing" ELSE "snapshot")
  /\ UNCHANGED <<clients, handles, pipe, mutex, sets, knocked, newcomer, taken,
                 tasks, list, users, is_close>>

(* Mutant: what is taken stays in the list. *)
Take_Copies ==
  /\ LoopAt("take") /\ mutex = Nobody
  /\ lst' = pool \cap sets /\ batch' = lst'
  /\ sets' = {} /\ knocked' = FALSE
  /\ Goto(IF knocked THEN "accept" ELSE "dispatch")
  /\ UNCHANGED <<clients, handles, pipe, mutex, list, newcomer, turn, tasks, users,
                 is_close>>

(* lst gets a copy, then the list drops its own.  What sets says is used   *)
(* up.                                                                     *)
Take ==
  /\ LoopAt("take") /\ mutex = Nobody
  /\ lst' = pool \cap sets /\ batch' = lst'
  /\ pool' = pool \ sets
  /\ crossed' = crossed \ (pool \cap sets)
  /\ sets' = {} /\ knocked' = FALSE
  /\ Goto(IF knocked THEN "accept" ELSE "dispatch")
  /\ UNCHANGED <<clients, handles, pipe, mutex, tail, newcomer, turn, tasks, users,
                 is_close>>

Free == {c \in Conn : handles[c] = 0}

(* The mutex is given up for Accept, which gets the lowest number, and for *)
(* the push.                                                               *)
Accept ==
  /\ LoopAt("accept")
  /\ \E c \in Free :
       /\ \A d \in Free : c <= d
       /\ newcomer' = c
       /\ peer' = [peer EXCEPT ![c] = "here"]
       /\ handles' = [handles EXCEPT ![c] = 1]
  /\ knocks' = knocks - 1
  /\ Goto("push")
  /\ UNCHANGED <<inbox, pipe, mutex, sets, knocked, taken, tasks, list, users, is_close>>

(* No socket number is left: nobody catches the exception.                 *)
AcceptFails ==
  /\ LoopAt("accept")
  /\ Free = {}
  /\ Goto("dead")
  /\ UNCHANGED <<clients, handles, pipe, mutex, sets, knocked, newcomer, taken,
                 tasks, list, users, is_close>>

PushNew ==
  /\ LoopAt("push")
  /\ PushBegin(Main, newcomer)
  /\ Goto("pushed")
  /\ UNCHANGED <<clients, handles, pipe, mutex, sets, knocked, newcomer, taken,
                 tasks, users, is_close>>

PushedNew ==
  /\ LoopAt("pushed")
  /\ PushEnd(Main, newcomer)
  /\ newcomer' = None
  /\ Goto("relock")
  /\ UNCHANGED <<clients, handles, pipe, mutex, sets, knocked, taken, tasks,
                 users, is_close>>

Relock ==
  /\ LoopAt("relock") /\ mutex = Nobody
  /\ Goto("dispatch")
  /\ UNCHANGED <<clients, handles, pipe, mutex, sets, knocked, newcomer, taken,
                 tasks, list, users, is_close>>

-----------------------------------------------------------------------------
(* MainServer::Start *)

(* task_pool.Run for a connection of the batch: connection, the function    *)
(* passed to Run and the one in the queue each have a copy.                *)
Dispatch ==
  /\ LoopAt("dispatch")
  /\ \E c \in batch :
       /\ queue' = Append(queue, c)
       /\ batch' = batch \ {c}
       /\ turn' = c
       /\ handles' = [handles EXCEPT ![c] = @ + 3]
  /\ Goto("turn")
  /\ UNCHANGED <<clients, pipe, mutex, sets, knocked, newcomer, lst, job, step,
                 list, users, is_close>>

(* Run returns and the turn ends; the task may be through by then.         *)
EndTurn ==
  /\ LoopAt("turn")
  /\ Drop(turn, 2)
  /\ turn' = None
  /\ Goto("dispatch")
  /\ UNCHANGED <<knocks, pipe, mutex, sets, knocked, newcomer, lst, batch, tasks,
                 list, online, is_close>>

(* The list goes at the end, where its handles may be the last ones.       *)
Dispatched ==
  /\ LoopAt("dispatch") /\ batch = {}
  /\ Release([c \in Conn |-> handles[c] - One(c \in lst)])
  /\ lst' = {}
  /\ Goto("snapshot")
  /\ UNCHANGED <<knocks, pipe, mutex, sets, knocked, newcomer, batch, turn, tasks,
                 list, online, is_close>>

(* ~TaskPool has no thread start another task and waits for those that     *)
(* run; only then is the connection pool gone.                             *)
Stop ==
  /\ LoopAt("closing")
  /\ \A w \in Worker : step[w] = "idle"
  /\ Goto("stopped")
  /\ UNCHANGED <<clients, handles, pipe, mutex, sets, knocked, newcomer, taken,
                 tasks, list, users, is_close>>

-----------------------------------------------------------------------------
(* The task of a connection *)

TaskAt(w, label) == step[w] = label
Step(w, label) == step' = [step EXCEPT ![w] = label]

(* Mutant: the task that was submitted last starts first. *)
Start_Last(w) ==
  /\ TaskAt(w, "idle") /\ main # "closing" /\ queue # <<>>
  /\ job' = [job EXCEPT ![w] = Last(queue)]
  /\ queue' = Front(queue)
  /\ handles' = [handles EXCEPT ![Last(queue)] = @ + 1]
  /\ Step(w, "recv")
  /\ UNCHANGED <<clients, pipe, mutex, loop, list, users, is_close>>

(* The thread has the function instead of the queue, and network has a     *)
(* handle of its own until the task is through.                            *)
Start(w) ==
  /\ TaskAt(w, "idle") /\ main # "closing" /\ queue # <<>>
  /\ job' = [job EXCEPT ![w] = Head(queue)]
  /\ queue' = Tail(queue)
  /\ handles' = [handles EXCEPT ![Head(queue)] = @ + 1]
  /\ Step(w, "recv")
  /\ UNCHANGED <<clients, pipe, mutex, loop, list, users, is_close>>

Recv(w) ==
  /\ TaskAt(w, "recv") /\ inbox[job[w]] > 0
  /\ inbox' = [inbox EXCEPT ![job[w]] = @ - 1]
  /\ Step(w, "deal")
  /\ UNCHANGED <<knocks, peer, handles, pipe, mutex, loop, queue, job, list, users,
                 is_close>>

(* The exceptions that drop network, and leave the task its one handle:    *)
(* the client hung up or sent what is no packet; the packet is no JSON, or *)
(* a module threw what is no std::exception.                               *)
Fails(w) ==
  /\ Drop(job[w], 1)
  /\ Step(w, "close")
  /\ UNCHANGED <<knocks, pipe, mutex, loop, queue, job, list, online, is_close>>

RecvFails(w) == TaskAt(w, "recv") /\ Readable(job[w]) /\ Fails(w)
DealFails(w) == TaskAt(w, "deal") /\ Fails(w)

(* DealMessage: a login, or a user who says Online, makes this connection  *)
(* the user's, and one who says Offline has none.  Other packets change    *)
(* nothing here, nor does an empty one.                                    *)
SignIn(w, u) ==
  /\ TaskAt(w, "deal")
  /\ SetEntry(u, job[w])
  /\ Step(w, "dealt")
  /\ UNCHANGED <<knocks, pipe, mutex, loop, queue, job, list, is_close>>

SignOff(w, u) ==
  /\ TaskAt(w, "deal")
  /\ SetEntry(u, None)
  /\ Step(w, "dealt")
  /\ UNCHANGED <<knocks, pipe, mutex, loop, queue, job, list, is_close>>

(* ConnectionPool::Add gets the mutex.                                     *)
Add(w) ==
  /\ step[w] \in {"deal", "dealt"} /\ mutex = Nobody
  /\ mutex' = w
  /\ handles' = [handles EXCEPT ![job[w]] = @ + 1]
  /\ PushBegin(w, job[w])
  /\ Step(w, "pushed")
  /\ UNCHANGED <<clients, pipe, loop, queue, job, users, is_close>>

Pushed(w) ==
  /\ TaskAt(w, "pushed")
  /\ PushEnd(w, job[w])
  /\ Step(w, "alarm")
  /\ UNCHANGED <<clients, handles, pipe, mutex, loop, queue, job, users, is_close>>

(* The write waits while the pipe is full.                                 *)
Alarm(w) ==
  /\ TaskAt(w, "alarm") /\ pipe < PipeSize
  /\ pipe' = pipe + 1
  /\ mutex' = Nobody
  /\ Step(w, "done")
  /\ UNCHANGED <<clients, handles, loop, queue, job, list, users, is_close>>

(* Mutant: network keeps its handle. *)
Done_Leaks(w) ==
  /\ TaskAt(w, "done")
  /\ Drop(job[w], 1)
  /\ job' = [job EXCEPT ![w] = None]
  /\ Step(w, "idle")
  /\ UNCHANGED <<knocks, pipe, mutex, loop, queue, list, online, is_close>>

Done(w) ==
  /\ TaskAt(w, "done")
  /\ Drop(job[w], 2)
  /\ job' = [job EXCEPT ![w] = None]
  /\ Step(w, "idle")
  /\ UNCHANGED <<knocks, pipe, mutex, loop, queue, list, online, is_close>>

(* DealConnectionClosed: the user module erases the first entry with this  *)
(* connection, and no other.                                               *)
Forget(w) ==
  /\ TaskAt(w, "close")
  /\ LET mine == {u \in Uid : online[u] = job[w]}
     IN \/ mine = {} /\ UNCHANGED <<online, handles>>
        \/ \E u \in mine :
             /\ \A v \in mine : u <= v
             /\ online' = [online EXCEPT ![u] = None]
             /\ handles' = [handles EXCEPT ![job[w]] = @ - 1]
  /\ shut' = shut \cup {job[w]}
  /\ Step(w, "closed")
  /\ UNCHANGED <<clients, pipe, mutex, loop, queue, job, list, is_close>>

(* The task goes with its handle; the connection is not put back.          *)
Close(w) ==
  /\ TaskAt(w, "closed")
  /\ Drop(job[w], 1)
  /\ job' = [job EXCEPT ![w] = None]
  /\ Step(w, "idle")
  /\ UNCHANGED <<knocks, pipe, mutex, loop, queue, list, online, is_close>>

-----------------------------------------------------------------------------
(* The clean thread of the user module drops those whose token is too old. *)
Evict(u) ==
  /\ Alive /\ online[u] # None
  /\ SetEntry(u, None)
  /\ UNCHANGED <<knocks, pipe, mutex, loop, tasks, list, is_close>>

-----------------------------------------------------------------------------
LoopLocks == Snapshot \/ Take \/ Relock
LoopGoesOn ==
  \/ Select \/ Timeout \/ Accept \/ AcceptFails \/ PushNew \/ PushedNew
  \/ Dispatch \/ EndTurn \/ Dispatched \/ Stop
TaskGoesOn(w) ==
  \/ Start(w) \/ Recv(w) \/ RecvFails(w) \/ Pushed(w) \/ Alarm(w) \/ Done(w)
  \/ Forget(w) \/ Close(w)
Deals(w) == DealFails(w) \/ \E u \in Uid : SignIn(w, u) \/ SignOff(w, u)

Next ==
  \/ Knock \/ Exit
  \/ \E c \in Conn : SendPacket(c) \/ HangUp(c)
  \/ LoopLocks \/ LoopGoesOn
  \/ \E u \in Uid : Evict(u)
  \/ Alive /\ \E w \in Worker : TaskGoesOn(w) \/ Deals(w) \/ Add(w)

Spec == Init /\ [][Next]_vars

(* A thread that can go on does so, and one that waits for the mutex gets  *)
(* it when it is free again and again.  Nothing is assumed of clients.     *)
FairSpec ==
  /\ Spec
  /\ WF_vars(LoopGoesOn) /\ SF_vars(LoopLocks)
  /\ \A w \in Worker : WF_vars(Alive /\ TaskGoesOn(w)) /\ SF_vars(Alive /\ Add(w))

-----------------------------------------------------------------------------
(* Properties *)

LoopLabels == {"snapshot", "select", "take", "accept", "push", "pushed", "relock",
               "dispatch", "turn", "closing", "stopped", "dead"}
TaskLabels == {"idle", "recv", "deal", "dealt", "pushed", "alarm", "done", "close",
               "closed"}

TypeOK ==
  /\ knocks \in Nat
  /\ peer \in [Conn -> {"here", "gone", "none"}]
  /\ inbox \in [Conn -> Nat]
  /\ handles \in [Conn -> Nat]
  /\ pool \subseteq Conn
  /\ pipe \in 0 .. PipeSize
  /\ mutex \in Worker \cup {Nobody}
  /\ tail \in [Thread -> SUBSET Conn]
  /\ main \in LoopLabels
  /\ sets \subseteq Conn /\ knocked \in BOOLEAN
  /\ newcomer \in Conn \cup {None}
  /\ lst \subseteq Conn /\ batch \subseteq Conn /\ turn \in Conn \cup {None}
  /\ queue \in Seq(Conn)
  /\ job \in [Worker -> Conn \cup {None}]
  /\ step \in [Worker -> TaskLabels]
  /\ online \in [Uid -> Conn \cup {None}]
  /\ is_close \in BOOLEAN
  /\ crossed \subseteq Conn /\ shut \subseteq Conn

(* The workers whose task has its connection to itself: until it is back   *)
(* in the list.                                                            *)
Using(c) == {w \in Worker : job[w] = c /\ step[w] \notin {"alarm", "done"}}

Places(c) ==
  One(c \in pool) + One(c \in batch) + One(c = newcomer) + Cardinality(Using(c))
    + Cardinality({i \in DOMAIN queue : queue[i] = c})

Open(c) == handles[c] > 0

(* No two tasks ever read from one connection, or one from a connection    *)
(* that the loop watches for another; and no connection is forgotten: as   *)
(* long as its socket is open it is in the pool, on its way to a task or   *)
(* with one, unless it was put into the list at the same time as another   *)
(* or its task told the modules that it is closed.  After that it is never *)
(* read from again, though the socket stays open for the loop's copies and *)
(* for the users that the user module did not find.                        *)
OnePlace ==
  \A c \in Conn :
    /\ Places(c) <= 1
    /\ Places(c) = 1 => Open(c)
    /\ Open(c) => Places(c) = 1 \/ c \in crossed \/ c \in shut
    /\ c \in shut => Places(c) = 0 \/ \E w \in Worker : job[w] = c /\ step[w] = "closed"

Entries(c) == {u \in Uid : online[u] = c}

(* The counter of a connection is the number of its handles: one where it  *)
(* is, one more of network during a task, and one of the list when it was  *)
(* pushed; the copies of the loop, which has one in its list after the     *)
(* task was queued and two more until that turn ends; and one for every    *)
(* user that is online with it.  So the socket is closed neither before    *)
(* the last use nor, save for a list entry that was lost, later.           *)
HandlesMatch ==
  \A c \in Conn :
    LET of(labels) == Cardinality({w \in Worker : job[w] = c /\ step[w] \in labels})
        held == Places(c) + of({"recv", "deal", "dealt"}) + 2 * of({"pushed", "alarm", "done"})
                  + One(c \in lst \ batch) + 2 * One(c = turn) + Cardinality(Entries(c))
    IN handles[c] = held \/ (c \in crossed /\ handles[c] = held + 1)

(* The pipe is full, the task that fills it has the mutex, and the loop    *)
(* that would empty it waits for the mutex or for the task.                *)
Jammed ==
  /\ pipe = PipeSize
  /\ \E w \in Worker : step[w] = "alarm"
  /\ main \in {"snapshot", "take", "relock", "closing"}

Ended == main \in {"dead", "closing", "stopped"}

(* No connection has something to read for ever without a task that reads  *)
(* it, however busy the others are, unless the pipe jams, the server ends, *)
(* the connection was lost from the list, or its task closed it and the    *)
(* socket is open for a user only.                                         *)
RequestServed ==
  \A c \in Conn :
    []<>(Open(c) /\ Readable(c) =>
           \/ \E w \in Worker : job[w] = c /\ step[w] \in {"deal", "close"}
           \/ Jammed \/ Ended \/ c \in crossed \cup shut)

Quiet == knocks = 0 /\ \A c \in Conn : ~Readable(c) \/ c \in crossed \cup shut

(* After the console said exit the server does not go on for ever while all *)
(* clients are silent: it comes to an end, unless the pipe jams.            *)
StopHonoured ==
  []<>(is_close /\ Quiet => main \in {"stopped", "dead"} \/ Jammed)
-----------------------------------------------------------------------------
(* The inductive invariant, for OnePlace and HandlesMatch                   *)

(* What goes with the places where the threads are.                         *)
PushesNow(t) == IF t = Main THEN main = "pushed" ELSE step[t] = "pushed"
Pushee(t) == IF t = Main THEN newcomer ELSE job[t]

Labelled ==
  /\ newcomer # None <=> main \in {"push", "pushed"}
  /\ main \in {"snapshot", "select", "take"} => lst = {}
  /\ turn # None <=> main = "turn"
  /\ batch \subseteq lst /\ turn \notin batch /\ (turn # None => turn \in lst)
  /\ main = "accept" \/ (main = "take" /\ knocked) => knocks > 0
  /\ \A w \in Worker : step[w] = "idle" <=> job[w] = None
  /\ \A w \in Worker : step[w] \in {"pushed", "alarm"} <=> mutex = w
  /\ \A t \in Thread : tail[t] # {} => PushesNow(t)

(* A connection is in one place at a time; the lists as the threads found   *)
(* them may bring one back that was lost, which is nowhere else either.     *)
Listed == pool \cup UNION {tail[t] : t \in Thread}

Apart ==
  /\ Listed \cap batch = {} /\ Listed \cap Range(queue) = {} /\ batch \cap Range(queue) = {}
  /\ newcomer \notin Listed \cup batch \cup Range(queue)
  /\ \A i, j \in DOMAIN queue : queue[i] = queue[j] => i = j
  /\ \A c \in Conn : \A w \in Using(c) :
       /\ c # newcomer /\ c \notin Listed \cup batch \cup Range(queue)
       /\ \A v \in Using(c) : v = w

(* The list and what two threads make of it differ by crossed connections.  *)
Crossing ==
  \A s \in Thread : PushesNow(s) =>
    /\ pool \ tail[s] \subseteq crossed /\ tail[s] \ pool \subseteq crossed
    /\ \A t \in Thread \ {s} : PushesNow(t) => tail[s] \ tail[t] \subseteq crossed
                                             /\ Pushee(t) \in crossed

(* The handles: one of the place, one more while a task deals with it, two  *)
(* more from its push to the end of the task, and those of the loop's       *)
(* copies and of the users.                                                 *)
Placed(c) == c \in pool \cup batch \cup Range(queue) \/ c = newcomer \/ Using(c) # {}
Dealing(c) == {w \in Worker : job[w] = c /\ step[w] \in {"recv", "deal", "dealt"}}
Full(c) == {w \in Worker : job[w] = c /\ step[w] \in {"pushed", "alarm", "done"}}
Copies(c) == One(c \in lst \ batch) + 2 * One(c = turn) + Cardinality(Entries(c))
OfPlace(c) == handles[c] - Cardinality(Dealing(c)) - 2 * Cardinality(Full(c)) - Copies(c)

Counted ==
  \A c \in Conn :
    /\ OfPlace(c) \in {0, 1}
    /\ Placed(c) \/ c \in Listed => OfPlace(c) = 1
    /\ OfPlace(c) = 1 => Placed(c) \/ c \in crossed

(* An open connection that is nowhere was lost or closed by its task, and   *)
(* what a task closes stays where it is.                                    *)
Closed(c) == \E w \in Worker : job[w] = c /\ step[w] = "closed"

Shutting ==
  \A c \in Conn :
    /\ Open(c) => Placed(c) \/ c \in crossed \/ c \in shut
    /\ c \in shut => Open(c) /\ c \notin Listed /\ (~Placed(c) \/ Closed(c))
    /\ Closed(c) => c \in shut

IInv == TypeOK /\ Labelled /\ Apart /\ Crossing /\ Counted /\ Shutting
=============================================================================
