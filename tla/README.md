# A TLA+ development of LiMaoTalkServer

LiMaoTalkServer is the server of an instant messenger: clients open TCP
connections, register, sign in, keep friend lists, and send each other messages
that the server stores and pushes to the addressee when he is online.  What is hard
about it lies in its threads: a loop hands readable connections to a pool of
workers, which work on shared tables, on one list of connections and on files that
several handlers read and write, next to a thread that evicts expired sessions.

This directory holds TLA+ specifications of those parts, TLC configurations that
model-check them on small instances, and TLAPS proofs of their safety properties
for all instances.  `src/LiMaoTalkServer` is abbreviated `L/` below.
`PROJECT.json` maps every definition to the source lines it stands for.

## 1. Inventory

| Component | State it keeps | Operations | Interacts with | What makes it correct |
|---|---|---|---|---|
| `UserControlModule` (`L/online_user_collection.cpp`) | `users`: uid -> signed-in user with token; `user_connections`: uid -> connection; a shared mutex for each; `exit` | requests 100 to 107, 201, 203; `OnConnectionClosed`; `OnLoad`, `OnUnload`; the eviction thread | called by `ModulesManager` on a worker of the main pool; calls `User`, `UID`, `Sessions`, `SendingAsync` | nobody acts for another uid; pushes never touch erased entries; a closed connection is forgotten; only owners of expired tokens are evicted; every request is answered |
| `User` and user files (`L/user.cpp`) | `Users/<uid>/user.json`, `friends.json`, `friend_request.json`, on disk | `Create`, `Login`, `IsTokenAllow`, `ReadTextFile`, `ReplaceWriteTextFile`, `GetFriendList`, `AddFriend`, `SendFriendRequest`, `GetFriendRequest`, `RemoveFriendRequest`, `IsFriend` | locks every access through `FileRWLock` | friend lists are symmetric; no friendship without request and consent; an account is made once |
| UID pool (`L/uid.cpp`) | the file `next_uid` | `Generate` | request 101, then `User::Create`; a mutex of `FileRWLock` | a number is given once, also across restarts |
| `FileRWLock` (`L/file_rw_lock.cpp`) | `rw_locks`: path -> mutex and count | `GetMutex`; the deleter of the returned handle | used by `User`, `UID` | one mutex per file at any time, deleted with the last handle |
| `TaskPool` (`L/task_pool.cpp`) | task queue, list of threads, counters of waiting workers and of tasks under way | `Run`, the worker loop, the destructor | used by the loop, the console and the eviction thread | every task is started once; no lost wake-up; the destructor joins everybody |
| `MainServer` (`L/main.cpp`) | flag `is_close`, the connection pool, the task pool | the loop, one task per readable connection, the console | all of the above | a connection is handled by one task at a time; a stop request is honoured |
| `ConnectionPool` (`L/connection_pool.cpp`) | the list of watched connections, its mutex, a pipe that wakes `select` | `Add`, `WaitReadableActive` (with accept), `AlarmWaitReadableActive` | the loop takes out, tasks put back | no connection is lost or handed out twice; a connection put back is watched at once |
| `TCPConnection`, `TCPServer` (`L/Network.cpp`) | a counted socket handle | `Accept`, `Send`, `Recv`, `Close`, copies | list, loop, tasks and `user_connections` hold copies | the socket is closed once, by the last handle |
| `SafeNetwork` (`L/safe_network.cpp`) | none of its own: framing on a connection | `Send`, `Recv` | replies, pushes of other handlers, the queue of `SendingAsync` | packets are not mixed; the reader stays in step with the frames |
| `SendingAsync`, `MessageQueue` (`L/sending_async.cpp`, `L/message_queue.h`) | named queues, a thread for each | `Send` directly or by a queue | the program calls only the direct `Send` | what is queued is sent, in order |
| `Sessions`, `SQLite` (`L/sessions.cpp`, `L/sqlite_cpp.cpp`) | one database: table `sessions`, for each user a table of his sessions with friends, for each session a table of messages; `sessions_rw_lock` | create a session, enter it for both friends, add a message, read a range | requests 201, 203 | nobody reads the messages of others; an acknowledged message is kept; two friends share one session; a range answers what was asked |
| JSON (`L/CJsonObject.cpp`, `L/cJSON.cpp`) | a tree of nodes; objects that own it or refer into it; the objects that `operator[]` caches | `Add`, `AddAsFirst`, `Replace`, `Delete`, `Get`, `operator[]`, `Clear`, `Parse`, `ToString`, copies and moves, for members and for array items | every file of a user and the configuration are JSON | a node is freed once; a cached object follows the document; a value is read back as it was stored |
| `ModulesManager`, `BasicRequest` | two modules, fixed before the start | dispatch, ping | tasks of the loop | (sequential) |
| `DataPackage`, `ConfigManager`, `Storage`, `FileIO`, `Streams`, `Buffer`, `Logger`, `UUID` | no state shared by threads, or read-only after start | parsing, wrappers of files and memory | everybody | (sequential; their effect on files is modelled where it matters) |
| AES, MD5, Base64 | none | third-party algorithms | | |

### Interactions

One packet: the loop takes a readable connection out of the `ConnectionPool` and
gives a task to the `TaskPool`; the task receives the packet, dispatches it to the
modules and puts the connection back, which writes a byte to the pipe (`L/main.cpp`
85-105).  The handler checks the token under `users_mutex`, gives the lock up, works
on the files of the user under the mutexes of `FileRWLock`, and for 102 and 201
pushes to the peer under both mutexes.  If receiving fails, the task tells the
modules (`OnConnectionClosed`) and drops the connection; so it does when the packet
is no JSON or a module throws something else than a `std::exception`.  The module
keeps a copy of the connection of every user who is online (`user_connections`), so a
socket may stay open after its task is gone.  `OnLoad` creates a second
`TaskPool` with one task, the eviction thread; `OnUnload` sets `exit` and destroys
that pool.

### What is hard

* **Lock order.** A push takes `online_connections_mutex`, then `users_mutex`; the
  eviction thread takes them the other way round.
* **State used after its lock is given up.** The token check, the list of expired
  users, friend lists and request lists are all read in one critical section and
  used, or written back, in a later one; whether an account exists is looked up
  before the mutex is taken under which it is made.
* **Files emptied before they are filled.** A file is emptied when it is opened and
  filled when its stream is closed.  `UID::Generate` unlocks in between.
* **Two steps for one fact.** A login writes two tables, an accepted friendship two
  files, in separate critical sections; a crash can fall in between.
* **Hand-made lifetimes.** The mutex of a file lives as long as its handles, a socket
  as long as its copies, which the list, the loop, the tasks and the user module drop
  in any order; threads of the pool remove themselves from the list the
  destructor walks.
* **A list without its mutex.** The loop pushes a new connection to the list of the
  pool after it gave the mutex up, while tasks push theirs under it.
* **The wake-up pipe.** Bytes are written under the mutex of the pool and read one a
  round by the loop, which needs the same mutex.
* **Partial reads and split writes.** A field may arrive in pieces; a header and its
  body are sent by two calls that nothing holds together.
* **Statements without transactions.** A first message makes a session by five SQL
  statements; another handler, a busy database or a crash can come between any two.
* **Counters read without the mutex** decide whether the task pool starts a thread.
* **Caches of pointers.** `operator[]` of a JSON object keeps what it returned; every
  call that moves or frees an item has to find and drop it.

`PROJECT.json` lists the hazards one by one, each at its line, with the properties
that cover it, or why none does.

## 2. Modules

| Module | Models | State | Abstract specification | Proofs |
|---|---|---|---|---|
| `UserControl` | `L/online_user_collection.cpp`, one task per connection from `L/main.cpp`, the expiry of `User::IsTokenAllow` | both tables, both mutexes, issued and expired tokens, where each handler and the eviction thread stand | `SessionTable` | `UserControlProofs` |
| `FileRWLock` | `L/file_rw_lock.cpp` and the four ways `L/user.cpp` uses a mutex | the registry, the mutexes, the handles, whether a file is being replaced | | `FileRWLockProofs` |
| `TaskPool` | `L/task_pool.cpp` | queue, threads, both counters, who is blocked | `Executor` | `TaskPoolProofs` |
| `FriendStore` | friend requests and friend lists in `L/user.cpp`, requests 102 (ask) and 104 (agree or ignore), crashes | the two files of every user, the copies each handler works on | `FriendGraph` | `FriendStoreProofs` |
| `Sessions` | `L/sessions.cpp`, the statements of `L/sqlite_cpp.cpp`, the database part of 201 and 203 | all tables, what each handler does next, the last range answered | | `SessionsProofs` |
| `Registration` | request 101: `L/uid.cpp`, `User::Create`, crashes, files that do not open | `next_uid`, the accounts, their mutexes, where each request stands | | `RegistrationProofs` |
| `Server` | the loop and its tasks in `L/main.cpp`, `L/connection_pool.cpp`, the counted handles of `L/Network.cpp`, among them those in `user_connections` | the list, the pipe, the mutex, the handles, the sockets, the task queue, who is online on which connection | | `ConnectionProofs` |
| `Transport` | `L/safe_network.cpp`, `recv` and `send` of `L/Network.cpp`, `L/sending_async.cpp`, `GetItem` and `AddItem` of `L/message_queue.h` | bytes sent, arrived and read; who is between a header and its body; a queue and its thread | | `ConnectionProofs` |
| `JsonDocument` | trees, ownership and caches in `L/CJsonObject.cpp` and `L/cJSON.cpp` | the nodes on the heap, the objects | | `JsonProofs` |
| `JsonValue` | the typed stores and reads, printing and parsing of numbers in the same files | one item and what was stored in it | | `JsonProofs` |

`MC<module>` gives the constants of a module their model values; `MCJsonDocument`
also has the constraint described below.

### How they fit together

Each module rests on what the next lower one shows, so that the state spaces stay
apart:

* `Server` uses the task pool as `Executor` describes it, which `TaskPool` implements,
  and takes reading a packet as one step, which `Transport` takes apart.
* `Transport` has one reader of a connection at a time: `OnePlace` of `Server`.
* `UserControl` names a handler by its connection for the same reason, and lets a
  handler run as soon as its packet has arrived: that is `RequestServed` of `Server`
  and `TaskStarts` of `TaskPool`.  It treats the whole file part of a login as one
  step; how the file is read is modelled in `FileRWLock`.
* `FriendStore` takes one read, or one replacement, of one file as one step.  That is
  `ReplacesAlone` and `NoTornRead` of `FileRWLock`.
* `Registration` has one mutex per file and lets it go with its last handle, as
  `SameFileSameMutex` and `RefCounts` of `FileRWLock` say.
* `Sessions` begins where the checks of 201 and 203 end (the token in `UserControl`,
  the friendship in `FriendStore`), and ends where the push of `UserControl` begins.

### `UserControl`

`Login`, `StoreUser`, `StoreConnection` are the three critical sections of
`login_message`; `CheckToken` is `check_token` with the early returns of the
handlers; `SignOnlineState` is 107; `PushLockOnline`, `PushLockUsers`, `Send`,
`SendFails`, `PushUnlock` are the push of 102 and 201; `Disconnect` and
`OnConnectionClosed` the end of a connection; `Collect`, `CleanerLockUsers`,
`CleanerLockOnline`, `Erase`, `CleanerExit` one round of the eviction thread;
`OnUnload` the flag.  A critical section on a single mutex is one step, because
nobody can see its inside; where both are held, each acquisition is a step.
Requests 103 to 106 and 203 touch neither table after the token check: they are the
kind `query`.  `authenticated` and `latest` are history variables, read by
properties only.

### `FileRWLock`

`Reuse` and `Insert` are the two branches of `GetMutex`, `Forget` the deleter.  A
thread that has a handle locks (`Lock`), reads (`Read`) or opens for replacement
(`Truncate`) and closes (`Close`), unlocks (`Unlock`) and lets the handle go
(`Release`).  `User::Login` (`L/user.cpp` 87) and `User::Create` never unlock; the
model follows them.  Mutexes are taken from a set of addresses, so that one can be
allocated where another was freed.

### `TaskPool`

`Push`, `Check`, `Notify`, `Spawn` are the steps of `Run` between which others can
come: it pushes under the mutex, then reads the count of waiting workers without
it.  `Enter`, `Poll`, `Take`, `Block`, `Wake`, `SpuriousWake`, `Finish`, `Reenter`,
`Decide`, `Leave` are the worker loop, `Cancel`, `NotifyAll`, `JoinAll` the
destructor.  `keep_task_num` is a constant: `main` passes 5, `OnLoad` 0.  The run has
two callers, since the class is written for several.

### `FriendStore`

A handler has one action per file access of `SendFriendRequest`, `AddFriend` and
`RemoveFriendRequest`, with the check that follows a read and the exception it can
end with.  Any number of threads handle requests, and what one of them read may be
outdated when it writes.  `NotifyFails` is the push of 102 that throws before the
request is stored.  `Crash` ends all handlers at once; a file that was being replaced
may be left empty (`Broken`), which `File::Read` refuses from then on.

The history variables record where the code may fail.  `friends_spoiled` and
`requests_spoiled` are the users one of whose files two threads were replacing at
once, from the read of one to the write of the other (`HasFriends`, `HasRequests`), or
that a crash emptied or left behind; `crossed` the pairs of users of whom two requests
were handled at once, or who had become friends when a crash came before the request
was removed.  `asked` and `agreed` are what users have said.  All are read by
properties only.

### `Sessions`

A step is one SQL statement, which SQLite makes atomic.  `Open` and `Create` are the
two statements of the constructor of `FriendsSessions`, `FindSession` is the look
for a session (365), `CreateSession`, `AddMembers`, `AddOwnSession`,
`AddFriendsSession` (367-370) make one, `UseSession`, `MakeMessageTable` and
`AddMessage` store the message (372-374).  `LookForMessages` and `ReadMessages` are
203.  `Busy` is any statement that fails because another connection is at work (no
busy timeout is set), `Crash` the end of the process.  `IsTableExist` reads the first
entry of an empty map when there is no such table (`L/sqlite_cpp.cpp` 126); the model
lets it answer no, or the process die.  Messages are ordered as they are inserted,
since `sessions_rw_lock` is held while the time is taken.  `GetMessages` is the three
queries with `LIMIT` and `OFFSET` as SQLite defines them (`Page`).  `acknowledged` and
`disturbed` are history variables, read by properties only.

### `Registration`

`LockUid`, `Read`, `First`, `FirstClose`, `Truncate`, `UnlockUid`, `CloseUid` are
`UID::Generate` file access by file access: the stream that holds the next number is
closed at the return, after the unlock, so `next_uid` is empty in between
(`Unwritten`).  `ReadFails` is an `Open` that fails and is taken for a file that is
not there yet; `OpenUidFails` and `CreateFails` end the request and unlock nothing.
`LookDir`, `MakeDir`, `Check`, `UserHandle`, `LockUser`, `Create`, `CloseUser` are
`User::Create`, which never unlocks either.  `DropUidHandle` and `DropUserHandle`
take the mutex away with its last handle.  `Crash` loses what open streams hold and
all mutexes.  The numbers are bounded by `LastUid`, which the program does not have:
a request that would pass it stays where it is (`OutOfNumbers`).  `disturbed` and
`together` are history variables, read by properties only.

### `Server`

`Snapshot`, `Select`, `Timeout`, `Take`, `Accept`, `PushNew`, `PushedNew`, `Relock` are
`WaitReadableActive`; `Dispatch` and `EndTurn` are one turn of the loop over what it
returned, `Dispatched` the end of that loop; `Stop` is the end of `Start`.  A task is
`Start`, `Recv` or `RecvFails`, then `SignIn`, `SignOff` or nothing that matters here, or
`DealFails`, then `Add`, `Pushed`, `Alarm`, `Done`; after a failure it is `Forget`
(`DealConnectionClosed`) and `Close`.  Pushing to the `std::list` is two steps, `PushBegin`
reads the list as it is and `PushEnd` writes it with one node more: two that overlap
lose an entry, the outcome of the race that leaves the list well-formed (`crossed`
remembers them).

`handles` is the reference counter of a socket, and every copy that outlives a step is
counted:

| Copy | from | to |
|---|---|---|
| the list of the pool | `Accept`, `Add` | `Take`, which hands it on |
| the loop's list `connections` | `Take` | `Dispatched` |
| the loop variable `connection`, the function given to `Run` | `Dispatch` | `EndTurn` |
| the function in the queue and then in its thread | `Dispatch` | `Done`, `Close` |
| `network` of the task | `Start` | `Done`, `RecvFails`, `DealFails` |
| `user_connections` | `SignIn` | `SignIn` elsewhere, `SignOff`, `Forget`, `Evict` |

The task may end before the loop's turn does, in which case the loop drops the last
handle.  `Release` closes a socket whose counter has come to 0, and `Accept` takes the
lowest free number, as the system does.  `Forget` erases the first entry with the
connection only, as `OnConnectionClosed` does, so with two users on a connection its
socket stays open when the task is gone (`shut`).  Copies that `DealMessage` and
`DealConnectionClosed` make and drop while their caller holds one are not counted.
`crossed` and `shut` are history variables.  Who may sign in or off is the subject of
`UserControl`: here any handler may do so for any user.

### `Transport`

The client writes whole packets (`Request`), the network delivers them in pieces
(`Arrive`), and `Begin`, `ReadHeader`, `ReadBody`, `ReadFails` read them as
`SafeNetwork::Recv` does: each call asks for the whole field, also when a part of it
is there, so `need_size` may go below 0 and the loop never ends (`overrun`).  On the
way out a header and a body are one step each (`SendHeader`, `SendBody`), by the task
(`Answer`, `Answered`), by threads that push (`Push`, `PushBody`), and by the thread of a
queue (`ThreadStarts`, `ThreadTakes`, `ThreadSends`, `ThreadSent`, `ThreadEnds`), which
`Submit` feeds and revives.  `Submit` decides whether the packet is over the limit
(`too_large`): `SafeNetwork::Send` throws on one (`L/safe_network.cpp` 10), the thread of
the queue swallows the exception (`L/sending_async.cpp` 15), and the client is not told.
`whole` are the packets of the queue of which header and body were sent.

### `JsonDocument` and `JsonValue`

`JsonDocument` keeps pointers: a node is a number that `cJSON_Delete` frees and
`malloc` gives out again, an object owns a tree or refers to a node, and an object
cached by `operator[]` is named by the way to it.  There is one action for each call
that changes a document (in its overloads: by value, by copy, by move, by key, by
index), each with the walk over the caches that follows the change in the code.
Calls that fail without an effect are left out.  `SameName` is the comparison of cJSON,
which ignores case, while the caches compare keys as they are spelt.

`JsonValue` keeps one item with its `valueint`, `valuedouble` and `sign`, at small
widths of the integers.  `print_int`, `print_double`, `parse_number` are what they do to
the three; floating point numbers are whole numbers of halves, so rounding is left
out.

## 3. Runs

Constants are model values; every bound is a constant of the `.cfg`.

| Run | Question | Bounds | Result |
|---|---|---|---|
| `user_control` | Do tables, locks and history agree, and do the steps implement `SessionTable`? Is every packet handled, every expired session evicted, the module unloaded? | 2 users, 2 connections, 2 tokens of which one expires, all requests, 3 packets | holds, 162,160 states; the liveness except when the two mutexes have been taken crosswise (`LocksCrossed`): the only way to get stuck |
| `user_control_fresh_token` | Is the token just issued accepted until it expires? | one expiring token, 2 packets | **violated**: a login between collection and erasure is erased too |
| `file_rw_lock` | One mutex per file, right counts, no torn reads, completion | 3 threads, 2 files, 3 addresses, reads, replacements, logins and creations, 3 operations | holds, 193,696 states; completion except where a login or a creation left a mutex locked (`LeftLocked`) |
| `task_pool` | FIFO executor, wake-ups, the list of threads, termination | 2 callers, 3 workers, the console (which never returns) and 2 requests, `keep_task_num` 1 | holds, 34,050 states; a task starts unless only endless ones are left running (`OnlyEndless`) |
| `friend_store` | With handlers that interleave and crashes: consent, lists in sync, requests that wait, and do the files implement `FriendGraph`? | 3 users, 2 handlers at once, 4 operations, any crashes | holds, 79,877 states up to symmetry of users and threads, with the exceptions the properties name |
| `sessions` | Are sessions private, messages kept, sessions shared, ranges right? | 3 users, 2 handlers, 3 sessions, 5 ranges, 3 requests, busy databases and crashes | holds, 222,223 states up to symmetry of users, threads and sessions |
| `registration` | Are numbers given once, accounts kept, registrations ended? | 3 requests, 4 numbers, 1 crash, 1 file that does not open | holds, 140,979 states, with the exceptions the properties name |
| `server` | Is a connection in one place, and does the counter of its socket count its handles? | 2 sockets, 2 workers, 2 users, a pipe of 1 byte, 1 packet waiting in a socket, 1 client waiting; as many rounds as one likes | holds, 1,668,560 states up to symmetry of the workers, with the exceptions the properties name |
| `server_liveness` | Is what arrives read, and does the server stop? | the same without users | holds, 346,842 states, with the exceptions the properties name |
| `transport` | Does the reader stay in step, does the client get whole packets, is what was queued sent? | headers of 2 bytes, packets of 0, 2 or 4 with a limit of 3, 2 requests, a push, 2 queued packets | holds, 1,243,752 states, with the exceptions the properties name |
| `json_document` | Is every node freed once, do cached objects follow the document? | 3 nodes, 2 variables, 3 spellings of 2 keys, indices 0 and 1, 2 cached objects | holds, 39,398 states up to symmetry of the spellings, with the exceptions the property names |
| `json_value` | Is a value read back as it was stored? | integers of 3 and 5 bits for 32 and 64, received numbers to 20 | holds, 1,016 states, with the exceptions the properties name |

Why the bounds are enough: every property compares at most two parties of a kind
(two handlers, two users, two threads on a file, two pushes), and each instance has
those two and one to spare, or enough steps for both to repeat.  `task_pool` needs
three workers so that one leaves, one waits and one works, and three tasks so that
the queue is longer than the waiting workers.  `friend_store` needs three users
because two requests must meet in one list, and four operations so that two requests
are answered at once.  `sessions` needs three requests so that
a message is sent while a session is made and a range is read afterwards.
`registration` needs three requests so that one reads while one is unwritten and a
third has its number.  `server` has as many sockets
as workers, so that a number is given out again while a task still works, two users so
that one is left on a connection that the module was told is closed, and a pipe of one
byte, so that a task often finds it full.  `server_liveness` leaves
the users out, which would double or triple a graph that liveness checking must keep;
they change nothing in it but how long the socket of a closed connection stays open,
and its number taken, which the properties except (`shut`).  One worker with the two
users was checked as well (512,974 states, same result).
`transport` has a header of two bytes so that it can arrive in pieces, sizes below, at
and above what is allowed, and two requests so that the second can be pipelined.
`json_value` needs the 64-bit width to exceed the 32-bit one by two bits, so that
every conversion can change a value.  The bounds on packets, operations, crashes and
failures are counters in guards; the proofs do without the small instance.

`json_document` has a CONSTRAINT (`Bound` of `MCJsonDocument`) on top of its constants,
because the states with a second tree multiply.  It stops after a cached object has
been given a tree of its own or is left with a freed item, and keeps the second
variable to one node without caches.  The step that reaches such a state is
checked, what could be done with it later is not.

`CHECK_DEADLOCK FALSE` is set in all but `json_value`: clients may fall silent for
ever, the module is unloaded, the pool is destroyed, the server stops, and the
bounds end a run.

### Fairness

A thread that can take a step takes one: weak fairness per thread in `UserControl`,
`FileRWLock`, `TaskPool`, for each registration in `Registration`, for the thread of
the queue in `Transport`.  The operating system schedules every thread, and a mutex
that stays free is eventually given to somebody who waits for it.  `Server` has no
bound on rounds, so a thread may find the mutex of the pool taken again and again
between moments when it is free; there the three places that lock it are strongly
fair (`SF_vars(LoopLocks)`, `SF_vars(Add(w))`), which the queue of waiting threads of a
`std::mutex` on the systems the server runs on provides in effect.  No client has to
connect, send or hang up, no token has to expire, no user has to act, no crash or
failure has to happen.  In `TaskPool`, tasks in `Endless` (the console) never return.
`Send` is assumed to end: a peer that stops reading its socket blocks a push and
with it both mutexes, and a client that sends half a packet holds a worker; the
models do not show that.

### What the runs say about the code

One run expects a violation, of a sentence in the repository's own documentation:
**eviction by uid** (`L/online_user_collection.cpp` 514).  A session opened between
the collection (500-508) and the erasure is removed, and the token it was just given
refused, although `L/ReadmeFiles/Message.md` 85 has the client keep it for its later
requests.  What still holds, and is proved, is that only users who did outlive a
token are affected (`NeverEvictedWithoutExpiry`).

Other flaws appear as the exceptions that a property names; without its exception TLC
finds the property violated, with it the exception is shown to be the only way:

* **Lock order** (`LocksCrossed` in `UserControl`).  `L/online_user_collection.cpp`
  512-513 against 382-383 and 144-145: the eviction thread holds `users_mutex` and
  waits, a push holds `online_connections_mutex` and waits; every later login waits too.
* **Mutexes left locked** (`LeftLocked` in `FileRWLock` and `Registration`).
  `User::Login` (`L/user.cpp` 87) and `User::Create` never unlock, a failed `Open` in
  `UID::Generate` neither.  Alone, such a thread destroys a locked mutex; two at a
  time, the second waits for ever.
* **The waiting counter** (`OnlyEndless` in `TaskPool`, `L/task_pool.cpp` 10).  `Run` may
  notify a worker that is about to take the previous task; if that one is the console,
  the new task stays queued until another one is pushed.
* **Friend lists** (`friends_spoiled`, `requests_spoiled`, `crossed` in `FriendStore`,
  `L/user.cpp` 282, 342).  Two threads that replace one file at once write what they
  computed from old copies, so a friend, or a request, is lost; two requests of one pair
  at once can enter a user twice; a crash while a file is replaced leaves it empty,
  and one between 282 and 283 leaves half a friendship, which the code refuses from
  then on ("Friend list not async").  `FriendListsInSync`, `RequestsAwaitAnswer` and
  `ImplementsFriendGraph` are checked with all of that going on, and leave out the files
  and pairs it has happened to; so these are the only ways.  `OnlyConsented` leaves out
  nothing.
* **Two sessions** (`disturbed` in `OneSession`, `L/online_user_collection.cpp` 365-370).
  Two friends whose first messages are handled at a time each make a session, enter it
  in their own table and fail on the other's primary key.  From then on each writes to
  his own session, acknowledged, and reads nothing of the other's.
* **Ranges** (`RangeAnswered`).  The ranges of 203 are a closed interval in
  `L/ReadmeFiles/Message.md` 497, negative numbers counting from the end.  That holds for
  ranges that begin inside the log and do not end more than one before they begin.
  For the others a negative `LIMIT` is none and a negative `OFFSET` is 0: "0,-5" of
  three messages returns all three, and "-5,-4" the first two.
* **Numbers given twice** (`disturbed` in `UidsUnique`).  A registration that reads
  `next_uid` between another one's unlock (`L/uid.cpp` 43) and the close of its stream
  finds it empty and starts at 10000 again; so does one after a crash at that moment,
  or when the file does not open.  The check in `User::Create` then refuses the number,
  unless two requests pass it together (`together` in `AnsweredAccountKept`).
* **The full pipe** (`Jammed` in `Server`, `L/connection_pool.cpp` 116).  One byte is read a
  round, one written by every task: when the pipe is full, a task blocks in the write
  with the mutex the loop needs.
* **Accept** (`Ended` in `Server`, `L/connection_pool.cpp` 94).  Without a free socket
  number `Accept` throws; nobody catches it, and the process ends.
* **Crossed pushes** (`crossed` in `Server`, same line).  The new connection is pushed
  without the mutex; a connection whose push overlaps it may be lost from the list,
  with its socket open for ever.
* **Sockets that stay open** (`shut` in `Server`, `L/online_user_collection.cpp` 588-596).
  When a connection closes only the first user's entry is erased.  If a second one has
  signed in on it, the entry that is left keeps the socket open until that user signs
  in elsewhere, signs off or is evicted.  `OnePlace` shows that nobody reads from it,
  `HandlesMatch` that its counter is the number of these users.
* **A server that is never idle** (`Quiet` in `StopHonoured`, `L/main.cpp` 131) never
  sees that it is to stop.
* **Pieces** (`header_cut`, `pipelined` in `FramesInStep`, `L/safe_network.cpp` 28).  A
  header that arrives in two pieces, or a body in pieces with the next request right
  behind it, makes `Recv` read past the field.
* **Packets that are too large** (`too_large` in `QueuedSent`, `L/safe_network.cpp` 10).  A
  queued packet over the limit is dropped by the thread of the queue without a word.
* **Two senders** (`overlapped` in `OutgoingIntact`, `L/safe_network.cpp` 15).  A push and
  an answer on one connection can mix headers and bodies.
* **Caches** (`CacheFollows`).  A value added where a cached object stood for nothing is not
  seen by it; `Delete` or `Replace` under another spelling of the key, or through another
  object for the same parent, leaves it with a freed item; a cached object that stands
  for nothing can be filled, which never reaches the document.
* **Signs** (`ValueKept`, `L/CJsonObject.cpp` 3442, 3526).  `AddAsFirst` passes the sign of a
  signed number for unsigned ones, so one of 2^63 or more is written as a negative one.
* **Exponents** (`ValueKept`, `L/cJSON.cpp` 155-176).  A received number with an exponent
  but no fraction, such as 1e5, is parsed as 0.
* **Negative numbers as floating point** (`DoubleAgrees`).  The `valuedouble` of a
  negative integer is computed from its unsigned form until the text is parsed again.

## 4. Proofs

All proofs are for arbitrary constants that satisfy the named assumptions: any
number of users, connections, tokens, threads, files, addresses, workers, tasks,
requests and packets, any size of the pipe, any heap, any keys and any depth of caches,
any width of the integers, any number of crashes and failures, and no bound on steps
beyond its being a number.  `Refinement` theorems cover initial states and steps.

| Theorem | States |
|---|---|
| `UserControlProofs!TypeCorrect`, `PushesAreSafe`, `Authentication`, `ClosedIsForgotten`, `EvictionNeedsExpiry` | the types, and the four invariants of `user_control` |
| `UserControlProofs!Refinement` | `Spec => Table!Spec` |
| `FileRWLockProofs!CountsHandles`, `OneMutexPerFile`, `ReadsWhole`, `ReplacesAlone` | the three invariants of `file_rw_lock`; a replacement excludes every other access |
| `TaskPoolProofs!Counters`, `WakeupsReachTheQueue`, `TasksHaveWorkers`, `ThreadsJoined`, `ListStable`, `Refinement` | the safety properties of `task_pool`, what the counters and the list of threads hold, and `Spec => Executor!Spec` |
| `FriendStoreProofs!TypeCorrect`, `Consent` | the types, and who can be a friend at all |
| `FriendStoreProofs!ListsInSync`, `RequestsAnswered` | the other invariant and the action property of `friend_store` |
| `FriendStoreProofs!Refinement` | `Spec => Graph!Spec`; like the others for any number of users, threads, requests and crashes |
| `SessionsProofs!TypeCorrect`, `Private`, `Kept`, `SameSession`, `RangesRight` | the types, and the four properties of `sessions`, for any faults |
| `SessionsProofs!RangesDesignate` | for every list and range, the SQL queries return the designated interval |
| `RegistrationProofs!TypeCorrect`, `NumbersGivenOnce`, `AccountKept` | the types, and the two invariants of `registration`, for any crashes and failures |
| `ConnectionProofs!TypeCorrect`, `ConnectionsInOnePlace`, `HandlesCounted` | the types, and the two invariants of `server` |
| `ConnectionProofs!PacketsTyped`, `ReaderInStep`, `PacketsIntact` | the types, the invariant and the action property of `transport`, for any sizes and any cuts |
| `JsonProofs!NodesOwnedOnce`, `CachesFollow` | the invariant and the action property of `json_document`, without its CONSTRAINT |
| `JsonProofs!ValuesKept`, `DoublesAgree` | the two invariants of `json_value`, for integers of any width |

The arguments:

* **`UserControl`** (`IInv`).  `LocksHeld` determines the readers and the writer of
  both mutexes from where the threads stand.  That is what makes `PushTargetStable`
  inductive: whoever could erase an entry needs a mutex the push holds.
  `RequestsFormed` and `SessionsOwned` carry the owner of a token from its issue
  through the table to the check.  `OnlineWhereAuthenticated` links an online entry
  to a login or 107 on that connection; with it the first match of the loop in
  `OnConnectionClosed` is the only entry unless somebody else has authenticated
  there.  `CollectedExpired` remembers why a uid was collected.  The refinement
  needs only `LocksHeld`-type facts: each step is one operation of the table.
* **`FileRWLock`** (`IInv`).  `EntriesDistinct` and `HandlesRegistered` make the
  registry one-to-one between files and live mutexes, across drops and reuse of
  memory; `RefCounts` is a cardinality, so the step of a handle adds or removes one
  element of a finite set.  `LocksHeld` and `WriterExcludesReaders` give mutual
  exclusion, `TruncatedHasWriter` turns it into `NoTornRead`.
* **`TaskPool`** (`IInv`).  The counters are cardinalities of sets of workers by
  position.  `NoLostWakeup` bounds the queue by those on their way to it while
  anybody is blocked.  `NeverIdleWithWork` is `NoLostWakeup` together with
  `FirstTaskStarts` and `LastWorkerStays`: the first task makes `Run` start a
  worker, and as long as `keep_task_num` is positive the last worker decides to
  stay.  `LockOwner` and `TasksOnce` carry the refinement.
* **`FriendStore`** (`ConsentInv`, `SyncInv`, `GraphInv`).  `ConsentInv` says that every copy
  a handler holds contains only consented entries, so that writing back a stale copy
  cannot invent one.  `SyncInv` adds that a copy is current unless its file is recorded
  as spoiled (`CopiesCurrent`): whoever replaces a file while another thread has read it
  spoils it, so a thread that writes an unspoiled file writes what is there, with one
  entry more or less.  `GraphInv` adds that no two threads handle one pair unless it is
  recorded (`OneHandler`), that what a thread has found about its pair holds until it
  changes it (`FoundHolds`), whatever others do to the same files, and that nobody is
  twice in a list: without that, removing the first request of a user would not remove
  him from it (`AskedOnce`).  `StoreRequest` is then `Ask`, the first write of `AddFriend`
  is `Accept`, the removal is `Ignore` or, after an acceptance, a stutter; a step that
  spoils a file or crosses a pair is a `Lose` of those pairs instead.
* **`Sessions`** (`IInv`, `PairInv`).  `IInv` follows a session from its row, which has
  no members yet (`MembersOfSessions`, `MakersDistinct`), to the tables, which it
  enters with its two members only (`Making`, `EntriesRight`); messages are stored
  only between members (`MessagesOfMembers`), which gives `SessionsArePrivate`.  Rows
  are never changed, which keeps `AcknowledgedKept`.  `PairInv` adds, for pairs whose
  requests have not overlapped or been cut short, that one thread works on them
  (`SoleSender`) and what the two rows are at each of its steps (`Phase`).
* **`Registration`** (`IInv`).  Uniqueness is not inductive: a request that is still to
  unlock has a number that nobody may have been given.  `FileAhead` says that the file
  is ahead of all numbers given while nothing is unwritten; `OneWriter`, that one
  request at a time is between its read and the close of its stream, which the mutex
  (`LockHeld`) guarantees only up to the unlock and the absence of a disturbance
  beyond; `TakesTheNumber` and `NumberIsNew` carry the number across.  `OneCreator` and
  `CreatesUnused` do the same for the check and the creation of an account.
* **`Server`** (`IInv`).  `Apart` says that list, batch, queue, tasks and newcomer are
  disjoint, including the lists as threads that are pushing found them (`Listed`), from
  which a lost connection may come back.  `Crossing` bounds what two overlapping pushes
  can do to the list by `crossed`.  `Counted` splits the counter of a socket into one
  handle of the place, one of the task that deals with it, two of each task from its
  push to its end, those of the loop's copies and one for each user who is online with
  it, so that no step takes the counter below what is held; a free number is therefore
  nowhere, and `Accept` may take it.  The copies of the loop outlive tasks, so after a
  turn has begun the counter is not zero whatever the tasks do (`Labelled` relates
  `turn`, `batch` and `lst`).  `Shutting` says that an open connection in no place was
  lost or closed by its task, and that what a task has closed enters no place again.
* **`Transport`** (`SendingInv`, `FrameInv`).  `HeaderLast`: as long as nobody overlapped,
  what was sent last is the header of the one sender who is in the middle, or a body.
  `NumbersAhead` relates the numbers of the queue to what was taken from it.  `FrameInv`
  places the reader: at the end of a packet, behind a header, or past a field, and past
  one only for a reason that `header_cut` or `pipelined` records.  The end of a packet is
  kept with it in `sent`, so that no sum over the packets has to be unfolded.
* **`JsonDocument`** (`HeapInv`).  Ownership is not inductive on its own: freeing a tree
  must not free a node twice nor leave a child behind.  `Trees` says that no node has two
  parents, is twice in a list or is below itself, `Owning` that the objects own roots,
  each its own.  `Below`, what `cJSON_Delete` frees, is defined as the least set with the
  node and the children of its members, not by recursion; from that follow the four
  lemmas on it that the proof uses.  Every operation then makes new nodes (`Makes`),
  links a root or unlinks a child (`Relinks`), and frees whole trees (`Goes`), and
  each of the three keeps the invariant.  For the caches `CacheInv` is added: a cached
  object has the one it is cached by, because whatever drops an object drops those below
  it (`Rising`).  An operation rewires the list of one node (`Rewires`); `FindIn` says
  what is found there, so it is enough that under every slot the operation does not drop,
  and that no exception names, the same item is found before and after (`FindAppended`,
  `FindReplaced`, `FindRemoved`, and for arrays the indices before the place).  `Finish`
  then leaves the object in step, since what is still listed is not among the freed
  (`FinishFollows`).  `KeyAssumption` says that spellings are in one group each, so that
  two spellings of a third are spellings of each other, and that no key is an index.
* **`JsonValue`** (`JVInv`).  What the item holds is the stored value by its type, or one
  of the named cases; each way through print and parse is a lemma about integers that
  wrap at `2 * IntHalf` and `2 * LongHalf`, for any two halves.

Only model-checked: liveness (`RequestHandled`, `ExpiredSessionEvicted`,
`UnloadCompletes`, `OperationCompletes`, `TaskStarts`, `DestructionCompletes`,
`RegistrationEnds`, `RequestServed`, `StopHonoured`, `QueuedSent`), which depends on
fairness, out of the prover's reach.  Every other property of a passing run has a theorem.

Proofs assume what the models do: sequentially consistent memory, and the C++
standard library as described by its own documentation.

## 5. Not modelled

* **Blocking peers.**  A send to a peer that does not read blocks; in a push it holds
  both mutexes shared.  A client that sends half a packet keeps a worker in `Recv`.
  Both follow from one call, without any interleaving; the models let a call end.
* **Code that nothing calls.**  `Remove` of `ConnectionPool`; the moves and assignments
  of `TCPConnection`; `TCPClient`; `PackManager`; waiting, `PeekItem` and `Clear` of
  `MessageQueue` (whose limit of -1 is none only because it is compared unsigned);
  `GetMembers`, `SetMembers` and the deletions of `Session` and `FriendsSessions`.  The
  queued `Send` of `SendingAsync` is modelled although the program only calls the direct
  one.
* **Ends of the process.**  The destructor of `FileRWLock`, the unloading of the modules
  after the loop.  The sending service is destroyed before the tasks that use it, which
  is harmless: the direct `Send` touches no member.
* **Details of sending.**  A failure between header and body is a `NetworkException`, not
  the `SafeNetworkException` a caller may look for; an answer that is too large is
  dropped without a word (`Answer` and `ThreadSends` have that branch).
* **JSON.**  `GetKey` and `ResetTraversing`, negative indices, an item moved into itself,
  duplicate keys in a parsed text, failed allocations, references to cached objects
  that the caller keeps beyond their erasure, strings and their escapes, formatted
  output.  The program uses documents as local variables of one handler, so no two
  threads meet in one.
* **Sequential code without state**: `DataPackage` (parsing one packet), `BasicRequest` (an
  echo), `ConfigManager` (read once), `Logger`, `UUID`, `Storage`, `FileIO`, `Streams`,
  `Buffer` beyond their effect on files; AES, MD5 and Base64, of which only Base64 is
  used.
