----------------------------- MODULE FileRWLock -----------------------------
(***************************************************************************)
(* FileRWLock (file_rw_lock.cpp): the registry that hands out one shared   *)
(* mutex per file path, counts the handles and destroys the mutex with the *)
(* last of them; and the ways the functions of user.cpp use it to read and *)
(* replace a user's files.                                                 *)
(*                                                                         *)
(* GetMutex and the deleter of a handle hold FileRWLock::mutex from start  *)
(* to end, so each is one step.                                            *)
(***************************************************************************)
EXTENDS Naturals, FiniteSets

CONSTANTS
  Proc,           \* the threads that handle requests
  Path,           \* the files
  Addresses,      \* where a shared_mutex can be allocated
  Kinds,          \* the operations threads make, see below
  MaxOperations,  \* a bound: the operations begun in the run
  Nobody,         \* no thread holds the mutex exclusively
  NoMutex         \* the thread has no handle

(* "read"   ReadTextFile, GetFriendList: shared lock, released at the end  *)
(* "write"  ReplaceWriteTextFile: exclusive lock, released at the end      *)
(* "login"  User::Login: mutex->lock() and a read, never unlocked          *)
(* "create" User::Create: mutex->lock() and a write, never unlocked        *)
AllKinds == {"read", "write", "login", "create"}

ASSUME ProcAssumption == IsFiniteSet(Proc) /\ Nobody \notin Proc
ASSUME AddressAssumption == NoMutex \notin Addresses
ASSUME KindsAssumption == Kinds \subseteq AllKinds
ASSUME MaxOperationsAssumption == MaxOperations \in Nat

VARIABLES
  rw_locks,  \* the MutexGuard entries of the registry
  lock,      \* the state of the shared_mutex at each address
  handle,    \* thread -> the mutex its shared_ptr points to
  op,        \* thread -> the operation it is in
  pc,        \* thread -> what it does next
  file,      \* path -> "whole", or "truncated" while it is being replaced
  begun      \* operations begun so far

vars == <<rw_locks, lock, handle, op, pc, file, begun>>

NoOperation == [kind |-> "none", path |-> "none"]

Unlocked == [writer |-> Nobody, readers |-> {}]

(* The mutexes that exist.                                                 *)
Live == {it.mutex : it \in rw_locks}

Init ==
  /\ rw_locks = {}
  /\ lock = [m \in Addresses |-> Unlocked]
  /\ handle = [p \in Proc |-> NoMutex]
  /\ op = [p \in Proc |-> NoOperation]
  /\ pc = [p \in Proc |-> "idle"]
  /\ file = [f \in Path |-> "whole"]
  /\ begun = 0

-----------------------------------------------------------------------------
(* GetMutex *)

(* Mutant: the second handle is not counted. *)
Reuse_NotCounted(p, f) ==
  \E it \in rw_locks :
    /\ it.file_path = f
    /\ handle' = [handle EXCEPT ![p] = it.mutex]
    /\ UNCHANGED <<rw_locks, lock>>

(* The file has an entry: one more handle to its mutex.                    *)
Reuse(p, f) ==
  \E it \in rw_locks :
    /\ it.file_path = f
    /\ rw_locks' = (rw_locks \ {it})
                     \cup {[it EXCEPT !.ref_count = it.ref_count + 1]}
    /\ handle' = [handle EXCEPT ![p] = it.mutex]
    /\ UNCHANGED lock

(* It has none: a new mutex, unlocked, where no other mutex lives.         *)
Insert(p, f) ==
  \E m \in Addresses \ Live :
    /\ \A it \in rw_locks : it.file_path # f
    /\ rw_locks' = rw_locks
                     \cup {[mutex |-> m, file_path |-> f, ref_count |-> 1]}
    /\ lock' = [lock EXCEPT ![m] = Unlocked]
    /\ handle' = [handle EXCEPT ![p] = m]

GetMutex(p, k, f) ==
  /\ pc[p] = "idle"
  /\ begun < MaxOperations
  /\ begun' = begun + 1
  /\ Reuse(p, f) \/ Insert(p, f)
  /\ op' = [op EXCEPT ![p] = [kind |-> k, path |-> f]]
  /\ pc' = [pc EXCEPT ![p] = "lock"]
  /\ UNCHANGED file

-----------------------------------------------------------------------------
(* The operations on the file *)

Goto(p, label) == pc' = [pc EXCEPT ![p] = label]

(* Mutant: every operation takes the mutex shared. *)
SharedLock_Always(p) == TRUE

(* ReadTextFile and GetFriendList lock shared, all others exclusively.     *)
SharedLock(p) == op[p].kind = "read"

Lock(p) ==
  LET m == handle[p]
  IN  /\ pc[p] = "lock"
      /\ lock[m].writer = Nobody
      /\ \/ /\ SharedLock(p)
            /\ lock' = [lock EXCEPT ![m].readers = @ \cup {p}]
         \/ /\ ~SharedLock(p)
            /\ lock[m].readers = {}
            /\ lock' = [lock EXCEPT ![m].writer = p]
      /\ Goto(p, "access")
      /\ UNCHANGED <<rw_locks, handle, op, file, begun>>

Writing(p) == op[p].kind \in {"write", "create"}

(* A reader reads the file.  Login leaves it at that: nothing unlocks.     *)
Read(p) ==
  /\ pc[p] = "access"
  /\ ~Writing(p)
  /\ Goto(p, IF op[p].kind = "login" THEN "release" ELSE "unlock")
  /\ UNCHANGED <<rw_locks, lock, handle, op, file, begun>>

(* A writer opens the file for replacing it, which empties it ...          *)
Truncate(p) ==
  /\ pc[p] = "access"
  /\ Writing(p)
  /\ file' = [file EXCEPT ![op[p].path] = "truncated"]
  /\ Goto(p, "close")
  /\ UNCHANGED <<rw_locks, lock, handle, op, begun>>

(* ... and its text is there when the stream is closed, at the end of the  *)
(* scope, before the lock and the handle.  Create does not unlock.         *)
Close(p) ==
  /\ pc[p] = "close"
  /\ file' = [file EXCEPT ![op[p].path] = "whole"]
  /\ Goto(p, IF op[p].kind = "create" THEN "release" ELSE "unlock")
  /\ UNCHANGED <<rw_locks, lock, handle, op, begun>>

(* Mutant: only an exclusive lock is given up. *)
Unlock_ExclusiveOnly(p) ==
  LET m == handle[p]
  IN  /\ pc[p] = "unlock"
      /\ lock' = [lock EXCEPT ![m].writer = Nobody]
      /\ Goto(p, "release")
      /\ UNCHANGED <<rw_locks, handle, op, file, begun>>

Unlock(p) ==
  LET m == handle[p]
  IN  /\ pc[p] = "unlock"
      /\ \/ /\ SharedLock(p)
            /\ lock' = [lock EXCEPT ![m].readers = @ \ {p}]
         \/ /\ ~SharedLock(p)
            /\ lock' = [lock EXCEPT ![m].writer = Nobody]
      /\ Goto(p, "release")
      /\ UNCHANGED <<rw_locks, handle, op, file, begun>>

-----------------------------------------------------------------------------
(* The deleter of the handle *)

(* Mutant: the entry goes with any handle, not with the last. *)
Forget_Always(it) == rw_locks' = rw_locks \ {it}

(* The entry goes, and its mutex is deleted, with the last handle.         *)
Forget(it) ==
  rw_locks' = (rw_locks \ {it}) \cup
    {e \in {[it EXCEPT !.ref_count = it.ref_count - 1]} : e.ref_count # 0}

Release(p) ==
  /\ pc[p] = "release"
  /\ \E it \in rw_locks : it.mutex = handle[p] /\ Forget(it)
  /\ handle' = [handle EXCEPT ![p] = NoMutex]
  /\ op' = [op EXCEPT ![p] = NoOperation]
  /\ Goto(p, "idle")
  /\ UNCHANGED <<lock, file, begun>>

-----------------------------------------------------------------------------
Operation(p) ==
  \/ Lock(p)
  \/ Read(p)
  \/ Truncate(p)
  \/ Close(p)
  \/ Unlock(p)
  \/ Release(p)

Next ==
  \E p \in Proc :
    \/ \E k \in Kinds, f \in Path : GetMutex(p, k, f)
    \/ Operation(p)

Spec == Init /\ [][Next]_vars

(* A thread that can take a step takes one; nobody has to begin.           *)
FairSpec == Spec /\ \A p \in Proc : WF_vars(Operation(p))

-----------------------------------------------------------------------------
(* Properties *)

Labels == {"idle", "lock", "access", "close", "unlock", "release"}

TypeOK ==
  /\ rw_locks \subseteq [mutex : Addresses, file_path : Path, ref_count : Nat]
  /\ lock \in [Addresses -> [writer : Proc \cup {Nobody}, readers : SUBSET Proc]]
  /\ handle \in [Proc -> Addresses \cup {NoMutex}]
  /\ op \in [Proc -> [kind : AllKinds, path : Path] \cup {NoOperation}]
  /\ pc \in [Proc -> Labels]
  /\ file \in [Path -> {"whole", "truncated"}]
  /\ begun \in Nat

Holders(m) == {p \in Proc : handle[p] = m}

(* The count of an entry is the number of shared_ptrs that are out, so the *)
(* mutex is deleted with the last one: not earlier, which would leave a    *)
(* thread with a dangling handle, and not later.                           *)
RefCounts ==
  \A it \in rw_locks :
    it.ref_count = Cardinality(Holders(it.mutex)) /\ it.ref_count > 0

(* Two threads at work on the same file have the same mutex, and on        *)
(* different files different ones, also when the entry was dropped and     *)
(* made anew, and when memory is reused.                                   *)
SameFileSameMutex ==
  \A p, q \in Proc :
    handle[p] # NoMutex /\ handle[q] # NoMutex =>
      /\ handle[p] \in Live
      /\ handle[p] = handle[q] <=> op[p].path = op[q].path

(* While a file is being replaced nobody else reads or replaces it, and so *)
(* nobody ever reads the empty file between truncation and close.          *)
ReplacementIsExclusive ==
  \A p, q \in Proc :
    p # q /\ op[p].path = op[q].path /\ Writing(p) /\ pc[p] \in {"access", "close"} =>
      pc[q] \notin {"access", "close"}

NoTornRead ==
  \A p \in Proc :
    pc[p] = "access" => file[op[p].path] = "whole"

(* What keeps those true: the registry is a function both ways, a busy     *)
(* thread has a registered handle, a thread inside its critical section    *)
(* holds the mutex of its file, and a truncated file has its writer.       *)
EntriesDistinct ==
  \A a, b \in rw_locks :
    a.mutex = b.mutex \/ a.file_path = b.file_path => a = b

HandlesRegistered ==
  \A p \in Proc :
    handle[p] # NoMutex =>
      \E it \in rw_locks : it.mutex = handle[p] /\ it.file_path = op[p].path

BusyThreads ==
  \A p \in Proc :
    /\ pc[p] = "idle" <=> handle[p] = NoMutex
    /\ pc[p] = "idle" <=> op[p] = NoOperation
    /\ pc[p] = "close" => Writing(p)

WriterExcludesReaders ==
  \A m \in Addresses : lock[m].writer # Nobody => lock[m].readers = {}

LocksHeld ==
  \A p \in Proc :
    pc[p] \in {"access", "close", "unlock"} =>
      IF SharedLock(p) THEN p \in lock[handle[p]].readers
                       ELSE lock[handle[p]].writer = p

TruncatedHasWriter ==
  \A f \in Path :
    file[f] = "truncated" => \E p \in Proc : pc[p] = "close" /\ op[p].path = f

IInv ==
  /\ TypeOK
  /\ EntriesDistinct
  /\ HandlesRegistered
  /\ BusyThreads
  /\ RefCounts
  /\ WriterExcludesReaders
  /\ LocksHeld
  /\ TruncatedHasWriter

(* A mutex that is locked by a thread that is past the operation for which *)
(* it took it: User::Login and User::Create end without an unlock.         *)
LeftLocked(m) ==
  LET w == lock[m].writer
  IN  w # Nobody /\ (handle[w] = m => pc[w] \notin {"access", "close", "unlock"})

(* Every operation on a file comes to its end, or its file's mutex has     *)
(* been left locked: nothing else can make a thread wait for ever (nor     *)
(* does a reader ever leave it locked).                                    *)
OperationCompletes ==
  \A p \in Proc :
    pc[p] # "idle" ~> pc[p] = "idle" \/ (handle[p] # NoMutex /\ LeftLocked(handle[p]))
=============================================================================
