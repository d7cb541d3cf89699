---------------------------- MODULE Registration ----------------------------
(***************************************************************************)
(* Registering a user: UserControlModule::regist_message                   *)
(* (online_user_collection.cpp) has UID::Generate (uid.cpp) take the next  *)
(* number from the file next_uid and User::Create (user.cpp) make the      *)
(* account of that number, user.json in a directory of its own.            *)
(*                                                                         *)
(* Both work under a mutex of FileRWLock, which lives as long as somebody  *)
(* has a handle to it (module FileRWLock shows that a file has one): a     *)
(* mutex that is left locked by a thread that is through is gone with the  *)
(* last handle, and stays locked when somebody else has one.  A stream     *)
(* holds what is written to it until it is closed: opening with Replace    *)
(* empties the file, closing fills it.  The process may crash and be       *)
(* started again, and a file may fail to open.                             *)
(***************************************************************************)
EXTENDS Integers, FiniteSets

CONSTANTS
  Request,          \* the registrations, each made by a thread of its own
  FirstUid,         \* 10000
  LastUid,          \* bounds the numbers given out
  MaxCrashes,       \* bounds the crashes
  MaxOpenFailures,  \* bounds the times that fopen fails
  Nobody,           \* no request
  NoNumber          \* next_uid is absent or empty; a request has no number

ASSUME RequestAssumption == Nobody \notin Request
ASSUME UidAssumption == FirstUid \in Nat /\ LastUid \in Nat /\ FirstUid <= LastUid
ASSUME NoNumberAssumption == NoNumber \notin Nat
ASSUME BoundAssumption == {MaxCrashes, MaxOpenFailures} \subseteq Nat

Uid == FirstUid .. LastUid

VARIABLES
  next_uid,      \* what the file holds on the disk
  uid_lock,      \* who locked the mutex of the directory of next_uid
  data_dir,      \* whether the directory of all accounts is there
  account,       \* uid -> whose user.json is there
  user_lock,     \* uid -> who locked the mutex of its user.json
  pc,            \* request -> where it is
  uid,           \* request -> the number it was given
  crashes, open_failures,
  disturbed,     \* history: a number was read that may not be the latest
  together       \* history: numbers that two requests found unused at once

files == <<next_uid, data_dir, account>>
locks == <<uid_lock, user_lock>>
faults == <<crashes, open_failures>>
history == <<disturbed, together>>
vars == <<next_uid, uid_lock, data_dir, account, user_lock, pc, uid,
          crashes, open_failures, disturbed, together>>

Init ==
  /\ next_uid = NoNumber
  /\ uid_lock = Nobody
  /\ data_dir = FALSE
  /\ account = [u \in Uid |-> Nobody]
  /\ user_lock = [u \in Uid |-> Nobody]
  /\ pc = [r \in Request |-> "idle"]
  /\ uid = [r \in Request |-> NoNumber]
  /\ crashes = 0
  /\ open_failures = 0
  /\ disturbed = FALSE
  /\ together = {}

At(r, label) == pc[r] = label
Goto(r, label) == pc' = [pc EXCEPT ![r] = label]

(* Who has a handle to a mutex.                                            *)
UidLabels == {"uid_lock", "read", "first", "first_close", "truncate", "unlock", "close"}
UserLabels == {"user_lock", "create", "close_user"}
HasUidHandle(r) == pc[r] \in UidLabels
HasUserHandle(r, u) == pc[r] \in UserLabels /\ uid[r] = u

(* A request that is through drops its handle; the mutex goes with the     *)
(* last one.                                                               *)
DropUidHandle(r) ==
  uid_lock' = IF \E q \in Request \ {r} : HasUidHandle(q) THEN uid_lock ELSE Nobody
DropUserHandle(r) ==
  user_lock' =
    [user_lock EXCEPT ![uid[r]] =
       IF \E q \in Request \ {r} : HasUserHandle(q, uid[r]) THEN @ ELSE Nobody]

OpenFails ==
  /\ open_failures < MaxOpenFailures
  /\ open_failures' = open_failures + 1

-----------------------------------------------------------------------------
(* UID::Generate *)

Begin(r) ==
  /\ At(r, "idle")
  /\ Goto(r, "uid_lock")
  /\ UNCHANGED <<files, locks, uid, faults, history>>

LockUid(r) ==
  /\ At(r, "uid_lock")
  /\ uid_lock = Nobody
  /\ uid_lock' = r
  /\ Goto(r, "read")
  /\ UNCHANGED <<files, user_lock, uid, faults, history>>

(* The unlock comes before the stream is closed, so the number on the disk *)
(* may be an old one, or none.                                             *)
Unwritten == {r \in Request : pc[r] \in {"first_close", "unlock", "close"}}

(* The file is opened and its first line read; when there is none the      *)
(* exception of GetLine is taken for a file that does not exist yet.       *)
Read(r) ==
  /\ At(r, "read")
  /\ \/ /\ next_uid # NoNumber
        /\ uid' = [uid EXCEPT ![r] = next_uid]
        /\ Goto(r, "truncate")
     \/ /\ next_uid = NoNumber
        /\ Goto(r, "first")
        /\ UNCHANGED uid
  /\ disturbed' = (disturbed \/ Unwritten # {})
  /\ UNCHANGED <<files, locks, faults, together>>

(* So is the exception of an Open that fails for another reason.           *)
ReadFails(r) ==
  /\ At(r, "read")
  /\ OpenFails
  /\ Goto(r, "first")
  /\ disturbed' = TRUE
  /\ UNCHANGED <<files, locks, uid, crashes, together>>

(* The first number is written to the file by a stream of its own.         *)
First(r) ==
  /\ At(r, "first")
  /\ next_uid' = NoNumber
  /\ uid' = [uid EXCEPT ![r] = FirstUid]
  /\ Goto(r, "first_close")
  /\ UNCHANGED <<data_dir, account, locks, faults, history>>

FirstClose(r) ==
  /\ At(r, "first_close")
  /\ next_uid' = FirstUid
  /\ Goto(r, "truncate")
  /\ UNCHANGED <<data_dir, account, locks, uid, faults, history>>

Truncate(r) ==
  /\ At(r, "truncate")
  /\ uid[r] < LastUid
  /\ next_uid' = NoNumber
  /\ Goto(r, "unlock")
  /\ UNCHANGED <<data_dir, account, locks, uid, faults, history>>

(* Mutant: the mutex is left to the handle. *)
UnlockUid_Forgotten(r) ==
  /\ At(r, "unlock")
  /\ Goto(r, "close")
  /\ UNCHANGED <<files, locks, uid, faults, history>>

UnlockUid(r) ==
  /\ At(r, "unlock")
  /\ uid_lock' = Nobody
  /\ Goto(r, "close")
  /\ UNCHANGED <<files, user_lock, uid, faults, history>>

(* Mutant: the number that was read is written back. *)
CloseUid_SameNumber(r) ==
  /\ At(r, "close")
  /\ next_uid' = uid[r]
  /\ DropUidHandle(r)
  /\ Goto(r, "look_dir")
  /\ UNCHANGED <<data_dir, account, user_lock, uid, faults, history>>

(* At the return the stream is closed and the handle dropped.              *)
CloseUid(r) ==
  /\ At(r, "close")
  /\ next_uid' = uid[r] + 1
  /\ DropUidHandle(r)
  /\ Goto(r, "look_dir")
  /\ UNCHANGED <<data_dir, account, user_lock, uid, faults, history>>

(* An Open for writing that fails ends the request: nothing unlocks.       *)
OpenUidFails(r) ==
  /\ pc[r] \in {"first", "truncate"}
  /\ OpenFails
  /\ DropUidHandle(r)
  /\ Goto(r, "failed")
  /\ UNCHANGED <<files, user_lock, uid, crashes, history>>

-----------------------------------------------------------------------------
(* User::Create *)

LookDir(r) ==
  /\ At(r, "look_dir")
  /\ Goto(r, IF data_dir THEN "check" ELSE "make_dir")
  /\ UNCHANGED <<files, locks, uid, faults, history>>

(* create_directories returns false when the directory is there by now.    *)
MakeDir(r) ==
  /\ At(r, "make_dir")
  /\ data_dir' = TRUE
  /\ Goto(r, IF data_dir THEN "failed" ELSE "check")
  /\ UNCHANGED <<next_uid, account, locks, uid, faults, history>>

(* Past the check and not yet created.                                     *)
Creating(r, u) == pc[r] \in {"user_handle", "user_lock", "create"} /\ uid[r] = u

(* Mutant: nobody looks whether the account exists. *)
Check_Unchecked(r) ==
  /\ At(r, "check")
  /\ Goto(r, "user_handle")
  /\ together' = IF \E q \in Request \ {r} : Creating(q, uid[r])
                 THEN together \cup {uid[r]} ELSE together
  /\ UNCHANGED <<files, locks, uid, faults, disturbed>>

(* Without a lock: an account that exists ends the request.                *)
Check(r) ==
  /\ At(r, "check")
  /\ IF account[uid[r]] # Nobody
     THEN Goto(r, "failed") /\ UNCHANGED together
     ELSE /\ Goto(r, "user_handle")
          /\ together' = IF \E q \in Request \ {r} : Creating(q, uid[r])
                         THEN together \cup {uid[r]} ELSE together
  /\ UNCHANGED <<files, locks, uid, faults, disturbed>>

UserHandle(r) ==
  /\ At(r, "user_handle")
  /\ Goto(r, "user_lock")
  /\ UNCHANGED <<files, locks, uid, faults, history>>

LockUser(r) ==
  /\ At(r, "user_lock")
  /\ user_lock[uid[r]] = Nobody
  /\ user_lock' = [user_lock EXCEPT ![uid[r]] = r]
  /\ Goto(r, "create")
  /\ UNCHANGED <<files, uid_lock, uid, faults, history>>

(* CreateDir does not mind a directory that is there; user.json is opened  *)
(* with Replace, so what it held is gone.                                  *)
Create(r) ==
  /\ At(r, "create")
  /\ account' = [account EXCEPT ![uid[r]] = r]
  /\ Goto(r, "close_user")
  /\ UNCHANGED <<next_uid, data_dir, locks, uid, faults, history>>

(* The directory is made and the file does not open.                       *)
CreateFails(r) ==
  /\ At(r, "create")
  /\ OpenFails
  /\ account' = [account EXCEPT ![uid[r]] = IF @ = Nobody THEN r ELSE @]
  /\ DropUserHandle(r)
  /\ Goto(r, "failed")
  /\ UNCHANGED <<next_uid, data_dir, uid_lock, uid, crashes, history>>

(* At the return the stream is closed, then the handle dropped; the mutex  *)
(* is not unlocked.  The answer tells the number.                          *)
CloseUser(r) ==
  /\ At(r, "close_user")
  /\ DropUserHandle(r)
  /\ Goto(r, "answered")
  /\ UNCHANGED <<files, uid_lock, uid, faults, history>>

-----------------------------------------------------------------------------
(* A crash takes what open streams hold, and the mutexes; a request on its *)
(* way is lost.                                                            *)
Crash ==
  /\ crashes < MaxCrashes
  /\ crashes' = crashes + 1
  /\ pc' = [r \in Request |-> IF pc[r] \in {"idle", "answered", "failed"}
                              THEN pc[r] ELSE "lost"]
  /\ uid_lock' = Nobody
  /\ user_lock' = [u \in Uid |-> Nobody]
  /\ disturbed' = (disturbed \/ Unwritten # {})
  /\ UNCHANGED <<files, uid, open_failures, together>>

Generate(r) ==
  \/ LockUid(r) \/ Read(r) \/ First(r) \/ FirstClose(r) \/ Truncate(r)
  \/ UnlockUid(r) \/ CloseUid(r)
CreateUser(r) ==
  \/ LookDir(r) \/ MakeDir(r) \/ Check(r) \/ UserHandle(r) \/ LockUser(r)
  \/ Create(r) \/ CloseUser(r)
Fault(r) == ReadFails(r) \/ OpenUidFails(r) \/ CreateFails(r)

Next ==
  \/ \E r \in Request : Begin(r) \/ Generate(r) \/ CreateUser(r) \/ Fault(r)
  \/ Crash

Spec == Init /\ [][Next]_vars

(* A thread that can go on does so.                                        *)
FairSpec == Spec /\ \A r \in Request : WF_vars(Generate(r)) /\ WF_vars(CreateUser(r))

-----------------------------------------------------------------------------
(* Properties *)

Labels == UidLabels \cup UserLabels \cup
  {"idle", "look_dir", "make_dir", "check", "user_handle", "answered", "failed", "lost"}

TypeOK ==
  /\ next_uid \in Uid \cup {NoNumber}
  /\ uid_lock \in Request \cup {Nobody}
  /\ data_dir \in BOOLEAN
  /\ account \in [Uid -> Request \cup {Nobody}]
  /\ user_lock \in [Uid -> Request \cup {Nobody}]
  /\ pc \in [Request -> Labels]
  /\ uid \in [Request -> Uid \cup {NoNumber}]
  /\ crashes \in Nat /\ open_failures \in Nat
  /\ disturbed \in BOOLEAN
  /\ together \subseteq Uid

(* The requests that got a number from Generate.                           *)
Given(r) ==
  /\ uid[r] # NoNumber
  /\ pc[r] \in {"close", "look_dir", "make_dir", "check", "user_handle", "answered"} \cup UserLabels

(* No two registrations are given the same number, as long as nobody reads *)
(* next_uid while another one's new number is still in its stream, the     *)
(* process does not crash at such a moment, and the file that is there can *)
(* be opened.                                                              *)
UidsUnique ==
  ~disturbed => \A r, q \in Request : r # q /\ Given(r) /\ Given(q) => uid[r] # uid[q]

(* The account of a registration that was answered stays the account of    *)
(* that registration, whatever numbers are given out again after a crash,  *)
(* unless two registrations of its number were between the check and the   *)
(* creation at the same time.                                              *)
AnsweredAccountKept ==
  \A r \in Request :
    At(r, "answered") => account[uid[r]] = r \/ uid[r] \in together

(* A mutex that nobody will unlock: of next_uid by a request that failed,  *)
(* of an account by one that is through.                                   *)
LeftLocked ==
  \/ uid_lock # Nobody /\ At(uid_lock, "failed")
  \/ \E u \in Uid : user_lock[u] # Nobody /\ pc[user_lock[u]] \in {"failed", "answered"}

(* The bound on the numbers, which the program does not have.              *)
OutOfNumbers == \E r \in Request : At(r, "truncate") /\ uid[r] = LastUid

(* Every registration comes to an end, answered, failed or lost in a       *)
(* crash, unless a mutex was left locked by one that came to its end: the  *)
(* failure of an Open in Generate or any creation leaves its mutex so, and *)
(* another request of the same file keeps that mutex alive.                *)
RegistrationEnds ==
  \A r \in Request :
    pc[r] # "idle" ~> (pc[r] \in {"answered", "failed", "lost"} \/ LeftLocked \/ OutOfNumbers)
-----------------------------------------------------------------------------
(* The inductive invariant: what UidsUnique and AnsweredAccountKept rest on *)

(* From the read on a request has a number: the first one when it writes    *)
(* that, one below the bound when it is to write the next.                  *)
Numbered ==
  \A r \in Request :
    /\ pc[r] \in {"first_close", "truncate", "unlock", "close", "look_dir", "make_dir", "check",
                  "user_handle", "answered"} \cup UserLabels => uid[r] \in Uid
    /\ At(r, "first_close") => uid[r] = FirstUid
    /\ pc[r] \in {"unlock", "close"} => uid[r] < LastUid

(* Between the lock and the unlock the mutex of next_uid is the request's.  *)
LockHeld ==
  \A r \in Request :
    pc[r] \in {"read", "first", "first_close", "truncate", "unlock"} => uid_lock = r

(* Nothing unwritten: the file is ahead of every number given out.          *)
FileAhead ==
  Unwritten = {} =>
    \/ next_uid = NoNumber /\ \A q \in Request : ~Given(q)
    \/ next_uid \in Uid /\ \A q \in Request : Given(q) => uid[q] < next_uid

(* One request at a time is past its read and has not closed its stream.    *)
OneWriter ==
  \A r \in Request :
    pc[r] \in {"first", "first_close", "truncate", "unlock", "close"} => Unwritten \subseteq {r}

FirstIsFirst ==
  \A r \in Request :
    pc[r] \in {"first", "first_close"} => next_uid = NoNumber /\ \A q \in Request : ~Given(q)

TakesTheNumber == \A r \in Request : At(r, "truncate") => next_uid = uid[r]

NumberIsNew ==
  \A r, q \in Request :
    pc[r] \in {"unlock", "close"} /\ q # r /\ Given(q) => uid[q] < uid[r]

UndisturbedParts ==
  /\ FileAhead /\ OneWriter /\ FirstIsFirst /\ TakesTheNumber /\ NumberIsNew
  /\ UidsUnique
Undisturbed == ~disturbed => UndisturbedParts

(* A number outside together has one creator, finds its account unused, and *)
(* keeps it.                                                                *)
OneCreator ==
  \A u \in Uid \ together : \A r, q \in Request : Creating(r, u) /\ Creating(q, u) => r = q
CreatesUnused ==
  \A u \in Uid \ together : \A r \in Request : Creating(r, u) => account[u] = Nobody
CreatedKept ==
  \A u \in Uid \ together : \A r \in Request :
    pc[r] \in {"close_user", "answered"} /\ uid[r] = u => account[u] = r

IInv ==
  /\ TypeOK /\ Numbered /\ LockHeld /\ Undisturbed
  /\ OneCreator /\ CreatesUnused /\ CreatedKept
=============================================================================
