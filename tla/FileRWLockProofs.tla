-------------------------- MODULE FileRWLockProofs --------------------------
(* Proofs about FileRWLock for every finite set of threads and every set of *)
(* files and addresses: the registry counts its handles right, a file has   *)
(* one mutex, and replacing a file excludes every other access.             *)
EXTENDS FileRWLock, FiniteSetTheorems, TLAPS

Entry == [mutex : Addresses, file_path : Path, ref_count : Nat]

-----------------------------------------------------------------------------
(* Counting the handles of a mutex *)

LEMMA HoldersFinite ==
  ASSUME NEW m
  PROVE  /\ IsFiniteSet(Holders(m))
         /\ Cardinality(Holders(m)) \in Nat
  BY ProcAssumption, FS_Subset, FS_CardinalityType DEF Holders

(* A thread without a handle gets one.                                      *)
LEMMA HandleTaken ==
  ASSUME TypeOK, NEW p \in Proc, NEW m \in Addresses,
         handle[p] = NoMutex, handle' = [handle EXCEPT ![p] = m]
  PROVE  /\ Cardinality(Holders(m)') = Cardinality(Holders(m)) + 1
         /\ \A n \in Addresses : n # m => Holders(n)' = Holders(n)
<1>1. Holders(m)' = Holders(m) \cup {p}
  BY DEF Holders, TypeOK
<1>2. p \notin Holders(m)
  BY AddressAssumption DEF Holders
<1>3. Cardinality(Holders(m)') = Cardinality(Holders(m)) + 1
  BY <1>1, <1>2, HoldersFinite, FS_AddElement
<1>4. \A n \in Addresses : n # m => Holders(n)' = Holders(n)
  BY AddressAssumption DEF Holders, TypeOK
<1> QED
  BY <1>3, <1>4

(* A thread gives its handle up.                                            *)
LEMMA HandleDropped ==
  ASSUME TypeOK, NEW p \in Proc, NEW m \in Addresses,
         handle[p] = m, handle' = [handle EXCEPT ![p] = NoMutex]
  PROVE  /\ Cardinality(Holders(m)') = Cardinality(Holders(m)) - 1
         /\ \A q \in Proc : handle'[q] = m <=> handle[q] = m /\ q # p
         /\ \A n \in Addresses : n # m => Holders(n)' = Holders(n)
<1>1. \A q \in Proc : handle'[q] = m <=> handle[q] = m /\ q # p
  BY AddressAssumption DEF TypeOK
<1>2. Holders(m)' = Holders(m) \ {p}
  BY <1>1 DEF Holders
<1>3. p \in Holders(m)
  BY DEF Holders
<1>4. Cardinality(Holders(m)') = Cardinality(Holders(m)) - 1
  BY <1>2, <1>3, HoldersFinite, FS_RemoveElement
<1>5. \A n \in Addresses : n # m => Holders(n)' = Holders(n)
  BY AddressAssumption DEF Holders, TypeOK
<1> QED
  BY <1>1, <1>4, <1>5

-----------------------------------------------------------------------------
(* Each action keeps the invariant *)

LockState == [writer : Proc \cup {Nobody}, readers : SUBSET Proc]

(* GetMutex, the file has an entry: the entry counts one handle more.       *)
LEMMA ReuseStep ==
  ASSUME IInv, NEW p \in Proc, NEW k \in Kinds, NEW f \in Path,
         GetMutex(p, k, f), Reuse(p, f)
  PROVE  IInv'
<1> USE DEF IInv, TypeOK
<1>1. PICK it \in rw_locks :
        /\ it.file_path = f
        /\ rw_locks' = (rw_locks \ {it})
                          \cup {[it EXCEPT !.ref_count = it.ref_count + 1]}
        /\ handle' = [handle EXCEPT ![p] = it.mutex]
        /\ UNCHANGED lock
  BY DEF Reuse
<1> DEFINE new == [it EXCEPT !.ref_count = it.ref_count + 1]
           m == it.mutex
<1>2. /\ pc[p] = "idle" /\ handle[p] = NoMutex
      /\ op' = [op EXCEPT ![p] = [kind |-> k, path |-> f]]
      /\ pc' = [pc EXCEPT ![p] = "lock"]
      /\ UNCHANGED file /\ begun' = begun + 1
  BY DEF GetMutex, BusyThreads
<1>3. /\ m \in Addresses
      /\ new \in Entry /\ new.mutex = m /\ new.file_path = f
      /\ new.ref_count = it.ref_count + 1
      /\ rw_locks' = (rw_locks \ {it}) \cup {new}
  BY <1>1 DEF Entry
<1>4. TypeOK'
  BY <1>1, <1>2, <1>3, KindsAssumption DEF Labels, Entry
<1>5. EntriesDistinct'
  BY <1>1, <1>3 DEF EntriesDistinct
<1>6. HandlesRegistered'
  BY <1>1, <1>2, <1>3 DEF HandlesRegistered
<1>7. BusyThreads'
  <2>1. m # NoMutex
    BY <1>3, AddressAssumption
  <2>2. [kind |-> k, path |-> f] # NoOperation
    BY KindsAssumption DEF NoOperation, AllKinds
  <2> QED
    BY <1>1, <1>2, <2>1, <2>2 DEF BusyThreads, Writing
<1>8. RefCounts'
  <2>1. /\ Cardinality(Holders(m)') = Cardinality(Holders(m)) + 1
        /\ \A n \in Addresses : n # m => Holders(n)' = Holders(n)
    BY <1>1, <1>2, <1>3, HandleTaken
  <2>2. ASSUME NEW e \in rw_locks'
        PROVE  e.ref_count = Cardinality(Holders(e.mutex)') /\ e.ref_count > 0
    <3>1. CASE e = new
      <4>1. it.ref_count = Cardinality(Holders(m)) /\ it.ref_count > 0
        BY DEF RefCounts
      <4>2. it.ref_count \in Nat
        BY DEF Entry
      <4> QED
        BY <3>1, <1>3, <2>1, <4>1, <4>2
    <3>2. CASE e # new
      <4>1. e \in rw_locks /\ e # it /\ e.mutex \in Addresses
        BY <3>2, <1>3
      <4>2. e.mutex # m
        BY <4>1 DEF EntriesDistinct
      <4>3. Holders(e.mutex)' = Holders(e.mutex)
        BY <4>1, <4>2, <2>1
      <4> QED
        BY <4>1, <4>3 DEF RefCounts
    <3> QED
      BY <3>1, <3>2
  <2> QED
    BY <2>2 DEF RefCounts, Holders
<1>9. WriterExcludesReaders'
  BY <1>1 DEF WriterExcludesReaders
<1>10. LocksHeld'
  BY <1>1, <1>2 DEF LocksHeld, SharedLock
<1>11. TruncatedHasWriter'
  BY <1>2 DEF TruncatedHasWriter
<1> QED
  BY <1>4, <1>5, <1>6, <1>7, <1>8, <1>9, <1>10, <1>11

(* GetMutex, the file has none: nobody can have a handle to the new mutex.  *)
LEMMA InsertStep ==
  ASSUME IInv, NEW p \in Proc, NEW k \in Kinds, NEW f \in Path,
         GetMutex(p, k, f), Insert(p, f)
  PROVE  IInv'
<1> USE DEF IInv, TypeOK
<1>1. PICK m \in Addresses \ Live :
        /\ \A it \in rw_locks : it.file_path # f
        /\ rw_locks' = rw_locks
                          \cup {[mutex |-> m, file_path |-> f, ref_count |-> 1]}
        /\ lock' = [lock EXCEPT ![m] = Unlocked]
        /\ handle' = [handle EXCEPT ![p] = m]
  BY DEF Insert
<1> DEFINE new == [mutex |-> m, file_path |-> f, ref_count |-> 1]
<1>2. /\ pc[p] = "idle" /\ handle[p] = NoMutex
      /\ op' = [op EXCEPT ![p] = [kind |-> k, path |-> f]]
      /\ pc' = [pc EXCEPT ![p] = "lock"]
      /\ UNCHANGED file /\ begun' = begun + 1
  BY DEF GetMutex, BusyThreads
<1>3. /\ m \in Addresses /\ m # NoMutex
      /\ new \in Entry
      /\ \A it \in rw_locks : it.mutex # m /\ it.file_path # f
      /\ \A q \in Proc : handle[q] # m
  BY <1>1, AddressAssumption DEF Entry, Live, HandlesRegistered
<1>4. TypeOK'
  BY <1>1, <1>2, <1>3, KindsAssumption DEF Labels, Entry, Unlocked
<1>5. EntriesDistinct'
  BY <1>1, <1>3 DEF EntriesDistinct
<1>6. HandlesRegistered'
  BY <1>1, <1>2, <1>3 DEF HandlesRegistered
<1>7. BusyThreads'
  <2>1. [kind |-> k, path |-> f] # NoOperation
    BY KindsAssumption DEF NoOperation, AllKinds
  <2> QED
    BY <1>1, <1>2, <1>3, <2>1 DEF BusyThreads, Writing
<1>8. RefCounts'
  <2>1. /\ Cardinality(Holders(m)') = Cardinality(Holders(m)) + 1
        /\ \A n \in Addresses : n # m => Holders(n)' = Holders(n)
    BY <1>1, <1>2, <1>3, HandleTaken
  <2>2. Cardinality(Holders(m)) = 0
    BY <1>3, FS_EmptySet DEF Holders
  <2>3. ASSUME NEW e \in rw_locks'
        PROVE  e.ref_count = Cardinality(Holders(e.mutex)') /\ e.ref_count > 0
    <3>1. CASE e = new
      BY <3>1, <2>1, <2>2
    <3>2. CASE e # new
      <4>1. e \in rw_locks /\ e.mutex \in Addresses /\ e.mutex # m
        BY <3>2, <1>1, <1>3
      <4> QED
        BY <4>1, <2>1 DEF RefCounts
    <3> QED
      BY <3>1, <3>2
  <2> QED
    BY <2>3 DEF RefCounts, Holders
<1>9. WriterExcludesReaders'
  BY <1>1 DEF WriterExcludesReaders, Unlocked
<1>10. LocksHeld'
  <2>1. ASSUME NEW q \in Proc, pc'[q] \in {"access", "close", "unlock"}
        PROVE  /\ q # p /\ pc[q] = pc'[q] /\ op'[q] = op[q]
               /\ handle'[q] = handle[q] /\ handle[q] \in Addresses
               /\ lock'[handle[q]] = lock[handle[q]]
    BY <2>1, <1>1, <1>2, <1>3 DEF BusyThreads
  <2> QED
    BY <2>1 DEF LocksHeld, SharedLock
<1>11. TruncatedHasWriter'
  BY <1>2 DEF TruncatedHasWriter
<1> QED
  BY <1>4, <1>5, <1>6, <1>7, <1>8, <1>9, <1>10, <1>11

-----------------------------------------------------------------------------
(* A thread at work on its file changes neither registry nor handles.       *)
LEMMA RegistryKept ==
  ASSUME IInv, UNCHANGED <<rw_locks, handle, op>>
  PROVE  EntriesDistinct' /\ HandlesRegistered' /\ RefCounts'
BY DEF IInv, EntriesDistinct, HandlesRegistered, RefCounts, Holders

(* Changing a field of a mutex.                                             *)
LEMMA LockStateUpdates ==
  ASSUME NEW l \in LockState, NEW w, NEW r
  PROVE  /\ [l EXCEPT !.writer = w] = [writer |-> w, readers |-> l.readers]
         /\ [l EXCEPT !.readers = r] = [writer |-> l.writer, readers |-> r]
BY DEF LockState

(* The mutex is taken when nobody holds it in a mode that excludes it.      *)
LEMMA LockStep ==
  ASSUME IInv, NEW p \in Proc, Lock(p)
  PROVE  IInv'
<1> USE DEF IInv, TypeOK
<1> DEFINE m == handle[p]
<1>1. /\ pc[p] = "lock" /\ m \in Addresses
      /\ lock[m].writer = Nobody
      /\ pc' = [pc EXCEPT ![p] = "access"]
      /\ UNCHANGED <<rw_locks, handle, op, file, begun>>
  BY DEF Lock, Goto, BusyThreads
<1>2. lock[m] \in LockState
  BY <1>1 DEF LockState
<1>3. PICK l \in LockState :
        /\ lock' = [lock EXCEPT ![m] = l]
        /\ IF SharedLock(p)
             THEN l.writer = Nobody /\ l.readers = lock[m].readers \cup {p}
             ELSE l.writer = p /\ l.readers = {} /\ lock[m].readers = {}
  <2>1. CASE SharedLock(p)
    <3> DEFINE l == [writer |-> Nobody, readers |-> lock[m].readers \cup {p}]
    <3>1. lock' = [lock EXCEPT ![m] = [lock[m] EXCEPT !.readers = lock[m].readers \cup {p}]]
      BY <2>1, <1>1 DEF Lock
    <3>2. lock' = [lock EXCEPT ![m] = l]
      BY <3>1, <1>1, <1>2, LockStateUpdates
    <3>3. l \in LockState
      BY <1>2 DEF LockState
    <3> QED
      BY <2>1, <3>2, <3>3
  <2>2. CASE ~SharedLock(p)
    <3> DEFINE l == [writer |-> p, readers |-> lock[m].readers]
    <3>1. /\ lock' = [lock EXCEPT ![m] = [lock[m] EXCEPT !.writer = p]]
          /\ lock[m].readers = {}
      BY <2>2, <1>1 DEF Lock
    <3>2. lock' = [lock EXCEPT ![m] = l]
      BY <3>1, <1>2, LockStateUpdates
    <3>3. l \in LockState
      BY <1>2 DEF LockState
    <3> QED
      BY <2>2, <3>1, <3>2, <3>3
  <2> QED
    BY <2>1, <2>2
<1>4. TypeOK'
  BY <1>1, <1>3 DEF Labels, LockState
<1>5. EntriesDistinct' /\ HandlesRegistered' /\ RefCounts'
  BY <1>1, RegistryKept
<1>6. BusyThreads'
  BY <1>1 DEF BusyThreads, Writing
<1>7. WriterExcludesReaders'
  BY <1>1, <1>3 DEF WriterExcludesReaders
<1>8. LocksHeld'
  <2>1. ASSUME NEW q \in Proc, pc'[q] \in {"access", "close", "unlock"}
        PROVE  IF SharedLock(q) THEN q \in lock'[handle[q]].readers
                                ELSE lock'[handle[q]].writer = q
    <3>1. CASE q = p
      BY <3>1, <1>1, <1>3
    <3>2. CASE q # p
      <4>1. IF SharedLock(q) THEN q \in lock[handle[q]].readers
                             ELSE lock[handle[q]].writer = q
        BY <3>2, <2>1, <1>1 DEF LocksHeld
      <4>2. CASE handle[q] = m
        <5>1. SharedLock(q) /\ q \in lock[m].readers
          BY <4>1, <4>2, <1>1, ProcAssumption
        <5> QED
          BY <5>1, <4>2, <1>1, <1>3
      <4>3. CASE handle[q] # m
        BY <4>1, <4>3, <1>1, <1>3
      <4> QED
        BY <4>2, <4>3
    <3> QED
      BY <3>1, <3>2
  <2> QED
    BY <2>1, <1>1 DEF LocksHeld, SharedLock
<1>9. TruncatedHasWriter'
  BY <1>1 DEF TruncatedHasWriter
<1> QED
  BY <1>4, <1>5, <1>6, <1>7, <1>8, <1>9

(* A reader leaves the file as it is.                                       *)
LEMMA ReadStep ==
  ASSUME IInv, NEW p \in Proc, Read(p)
  PROVE  IInv'
<1> USE DEF IInv, TypeOK
<1>1. /\ pc[p] = "access" /\ ~Writing(p)
      /\ \E l \in {"release", "unlock"} : pc' = [pc EXCEPT ![p] = l]
      /\ UNCHANGED <<rw_locks, lock, handle, op, file, begun>>
  BY DEF Read, Goto
<1>2. TypeOK'
  BY <1>1 DEF Labels
<1>3. EntriesDistinct' /\ HandlesRegistered' /\ RefCounts'
  BY <1>1, RegistryKept
<1>4. BusyThreads'
  BY <1>1 DEF BusyThreads, Writing
<1>5. WriterExcludesReaders' /\ LocksHeld'
  BY <1>1 DEF WriterExcludesReaders, LocksHeld, SharedLock
<1>6. TruncatedHasWriter'
  BY <1>1 DEF TruncatedHasWriter
<1> QED
  BY <1>2, <1>3, <1>4, <1>5, <1>6

(* The file is empty from here, and its writer is at "close".               *)
LEMMA TruncateStep ==
  ASSUME IInv, NEW p \in Proc, Truncate(p)
  PROVE  IInv'
<1> USE DEF IInv, TypeOK
<1>1. /\ pc[p] = "access" /\ Writing(p)
      /\ file' = [file EXCEPT ![op[p].path] = "truncated"]
      /\ pc' = [pc EXCEPT ![p] = "close"]
      /\ UNCHANGED <<rw_locks, lock, handle, op, begun>>
  BY DEF Truncate, Goto
<1>2. TypeOK'
  BY <1>1 DEF Labels
<1>3. EntriesDistinct' /\ HandlesRegistered' /\ RefCounts'
  BY <1>1, RegistryKept
<1>4. BusyThreads'
  BY <1>1 DEF BusyThreads, Writing
<1>5. WriterExcludesReaders' /\ LocksHeld'
  BY <1>1 DEF WriterExcludesReaders, LocksHeld, SharedLock
<1>6. TruncatedHasWriter'
  BY <1>1 DEF TruncatedHasWriter
<1> QED
  BY <1>2, <1>3, <1>4, <1>5, <1>6

(* The file is whole again.                                                 *)
LEMMA CloseStep ==
  ASSUME IInv, NEW p \in Proc, Close(p)
  PROVE  IInv'
<1> USE DEF IInv, TypeOK
<1>1. /\ pc[p] = "close"
      /\ file' = [file EXCEPT ![op[p].path] = "whole"]
      /\ \E l \in {"release", "unlock"} : pc' = [pc EXCEPT ![p] = l]
      /\ UNCHANGED <<rw_locks, lock, handle, op, begun>>
  BY DEF Close, Goto
<1>2. TypeOK'
  BY <1>1 DEF Labels
<1>3. EntriesDistinct' /\ HandlesRegistered' /\ RefCounts'
  BY <1>1, RegistryKept
<1>4. BusyThreads'
  BY <1>1 DEF BusyThreads, Writing
<1>5. WriterExcludesReaders' /\ LocksHeld'
  BY <1>1 DEF WriterExcludesReaders, LocksHeld, SharedLock
<1>6. TruncatedHasWriter'
  BY <1>1 DEF TruncatedHasWriter
<1> QED
  BY <1>2, <1>3, <1>4, <1>5, <1>6

(* The mutex is given up, in the mode it was taken in.                      *)
LEMMA UnlockStep ==
  ASSUME IInv, NEW p \in Proc, Unlock(p)
  PROVE  IInv'
<1> USE DEF IInv, TypeOK
<1> DEFINE m == handle[p]
<1>1. /\ pc[p] = "unlock" /\ m \in Addresses
      /\ pc' = [pc EXCEPT ![p] = "release"]
      /\ UNCHANGED <<rw_locks, handle, op, file, begun>>
  BY DEF Unlock, Goto, BusyThreads
<1>2. lock[m] \in LockState
  BY <1>1 DEF LockState
<1>3. PICK l \in LockState :
        /\ lock' = [lock EXCEPT ![m] = l]
        /\ IF SharedLock(p)
             THEN l.writer = lock[m].writer /\ l.readers = lock[m].readers \ {p}
             ELSE l.writer = Nobody /\ l.readers = lock[m].readers
  <2>1. CASE SharedLock(p)
    <3> DEFINE l == [writer |-> lock[m].writer, readers |-> lock[m].readers \ {p}]
    <3>1. lock' = [lock EXCEPT ![m] = [lock[m] EXCEPT !.readers = lock[m].readers \ {p}]]
      BY <2>1, <1>1 DEF Unlock
    <3>2. lock' = [lock EXCEPT ![m] = l]
      BY <3>1, <1>2, LockStateUpdates
    <3>3. l \in LockState
      BY <1>2 DEF LockState
    <3> QED
      BY <2>1, <3>2, <3>3
  <2>2. CASE ~SharedLock(p)
    <3> DEFINE l == [writer |-> Nobody, readers |-> lock[m].readers]
    <3>1. lock' = [lock EXCEPT ![m] = [lock[m] EXCEPT !.writer = Nobody]]
      BY <2>2, <1>1 DEF Unlock
    <3>2. lock' = [lock EXCEPT ![m] = l]
      BY <3>1, <1>2, LockStateUpdates
    <3>3. l \in LockState
      BY <1>2 DEF LockState
    <3> QED
      BY <2>2, <3>2, <3>3
  <2> QED
    BY <2>1, <2>2
<1>4. TypeOK'
  BY <1>1, <1>3 DEF Labels, LockState
<1>5. EntriesDistinct' /\ HandlesRegistered' /\ RefCounts'
  BY <1>1, RegistryKept
<1>6. BusyThreads'
  BY <1>1 DEF BusyThreads, Writing
<1>7. WriterExcludesReaders'
  BY <1>1, <1>3 DEF WriterExcludesReaders
<1>8. LocksHeld'
  <2>1. ASSUME NEW q \in Proc, pc'[q] \in {"access", "close", "unlock"}
        PROVE  IF SharedLock(q) THEN q \in lock'[handle[q]].readers
                                ELSE lock'[handle[q]].writer = q
    <3>1. q # p /\ pc[q] \in {"access", "close", "unlock"}
      BY <2>1, <1>1
    <3>2. IF SharedLock(q) THEN q \in lock[handle[q]].readers
                           ELSE lock[handle[q]].writer = q
      BY <3>1 DEF LocksHeld
    <3>3. CASE handle[q] = m
      <4>1. CASE SharedLock(p)
        BY <3>1, <3>2, <3>3, <4>1, <1>1, <1>3
      <4>2. CASE ~SharedLock(p)
        <5>1. lock[m].writer = p /\ lock[m].readers = {}
          BY <4>2, <1>1, ProcAssumption DEF LocksHeld, WriterExcludesReaders
        <5> QED
          BY <5>1, <3>1, <3>2, <3>3
      <4> QED
        BY <4>1, <4>2
    <3>4. CASE handle[q] # m
      BY <3>2, <3>4, <1>1, <1>3
    <3> QED
      BY <3>3, <3>4
  <2> QED
    BY <2>1, <1>1 DEF LocksHeld, SharedLock
<1>9. TruncatedHasWriter'
  BY <1>1 DEF TruncatedHasWriter
<1> QED
  BY <1>4, <1>5, <1>6, <1>7, <1>8, <1>9

(* The handle is given up; the entry counts one less, or goes.              *)
LEMMA ReleaseStep ==
  ASSUME IInv, NEW p \in Proc, Release(p)
  PROVE  IInv'
<1> USE DEF IInv, TypeOK
<1>1. PICK it \in rw_locks : it.mutex = handle[p] /\ Forget(it)
  BY DEF Release
<1> DEFINE m == it.mutex
           new == [it EXCEPT !.ref_count = it.ref_count - 1]
<1>2. /\ pc[p] = "release"
      /\ handle' = [handle EXCEPT ![p] = NoMutex]
      /\ op' = [op EXCEPT ![p] = NoOperation]
      /\ pc' = [pc EXCEPT ![p] = "idle"]
      /\ UNCHANGED <<lock, file, begun>>
  BY DEF Release, Goto
<1>3. /\ m \in Addresses /\ handle[p] = m /\ it.ref_count \in Nat
      /\ it.ref_count = Cardinality(Holders(m)) /\ it.ref_count > 0
      /\ new \in Entry /\ new.mutex = m /\ new.file_path = it.file_path
      /\ new.ref_count = it.ref_count - 1
      /\ rw_locks' = (rw_locks \ {it}) \cup {e \in {new} : e.ref_count # 0}
  BY <1>1 DEF Entry, RefCounts, Forget
<1>4. TypeOK'
  BY <1>2, <1>3 DEF Labels, Entry
<1>5. EntriesDistinct'
  BY <1>3 DEF EntriesDistinct
<1>6. /\ Cardinality(Holders(m)') = Cardinality(Holders(m)) - 1
      /\ \A q \in Proc : handle'[q] = m <=> handle[q] = m /\ q # p
      /\ \A n \in Addresses : n # m => Holders(n)' = Holders(n)
  <2>1. ASSUME NEW n \in Addresses, handle[p] = n
        PROVE  /\ Cardinality(Holders(n)') = Cardinality(Holders(n)) - 1
               /\ \A q \in Proc : handle'[q] = n <=> handle[q] = n /\ q # p
               /\ \A a \in Addresses : a # n => Holders(a)' = Holders(a)
    BY <2>1, <1>2, HandleDropped
  <2>2. m \in Addresses /\ handle[p] = m
    BY <1>3
  <2> QED
    BY <2>1, <2>2
<1>7. HandlesRegistered'
  <2>1. ASSUME NEW q \in Proc, handle'[q] # NoMutex
        PROVE  \E e \in rw_locks' : e.mutex = handle'[q] /\ e.file_path = op'[q].path
    <3>1. q # p /\ handle'[q] = handle[q] /\ op'[q] = op[q]
      BY <2>1, <1>2
    <3>2. PICK e \in rw_locks : e.mutex = handle[q] /\ e.file_path = op[q].path
      BY <3>1, <2>1 DEF HandlesRegistered
    <3>3. CASE e = it
      <4>1. q \in Holders(m)'
        BY <3>1, <3>2, <3>3 DEF Holders
      <4>2. IsFiniteSet(Holders(m)')
        BY ProcAssumption, FS_Subset DEF Holders
      <4>3. Cardinality(Holders(m)') # 0
        BY <4>1, <4>2, FS_EmptySet
      <4>4. new \in rw_locks'
        BY <4>3, <1>3, <1>6
      <4> QED
        BY <4>4, <3>1, <3>2, <3>3, <1>3
    <3>4. CASE e # it
      BY <3>1, <3>2, <3>4, <1>3
    <3> QED
      BY <3>3, <3>4
  <2> QED
    BY <2>1 DEF HandlesRegistered
<1>8. BusyThreads'
  <2>1. ~Writing(p)' \/ pc'[p] # "close"
    BY <1>2
  <2> QED
    BY <2>1, <1>2 DEF BusyThreads, Writing
<1>9. RefCounts'
  <2>1. ASSUME NEW e \in rw_locks'
        PROVE  e.ref_count = Cardinality(Holders(e.mutex)') /\ e.ref_count > 0
    <3>1. CASE e = new /\ e.ref_count # 0
      BY <3>1, <1>3, <1>6
    <3>2. CASE e \in rw_locks /\ e # it
      <4>1. e.mutex \in Addresses /\ e.mutex # m
        BY <3>2, <1>3 DEF EntriesDistinct
      <4> QED
        BY <3>2, <4>1, <1>6 DEF RefCounts
    <3> QED
      BY <3>1, <3>2, <1>3
  <2> QED
    BY <2>1 DEF RefCounts, Holders
<1>10. WriterExcludesReaders' /\ LocksHeld'
  BY <1>2 DEF WriterExcludesReaders, LocksHeld, SharedLock
<1>11. TruncatedHasWriter'
  BY <1>2 DEF TruncatedHasWriter
<1> QED
  BY <1>4, <1>5, <1>7, <1>8, <1>9, <1>10, <1>11

-----------------------------------------------------------------------------
(* The theorems *)

(* The inductive invariant: registry, handles and mutexes agree in every    *)
(* reachable state, whatever threads, files and addresses there are.        *)
THEOREM Invariance == Spec => []IInv
<1>1. Init => IInv
  BY ProcAssumption DEF Init, IInv, TypeOK, EntriesDistinct, HandlesRegistered,
     BusyThreads, RefCounts, WriterExcludesReaders, LocksHeld,
     TruncatedHasWriter, Unlocked, Labels, NoOperation, Writing
<1>2. IInv /\ [Next]_vars => IInv'
  <2> SUFFICES ASSUME IInv, [Next]_vars PROVE IInv'
    OBVIOUS
  <2>1. ASSUME NEW p \in Proc, NEW k \in Kinds, NEW f \in Path, GetMutex(p, k, f)
        PROVE  IInv'
    BY <2>1, ReuseStep, InsertStep DEF GetMutex
  <2>2. ASSUME NEW p \in Proc, Operation(p)
        PROVE  IInv'
    BY <2>2, LockStep, ReadStep, TruncateStep, CloseStep, UnlockStep, ReleaseStep
       DEF Operation
  <2>3. CASE UNCHANGED vars
    BY <2>3, RegistryKept DEF vars, IInv, TypeOK, BusyThreads,
       WriterExcludesReaders, LocksHeld, SharedLock, TruncatedHasWriter, Writing
  <2> QED
    BY <2>1, <2>2, <2>3 DEF Next
<1> QED
  BY <1>1, <1>2, PTL DEF Spec

(* GetMutex and the deleter keep ref_count equal to the shared_ptrs that    *)
(* are out.                                                                 *)
THEOREM CountsHandles == Spec => []RefCounts
<1>1. IInv => RefCounts
  BY DEF IInv
<1> QED
  BY <1>1, Invariance, PTL

(* Threads that work on the same file, and only they, share a mutex.        *)
THEOREM OneMutexPerFile == Spec => []SameFileSameMutex
<1>1. IInv => SameFileSameMutex
  BY DEF IInv, SameFileSameMutex, HandlesRegistered, EntriesDistinct, Live
<1> QED
  BY <1>1, Invariance, PTL

(* ReplaceWriteTextFile and User::Create have the file to themselves.       *)
THEOREM ReplacesAlone == Spec => []ReplacementIsExclusive
<1>1. IInv => ReplacementIsExclusive
  <2> SUFFICES ASSUME IInv, NEW p \in Proc, NEW q \in Proc, p # q,
                      op[p].path = op[q].path, Writing(p),
                      pc[p] \in {"access", "close"}, pc[q] \in {"access", "close"}
               PROVE  FALSE
    BY DEF ReplacementIsExclusive
  <2> USE DEF IInv
  <2>1. handle[p] \in Addresses /\ handle[q] = handle[p]
    BY DEF TypeOK, BusyThreads, HandlesRegistered, EntriesDistinct
  <2>2. lock[handle[p]].writer = p
    BY DEF LocksHeld, SharedLock, Writing
  <2>3. q \notin lock[handle[p]].readers /\ lock[handle[p]].writer # q
    BY <2>1, <2>2, ProcAssumption DEF WriterExcludesReaders
  <2> QED
    BY <2>1, <2>3 DEF LocksHeld
<1> QED
  BY <1>1, Invariance, PTL

(* No thread is about to read, or replace, a file that is still empty.      *)
THEOREM ReadsWhole == Spec => []NoTornRead
<1>1. IInv /\ ReplacementIsExclusive => NoTornRead
  <2> SUFFICES ASSUME IInv, ReplacementIsExclusive, NEW p \in Proc,
                      pc[p] = "access", file[op[p].path] # "whole"
               PROVE  FALSE
    BY DEF NoTornRead
  <2> USE DEF IInv
  <2>1. op[p].path \in Path
    BY DEF TypeOK, BusyThreads
  <2>2. file[op[p].path] = "truncated"
    BY <2>1 DEF TypeOK
  <2>3. PICK q \in Proc : pc[q] = "close" /\ op[q].path = op[p].path
    BY <2>1, <2>2 DEF TruncatedHasWriter
  <2>4. Writing(q) /\ q # p
    BY <2>3 DEF BusyThreads
  <2> QED
    BY <2>3, <2>4 DEF ReplacementIsExclusive
<1> QED
  BY <1>1, Invariance, ReplacesAlone, PTL
=============================================================================
