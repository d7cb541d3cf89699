------------------------- MODULE RegistrationProofs -------------------------
(* Proofs about Registration for every set of requests, every range of      *)
(* numbers and any number of crashes and failures: numbers are given out    *)
(* once as long as nothing disturbs the counter, and the account of a       *)
(* registration that was answered is kept.                                  *)
EXTENDS Registration, TLAPS

-----------------------------------------------------------------------------
(* Each action keeps the invariant *)

(* A request starts: it has no part in any number yet.                      *)
LEMMA BeginStep ==
  ASSUME IInv, NEW r \in Request, Begin(r)
  PROVE  IInv'
<1> USE DEF IInv, TypeOK, Begin, files, locks, faults, history, At, Goto
<1>1. TypeOK'
  BY DEF Labels, UidLabels, UserLabels
<1>2. Numbered'
  BY DEF Numbered, UidLabels, UserLabels
<1>3. LockHeld'
  BY DEF LockHeld
<1>4. Undisturbed'
  <2> SUFFICES ASSUME ~disturbed' PROVE UndisturbedParts'
    BY DEF Undisturbed
  <2>0. UndisturbedParts
    BY DEF Undisturbed
  <2> USE <2>0 DEF UndisturbedParts
  <2>1. FileAhead'
    BY DEF FileAhead, Unwritten, Given, UserLabels
  <2>2. OneWriter'
    BY DEF OneWriter, Unwritten
  <2>3. FirstIsFirst'
    BY DEF FirstIsFirst, Given, UserLabels
  <2>4. TakesTheNumber'
    BY DEF TakesTheNumber
  <2>5. NumberIsNew'
    BY DEF NumberIsNew, Given, UserLabels
  <2>6. UidsUnique'
    BY DEF UidsUnique, Given, UserLabels
  <2> QED
    BY <2>1, <2>2, <2>3, <2>4, <2>5, <2>6
<1>5. OneCreator'
  BY DEF OneCreator, Creating
<1>6. CreatesUnused'
  BY DEF CreatesUnused, Creating
<1>7. CreatedKept'
  BY DEF CreatedKept
<1> QED
  BY <1>1, <1>2, <1>3, <1>4, <1>5, <1>6, <1>7

(* The mutex of next_uid is taken: it was free.                             *)
LEMMA LockUidStep ==
  ASSUME IInv, NEW r \in Request, LockUid(r)
  PROVE  IInv'
<1> USE DEF IInv, TypeOK, LockUid, files, faults, history, At, Goto
<1>1. TypeOK'
  BY DEF Labels, UidLabels, UserLabels
<1>2. Numbered'
  BY DEF Numbered, UidLabels, UserLabels
<1>3. LockHeld'
  BY RequestAssumption DEF LockHeld
<1>4. Undisturbed'
  <2> SUFFICES ASSUME ~disturbed' PROVE UndisturbedParts'
    BY DEF Undisturbed
  <2>0. UndisturbedParts
    BY DEF Undisturbed
  <2> USE <2>0 DEF UndisturbedParts
  <2>1. FileAhead'
    BY DEF FileAhead, Unwritten, Given, UserLabels
  <2>2. OneWriter'
    BY DEF OneWriter, Unwritten
  <2>3. FirstIsFirst'
    BY DEF FirstIsFirst, Given, UserLabels
  <2>4. TakesTheNumber'
    BY DEF TakesTheNumber
  <2>5. NumberIsNew'
    BY DEF NumberIsNew, Given, UserLabels
  <2>6. UidsUnique'
    BY DEF UidsUnique, Given, UserLabels
  <2> QED
    BY <2>1, <2>2, <2>3, <2>4, <2>5, <2>6
<1>5. OneCreator'
  BY DEF OneCreator, Creating
<1>6. CreatesUnused'
  BY DEF CreatesUnused, Creating
<1>7. CreatedKept'
  BY DEF CreatedKept
<1> QED
  BY <1>1, <1>2, <1>3, <1>4, <1>5, <1>6, <1>7

(* The number is read: with nothing unwritten it is ahead of all given.     *)
LEMMA ReadStep ==
  ASSUME IInv, NEW r \in Request, Read(r)
  PROVE  IInv'
<1> USE DEF IInv, TypeOK, Read, files, locks, faults, At, Goto
<1>1. TypeOK'
  BY DEF Labels, UidLabels, UserLabels
<1>2. Numbered'
  BY DEF Numbered, UidLabels, UserLabels
<1>3. LockHeld'
  BY DEF LockHeld
<1>4. Undisturbed'
  <2> SUFFICES ASSUME ~disturbed' PROVE UndisturbedParts'
    BY DEF Undisturbed
  <2>0. UndisturbedParts /\ Unwritten = {}
    BY DEF Undisturbed
  <2> USE <2>0 DEF UndisturbedParts
  <2>1. FileAhead'
    BY DEF FileAhead, Unwritten, Given, UserLabels
  <2>2. OneWriter'
    BY DEF OneWriter, Unwritten
  <2>3. FirstIsFirst'
    BY NoNumberAssumption, UidAssumption DEF FirstIsFirst, FileAhead, Given, Uid, UserLabels
  <2>4. TakesTheNumber'
    BY DEF TakesTheNumber
  <2>5. NumberIsNew'
    BY DEF NumberIsNew, Given, UserLabels
  <2>6. UidsUnique'
    BY DEF UidsUnique, Given, UserLabels
  <2> QED
    BY <2>1, <2>2, <2>3, <2>4, <2>5, <2>6
<1>5. OneCreator'
  BY DEF OneCreator, Creating
<1>6. CreatesUnused'
  BY DEF CreatesUnused, Creating
<1>7. CreatedKept'
  BY DEF CreatedKept
<1> QED
  BY <1>1, <1>2, <1>3, <1>4, <1>5, <1>6, <1>7

(* A read that fails is recorded as a disturbance.                          *)
LEMMA ReadFailsStep ==
  ASSUME IInv, NEW r \in Request, ReadFails(r)
  PROVE  IInv'
<1> USE DEF IInv, TypeOK, ReadFails, files, locks, OpenFails, At, Goto
<1>1. TypeOK'
  BY DEF Labels, UidLabels, UserLabels
<1>2. Numbered'
  BY DEF Numbered, UidLabels, UserLabels
<1>3. LockHeld'
  BY DEF LockHeld
<1>4. Undisturbed'
  BY DEF Undisturbed
<1>5. OneCreator'
  BY DEF OneCreator, Creating
<1>6. CreatesUnused'
  BY DEF CreatesUnused, Creating
<1>7. CreatedKept'
  BY DEF CreatedKept
<1> QED
  BY <1>1, <1>2, <1>3, <1>4, <1>5, <1>6, <1>7

(* The file is emptied for the first number: nobody has one yet.            *)
LEMMA FirstStep ==
  ASSUME IInv, NEW r \in Request, First(r)
  PROVE  IInv'
<1> USE DEF IInv, TypeOK, First, locks, faults, history, At, Goto
<1>1. TypeOK'
  BY UidAssumption DEF Labels, UidLabels, UserLabels, Uid, Numbered
<1>2. Numbered'
  BY UidAssumption DEF Numbered, Uid, UidLabels, UserLabels
<1>3. LockHeld'
  BY DEF LockHeld
<1>4. Undisturbed'
  <2> SUFFICES ASSUME ~disturbed' PROVE UndisturbedParts'
    BY DEF Undisturbed
  <2>0. UndisturbedParts
    BY DEF Undisturbed
  <2> USE <2>0 DEF UndisturbedParts
  <2>1. FileAhead'
    BY DEF FileAhead, Unwritten, Given
  <2>2. OneWriter'
    BY RequestAssumption DEF OneWriter, Unwritten, LockHeld
  <2>3. FirstIsFirst'
    BY DEF FirstIsFirst, Given, UserLabels
  <2>4. TakesTheNumber'
    BY RequestAssumption DEF TakesTheNumber, OneWriter, Unwritten, LockHeld
  <2>5. NumberIsNew'
    BY DEF NumberIsNew, Given, UserLabels
  <2>6. UidsUnique'
    BY DEF UidsUnique, Given, UserLabels
  <2> QED
    BY <2>1, <2>2, <2>3, <2>4, <2>5, <2>6
<1>5. OneCreator'
  BY DEF OneCreator, Creating
<1>6. CreatesUnused'
  BY DEF CreatesUnused, Creating
<1>7. CreatedKept'
  BY DEF CreatedKept
<1> QED
  BY <1>1, <1>2, <1>3, <1>4, <1>5, <1>6, <1>7

(* The first number reaches the file: nobody has one yet.                   *)
LEMMA FirstCloseStep ==
  ASSUME IInv, NEW r \in Request, FirstClose(r)
  PROVE  IInv'
<1> USE DEF IInv, TypeOK, FirstClose, locks, faults, history, At, Goto
<1>1. TypeOK'
  BY UidAssumption DEF Labels, UidLabels, UserLabels, Uid, Numbered
<1>2. Numbered'
  BY DEF Numbered
<1>3. LockHeld'
  BY DEF LockHeld
<1>4. Undisturbed'
  <2> SUFFICES ASSUME ~disturbed' PROVE UndisturbedParts'
    BY DEF Undisturbed
  <2>0. UndisturbedParts
    BY DEF Undisturbed
  <2> USE <2>0 DEF UndisturbedParts
  <2>1. FileAhead'
    BY UidAssumption, NoNumberAssumption DEF FileAhead, Unwritten, Given, UserLabels,
        FirstIsFirst, OneWriter, NumberIsNew, Numbered, Uid
  <2>2. OneWriter'
    BY DEF OneWriter, Unwritten
  <2>3. FirstIsFirst'
    BY DEF FirstIsFirst, Given, UserLabels, OneWriter, Unwritten
  <2>4. TakesTheNumber'
    BY RequestAssumption DEF TakesTheNumber, OneWriter, Unwritten, LockHeld, Numbered
  <2>5. NumberIsNew'
    BY DEF NumberIsNew, Given, UserLabels
  <2>6. UidsUnique'
    BY DEF UidsUnique, Given, UserLabels
  <2> QED
    BY <2>1, <2>2, <2>3, <2>4, <2>5, <2>6
<1>5. OneCreator'
  BY DEF OneCreator, Creating
<1>6. CreatesUnused'
  BY DEF CreatesUnused, Creating
<1>7. CreatedKept'
  BY DEF CreatedKept
<1> QED
  BY <1>1, <1>2, <1>3, <1>4, <1>5, <1>6, <1>7

(* The file is emptied for the next number, once that was read.             *)
LEMMA TruncateStep ==
  ASSUME IInv, NEW r \in Request, Truncate(r)
  PROVE  IInv'
<1> USE DEF IInv, TypeOK, Truncate, locks, faults, history, At, Goto
<1>1. TypeOK'
  BY DEF Labels, UidLabels, UserLabels
<1>2. Numbered'
  BY DEF Numbered
<1>3. LockHeld'
  BY DEF LockHeld
<1>4. Undisturbed'
  <2> SUFFICES ASSUME ~disturbed' PROVE UndisturbedParts'
    BY DEF Undisturbed
  <2>0. UndisturbedParts
    BY DEF Undisturbed
  <2> USE <2>0 DEF UndisturbedParts
  <2>1. FileAhead'
    BY DEF FileAhead, Unwritten, Given
  <2>2. OneWriter'
    BY RequestAssumption DEF OneWriter, Unwritten, LockHeld
  <2>3. FirstIsFirst'
    BY DEF FirstIsFirst, Given, UserLabels
  <2>4. TakesTheNumber'
    BY RequestAssumption DEF TakesTheNumber, OneWriter, Unwritten, LockHeld
  <2>5. NumberIsNew'
    BY NoNumberAssumption DEF NumberIsNew, Given, UserLabels, OneWriter, Unwritten, FileAhead,
        TakesTheNumber, Numbered
  <2>6. UidsUnique'
    BY DEF UidsUnique, Given, UserLabels
  <2> QED
    BY <2>1, <2>2, <2>3, <2>4, <2>5, <2>6
<1>5. OneCreator'
  BY DEF OneCreator, Creating
<1>6. CreatesUnused'
  BY DEF CreatesUnused, Creating
<1>7. CreatedKept'
  BY DEF CreatedKept
<1> QED
  BY <1>1, <1>2, <1>3, <1>4, <1>5, <1>6, <1>7

(* The request counts as one with a number: the others' are below it.       *)
LEMMA UnlockUidStep ==
  ASSUME IInv, NEW r \in Request, UnlockUid(r)
  PROVE  IInv'
<1> USE DEF IInv, TypeOK, UnlockUid, files, faults, history, At, Goto
<1>1. TypeOK'
  BY DEF Labels, UidLabels, UserLabels
<1>2. Numbered'
  BY DEF Numbered
<1>3. LockHeld'
  BY DEF LockHeld
<1>4. Undisturbed'
  <2> SUFFICES ASSUME ~disturbed' PROVE UndisturbedParts'
    BY DEF Undisturbed
  <2>0. UndisturbedParts
    BY DEF Undisturbed
  <2> USE <2>0 DEF UndisturbedParts
  <2>1. FileAhead'
    BY DEF FileAhead, Unwritten, Given
  <2>2. OneWriter'
    BY DEF OneWriter, Unwritten
  <2>3. FirstIsFirst'
    BY DEF FirstIsFirst, Given, UserLabels, OneWriter, Unwritten
  <2>4. TakesTheNumber'
    BY DEF TakesTheNumber
  <2>5. NumberIsNew'
    BY DEF NumberIsNew, Given, UserLabels, OneWriter, Unwritten
  <2>6. UidsUnique'
    BY UidAssumption DEF UidsUnique, Given, UserLabels, NumberIsNew, Numbered, Uid
  <2> QED
    BY <2>1, <2>2, <2>3, <2>4, <2>5, <2>6
<1>5. OneCreator'
  BY DEF OneCreator, Creating
<1>6. CreatesUnused'
  BY DEF CreatesUnused, Creating
<1>7. CreatedKept'
  BY DEF CreatedKept
<1> QED
  BY <1>1, <1>2, <1>3, <1>4, <1>5, <1>6, <1>7

(* The next number reaches the file: it is ahead of all given again.        *)
LEMMA CloseUidStep ==
  ASSUME IInv, NEW r \in Request, CloseUid(r)
  PROVE  IInv'
<1> USE DEF IInv, TypeOK, CloseUid, faults, history, DropUidHandle, At, Goto
<1>1. TypeOK'
  BY UidAssumption DEF Labels, UidLabels, UserLabels, Uid, Numbered
<1>2. Numbered'
  BY DEF Numbered
<1>3. LockHeld'
  BY DEF LockHeld, HasUidHandle, UidLabels
<1>4. Undisturbed'
  <2> SUFFICES ASSUME ~disturbed' PROVE UndisturbedParts'
    BY DEF Undisturbed
  <2>0. UndisturbedParts
    BY DEF Undisturbed
  <2> USE <2>0 DEF UndisturbedParts
  <2>1. FileAhead'
    BY UidAssumption, NoNumberAssumption DEF FileAhead, Unwritten, Given, UserLabels,
        FirstIsFirst, OneWriter, NumberIsNew, Numbered, Uid
  <2>2. OneWriter'
    BY DEF OneWriter, Unwritten
  <2>3. FirstIsFirst'
    BY DEF FirstIsFirst, Given, UserLabels, OneWriter, Unwritten
  <2>4. TakesTheNumber'
    BY DEF TakesTheNumber, OneWriter, Unwritten
  <2>5. NumberIsNew'
    BY DEF NumberIsNew, Given
  <2>6. UidsUnique'
    BY DEF UidsUnique, Given
  <2> QED
    BY <2>1, <2>2, <2>3, <2>4, <2>5, <2>6
<1>5. OneCreator'
  BY DEF OneCreator, Creating
<1>6. CreatesUnused'
  BY DEF CreatesUnused, Creating
<1>7. CreatedKept'
  BY DEF CreatedKept
<1> QED
  BY <1>1, <1>2, <1>3, <1>4, <1>5, <1>6, <1>7

(* A request fails with the mutex, and is not given its number.             *)
LEMMA OpenUidFailsStep ==
  ASSUME IInv, NEW r \in Request, OpenUidFails(r)
  PROVE  IInv'
<1> USE DEF IInv, TypeOK, OpenUidFails, At, files, history, OpenFails, DropUidHandle, Goto
<1>1. TypeOK'
  BY DEF Labels
<1>2. Numbered'
  BY DEF Numbered, UidLabels, UserLabels
<1>3. LockHeld'
  BY DEF LockHeld
<1>4. Undisturbed'
  <2> SUFFICES ASSUME ~disturbed' PROVE UndisturbedParts'
    BY DEF Undisturbed
  <2>0. UndisturbedParts
    BY DEF Undisturbed
  <2> USE <2>0 DEF UndisturbedParts
  <2>1. FileAhead'
    BY DEF FileAhead, Unwritten, Given, UserLabels
  <2>2. OneWriter'
    BY DEF OneWriter, Unwritten
  <2>3. FirstIsFirst'
    BY DEF FirstIsFirst, Given, UserLabels
  <2>4. TakesTheNumber'
    BY DEF TakesTheNumber
  <2>5. NumberIsNew'
    BY DEF NumberIsNew, Given, UserLabels
  <2>6. UidsUnique'
    BY DEF UidsUnique, Given, UserLabels
  <2> QED
    BY <2>1, <2>2, <2>3, <2>4, <2>5, <2>6
<1>5. OneCreator'
  BY DEF OneCreator, Creating
<1>6. CreatesUnused'
  BY DEF CreatesUnused, Creating
<1>7. CreatedKept'
  BY DEF CreatedKept
<1> QED
  BY <1>1, <1>2, <1>3, <1>4, <1>5, <1>6, <1>7

(* Looking for the directory of the accounts.                               *)
LEMMA LookDirStep ==
  ASSUME IInv, NEW r \in Request, LookDir(r)
  PROVE  IInv'
<1> USE DEF IInv, TypeOK, LookDir, files, locks, faults, history, At, Goto
<1>1. TypeOK'
  BY DEF Labels
<1>2. Numbered'
  BY DEF Numbered
<1>3. LockHeld'
  BY DEF LockHeld
<1>4. Undisturbed'
  <2> SUFFICES ASSUME ~disturbed' PROVE UndisturbedParts'
    BY DEF Undisturbed
  <2>0. UndisturbedParts
    BY DEF Undisturbed
  <2> USE <2>0 DEF UndisturbedParts
  <2>1. FileAhead'
    BY DEF FileAhead, Unwritten, Given
  <2>2. OneWriter'
    BY DEF OneWriter, Unwritten
  <2>3. FirstIsFirst'
    BY DEF FirstIsFirst, Given
  <2>4. TakesTheNumber'
    BY DEF TakesTheNumber
  <2>5. NumberIsNew'
    BY DEF NumberIsNew, Given
  <2>6. UidsUnique'
    BY DEF UidsUnique, Given
  <2> QED
    BY <2>1, <2>2, <2>3, <2>4, <2>5, <2>6
<1>5. OneCreator'
  BY DEF OneCreator, Creating
<1>6. CreatesUnused'
  BY DEF CreatesUnused, Creating
<1>7. CreatedKept'
  BY DEF CreatedKept
<1> QED
  BY <1>1, <1>2, <1>3, <1>4, <1>5, <1>6, <1>7

(* Making the directory of the accounts.                                    *)
LEMMA MakeDirStep ==
  ASSUME IInv, NEW r \in Request, MakeDir(r)
  PROVE  IInv'
<1> USE DEF IInv, TypeOK, MakeDir, locks, faults, history, At, Goto
<1>1. TypeOK'
  BY DEF Labels
<1>2. Numbered'
  BY DEF Numbered
<1>3. LockHeld'
  BY DEF LockHeld
<1>4. Undisturbed'
  <2> SUFFICES ASSUME ~disturbed' PROVE UndisturbedParts'
    BY DEF Undisturbed
  <2>0. UndisturbedParts
    BY DEF Undisturbed
  <2> USE <2>0 DEF UndisturbedParts
  <2>1. FileAhead'
    BY DEF FileAhead, Unwritten, Given
  <2>2. OneWriter'
    BY DEF OneWriter, Unwritten
  <2>3. FirstIsFirst'
    BY DEF FirstIsFirst, Given
  <2>4. TakesTheNumber'
    BY DEF TakesTheNumber
  <2>5. NumberIsNew'
    BY DEF NumberIsNew, Given
  <2>6. UidsUnique'
    BY DEF UidsUnique, Given
  <2> QED
    BY <2>1, <2>2, <2>3, <2>4, <2>5, <2>6
<1>5. OneCreator'
  BY DEF OneCreator, Creating
<1>6. CreatesUnused'
  BY DEF CreatesUnused, Creating
<1>7. CreatedKept'
  BY DEF CreatedKept
<1> QED
  BY <1>1, <1>2, <1>3, <1>4, <1>5, <1>6, <1>7

(* The account is found unused, or the request fails.                       *)
LEMMA CheckStep ==
  ASSUME IInv, NEW r \in Request, Check(r)
  PROVE  IInv'
<1> USE DEF IInv, TypeOK, Check, files, locks, faults, At, Goto
<1>1. TypeOK'
  BY UidAssumption DEF Labels, UidLabels, UserLabels, Uid, Numbered
<1>2. Numbered'
  BY DEF Numbered
<1>3. LockHeld'
  BY DEF LockHeld
<1>4. Undisturbed'
  <2> SUFFICES ASSUME ~disturbed' PROVE UndisturbedParts'
    BY DEF Undisturbed
  <2>0. UndisturbedParts
    BY DEF Undisturbed
  <2> USE <2>0 DEF UndisturbedParts
  <2>1. FileAhead'
    BY DEF FileAhead, Unwritten, Given
  <2>2. OneWriter'
    BY DEF OneWriter, Unwritten
  <2>3. FirstIsFirst'
    BY DEF FirstIsFirst, Given
  <2>4. TakesTheNumber'
    BY DEF TakesTheNumber
  <2>5. NumberIsNew'
    BY DEF NumberIsNew, Given
  <2>6. UidsUnique'
    BY DEF UidsUnique, Given
  <2> QED
    BY <2>1, <2>2, <2>3, <2>4, <2>5, <2>6
<1>5. OneCreator'
  BY DEF OneCreator, Creating
<1>6. CreatesUnused'
  BY DEF CreatesUnused, Creating
<1>7. CreatedKept'
  BY DEF CreatedKept
<1> QED
  BY <1>1, <1>2, <1>3, <1>4, <1>5, <1>6, <1>7

(* Taking a handle to the mutex of the account.                             *)
LEMMA UserHandleStep ==
  ASSUME IInv, NEW r \in Request, UserHandle(r)
  PROVE  IInv'
<1> USE DEF IInv, TypeOK, UserHandle, files, locks, faults, history, At, Goto
<1>1. TypeOK'
  BY DEF Labels, UidLabels, UserLabels
<1>2. Numbered'
  BY DEF Numbered
<1>3. LockHeld'
  BY DEF LockHeld
<1>4. Undisturbed'
  <2> SUFFICES ASSUME ~disturbed' PROVE UndisturbedParts'
    BY DEF Undisturbed
  <2>0. UndisturbedParts
    BY DEF Undisturbed
  <2> USE <2>0 DEF UndisturbedParts
  <2>1. FileAhead'
    BY DEF FileAhead, Unwritten, Given
  <2>2. OneWriter'
    BY DEF OneWriter, Unwritten
  <2>3. FirstIsFirst'
    BY DEF FirstIsFirst, Given
  <2>4. TakesTheNumber'
    BY DEF TakesTheNumber
  <2>5. NumberIsNew'
    BY DEF NumberIsNew, Given
  <2>6. UidsUnique'
    BY DEF UidsUnique, Given
  <2> QED
    BY <2>1, <2>2, <2>3, <2>4, <2>5, <2>6
<1>5. OneCreator'
  BY DEF OneCreator, Creating
<1>6. CreatesUnused'
  BY DEF CreatesUnused, Creating
<1>7. CreatedKept'
  BY DEF CreatedKept
<1> QED
  BY <1>1, <1>2, <1>3, <1>4, <1>5, <1>6, <1>7

(* Locking the account.                                                     *)
LEMMA LockUserStep ==
  ASSUME IInv, NEW r \in Request, LockUser(r)
  PROVE  IInv'
<1> USE DEF IInv, TypeOK, LockUser, files, faults, history, At, Goto
<1>1. TypeOK'
  BY DEF Labels, UidLabels, UserLabels
<1>2. Numbered'
  BY DEF Numbered, UidLabels, UserLabels
<1>3. LockHeld'
  BY DEF LockHeld
<1>4. Undisturbed'
  <2> SUFFICES ASSUME ~disturbed' PROVE UndisturbedParts'
    BY DEF Undisturbed
  <2>0. UndisturbedParts
    BY DEF Undisturbed
  <2> USE <2>0 DEF UndisturbedParts
  <2>1. FileAhead'
    BY DEF FileAhead, Unwritten, Given, UserLabels
  <2>2. OneWriter'
    BY DEF OneWriter, Unwritten
  <2>3. FirstIsFirst'
    BY DEF FirstIsFirst, Given, UserLabels
  <2>4. TakesTheNumber'
    BY DEF TakesTheNumber
  <2>5. NumberIsNew'
    BY DEF NumberIsNew, Given, UserLabels
  <2>6. UidsUnique'
    BY DEF UidsUnique, Given, UserLabels
  <2> QED
    BY <2>1, <2>2, <2>3, <2>4, <2>5, <2>6
<1>5. OneCreator'
  BY DEF OneCreator, Creating
<1>6. CreatesUnused'
  BY DEF CreatesUnused, Creating
<1>7. CreatedKept'
  BY DEF CreatedKept
<1> QED
  BY <1>1, <1>2, <1>3, <1>4, <1>5, <1>6, <1>7

(* The only creator of the number makes the account.                        *)
LEMMA CreateStep ==
  ASSUME IInv, NEW r \in Request, Create(r)
  PROVE  IInv'
<1> USE DEF IInv, TypeOK, Create, locks, faults, history, At, Goto
<1>1. TypeOK'
  BY DEF Labels, UidLabels, UserLabels
<1>2. Numbered'
  BY DEF Numbered, UidLabels, UserLabels
<1>3. LockHeld'
  BY DEF LockHeld
<1>4. Undisturbed'
  <2> SUFFICES ASSUME ~disturbed' PROVE UndisturbedParts'
    BY DEF Undisturbed
  <2>0. UndisturbedParts
    BY DEF Undisturbed
  <2> USE <2>0 DEF UndisturbedParts
  <2>1. FileAhead'
    BY DEF FileAhead, Unwritten, Given, UserLabels
  <2>2. OneWriter'
    BY DEF OneWriter, Unwritten
  <2>3. FirstIsFirst'
    BY DEF FirstIsFirst, Given, UserLabels
  <2>4. TakesTheNumber'
    BY DEF TakesTheNumber
  <2>5. NumberIsNew'
    BY DEF NumberIsNew, Given, UserLabels
  <2>6. UidsUnique'
    BY DEF UidsUnique, Given, UserLabels
  <2> QED
    BY <2>1, <2>2, <2>3, <2>4, <2>5, <2>6
<1>5. OneCreator'
  BY DEF OneCreator, Creating
<1>6. CreatesUnused'
  BY DEF CreatesUnused, OneCreator, Creating
<1>7. CreatedKept'
  BY RequestAssumption, UidAssumption DEF OneCreator, CreatesUnused, CreatedKept, Creating,
      Numbered, Uid, UserLabels
<1> QED
  BY <1>1, <1>2, <1>3, <1>4, <1>5, <1>6, <1>7

(* The account is made and stays empty.                                     *)
LEMMA CreateFailsStep ==
  ASSUME IInv, NEW r \in Request, CreateFails(r)
  PROVE  IInv'
<1> USE DEF IInv, TypeOK, CreateFails, history, OpenFails, DropUserHandle, At, Goto
<1>1. TypeOK'
  BY UidAssumption DEF Labels, UidLabels, UserLabels, Uid, Numbered
<1>2. Numbered'
  BY DEF Numbered, UidLabels, UserLabels
<1>3. LockHeld'
  BY DEF LockHeld
<1>4. Undisturbed'
  <2> SUFFICES ASSUME ~disturbed' PROVE UndisturbedParts'
    BY DEF Undisturbed
  <2>0. UndisturbedParts
    BY DEF Undisturbed
  <2> USE <2>0 DEF UndisturbedParts
  <2>1. FileAhead'
    BY DEF FileAhead, Unwritten, Given, UserLabels
  <2>2. OneWriter'
    BY DEF OneWriter, Unwritten
  <2>3. FirstIsFirst'
    BY DEF FirstIsFirst, Given, UserLabels
  <2>4. TakesTheNumber'
    BY DEF TakesTheNumber
  <2>5. NumberIsNew'
    BY DEF NumberIsNew, Given, UserLabels
  <2>6. UidsUnique'
    BY DEF UidsUnique, Given, UserLabels
  <2> QED
    BY <2>1, <2>2, <2>3, <2>4, <2>5, <2>6
<1>5. OneCreator'
  BY DEF OneCreator, Creating
<1>6. CreatesUnused'
  BY DEF CreatesUnused, OneCreator, Creating
<1>7. CreatedKept'
  BY RequestAssumption, UidAssumption DEF OneCreator, CreatesUnused, CreatedKept, Creating,
      Numbered, Uid, UserLabels
<1> QED
  BY <1>1, <1>2, <1>3, <1>4, <1>5, <1>6, <1>7

(* The account is complete.                                                 *)
LEMMA CloseUserStep ==
  ASSUME IInv, NEW r \in Request, CloseUser(r)
  PROVE  IInv'
<1> USE DEF IInv, TypeOK, CloseUser, files, faults, history, DropUserHandle, At, Goto
<1>1. TypeOK'
  BY DEF Labels
<1>2. Numbered'
  BY DEF Numbered, UidLabels, UserLabels
<1>3. LockHeld'
  BY DEF LockHeld
<1>4. Undisturbed'
  <2> SUFFICES ASSUME ~disturbed' PROVE UndisturbedParts'
    BY DEF Undisturbed
  <2>0. UndisturbedParts
    BY DEF Undisturbed
  <2> USE <2>0 DEF UndisturbedParts
  <2>1. FileAhead'
    BY DEF FileAhead, Unwritten, Given, UserLabels
  <2>2. OneWriter'
    BY DEF OneWriter, Unwritten
  <2>3. FirstIsFirst'
    BY DEF FirstIsFirst, Given, UserLabels
  <2>4. TakesTheNumber'
    BY DEF TakesTheNumber
  <2>5. NumberIsNew'
    BY DEF NumberIsNew, Given, UserLabels
  <2>6. UidsUnique'
    BY DEF UidsUnique, Given, UserLabels
  <2> QED
    BY <2>1, <2>2, <2>3, <2>4, <2>5, <2>6
<1>5. OneCreator'
  BY DEF OneCreator, Creating
<1>6. CreatesUnused'
  BY DEF CreatesUnused, Creating
<1>7. CreatedKept'
  BY DEF CreatedKept
<1> QED
  BY <1>1, <1>2, <1>3, <1>4, <1>5, <1>6, <1>7


(* The process crashes: unless a number was still unwritten, the file is    *)
(* ahead of all that were given, and nobody is left who would write.        *)
LEMMA CrashStep ==
  ASSUME IInv, Crash
  PROVE  IInv'
<1> USE DEF IInv, TypeOK, Crash, files
<1>1. TypeOK'
  BY BoundAssumption DEF Labels
<1>2. Numbered'
  BY DEF Numbered, At, UidLabels, UserLabels
<1>3. LockHeld'
  BY DEF LockHeld
<1>4. Undisturbed'
  <2> SUFFICES ASSUME ~disturbed' PROVE UndisturbedParts'
    BY DEF Undisturbed
  <2>0. UndisturbedParts /\ Unwritten = {}
    BY DEF Undisturbed
  <2> USE <2>0 DEF UndisturbedParts
  <2>1. \A q \in Request : Given(q)' => Given(q)
    BY DEF Given, UserLabels
  <2>2. FileAhead'
    BY <2>1 DEF FileAhead
  <2>3. (OneWriter /\ FirstIsFirst /\ TakesTheNumber /\ NumberIsNew)'
    BY DEF OneWriter, FirstIsFirst, TakesTheNumber, NumberIsNew, At
  <2>4. UidsUnique'
    BY <2>1 DEF UidsUnique
  <2> QED
    BY <2>2, <2>3, <2>4
<1>5. (OneCreator /\ CreatesUnused)'
  BY DEF OneCreator, CreatesUnused, Creating
<1>6. CreatedKept'
  BY DEF CreatedKept
<1> QED
  BY <1>1, <1>2, <1>3, <1>4, <1>5, <1>6

LEMMA InitStep ==
  ASSUME Init
  PROVE  IInv
<1> USE DEF Init
<1>1. TypeOK /\ Numbered /\ LockHeld
  BY DEF TypeOK, Numbered, LockHeld, At, Labels, UidLabels, UserLabels
<1>2. Undisturbed
  BY DEF Undisturbed, UndisturbedParts, FileAhead, OneWriter, FirstIsFirst, TakesTheNumber,
         NumberIsNew, UidsUnique, Given, At
<1>3. OneCreator /\ CreatesUnused /\ CreatedKept
  BY DEF OneCreator, CreatesUnused, CreatedKept, Creating
<1> QED
  BY <1>1, <1>2, <1>3 DEF IInv

LEMMA StutterStep ==
  ASSUME IInv, UNCHANGED vars
  PROVE  IInv'
BY DEF IInv, vars, TypeOK, Numbered, LockHeld, Undisturbed, UndisturbedParts, FileAhead,
       OneWriter, FirstIsFirst, TakesTheNumber, NumberIsNew, UidsUnique, OneCreator,
       CreatesUnused, CreatedKept, Unwritten, Given, Creating, At

-----------------------------------------------------------------------------
(* The theorems *)

LEMMA Inductive == Spec => []IInv
<1>1. Init => IInv
  BY InitStep
<1>2. IInv /\ [Next]_vars => IInv'
  <2> SUFFICES ASSUME IInv, [Next]_vars PROVE IInv'
    OBVIOUS
  <2>1. CASE UNCHANGED vars
    BY <2>1, StutterStep
  <2>2. CASE Crash
    BY <2>2, CrashStep
  <2>3. ASSUME NEW r \in Request, Begin(r) PROVE IInv'
    BY <2>3, BeginStep
  <2>4. ASSUME NEW r \in Request, Generate(r) PROVE IInv'
    BY <2>4, LockUidStep, ReadStep, FirstStep, FirstCloseStep, TruncateStep, UnlockUidStep,
       CloseUidStep DEF Generate
  <2>5. ASSUME NEW r \in Request, CreateUser(r) PROVE IInv'
    BY <2>5, LookDirStep, MakeDirStep, CheckStep, UserHandleStep, LockUserStep, CreateStep,
       CloseUserStep DEF CreateUser
  <2>6. ASSUME NEW r \in Request, Fault(r) PROVE IInv'
    BY <2>6, ReadFailsStep, OpenUidFailsStep, CreateFailsStep DEF Fault
  <2> QED
    BY <2>1, <2>2, <2>3, <2>4, <2>5, <2>6 DEF Next
<1> QED
  BY <1>1, <1>2, PTL DEF Spec

(* The variables of a registration keep their types: the number counted up  *)
(* by UID::Generate and those given out stay within the range.              *)
THEOREM TypeCorrect == Spec => []TypeOK
<1>1. IInv => TypeOK
  BY DEF IInv
<1> QED
  BY <1>1, Inductive, PTL

(* UID::Generate gives no number twice, as long as nobody reads next_uid    *)
(* while another one's new number is in its stream, and neither a crash at  *)
(* such a moment nor an Open that fails gets in the way.                    *)
THEOREM NumbersGivenOnce == Spec => []UidsUnique
<1>1. IInv => UidsUnique
  BY DEF IInv, Undisturbed, UndisturbedParts, UidsUnique
<1> QED
  BY <1>1, Inductive, PTL

(* The account that User::Create made for a registration that was answered  *)
(* is not made again for another one, whatever happens to the counter,      *)
(* unless two of them had both passed the check before either created it.   *)
THEOREM AccountKept == Spec => []AnsweredAccountKept
<1>1. IInv => AnsweredAccountKept
  BY DEF IInv, TypeOK, Numbered, CreatedKept, AnsweredAccountKept, At
<1> QED
  BY <1>1, Inductive, PTL
=============================================================================
