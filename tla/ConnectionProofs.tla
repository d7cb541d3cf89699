-------------------------- MODULE ConnectionProofs --------------------------
(* Proofs about what happens to a connection.                               *)
(*                                                                          *)
(* Of Server, for any number of connections, workers and users and any size *)
(* of the pipe: a connection is in one place at a time, its counter is the  *)
(* number of its handles, those of the loop's copies and of the users that  *)
(* are online included, and its socket is open as long as it is in a place  *)
(* and, but for lost and closed connections, no longer.                     *)
(*                                                                          *)
(* Of Transport, for every set of pushers and any number of requests,       *)
(* pushes and queued packets, of which those that are too large are not     *)
(* sent: headers and bodies are only mixed by two threads that send at      *)
(* once, no sender goes back to an earlier packet, and the reader stays in  *)
(* step with the frames unless a field came in pieces.                      *)
EXTENDS Server, Transport, FiniteSetTheorems, TLAPS

-----------------------------------------------------------------------------
(* Counting workers *)

LEMMA WorkersFinite ==
  ASSUME NEW S \in SUBSET Worker
  PROVE  IsFiniteSet(S) /\ Cardinality(S) \in Nat
BY ThreadAssumption, FS_Subset, FS_CardinalityType

LEMMA OneMore ==
  ASSUME NEW S \in SUBSET Worker, NEW w \in Worker, w \notin S
  PROVE  Cardinality(S \cup {w}) = Cardinality(S) + 1
BY WorkersFinite, FS_AddElement

LEMMA OneLess ==
  ASSUME NEW S \in SUBSET Worker, NEW w \in S
  PROVE  Cardinality(S \ {w}) = Cardinality(S) - 1
BY WorkersFinite, FS_RemoveElement

LEMMA EntriesFinite ==
  ASSUME NEW S \in SUBSET Uid
  PROVE  IsFiniteSet(S) /\ Cardinality(S) \in Nat
BY UidAssumption, FS_Subset, FS_CardinalityType

(* The counts of a connection are numbers, whatever the state.              *)
LEMMA CountsBefore ==
  ASSUME NEW c \in Conn
  PROVE  /\ Dealing(c) \in SUBSET Worker /\ Full(c) \in SUBSET Worker
         /\ Entries(c) \in SUBSET Uid
         /\ Cardinality(Dealing(c)) \in Nat /\ Cardinality(Full(c)) \in Nat
         /\ Cardinality(Entries(c)) \in Nat
         /\ Copies(c) \in Nat
<1>1. /\ Dealing(c) \in SUBSET Worker /\ Full(c) \in SUBSET Worker
      /\ Entries(c) \in SUBSET Uid
  BY DEF Dealing, Full, Entries
<1>2. Cardinality(Entries(c)) \in Nat
  BY <1>1, EntriesFinite
<1> QED
  BY <1>1, <1>2, WorkersFinite DEF Copies, One

LEMMA CountsAfter ==
  ASSUME NEW c \in Conn
  PROVE  /\ Cardinality(Dealing(c)') \in Nat /\ Cardinality(Full(c)') \in Nat
         /\ Copies(c)' \in Nat
<1>1. /\ Dealing(c)' \in SUBSET Worker /\ Full(c)' \in SUBSET Worker
      /\ Entries(c)' \in SUBSET Uid
  BY DEF Dealing, Full, Entries
<1>2. Cardinality(Entries(c)') \in Nat
  BY <1>1, EntriesFinite
<1> QED
  BY <1>1, <1>2, WorkersFinite DEF Copies, One

LEMMA CountTypes ==
  ASSUME TypeOK, NEW c \in Conn
  PROVE  /\ Dealing(c) \in SUBSET Worker /\ Full(c) \in SUBSET Worker
         /\ Cardinality(Dealing(c)) \in Nat /\ Cardinality(Full(c)) \in Nat
         /\ Copies(c) \in Nat /\ handles[c] \in Nat
BY CountsBefore DEF TypeOK

(* A connection in its place is open.                                       *)
LEMMA PlaceIsOpen ==
  ASSUME NEW c \in Conn, handles'[c] \in Nat, OfPlace(c)' = 1
  PROVE  Open(c)'
<1>1. /\ Cardinality(Dealing(c)') \in Nat /\ Cardinality(Full(c)') \in Nat
      /\ Copies(c)' \in Nat
  BY CountsAfter
<1>2. OfPlace(c)' = handles'[c] - Cardinality(Dealing(c)') - 2 * Cardinality(Full(c)') - Copies(c)'
  BY DEF OfPlace
<1> QED
  BY <1>1, <1>2 DEF Open

(* The handles of a task: the one of its place, one more of network, two    *)
(* more when it puts the connection back; none of them is one of the loop's *)
(* or a user's.                                                             *)
LEMMA HandlesAtLeast ==
  ASSUME IInv, NEW w \in Worker, step[w] # "idle"
  PROVE  /\ job[w] \in Conn
         /\ step[w] \in {"recv", "deal", "dealt"} => handles[job[w]] >= Copies(job[w]) + 2
         /\ step[w] \in {"close", "closed"} => handles[job[w]] >= Copies(job[w]) + 1
         /\ step[w] \in {"pushed", "alarm", "done"} => handles[job[w]] >= Copies(job[w]) + 2
<1> DEFINE d == job[w]
<1>1. d \in Conn
  BY DEF IInv, TypeOK, Labelled
<1>2. /\ OfPlace(d) \in {0, 1} /\ (Placed(d) => OfPlace(d) = 1)
      /\ Cardinality(Dealing(d)) \in Nat /\ Cardinality(Full(d)) \in Nat
      /\ handles[d] \in Nat /\ Copies(d) \in Nat
  BY <1>1, CountTypes DEF IInv, Counted
<1>3. CASE step[w] \in {"recv", "deal", "dealt", "close", "closed"}
  <2>1. Placed(d)
    BY <1>3 DEF Placed, Using
  <2>2. step[w] \in {"recv", "deal", "dealt"} => Cardinality(Dealing(d)) >= 1
    <3> SUFFICES ASSUME step[w] \in {"recv", "deal", "dealt"}
                 PROVE  Cardinality(Dealing(d)) >= 1
      OBVIOUS
    <3>1. w \in Dealing(d) /\ Dealing(d) \in SUBSET Worker
      BY DEF Dealing
    <3>2. /\ Cardinality(Dealing(d) \ {w}) = Cardinality(Dealing(d)) - 1
          /\ Cardinality(Dealing(d) \ {w}) \in Nat
      BY <3>1, OneLess, WorkersFinite
    <3> QED
      BY <1>2, <3>2
  <2> QED
    BY <1>1, <1>2, <1>3, <2>1, <2>2 DEF OfPlace
<1>4. CASE step[w] \in {"pushed", "alarm", "done"}
  <2>1. w \in Full(d) /\ Full(d) \in SUBSET Worker
    BY <1>4 DEF Full
  <2>2. /\ Cardinality(Full(d) \ {w}) = Cardinality(Full(d)) - 1
        /\ Cardinality(Full(d) \ {w}) \in Nat
    BY <2>1, OneLess, WorkersFinite
  <2> QED
    BY <1>1, <1>2, <1>4, <2>2 DEF OfPlace
<1> QED
  BY <1>1, <1>3, <1>4

-----------------------------------------------------------------------------
(* What leaves the parts of the invariant as they are *)

(* The handles of places stay, a place is only left by a connection that    *)
(* was crossed, and only a listed one gets a place it did not have.         *)
LEMMA PlacesKept ==
  ASSUME Counted, Shutting, TypeOK', Apart',
         \A c \in Conn :
           /\ OfPlace(c)' = OfPlace(c)
           /\ Placed(c)' \/ c \in Listed' => Placed(c) \/ c \in Listed
           /\ Placed(c) => Placed(c)' \/ c \in crossed'
           /\ c \in crossed => c \in crossed' \/ Placed(c)'
           /\ Open(c)' => Open(c)
           /\ c \in shut' <=> c \in shut /\ Open(c)'
           /\ Closed(c)' <=> Closed(c)
  PROVE  Counted' /\ Shutting'
<1>1. Counted'
  BY DEF Counted
<1>2. ASSUME NEW c \in Conn, Closed(c)' PROVE c \in shut' /\ c \notin Listed'
  <2>1. Placed(c)' /\ c \notin Listed'
    BY <1>2 DEF Closed, Placed, Using, Apart
  <2>2. OfPlace(c)' = 1 /\ handles'[c] \in Nat
    BY <1>1, <2>1 DEF Counted, TypeOK
  <2>3. Open(c)'
    BY <2>2, PlaceIsOpen
  <2> QED
    BY <1>2, <2>1, <2>3 DEF Shutting
<1>3. ASSUME NEW c \in Conn
      PROVE  /\ Open(c)' => Placed(c)' \/ c \in crossed' \/ c \in shut'
             /\ c \in shut' => Open(c)' /\ c \notin Listed' /\ (~Placed(c)' \/ Closed(c)')
             /\ Closed(c)' => c \in shut'
  BY <1>2 DEF Shutting
<1> QED
  BY <1>1, <1>3 DEF Shutting

LEMMA CrossingKept ==
  ASSUME Crossing, UNCHANGED <<pool, tail, crossed>>,
         \A t \in Thread :
           /\ PushesNow(t)' <=> PushesNow(t)
           /\ PushesNow(t) => Pushee(t)' = Pushee(t)
  PROVE  Crossing'
BY DEF Crossing

(* What is left when handles go: the counters are what is said, the other   *)
(* variables keep their types, and shut keeps what stays open.              *)
LEMMA ReleaseStep ==
  ASSUME TypeOK, NEW left \in [Conn -> Nat], Release(left)
  PROVE  /\ handles' = left /\ handles' \in [Conn -> Nat]
         /\ peer' \in [Conn -> {"here", "gone", "none"}]
         /\ inbox' \in [Conn -> Nat]
         /\ shut' \subseteq Conn
         /\ \A c \in Conn : c \in shut' <=> c \in shut /\ Open(c)'
<1>1. /\ handles' = left
      /\ peer' = [c \in Conn |-> IF left[c] = 0 THEN "none" ELSE peer[c]]
      /\ inbox' = [c \in Conn |-> IF left[c] = 0 THEN 0 ELSE inbox[c]]
      /\ shut' = {c \in shut : left[c] > 0}
  BY DEF Release
<1> QED
  BY <1>1 DEF TypeOK, Open

(* A step of the loop or of a client that moves no connection.              *)
LEMMA NothingMoves ==
  ASSUME IInv, TypeOK',
         UNCHANGED <<handles, pool, tail, crossed, newcomer, lst, batch, turn, queue, job,
                     step, online, shut>>,
         main = "pushed" <=> main' = "pushed"
  PROVE  Apart' /\ Crossing' /\ Counted' /\ Shutting'
<1>1. /\ Listed' = Listed /\ Range(queue)' = Range(queue)
      /\ \A c : /\ Using(c)' = Using(c) /\ Dealing(c)' = Dealing(c) /\ Full(c)' = Full(c)
                /\ Copies(c)' = Copies(c)
  BY DEF Listed, Using, Dealing, Full, Copies, Entries
<1>2. Apart'
  BY <1>1 DEF IInv, Apart
<1>3. Crossing'
  BY CrossingKept DEF IInv, PushesNow, Pushee
<1>4. \A c \in Conn : /\ OfPlace(c)' = OfPlace(c) /\ (Placed(c)' <=> Placed(c))
                      /\ Open(c)' = Open(c) /\ Closed(c)' = Closed(c)
  BY <1>1 DEF OfPlace, Placed, Open, Closed
<1>5. Counted' /\ Shutting'
  <2>1. \A c \in Conn : c \in shut => Open(c)
    BY DEF IInv, Shutting
  <2> QED
    BY <1>1, <1>2, <1>4, <2>1, PlacesKept DEF IInv
<1> QED
  BY <1>2, <1>3, <1>5

-----------------------------------------------------------------------------
(* Steps that move no connection *)

LEMMA ClientStep ==
  ASSUME IInv, Knock \/ Exit \/ \E c \in Conn : SendPacket(c) \/ HangUp(c)
  PROVE  IInv'
<1> USE DEF IInv, Knock, Exit, SendPacket, HangUp, clients, taken, loop, tasks, list, users
<1>1. /\ UNCHANGED <<handles, pool, tail, crossed, newcomer, lst, batch, turn, queue, job, step>>
      /\ UNCHANGED <<main, online, shut>>
  OBVIOUS
<1>2. TypeOK'
  <2>1. CASE Knock
    BY <2>1 DEF TypeOK
  <2>4. CASE Exit
    BY <2>4 DEF TypeOK
  <2>2. ASSUME NEW c \in Conn, SendPacket(c) PROVE TypeOK'
    BY <2>2 DEF TypeOK
  <2>3. ASSUME NEW c \in Conn, HangUp(c) PROVE TypeOK'
    BY <2>3 DEF TypeOK
  <2> QED
    BY <2>1, <2>2, <2>3, <2>4
<1>3. Apart' /\ Crossing' /\ Counted' /\ Shutting'
  BY <1>1, <1>2, NothingMoves
<1>4. Labelled'
  BY DEF Labelled, PushesNow, TypeOK
<1> QED
  BY <1>2, <1>3, <1>4

LEMMA LoopStep ==
  ASSUME IInv, Snapshot \/ Select \/ Timeout \/ AcceptFails \/ Relock \/ Stop
  PROVE  IInv'
<1> USE DEF IInv, Snapshot, Select, Timeout, AcceptFails, Relock, Stop, LoopAt,
            Goto, clients, taken, tasks, list, users
<1>1. /\ UNCHANGED <<handles, pool, tail, crossed, newcomer, lst, batch, turn, queue, job, step>>
      /\ UNCHANGED <<online, shut>>
      /\ main # "pushed" /\ main' # "pushed"
  OBVIOUS
<1>2. TypeOK'
  <2>1. CASE Select
    <3>1. pipe' \in 0 .. PipeSize
      BY <2>1, BoundAssumption DEF TypeOK
    <3>2. sets' \subseteq Conn /\ knocked' \in BOOLEAN /\ main' \in LoopLabels
      BY <2>1 DEF TypeOK, LoopLabels
    <3> QED
      BY <2>1, <3>1, <3>2 DEF TypeOK
  <2>2. CASE ~Select
    BY <2>2 DEF TypeOK, LoopLabels
  <2> QED
    BY <2>1, <2>2
<1>3. Apart' /\ Crossing' /\ Counted' /\ Shutting'
  BY <1>1, <1>2, NothingMoves
<1>4. Labelled'
  <2>1. CASE Timeout
    BY <2>1 DEF Labelled, PushesNow, TypeOK
  <2>2. CASE ~Timeout
    BY <2>2 DEF Labelled, PushesNow, TypeOK
  <2> QED
    BY <2>1, <2>2
<1> QED
  BY <1>2, <1>3, <1>4

-----------------------------------------------------------------------------
(* Steps of the loop that move connections *)

(* What was readable goes from the pool to the batch; nobody is pushing.    *)
LEMMA TakeStep ==
  ASSUME IInv, Take
  PROVE  IInv'
<1> USE DEF IInv, Take, LoopAt, Goto
<1>1. /\ UNCHANGED <<handles, tail, newcomer, turn, queue, job, step, mutex, online, shut>>
      /\ lst = {} /\ batch = {} /\ turn = None
      /\ lst' = pool \cap sets /\ batch' = pool \cap sets /\ pool' = pool \ sets
      /\ crossed' = crossed \ (pool \cap sets)
  BY DEF tasks, users, Labelled
<1>2. \A t \in Thread : ~PushesNow(t) /\ ~PushesNow(t)' /\ tail[t] = {}
  BY ThreadAssumption DEF Labelled, PushesNow, Thread, TypeOK, tasks
<1>3. /\ Listed = pool /\ Listed' = pool' /\ Range(queue)' = Range(queue)
      /\ \A c : /\ Using(c)' = Using(c) /\ Dealing(c)' = Dealing(c) /\ Full(c)' = Full(c)
                /\ Copies(c)' = Copies(c) /\ Closed(c)' = Closed(c) /\ Open(c)' = Open(c)
  <2>1. lst \ batch = {} /\ lst' \ batch' = {}
    BY <1>1
  <2> QED
    BY <1>1, <1>2, <2>1 DEF Listed, Using, Dealing, Full, Copies, Entries, Closed, Open
<1>4. TypeOK'
  BY <1>1 DEF TypeOK, LoopLabels, clients
<1>5. Labelled'
  <2>1. None \notin batch' /\ batch' \subseteq lst'
    BY <1>1, ConnAssumption DEF TypeOK
  <2> QED
    BY <1>1, <1>2, <2>1 DEF Labelled, clients, TypeOK
<1>6. Apart'
  BY <1>1, <1>3 DEF Apart
<1>7. Crossing'
  BY <1>2 DEF Crossing
<1>8. Counted' /\ Shutting'
  <2>1. \A c \in Conn : OfPlace(c)' = OfPlace(c) /\ (Placed(c)' <=> Placed(c))
    BY <1>1, <1>3 DEF OfPlace, Placed
  <2>2. \A c \in Conn : c \in crossed => c \in crossed' \/ Placed(c)'
    BY <1>1 DEF Placed
  <2>3. \A c \in Conn : c \in shut => Open(c)
    BY DEF Shutting
  <2> QED
    BY <1>1, <1>3, <1>4, <1>6, <2>1, <2>2, <2>3, PlacesKept
<1> QED
  BY <1>4, <1>5, <1>6, <1>7, <1>8

(* A free socket number is in no place, and nobody has a copy.              *)
LEMMA FreeIsNowhere ==
  ASSUME IInv, NEW c \in Free
  PROVE  /\ c \in Conn /\ ~Placed(c) /\ c \notin Listed /\ c \notin shut
         /\ Full(c) = {} /\ Dealing(c) = {} /\ Copies(c) = 0 /\ ~Closed(c)
<1>1. c \in Conn /\ handles[c] = 0
  BY DEF Free
<1>2. /\ OfPlace(c) \in {0, 1} /\ (Placed(c) \/ c \in Listed => OfPlace(c) = 1)
      /\ Cardinality(Dealing(c)) \in Nat /\ Cardinality(Full(c)) \in Nat /\ Copies(c) \in Nat
  BY <1>1, CountTypes DEF IInv, Counted
<1>3. /\ Cardinality(Dealing(c)) = 0 /\ Cardinality(Full(c)) = 0 /\ OfPlace(c) = 0
      /\ Copies(c) = 0
  <2>1. OfPlace(c) = 0 - Cardinality(Dealing(c)) - 2 * Cardinality(Full(c)) - Copies(c)
    BY <1>1 DEF OfPlace
  <2> QED
    BY <1>2, <2>1
<1>4. Full(c) = {} /\ Dealing(c) = {}
  BY <1>1, <1>3, CountTypes, WorkersFinite, FS_EmptySet DEF IInv
<1>5. ~Placed(c) /\ c \notin Listed
  BY <1>2, <1>3
<1>6. ~Closed(c)
  BY <1>5 DEF Closed, Placed, Using
<1>7. c \notin shut
  BY <1>1 DEF IInv, Shutting, Open
<1> QED
  BY <1>1, <1>3, <1>4, <1>5, <1>6, <1>7

LEMMA AcceptStep ==
  ASSUME IInv, Accept
  PROVE  IInv'
<1> USE DEF IInv, Accept, LoopAt, Goto
<1>1. PICK c \in Free : /\ newcomer' = c
                        /\ peer' = [peer EXCEPT ![c] = "here"]
                        /\ handles' = [handles EXCEPT ![c] = 1]
  OBVIOUS
<1>2. /\ c \in Conn /\ ~Placed(c) /\ c \notin Listed /\ c \notin shut
      /\ Full(c) = {} /\ Dealing(c) = {} /\ Copies(c) = 0 /\ ~Closed(c)
  BY FreeIsNowhere
<1>3. /\ UNCHANGED <<pool, tail, crossed, lst, batch, turn, queue, job, step, mutex, online, shut>>
      /\ newcomer = None /\ newcomer' # None
  BY <1>1, <1>2, ConnAssumption DEF tasks, list, users, taken, Labelled
<1>4. /\ Listed' = Listed /\ Range(queue)' = Range(queue)
      /\ \A d : /\ Using(d)' = Using(d) /\ Dealing(d)' = Dealing(d) /\ Full(d)' = Full(d)
                /\ Copies(d)' = Copies(d) /\ Closed(d)' = Closed(d)
  BY <1>3 DEF Listed, Using, Dealing, Full, Copies, Entries, Closed
<1>5. TypeOK'
  BY <1>1, <1>2, <1>3 DEF TypeOK, LoopLabels, Labelled, tasks, list, users
<1>6. Labelled'
  BY <1>3 DEF Labelled, PushesNow, TypeOK
<1>7. Apart'
  BY <1>1, <1>2, <1>3, <1>4 DEF Apart, Placed
<1>8. Crossing'
  BY <1>3, CrossingKept DEF PushesNow, Pushee
<1>10. ASSUME NEW d \in Conn, d # c
       PROVE  /\ OfPlace(d)' = OfPlace(d) /\ (Placed(d)' <=> Placed(d))
              /\ Open(d)' = Open(d)
  <2>1. handles'[d] = handles[d]
    BY <1>1, <1>10 DEF TypeOK
  <2>2. d # None
    BY ConnAssumption
  <2> QED
    BY <1>1, <1>3, <1>4, <1>10, <2>1, <2>2 DEF OfPlace, Placed, Open
<1>11. OfPlace(c)' = 1 /\ Placed(c)'
  <2>1. handles'[c] = 1
    BY <1>1, <1>2 DEF TypeOK
  <2>2. Cardinality(Dealing(c)') = 0 /\ Cardinality(Full(c)') = 0 /\ Copies(c)' = 0
    BY <1>2, <1>4, FS_EmptySet
  <2> QED
    BY <1>1, <2>1, <2>2 DEF OfPlace, Placed
<1>9. Counted'
  BY <1>3, <1>4, <1>10, <1>11 DEF Counted
<1>12. Shutting'
  BY <1>2, <1>3, <1>4, <1>10, <1>11 DEF Shutting
<1> QED
  BY <1>5, <1>6, <1>7, <1>8, <1>9, <1>12

(* A task is queued for a connection of the batch, and the loop has a       *)
(* handle of its own and two copies beside that of the queue.               *)
LEMMA DispatchStep ==
  ASSUME IInv, Dispatch
  PROVE  IInv'
<1> USE DEF IInv, Dispatch, LoopAt, Goto
<1>1. PICK c \in batch : /\ queue' = Append(queue, c) /\ batch' = batch \ {c} /\ turn' = c
                         /\ handles' = [handles EXCEPT ![c] = @ + 3]
  OBVIOUS
<1>2. /\ c \in Conn /\ queue \in Seq(Conn) /\ c \in lst /\ turn = None /\ c # None
      /\ main = "dispatch" /\ main' = "turn"
      /\ UNCHANGED <<pool, tail, crossed, newcomer, lst, job, step, mutex, online, shut>>
  BY <1>1, ConnAssumption DEF TypeOK, list, users, Labelled
<1>3. /\ DOMAIN queue = 1 .. Len(queue) /\ Len(queue) \in Nat
      /\ DOMAIN queue' = 1 .. Len(queue) + 1
      /\ \A i \in 1 .. Len(queue) : queue'[i] = queue[i]
      /\ queue'[Len(queue) + 1] = c
  BY <1>1, <1>2
<1>4. Range(queue)' = Range(queue) \cup {c}
  BY <1>3 DEF Range
<1>5. /\ Listed' = Listed
      /\ \A d : /\ Using(d)' = Using(d) /\ Dealing(d)' = Dealing(d) /\ Full(d)' = Full(d)
                /\ Closed(d)' = Closed(d) /\ Entries(d)' = Entries(d)
  BY <1>2 DEF Listed, Using, Dealing, Full, Closed, Entries
<1>6. TypeOK'
  BY <1>1, <1>2 DEF TypeOK, LoopLabels, clients, list, users
<1>7. Labelled'
  BY <1>1, <1>2 DEF Labelled, PushesNow, clients
<1>8. Apart'
  <2>1. \A i, j \in DOMAIN queue' : queue'[i] = queue'[j] => i = j
    BY <1>3 DEF Apart, Range
  <2> QED
    BY <1>1, <1>2, <1>4, <1>5, <2>1 DEF Apart
<1>9. Crossing'
  BY <1>2, CrossingKept DEF PushesNow, Pushee
<1>10. \A d \in Conn : Copies(d)' = Copies(d) + (IF d = c THEN 3 ELSE 0)
  <2> TAKE d \in Conn
  <2>1. Cardinality(Entries(d)) \in Nat
    BY CountsBefore
  <2>2. d = c => d \notin lst \ batch /\ d \in lst' \ batch'
    BY <1>1, <1>2
  <2>3. d # c => (d \in lst \ batch <=> d \in lst' \ batch')
    BY <1>1, <1>2
  <2>4. CASE d = c
    <3>1. Copies(d) = Cardinality(Entries(d))
      BY <1>2, <2>1, <2>2, <2>4 DEF Copies, One
    <3>2. Copies(d)' = 1 + 2 + Cardinality(Entries(d))
      BY <1>1, <1>5, <2>1, <2>2, <2>4 DEF Copies, One
    <3> QED
      BY <2>1, <2>4, <3>1, <3>2
  <2>5. CASE d # c
    <3>1. One(d \in lst \ batch)' = One(d \in lst \ batch) /\ One(d = turn)' = One(d = turn)
      BY <1>1, <1>2, <2>3, <2>5, ConnAssumption DEF One
    <3>2. Copies(d) \in Nat
      BY CountsBefore
    <3> QED
      BY <1>5, <2>5, <3>1, <3>2 DEF Copies
  <2> QED
    BY <2>4, <2>5
<1>11. Counted' /\ Shutting'
  <2>1. \A d \in Conn : /\ OfPlace(d)' = OfPlace(d) /\ (Placed(d)' <=> Placed(d))
                        /\ Open(d)' = Open(d)
    <3> TAKE d \in Conn
    <3>1. handles'[d] = handles[d] + (IF d = c THEN 3 ELSE 0)
      BY <1>1 DEF TypeOK
    <3>2. /\ handles[d] \in Nat /\ Copies(d) \in Nat
          /\ Cardinality(Dealing(d)) \in Nat /\ Cardinality(Full(d)) \in Nat
      BY CountTypes
    <3>3. OfPlace(d)' = OfPlace(d)
      BY <1>5, <1>10, <3>1, <3>2 DEF OfPlace
    <3>4. Placed(d)' <=> Placed(d)
      BY <1>1, <1>2, <1>4, <1>5 DEF Placed
    <3>5. d = c => Open(d)
      <4>1. Placed(c)
        BY <1>1 DEF Placed
      <4> QED
        BY <1>2, <3>2, <4>1 DEF Counted, OfPlace, Open
    <3> QED
      BY <3>1, <3>2, <3>3, <3>4, <3>5 DEF Open
  <2>2. \A d \in Conn : d \in shut => Open(d)
    BY DEF Shutting
  <2> QED
    BY <1>2, <1>5, <1>6, <1>8, <2>1, <2>2, PlacesKept
<1> QED
  BY <1>6, <1>7, <1>8, <1>9, <1>11

(* The loop's copies go: two with the turn, one of each with the list.      *)
LEMMA EndTurnStep ==
  ASSUME IInv, EndTurn
  PROVE  IInv'
<1> USE DEF IInv, EndTurn, LoopAt, Goto
<1>1. PICK c \in Conn : c = turn
  BY DEF Labelled, TypeOK
<1>2. /\ c \in lst \ batch /\ turn' = None /\ c # None
      /\ main = "turn" /\ main' = "dispatch"
      /\ UNCHANGED <<pool, tail, crossed, newcomer, lst, batch, queue, job, step, mutex, online>>
  BY <1>1, ConnAssumption DEF Labelled, list, tasks
<1>3. \A d \in Conn : Copies(d) = Copies(d)' + (IF d = c THEN 2 ELSE 0)
                      /\ Copies(d) \in Nat /\ Copies(d)' \in Nat
  <2> TAKE d \in Conn
  <2>1. Cardinality(Entries(d)) \in Nat /\ Entries(d)' = Entries(d)
    BY <1>2, CountsBefore DEF Entries
  <2>2. d # None /\ (d \in lst \ batch)' = (d \in lst \ batch)
    BY <1>2, ConnAssumption
  <2>3. One(d \in lst \ batch)' = One(d \in lst \ batch) /\ One(d \in lst \ batch) \in Nat
    BY <2>2 DEF One
  <2>4. One(d = turn) = (IF d = c THEN 1 ELSE 0) /\ One(d = turn)' = 0
    BY <1>1, <1>2, <2>2 DEF One
  <2> QED
    BY <2>1, <2>3, <2>4 DEF Copies
<1>4. \A d \in Conn : /\ handles[d] \in Nat /\ handles[d] >= Copies(d)
                      /\ Cardinality(Dealing(d)) \in Nat /\ Cardinality(Full(d)) \in Nat
  BY CountTypes DEF Counted, OfPlace
<1> DEFINE left == [handles EXCEPT ![c] = @ - 2]
<1>5. left \in [Conn -> Nat] /\ \A d \in Conn : left[d] = handles[d] - (IF d = c THEN 2 ELSE 0)
  <2>1. Copies(c) >= 2 /\ Copies(c) \in Nat
    BY <1>3
  <2>2. handles \in [Conn -> Nat] /\ handles[c] - 2 \in Nat
    BY <1>4, <2>1 DEF TypeOK
  <2> QED
    BY <1>4, <2>2
<1>6. Release(left)
  BY <1>1 DEF Drop
<1>7. /\ handles' = left /\ handles' \in [Conn -> Nat]
      /\ peer' \in [Conn -> {"here", "gone", "none"}]
      /\ inbox' \in [Conn -> Nat]
      /\ shut' \subseteq Conn
      /\ \A d \in Conn : d \in shut' <=> d \in shut /\ Open(d)'
  BY <1>5, <1>6, ReleaseStep
<1>8. TypeOK'
  BY <1>2, <1>7 DEF TypeOK, LoopLabels, list, tasks
<1>9. Labelled'
  BY <1>1, <1>2, ConnAssumption DEF Labelled, PushesNow, TypeOK
<1>10. /\ Listed' = Listed /\ Range(queue)' = Range(queue)
       /\ \A d : /\ Using(d)' = Using(d) /\ Dealing(d)' = Dealing(d) /\ Full(d)' = Full(d)
                 /\ Closed(d)' = Closed(d) /\ (Placed(d)' <=> Placed(d))
  BY <1>2 DEF Listed, Using, Dealing, Full, Closed, Placed
<1>11. Apart'
  BY <1>2, <1>10 DEF Apart
<1>12. Crossing'
  BY <1>2, CrossingKept DEF PushesNow, Pushee
<1>13. \A d \in Conn : OfPlace(d)' = OfPlace(d) /\ (Open(d)' => Open(d))
  BY <1>3, <1>4, <1>5, <1>7, <1>10 DEF OfPlace, Open
<1>14. Counted' /\ Shutting'
  BY <1>2, <1>7, <1>8, <1>10, <1>11, <1>13, PlacesKept
<1> QED
  BY <1>8, <1>9, <1>11, <1>12, <1>14

LEMMA DispatchedStep ==
  ASSUME IInv, Dispatched
  PROVE  IInv'
<1> USE DEF IInv, Dispatched, LoopAt, Goto
<1>2. /\ batch = {} /\ turn = None /\ lst' = {}
      /\ main = "dispatch" /\ main' = "snapshot"
      /\ UNCHANGED <<pool, tail, crossed, newcomer, batch, turn, queue, job, step, mutex, online>>
  BY DEF Labelled, list, tasks
<1>3. \A d \in Conn : Copies(d) = Copies(d)' + One(d \in lst)
                      /\ Copies(d) \in Nat /\ Copies(d)' \in Nat
  <2> TAKE d \in Conn
  <2>1. Cardinality(Entries(d)) \in Nat /\ Entries(d)' = Entries(d)
    BY <1>2, CountsBefore DEF Entries
  <2>2. lst \ batch = lst /\ lst' \ batch' = {}
    BY <1>2
  <2> QED
    BY <1>2, <2>1, <2>2 DEF Copies, One
<1>4. \A d \in Conn : /\ handles[d] \in Nat /\ handles[d] >= Copies(d)
                      /\ Cardinality(Dealing(d)) \in Nat /\ Cardinality(Full(d)) \in Nat
  BY CountTypes DEF Counted, OfPlace
<1> DEFINE left == [c \in Conn |-> handles[c] - One(c \in lst)]
<1>5. left \in [Conn -> Nat] /\ \A d \in Conn : left[d] = handles[d] - One(d \in lst)
  BY <1>3, <1>4 DEF One
<1>6. Release(left)
  OBVIOUS
<1>7. /\ handles' = left /\ handles' \in [Conn -> Nat]
      /\ peer' \in [Conn -> {"here", "gone", "none"}]
      /\ inbox' \in [Conn -> Nat]
      /\ shut' \subseteq Conn
      /\ \A d \in Conn : d \in shut' <=> d \in shut /\ Open(d)'
  BY <1>5, <1>6, ReleaseStep
<1>8. TypeOK'
  BY <1>2, <1>7 DEF TypeOK, LoopLabels, list, tasks
<1>9. Labelled'
  BY <1>2 DEF Labelled, PushesNow
<1>10. /\ Listed' = Listed /\ Range(queue)' = Range(queue)
       /\ \A d : /\ Using(d)' = Using(d) /\ Dealing(d)' = Dealing(d) /\ Full(d)' = Full(d)
                 /\ Closed(d)' = Closed(d) /\ (Placed(d)' <=> Placed(d))
  BY <1>2 DEF Listed, Using, Dealing, Full, Closed, Placed
<1>11. Apart'
  BY <1>2, <1>10 DEF Apart
<1>12. Crossing'
  BY <1>2, CrossingKept DEF PushesNow, Pushee
<1>13. \A d \in Conn : OfPlace(d)' = OfPlace(d) /\ (Open(d)' => Open(d))
  BY <1>3, <1>4, <1>5, <1>7, <1>10 DEF OfPlace, Open, One
<1>14. Counted' /\ Shutting'
  BY <1>2, <1>7, <1>8, <1>10, <1>11, <1>13, PlacesKept
<1> QED
  BY <1>8, <1>9, <1>11, <1>12, <1>14

-----------------------------------------------------------------------------
(* Pushing to the list *)

(* Who begins finds the list as it is, and crosses with those who push.     *)
LEMMA CrossingBegins ==
  ASSUME Crossing, NEW t \in Thread, NEW c \in Conn, PushBegin(t, c), ~PushesNow(t),
         tail \in [Thread -> SUBSET Conn],
         PushesNow(t)', Pushee(t)' = c,
         \A s \in Thread \ {t} : (PushesNow(s)' <=> PushesNow(s)) /\ Pushee(s)' = Pushee(s),
         \A s \in Thread : PushesNow(s) => Pushee(s) \in Pushing
  PROVE  Crossing'
<1>1. /\ UNCHANGED pool /\ tail'[t] = pool
      /\ \A s \in Thread \ {t} : tail'[s] = tail[s]
      /\ crossed \subseteq crossed'
      /\ Pushing # {} => Pushing \subseteq crossed' /\ c \in crossed'
  BY DEF PushBegin
<1>2. ASSUME NEW s \in Thread \ {t}, PushesNow(s)
      PROVE  /\ pool \ tail[s] \subseteq crossed' /\ tail[s] \ pool \subseteq crossed'
             /\ Pushee(s) \in crossed' /\ c \in crossed'
  BY <1>1, <1>2 DEF Crossing
<1> SUFFICES ASSUME NEW s \in Thread, PushesNow(s)'
             PROVE  /\ pool' \ tail'[s] \subseteq crossed' /\ tail'[s] \ pool' \subseteq crossed'
                    /\ \A q \in Thread \ {s} :
                         PushesNow(q)' => /\ tail'[s] \ tail'[q] \subseteq crossed'
                                          /\ Pushee(q)' \in crossed'
  BY DEF Crossing
<1>3. CASE s = t
  BY <1>1, <1>2, <1>3
<1>4. CASE s # t
  <2>1. PushesNow(s) /\ tail'[s] = tail[s]
    BY <1>1, <1>4
  <2>2. ASSUME NEW q \in Thread \ {s}, PushesNow(q)'
        PROVE  tail'[s] \ tail'[q] \subseteq crossed' /\ Pushee(q)' \in crossed'
    <3>1. CASE q = t
      BY <1>1, <1>2, <1>4, <2>1, <3>1
    <3>2. CASE q # t
      BY <1>1, <2>1, <2>2, <3>2 DEF Crossing
    <3> QED
      BY <3>1, <3>2
  <2> QED
    BY <1>1, <1>2, <1>4, <2>1, <2>2
<1> QED
  BY <1>3, <1>4

(* Who ends puts back the list as it was found, with one connection more.   *)
LEMMA CrossingEnds ==
  ASSUME Crossing, NEW t \in Thread, PushEnd(t, Pushee(t)), PushesNow(t),
         tail \in [Thread -> SUBSET Conn],
         ~PushesNow(t)',
         \A s \in Thread \ {t} : (PushesNow(s)' <=> PushesNow(s)) /\ Pushee(s)' = Pushee(s)
  PROVE  Crossing'
<1>1. /\ pool' = tail[t] \cup {Pushee(t)} /\ UNCHANGED crossed
      /\ \A s \in Thread \ {t} : tail'[s] = tail[s]
  BY DEF PushEnd
<1> SUFFICES ASSUME NEW s \in Thread, PushesNow(s)'
             PROVE  /\ pool' \ tail'[s] \subseteq crossed' /\ tail'[s] \ pool' \subseteq crossed'
                    /\ \A q \in Thread \ {s} :
                         PushesNow(q)' => /\ tail'[s] \ tail'[q] \subseteq crossed'
                                          /\ Pushee(q)' \in crossed'
  BY DEF Crossing
<1>2. s # t /\ PushesNow(s) /\ tail'[s] = tail[s]
  BY <1>1
<1>3. tail[t] \ tail[s] \subseteq crossed /\ tail[s] \ tail[t] \subseteq crossed
      /\ Pushee(t) \in crossed
  BY <1>2 DEF Crossing
<1>4. ASSUME NEW q \in Thread \ {s}, PushesNow(q)'
      PROVE  tail'[s] \ tail'[q] \subseteq crossed' /\ Pushee(q)' \in crossed'
  BY <1>1, <1>2, <1>4 DEF Crossing
<1> QED
  BY <1>1, <1>2, <1>3, <1>4

LEMMA PushersArePushing ==
  ASSUME NEW s \in Thread, PushesNow(s)
  PROVE  Pushee(s) \in Pushing
BY ThreadAssumption DEF PushesNow, Pushee, Pushing, Thread

LEMMA PushingConnections ==
  ASSUME IInv
  PROVE  Pushing \subseteq Conn
<1>1. \A w \in Worker : step[w] = "pushed" => job[w] \in Conn
  BY DEF IInv, TypeOK, Labelled
<1>2. main = "pushed" => newcomer \in Conn
  BY DEF IInv, TypeOK, Labelled
<1> QED
  BY <1>1, <1>2 DEF Pushing

LEMMA PushNewStep ==
  ASSUME IInv, PushNew
  PROVE  IInv'
<1> USE DEF IInv, PushNew, LoopAt, Goto
<1>1. /\ PushBegin(Main, newcomer) /\ newcomer \in Conn /\ Main \in Thread
      /\ UNCHANGED <<handles, pool, newcomer, lst, batch, turn, queue, job, step, mutex>>
      /\ UNCHANGED <<online, shut>>
      /\ tail' = [tail EXCEPT ![Main] = pool]
  BY DEF PushBegin, Labelled, TypeOK, tasks, taken, users, Thread
<1>2. crossed \subseteq crossed' /\ crossed' \subseteq Conn
  BY <1>1, PushingConnections DEF PushBegin, TypeOK
<1>3. /\ Listed' = Listed /\ Range(queue)' = Range(queue)
      /\ \A c : /\ Using(c)' = Using(c) /\ Dealing(c)' = Dealing(c) /\ Full(c)' = Full(c)
                /\ Copies(c)' = Copies(c) /\ Open(c)' = Open(c) /\ Closed(c)' = Closed(c)
  <2>1. UNION {tail'[t] : t \in Thread} \subseteq Listed
    BY <1>1 DEF Listed, TypeOK
  <2>2. tail[Main] = {}
    BY <1>1 DEF Labelled, PushesNow
  <2>3. \A t \in Thread : tail[t] \subseteq tail'[t]
    BY <1>1, <2>2 DEF TypeOK
  <2>4. Listed' = Listed
    BY <1>1, <2>1, <2>3 DEF Listed
  <2> QED
    BY <1>1, <2>4 DEF Using, Dealing, Full, Copies, Entries, Open, Closed
<1>4. TypeOK'
  BY <1>1, <1>2 DEF TypeOK, LoopLabels, clients, tasks
<1>5. Labelled'
  BY <1>1, ThreadAssumption DEF Labelled, PushesNow, clients, TypeOK, Thread
<1>6. Apart'
  BY <1>1, <1>3 DEF Apart
<1>7. Crossing'
  <2>1. \A s \in Thread \ {Main} : (PushesNow(s)' <=> PushesNow(s)) /\ Pushee(s)' = Pushee(s)
    BY <1>1 DEF PushesNow, Pushee
  <2>2. ~PushesNow(Main) /\ PushesNow(Main)' /\ Pushee(Main)' = newcomer
    BY <1>1 DEF PushesNow, Pushee
  <2>3. tail \in [Thread -> SUBSET Conn]
    BY DEF TypeOK
  <2> QED
    BY <1>1, <2>1, <2>2, <2>3, PushersArePushing, CrossingBegins
<1>8. Counted' /\ Shutting'
  <2>1. \A c \in Conn : OfPlace(c)' = OfPlace(c) /\ (Placed(c)' <=> Placed(c))
    BY <1>1, <1>3 DEF OfPlace, Placed
  <2>2. \A c \in Conn : c \in shut => Open(c)
    BY DEF Shutting
  <2> QED
    BY <1>1, <1>2, <1>3, <1>4, <1>6, <2>1, <2>2, PlacesKept
<1> QED
  BY <1>4, <1>5, <1>6, <1>7, <1>8

(* What the end of a push does to the list: it loses crossed connections    *)
(* only, and gets back only what was listed.                                *)
LEMMA ListAfterPush ==
  ASSUME IInv, NEW t \in Thread, PushesNow(t), PushEnd(t, Pushee(t))
  PROVE  /\ Pushee(t) \in pool' /\ pool' \subseteq Conn
         /\ Listed' \subseteq Listed \cup {Pushee(t)}
         /\ pool \ pool' \subseteq crossed
         /\ Pushee(t) \in Conn
<1>1. Pushee(t) \in Conn
  BY ThreadAssumption DEF IInv, TypeOK, Labelled, PushesNow, Pushee, Thread
<1>2. /\ pool' = tail[t] \cup {Pushee(t)} /\ tail[t] \subseteq Conn
      /\ \A s \in Thread : tail'[s] \subseteq tail[s]
  BY DEF PushEnd, IInv, TypeOK
<1>3. Listed' \subseteq Listed \cup {Pushee(t)}
  BY <1>2 DEF Listed
<1>4. pool \ pool' \subseteq crossed
  BY <1>2 DEF IInv, Crossing
<1> QED
  BY <1>1, <1>2, <1>3, <1>4

LEMMA PushedNewStep ==
  ASSUME IInv, PushedNew
  PROVE  IInv'
<1> USE DEF IInv, PushedNew, LoopAt, Goto
<1>1. /\ Main \in Thread /\ PushesNow(Main) /\ Pushee(Main) = newcomer
      /\ newcomer' = None /\ ~PushesNow(Main)'
      /\ PushEnd(Main, newcomer) /\ tail' = [tail EXCEPT ![Main] = {}]
      /\ UNCHANGED <<handles, crossed, lst, batch, turn, queue, job, step, mutex>>
      /\ UNCHANGED <<online, shut>>
  BY DEF PushesNow, Pushee, PushEnd, tasks, taken, users, Thread
<1>2. /\ newcomer \in pool' /\ pool' \subseteq Conn /\ newcomer \in Conn
      /\ Listed' \subseteq Listed \cup {newcomer} /\ pool \ pool' \subseteq crossed
  BY <1>1, ListAfterPush
<1>3. /\ Range(queue)' = Range(queue)
      /\ \A c : /\ Using(c)' = Using(c) /\ Dealing(c)' = Dealing(c) /\ Full(c)' = Full(c)
                /\ Copies(c)' = Copies(c) /\ Open(c)' = Open(c) /\ Closed(c)' = Closed(c)
  BY <1>1 DEF Using, Dealing, Full, Copies, Entries, Open, Closed
<1>4. TypeOK'
  BY <1>1, <1>2 DEF TypeOK, LoopLabels, clients, tasks
<1>5. Labelled'
  BY <1>1, ThreadAssumption DEF Labelled, PushesNow, clients, TypeOK, Thread
<1>6. Apart'
  <2>1. None \notin Listed' \cup batch \cup Range(queue)
    <3>1. Listed \subseteq Conn /\ Range(queue) \subseteq Conn /\ batch \subseteq Conn
      BY DEF TypeOK, Listed, Range
    <3> QED
      BY <1>2, <3>1, ConnAssumption
  <2> QED
    BY <1>1, <1>2, <1>3, <2>1, ConnAssumption DEF Apart
<1>7. Crossing'
  <2>1. \A s \in Thread \ {Main} : (PushesNow(s)' <=> PushesNow(s)) /\ Pushee(s)' = Pushee(s)
    BY <1>1 DEF PushesNow, Pushee
  <2>2. tail \in [Thread -> SUBSET Conn]
    BY DEF TypeOK
  <2> QED
    BY <1>1, <2>1, <2>2, CrossingEnds
<1>8. Counted' /\ Shutting'
  <2>1. \A c \in Conn : OfPlace(c)' = OfPlace(c)
    BY <1>1, <1>3 DEF OfPlace
  <2>2. ASSUME NEW c \in Conn
        PROVE  /\ Placed(c)' \/ c \in Listed' => Placed(c) \/ c \in Listed
               /\ Placed(c) => Placed(c)' \/ c \in crossed'
    <3>1. pool' \subseteq Listed'
      BY DEF Listed
    <3>2. c # None
      BY ConnAssumption
    <3> QED
      BY <1>1, <1>2, <1>3, <3>1, <3>2 DEF Placed
  <2>3. \A c \in Conn : c \in shut => Open(c)
    BY DEF Shutting
  <2> QED
    BY <1>1, <1>3, <1>4, <1>6, <2>1, <2>2, <2>3, PlacesKept
<1> QED
  BY <1>4, <1>5, <1>6, <1>7, <1>8

-----------------------------------------------------------------------------
(* Steps of a task *)

(* A worker takes the first task of the queue; network has a handle too.    *)
(* The handle that network takes counts for the task.                       *)
LEMMA StartCounts ==
  ASSUME TypeOK, NEW c \in Conn, handles'[c] = handles[c] + 1,
         Cardinality(Dealing(c)') = Cardinality(Dealing(c)) + 1,
         Full(c)' = Full(c), Copies(c)' = Copies(c)
  PROVE  OfPlace(c)' = OfPlace(c)
<1>1. OfPlace(c)' = handles'[c] - Cardinality(Dealing(c)') - 2 * Cardinality(Full(c)') - Copies(c)'
  BY DEF OfPlace
<1>2. OfPlace(c)' = (handles[c] + 1) - (Cardinality(Dealing(c)) + 1) - 2 * Cardinality(Full(c)) - Copies(c)
  BY <1>1
<1>3. OfPlace(c) = handles[c] - Cardinality(Dealing(c)) - 2 * Cardinality(Full(c)) - Copies(c)
  BY DEF OfPlace
<1> QED
  BY <1>2, <1>3, CountTypes

LEMMA StartStep ==
  ASSUME IInv, NEW w \in Worker, Start(w)
  PROVE  IInv'
<1> USE DEF IInv, Start, TaskAt, Step
<1>0. PICK c \in Conn : c = Head(queue)
  BY DEF TypeOK
<1>1. /\ UNCHANGED <<pool, tail, crossed, newcomer, lst, batch, turn, main, mutex, online, shut>>
      /\ queue \in Seq(Conn) /\ queue # <<>> /\ queue' = Tail(queue)
      /\ step' = [step EXCEPT ![w] = "recv"] /\ job' = [job EXCEPT ![w] = c]
      /\ handles' = [handles EXCEPT ![c] = @ + 1]
      /\ step[w] = "idle" /\ job[w] = None
  BY <1>0 DEF loop, taken, list, users, TypeOK, Labelled
<1>2. /\ DOMAIN queue = 1 .. Len(queue) /\ Len(queue) \in Nat \ {0}
      /\ c = queue[1] /\ c \in Conn /\ Tail(queue) \in Seq(Conn)
      /\ DOMAIN queue' = 1 .. Len(queue) - 1
      /\ \A i \in 1 .. Len(queue) - 1 : queue'[i] = queue[i + 1]
  BY <1>0, <1>1
<1>3. c \notin Range(queue)' /\ Range(queue) = Range(queue)' \cup {c}
  <2>1. ASSUME NEW i \in DOMAIN queue' PROVE queue'[i] \in Range(queue) /\ queue'[i] # c
    <3>1. i + 1 \in DOMAIN queue /\ i + 1 # 1 /\ queue'[i] = queue[i + 1] /\ 1 \in DOMAIN queue
      BY <1>2
    <3> QED
      BY <1>2, <3>1 DEF Range, Apart
  <2>2. ASSUME NEW i \in DOMAIN queue, i # 1 PROVE queue[i] \in Range(queue)'
    <3>1. i - 1 \in DOMAIN queue' /\ queue'[i - 1] = queue[i]
      BY <1>2, <2>2
    <3> QED
      BY <3>1 DEF Range
  <2>3. c \in Range(queue)
    BY <1>2 DEF Range
  <2>4. \A d \in Range(queue)' : d \in Range(queue) /\ d # c
    BY <2>1 DEF Range
  <2>5. \A d \in Range(queue) : d \in Range(queue)' \/ d = c
    BY <1>2, <2>2 DEF Range
  <2> QED
    BY <2>3, <2>4, <2>5
<1>4. c # None /\ w \notin Using(c)
  BY <1>1, <1>2, ConnAssumption DEF Using
<1>5. \A d \in Conn : /\ Using(d)' = IF d = c THEN Using(d) \cup {w} ELSE Using(d)
                      /\ Dealing(d)' = IF d = c THEN Dealing(d) \cup {w} ELSE Dealing(d)
                      /\ Full(d)' = Full(d) /\ Copies(d)' = Copies(d)
                      /\ Closed(d)' = Closed(d)
  BY <1>1, <1>2, ConnAssumption
     DEF Using, Dealing, Full, Copies, Entries, Closed, TypeOK
<1>6. Using(c) = {} /\ c \notin Listed \cup batch /\ c # newcomer
  BY <1>2, <1>3 DEF Apart
<1>7. Listed' = Listed
  BY <1>1 DEF Listed
<1>8. TypeOK'
  <2>1. handles' \in [Conn -> Nat]
    BY <1>1, <1>2 DEF TypeOK
  <2> QED
    BY <1>1, <1>2, <2>1 DEF TypeOK, TaskLabels, clients, loop, taken, list, users
<1>9. Labelled'
  BY <1>1, <1>2, <1>4, ThreadAssumption
     DEF Labelled, PushesNow, TypeOK, Thread, clients, loop, taken
<1>10. Apart'
  <2>1. \A i, j \in DOMAIN queue' : queue'[i] = queue'[j] => i = j
    <3>1. \A i \in DOMAIN queue' : i + 1 \in DOMAIN queue /\ queue'[i] = queue[i + 1] /\ i \in Nat
      BY <1>2
    <3> QED
      BY <3>1 DEF Apart
  <2> QED
    BY <1>1, <1>2, <1>3, <1>5, <1>6, <1>7, <2>1 DEF Apart
<1>11. Crossing'
  BY <1>1, CrossingKept DEF PushesNow, Pushee, TypeOK, Thread
<1>12. Counted' /\ Shutting'
  <2>1. \A d \in Conn : Placed(d)' <=> Placed(d)
    BY <1>1, <1>3, <1>5 DEF Placed
  <2>2. OfPlace(c)' = OfPlace(c)
    <3>1. w \notin Dealing(c)
      BY <1>1 DEF Dealing
    <3>2. Dealing(c)' = Dealing(c) \cup {w} /\ Dealing(c) \in SUBSET Worker
      BY <1>5, CountTypes
    <3>3. Cardinality(Dealing(c)') = Cardinality(Dealing(c)) + 1
      BY <3>1, <3>2, OneMore
    <3>4. handles'[c] = handles[c] + 1
      BY <1>1, <1>2 DEF TypeOK
    <3>5. Full(c)' = Full(c) /\ Copies(c)' = Copies(c)
      BY <1>5
    <3> QED
      BY <3>3, <3>4, <3>5, StartCounts
  <2>3. \A d \in Conn : d # c => OfPlace(d)' = OfPlace(d) /\ Open(d)' = Open(d)
    BY <1>1, <1>5 DEF OfPlace, Open, TypeOK
  <2>4. Open(c)
    <3>1. Placed(c)
      BY <1>3 DEF Placed
    <3>2. OfPlace(c) = 1
      BY <1>2, <3>1 DEF Counted
    <3> QED
      BY <1>2, <3>2, CountTypes DEF OfPlace, Open
  <2>5. Open(c)'
    BY <1>1, <1>2, <2>4 DEF TypeOK, Open
  <2>6. \A d \in Conn : d \in shut => Open(d)
    BY DEF Shutting
  <2> QED
    BY <1>1, <1>5, <1>7, <1>8, <1>10, <2>1, <2>2, <2>3, <2>4, <2>5, <2>6, PlacesKept
<1> QED
  BY <1>8, <1>9, <1>10, <1>11, <1>12

LEMMA RecvStep ==
  ASSUME IInv, NEW w \in Worker, Recv(w)
  PROVE  IInv'
<1> USE DEF IInv, Recv, TaskAt, Step
<1> DEFINE c == job[w]
<1>1. /\ UNCHANGED <<handles, pool, tail, crossed, newcomer, lst, batch, turn, queue, job, main>>
      /\ UNCHANGED <<mutex, online, shut>>
      /\ step[w] = "recv" /\ c \in Conn /\ step' = [step EXCEPT ![w] = "deal"]
  BY DEF loop, taken, list, users, TypeOK, Labelled
<1>2. \A d \in Conn : /\ Using(d)' = Using(d) /\ Full(d)' = Full(d)
                      /\ Dealing(d)' = Dealing(d) /\ Copies(d)' = Copies(d)
                      /\ Closed(d)' = Closed(d) /\ Open(d)' = Open(d)
  BY <1>1 DEF Using, Dealing, Full, Copies, Entries, Closed, Open, TypeOK
<1>3. Listed' = Listed /\ Range(queue)' = Range(queue)
  BY <1>1 DEF Listed
<1>4. TypeOK'
  <2>1. inbox[c] \in Nat /\ inbox[c] > 0 /\ inbox' = [inbox EXCEPT ![c] = @ - 1]
    BY <1>1 DEF TypeOK
  <2>2. inbox' \in [Conn -> Nat] /\ step' \in [Worker -> TaskLabels]
    BY <1>1, <2>1 DEF TypeOK, TaskLabels
  <2> QED
    BY <1>1, <2>2 DEF TypeOK, loop
<1>5. Labelled'
  BY <1>1, ThreadAssumption DEF Labelled, PushesNow, TypeOK, Thread, loop
<1>6. Apart'
  BY <1>1, <1>2, <1>3 DEF Apart
<1>7. Crossing'
  BY <1>1, CrossingKept DEF PushesNow, Pushee, TypeOK, Thread
<1>8. Counted' /\ Shutting'
  <2>1. \A d \in Conn : OfPlace(d)' = OfPlace(d) /\ (Placed(d)' <=> Placed(d))
    BY <1>1, <1>2, <1>3 DEF OfPlace, Placed
  <2>2. \A d \in Conn : d \in shut => Open(d)
    BY DEF Shutting
  <2> QED
    BY <1>1, <1>2, <1>3, <1>4, <1>6, <2>1, <2>2, PlacesKept
<1> QED
  BY <1>4, <1>5, <1>6, <1>7, <1>8

(* The exception drops network; the place and its handle stay.              *)
LEMMA FailsStep ==
  ASSUME IInv, NEW w \in Worker, RecvFails(w) \/ DealFails(w)
  PROVE  IInv'
<1> USE DEF IInv, Step
<1>1. PICK c \in Conn : c = job[w]
  BY HandlesAtLeast DEF RecvFails, DealFails, TaskAt
<1> DEFINE left == [handles EXCEPT ![c] = @ - 1]
<1>2. /\ step[w] \in {"recv", "deal"} /\ handles[c] >= 2
      /\ step' = [step EXCEPT ![w] = "close"]
      /\ UNCHANGED <<pool, tail, crossed, newcomer, lst, batch, turn, queue, job, main>>
      /\ UNCHANGED <<mutex, online>>
      /\ Release(left)
  <2>1. step[w] \in {"recv", "deal"}
    BY DEF RecvFails, DealFails, TaskAt
  <2>2. handles[c] >= 2
    BY <1>1, <2>1, HandlesAtLeast, CountTypes
  <2> QED
    BY <1>1, <2>1, <2>2 DEF RecvFails, DealFails, Fails, Drop, loop, taken, list
<1>3. /\ left \in [Conn -> Nat] /\ left[c] = handles[c] - 1 /\ left[c] > 0
      /\ \A d \in Conn \ {c} : left[d] = handles[d]
  BY <1>2 DEF TypeOK
<1>4. /\ handles' = left /\ handles' \in [Conn -> Nat]
      /\ peer' \in [Conn -> {"here", "gone", "none"}]
      /\ inbox' \in [Conn -> Nat]
      /\ shut' \subseteq Conn
      /\ \A d \in Conn : d \in shut' <=> d \in shut /\ Open(d)'
  BY <1>2, <1>3, ReleaseStep
<1>5. \A d \in Conn : Open(d)' <=> Open(d)
  <2>1. Open(c) /\ Open(c)'
    <3>1. handles[c] > 0 /\ handles'[c] > 0
      BY <1>2, <1>3, <1>4 DEF TypeOK
    <3> QED
      BY <3>1 DEF Open
  <2>2. \A d \in Conn \ {c} : Open(d)' <=> Open(d)
    BY <1>3, <1>4 DEF Open
  <2> QED
    BY <2>1, <2>2
<1>6. \A d \in Conn : /\ Using(d)' = Using(d) /\ Full(d)' = Full(d)
                      /\ Dealing(d)' = Dealing(d) \ {w} /\ (d # c => Dealing(d)' = Dealing(d))
                      /\ Copies(d)' = Copies(d) /\ Closed(d)' = Closed(d)
  BY <1>1, <1>2 DEF Using, Dealing, Full, Copies, Entries, Closed, TypeOK
<1>7. Listed' = Listed /\ Range(queue)' = Range(queue)
  BY <1>2 DEF Listed
<1>8. UNCHANGED <<knocks, pipe, sets, knocked, is_close>>
  BY DEF RecvFails, DealFails, Fails, loop
<1>9. TypeOK'
  <2>1. step' \in [Worker -> TaskLabels]
    BY <1>2 DEF TypeOK, TaskLabels
  <2> QED
    BY <1>2, <1>4, <1>8, <2>1 DEF TypeOK
<1>10. Labelled'
  BY <1>1, <1>2, <1>8, ThreadAssumption DEF Labelled, PushesNow, TypeOK, Thread
<1>11. Apart'
  BY <1>2, <1>6, <1>7 DEF Apart
<1>12. Crossing'
  BY <1>2, CrossingKept DEF PushesNow, Pushee, TypeOK, Thread
<1>13. Counted' /\ Shutting'
  <2>1. \A d \in Conn : Placed(d)' <=> Placed(d)
    BY <1>2, <1>6, <1>7 DEF Placed
  <2>2. Cardinality(Dealing(c)') = Cardinality(Dealing(c)) - 1
    <3>1. w \in Dealing(c)
      BY <1>1, <1>2 DEF Dealing
    <3> QED
      BY <1>6, <3>1, CountTypes, OneLess
  <2>3. OfPlace(c)' = OfPlace(c)
    BY <1>3, <1>4, <1>6, <2>2, CountTypes DEF OfPlace
  <2>4. \A d \in Conn : d # c => OfPlace(d)' = OfPlace(d)
    BY <1>3, <1>4, <1>6 DEF OfPlace
  <2> QED
    BY <1>2, <1>4, <1>5, <1>6, <1>7, <1>9, <1>11, <2>1, <2>3, <2>4, PlacesKept
<1> QED
  BY <1>9, <1>10, <1>11, <1>12, <1>13

-----------------------------------------------------------------------------
(* The entries of the users *)

(* A new entry counts for its connection, and the old one does no more.     *)
LEMMA EntryCounts ==
  ASSUME TypeOK, NEW u \in Uid, NEW c \in Conn \cup {None},
         SetEntry(u, c), NEW d \in Conn
  PROVE  Cardinality(Entries(d)') = Cardinality(Entries(d)) + One(d = c) - One(d = online[u])
<1>1. /\ Entries(d) \in SUBSET Uid /\ Entries(d) \cup {u} \in SUBSET Uid
      /\ Cardinality(Entries(d)) \in Nat /\ IsFiniteSet(Entries(d))
  BY EntriesFinite DEF Entries
<1>2. /\ u \in Entries(d) <=> d = online[u]
      /\ Entries(d)' = IF d = c THEN Entries(d) \cup {u} ELSE Entries(d) \ {u}
  BY DEF Entries, TypeOK, SetEntry
<1>3. u \notin Entries(d) => Cardinality(Entries(d) \cup {u}) = Cardinality(Entries(d)) + 1
  BY <1>1, FS_AddElement
<1>4. u \in Entries(d) => Cardinality(Entries(d) \ {u}) = Cardinality(Entries(d)) - 1
  BY <1>1, FS_RemoveElement
<1>5. u \in Entries(d) => Entries(d) \cup {u} = Entries(d)
  OBVIOUS
<1>6. u \notin Entries(d) => Entries(d) \ {u} = Entries(d)
  OBVIOUS
<1>7. CASE d = c
  <2>1. Entries(d)' = Entries(d) \cup {u} /\ One(d = c) = 1
    BY <1>2, <1>7 DEF One
  <2>2. CASE u \in Entries(d)
    <3>1. One(d = online[u]) = 1 /\ Entries(d)' = Entries(d)
      BY <1>2, <1>5, <2>1, <2>2 DEF One
    <3>2. Cardinality(Entries(d)') = Cardinality(Entries(d))
      BY <3>1
    <3> QED
      BY <1>1, <2>1, <3>1, <3>2
  <2>3. CASE u \notin Entries(d)
    <3>1. One(d = online[u]) = 0
      BY <1>2, <2>3 DEF One
    <3> QED
      BY <1>1, <1>3, <2>1, <2>3, <3>1
  <2> QED
    BY <2>2, <2>3
<1>8. CASE d # c
  <2>1. Entries(d)' = Entries(d) \ {u} /\ One(d = c) = 0
    BY <1>2, <1>8 DEF One
  <2>2. CASE u \in Entries(d)
    <3>1. One(d = online[u]) = 1
      BY <1>2, <2>2 DEF One
    <3> QED
      BY <1>1, <1>4, <2>1, <2>2, <3>1
  <2>3. CASE u \notin Entries(d)
    <3>1. One(d = online[u]) = 0 /\ Entries(d)' = Entries(d)
      BY <1>2, <1>6, <2>1, <2>3 DEF One
    <3> QED
      BY <1>1, <2>1, <3>1
  <2> QED
    BY <2>2, <2>3
<1> QED
  BY <1>7, <1>8

(* Setting an entry keeps the handles of every place.                       *)
LEMMA SetEntryStep ==
  ASSUME IInv, NEW u \in Uid, NEW c \in Conn \cup {None}, SetEntry(u, c),
         c \in Conn => Open(c),
         UNCHANGED <<pool, tail, crossed, newcomer, lst, batch, turn, queue, job>>,
         UNCHANGED <<knocks, pipe, mutex, main, sets, knocked, is_close>>,
         \/ UNCHANGED step
         \/ \E w \in Worker : step[w] = "deal" /\ step' = [step EXCEPT ![w] = "dealt"]
  PROVE  IInv'
<1> USE DEF IInv
<1> DEFINE left == [d \in Conn |-> handles[d] + One(d = c) - One(d = online[u])]
<1>1. online' = [online EXCEPT ![u] = c] /\ Release(left)
  BY DEF SetEntry
<1>2. \A d \in Conn : /\ Using(d)' = Using(d) /\ Full(d)' = Full(d)
                      /\ Dealing(d)' = Dealing(d) /\ Closed(d)' = Closed(d)
  BY DEF Using, Dealing, Full, Closed, TypeOK
<1>3. \A d \in Conn : /\ Copies(d)' = Copies(d) + One(d = c) - One(d = online[u])
                      /\ Copies(d) >= One(d = online[u])
                      /\ Copies(d) \in Nat /\ Copies(d)' \in Nat
  <2> TAKE d \in Conn
  <2>1. Cardinality(Entries(d)') = Cardinality(Entries(d)) + One(d = c) - One(d = online[u])
    BY EntryCounts
  <2>2. Cardinality(Entries(d)) \in Nat /\ Cardinality(Entries(d)) >= One(d = online[u])
    <3>1. d = online[u] => u \in Entries(d)
      BY DEF Entries
    <3>2. Entries(d) \in SUBSET Uid /\ IsFiniteSet(Entries(d)) /\ Cardinality(Entries(d)) \in Nat
      BY EntriesFinite DEF Entries
    <3>3. u \in Entries(d) => Cardinality(Entries(d)) # 0
      BY <3>2, FS_EmptySet
    <3> QED
      BY <3>1, <3>2, <3>3 DEF One
  <2>3. /\ One(d \in lst \ batch)' = One(d \in lst \ batch) /\ One(d = turn)' = One(d = turn)
        /\ One(d \in lst \ batch) \in Nat /\ One(d = turn) \in Nat
        /\ One(d = c) \in Nat /\ One(d = online[u]) \in Nat
    BY DEF One
  <2>4. Copies(d) = One(d \in lst \ batch) + 2 * One(d = turn) + Cardinality(Entries(d))
    BY DEF Copies
  <2>5. Copies(d)' = One(d \in lst \ batch) + 2 * One(d = turn) + Cardinality(Entries(d)')
    BY <2>3 DEF Copies
  <2>6. Copies(d)' \in Nat /\ Copies(d) \in Nat
    BY CountsAfter, CountTypes
  <2>7. Copies(d)' = Copies(d) + One(d = c) - One(d = online[u])
    BY <2>1, <2>2, <2>3, <2>4, <2>5
  <2>8. Copies(d) >= One(d = online[u])
    BY <2>2, <2>3, <2>4
  <2> QED
    BY <2>6, <2>7, <2>8
<1>4. \A d \in Conn : /\ handles[d] \in Nat /\ handles[d] >= Copies(d)
                      /\ Cardinality(Dealing(d)) \in Nat /\ Cardinality(Full(d)) \in Nat
  BY CountTypes DEF Counted, OfPlace
<1>5. left \in [Conn -> Nat]
  BY <1>3, <1>4 DEF One
<1>6. /\ handles' = left /\ handles' \in [Conn -> Nat]
      /\ peer' \in [Conn -> {"here", "gone", "none"}]
      /\ inbox' \in [Conn -> Nat]
      /\ shut' \subseteq Conn
      /\ \A d \in Conn : d \in shut' <=> d \in shut /\ Open(d)'
  BY <1>1, <1>5, ReleaseStep
<1>7. TypeOK'
  <2>1. step' \in [Worker -> TaskLabels]
    BY DEF TypeOK, TaskLabels
  <2>2. online' \in [Uid -> Conn \cup {None}]
    BY <1>1 DEF TypeOK
  <2> QED
    BY <1>6, <2>1, <2>2 DEF TypeOK
<1>8. Labelled'
  BY ThreadAssumption DEF Labelled, PushesNow, TypeOK, Thread
<1>9. Listed' = Listed /\ Range(queue)' = Range(queue)
  BY DEF Listed
<1>10. Apart'
  BY <1>2, <1>9 DEF Apart
<1>11. Crossing'
  BY CrossingKept DEF PushesNow, Pushee, TypeOK, Thread
<1>12. \A d \in Conn : Placed(d)' <=> Placed(d)
  BY <1>2, <1>9 DEF Placed
<1>13. \A d \in Conn : handles'[d] = handles[d] + One(d = c) - One(d = online[u])
  BY <1>6
<1>14. \A d \in Conn : OfPlace(d)' = OfPlace(d)
  <2> TAKE d \in Conn
  <2>1. OfPlace(d) = handles[d] - Cardinality(Dealing(d)) - 2 * Cardinality(Full(d)) - Copies(d)
    BY DEF OfPlace
  <2>2. OfPlace(d)' = handles'[d] - Cardinality(Dealing(d)) - 2 * Cardinality(Full(d)) - Copies(d)'
    BY <1>2 DEF OfPlace
  <2>3. One(d = c) \in Nat /\ One(d = online[u]) \in Nat
    BY DEF One
  <2> QED
    BY <1>3, <1>4, <1>13, <2>1, <2>2, <2>3
<1>15. \A d \in Conn : Open(d)' => Open(d)
  <2> TAKE d \in Conn
  <2>1. CASE d = c
    BY <2>1
  <2>2. CASE d # c
    BY <1>4, <1>13, <2>2 DEF Open, One
  <2> QED
    BY <2>1, <2>2
<1>16. Counted' /\ Shutting'
  BY <1>2, <1>6, <1>7, <1>9, <1>10, <1>12, <1>14, <1>15, PlacesKept
<1> QED
  BY <1>7, <1>8, <1>10, <1>11, <1>16

LEMMA DealsStep ==
  ASSUME IInv, NEW w \in Worker, NEW u \in Uid, SignIn(w, u) \/ SignOff(w, u)
  PROVE  IInv'
<1>1. /\ step[w] = "deal" /\ step' = [step EXCEPT ![w] = "dealt"]
      /\ SetEntry(u, job[w]) \/ SetEntry(u, None)
      /\ UNCHANGED <<pool, tail, crossed, newcomer, lst, batch, turn, queue, job>>
      /\ UNCHANGED <<knocks, pipe, mutex, main, sets, knocked, is_close>>
  BY DEF SignIn, SignOff, TaskAt, Step, loop, taken, list
<1>2. job[w] \in Conn /\ handles[job[w]] >= 2
  BY <1>1, HandlesAtLeast, CountTypes DEF IInv
<1>3. Open(job[w])
  BY <1>2, CountTypes DEF Open, IInv
<1> QED
  BY <1>1, <1>2, <1>3, ConnAssumption, SetEntryStep

LEMMA EvictStep ==
  ASSUME IInv, NEW u \in Uid, Evict(u)
  PROVE  IInv'
BY ConnAssumption, SetEntryStep DEF Evict, loop, taken, tasks, list

-----------------------------------------------------------------------------
(* The end of a task *)

(* It gets the mutex to put the connection back.                            *)
LEMMA AddStep ==
  ASSUME IInv, NEW w \in Worker, Add(w)
  PROVE  IInv'
<1> USE DEF IInv, Add, TaskAt, Step
<1> DEFINE c == job[w]
<1>1. /\ UNCHANGED <<pool, newcomer, lst, batch, turn, queue, job, main, online, shut>>
      /\ step[w] \in {"deal", "dealt"} /\ c \in Conn /\ w \in Thread /\ w # Main
      /\ step' = [step EXCEPT ![w] = "pushed"]
      /\ handles' = [handles EXCEPT ![c] = @ + 1]
      /\ PushBegin(w, c) /\ tail' = [tail EXCEPT ![w] = pool]
      /\ mutex = Nobody /\ mutex' = w
  BY ThreadAssumption DEF PushBegin, loop, taken, users, TypeOK, Labelled, Thread
<1>2. crossed \subseteq crossed' /\ crossed' \subseteq Conn
  BY <1>1, PushingConnections DEF PushBegin, TypeOK
<1>3. /\ Listed' = Listed /\ Range(queue)' = Range(queue)
      /\ \A d \in Conn : /\ Using(d)' = Using(d) /\ Copies(d)' = Copies(d)
                         /\ Closed(d)' = Closed(d)
  <2>1. UNION {tail'[t] : t \in Thread} \subseteq Listed
    BY <1>1 DEF Listed, TypeOK
  <2>2. tail[w] = {}
    BY <1>1 DEF Labelled, PushesNow
  <2>3. \A t \in Thread : tail[t] \subseteq tail'[t]
    BY <1>1, <2>2 DEF TypeOK
  <2>4. Listed' = Listed
    BY <1>1, <2>1, <2>3 DEF Listed
  <2> QED
    BY <1>1, <2>4 DEF Using, Copies, Entries, Closed, TypeOK
<1>4. TypeOK'
  <2>1. handles' \in [Conn -> Nat]
    BY <1>1 DEF TypeOK
  <2> QED
    BY <1>1, <1>2, <2>1 DEF TypeOK, TaskLabels, clients, loop
<1>5. Labelled'
  BY <1>1, ThreadAssumption DEF Labelled, PushesNow, clients, loop, TypeOK, Thread
<1>6. Apart'
  BY <1>1, <1>3 DEF Apart
<1>7. Crossing'
  <2>1. \A s \in Thread \ {w} : (PushesNow(s)' <=> PushesNow(s)) /\ Pushee(s)' = Pushee(s)
    BY <1>1 DEF PushesNow, Pushee, Thread, TypeOK
  <2>2. ~PushesNow(w) /\ PushesNow(w)' /\ Pushee(w)' = c
    BY <1>1 DEF PushesNow, Pushee, TypeOK
  <2>3. tail \in [Thread -> SUBSET Conn]
    BY DEF TypeOK
  <2> QED
    BY <1>1, <2>1, <2>2, <2>3, PushersArePushing, CrossingBegins
<1>8. Counted' /\ Shutting'
  <2>1. \A d \in Conn : Placed(d)' <=> Placed(d)
    BY <1>1, <1>3 DEF Placed
  <2>2. /\ Dealing(c)' = Dealing(c) \ {w} /\ w \in Dealing(c)
        /\ Full(c)' = Full(c) \cup {w} /\ w \notin Full(c)
    BY <1>1 DEF Dealing, Full, TypeOK
  <2>3. /\ Cardinality(Dealing(c)') = Cardinality(Dealing(c)) - 1
        /\ Cardinality(Full(c)') = Cardinality(Full(c)) + 1
    BY <1>1, <2>2, CountTypes, OneMore, OneLess
  <2>4. handles'[c] = handles[c] + 1
    BY <1>1 DEF TypeOK
  <2>5. OfPlace(c)' = OfPlace(c)
    BY <1>1, <1>3, <2>3, <2>4, CountTypes DEF OfPlace
  <2>6. \A d \in Conn : d # c => OfPlace(d)' = OfPlace(d) /\ Open(d)' = Open(d)
    <3>1. \A d \in Conn : d # c => Dealing(d)' = Dealing(d) /\ Full(d)' = Full(d)
                                   /\ handles'[d] = handles[d]
      BY <1>1 DEF Dealing, Full, TypeOK
    <3> QED
      BY <1>3, <3>1 DEF OfPlace, Open
  <2>7. Open(c) /\ Open(c)'
    <3>1. handles[c] > 0
      BY <1>1, HandlesAtLeast, CountTypes
    <3>2. handles'[c] > 0
      BY <1>1, <2>4, <3>1, CountTypes
    <3> QED
      BY <3>1, <3>2 DEF Open
  <2>8. \A d \in Conn : d \in shut => Open(d)
    BY DEF Shutting
  <2> QED
    BY <1>1, <1>2, <1>3, <1>4, <1>6, <2>1, <2>5, <2>6, <2>7, <2>8, PlacesKept
<1> QED
  BY <1>4, <1>5, <1>6, <1>7, <1>8

(* The connection is back in the list.                                      *)
LEMMA PushedStep ==
  ASSUME IInv, NEW w \in Worker, Pushed(w)
  PROVE  IInv'
<1> USE DEF IInv, Pushed, TaskAt, Step
<1> DEFINE c == job[w]
<1>1. /\ w \in Thread /\ w # Main /\ step[w] = "pushed" /\ c \in Conn
      /\ step' = [step EXCEPT ![w] = "alarm"]
      /\ PushEnd(w, c) /\ tail' = [tail EXCEPT ![w] = {}]
      /\ UNCHANGED <<handles, crossed, newcomer, lst, batch, turn, queue, job, main, mutex>>
      /\ UNCHANGED <<online, shut>>
  BY ThreadAssumption DEF PushEnd, loop, taken, users, TypeOK, Labelled, Thread
<1>2. PushesNow(w) /\ Pushee(w) = c /\ ~PushesNow(w)'
  BY <1>1 DEF PushesNow, Pushee, TypeOK
<1>3. /\ c \in pool' /\ pool' \subseteq Conn
      /\ Listed' \subseteq Listed \cup {c} /\ pool \ pool' \subseteq crossed
  BY <1>1, <1>2, ListAfterPush
<1>4. /\ Range(queue)' = Range(queue)
      /\ \A d \in Conn : /\ Dealing(d)' = Dealing(d) /\ Full(d)' = Full(d)
                         /\ Using(d)' = Using(d) \ {w}
                         /\ d # c => Using(d)' = Using(d)
                         /\ Copies(d)' = Copies(d) /\ Closed(d)' = Closed(d)
                         /\ Open(d)' = Open(d)
  BY <1>1 DEF Using, Dealing, Full, Copies, Entries, Closed, Open, TypeOK
<1>5. w \in Using(c)
  BY <1>1 DEF Using
<1>6. TypeOK'
  BY <1>1, <1>3 DEF TypeOK, TaskLabels, clients, loop
<1>7. Labelled'
  BY <1>1, ThreadAssumption DEF Labelled, PushesNow, clients, loop, TypeOK, Thread
<1>8. Apart'
  <2>1. c \notin batch \cup Range(queue) /\ c # newcomer /\ Using(c) \ {w} = {}
    BY <1>1, <1>5 DEF Apart
  <2> QED
    BY <1>1, <1>3, <1>4, <2>1 DEF Apart
<1>9. Crossing'
  <2>1. \A s \in Thread \ {w} : (PushesNow(s)' <=> PushesNow(s)) /\ Pushee(s)' = Pushee(s)
    BY <1>1 DEF PushesNow, Pushee, Thread, TypeOK
  <2>2. tail \in [Thread -> SUBSET Conn]
    BY DEF TypeOK
  <2> QED
    BY <1>1, <1>2, <2>1, <2>2, CrossingEnds
<1>10. Counted' /\ Shutting'
  <2>1. \A d \in Conn : OfPlace(d)' = OfPlace(d)
    BY <1>1, <1>4 DEF OfPlace
  <2>2. ASSUME NEW d \in Conn
        PROVE  /\ Placed(d)' \/ d \in Listed' => Placed(d) \/ d \in Listed
               /\ Placed(d) => Placed(d)' \/ d \in crossed'
    <3>1. pool' \subseteq Listed'
      BY DEF Listed
    <3>2. Placed(c) /\ Placed(c)'
      BY <1>3, <1>5 DEF Placed
    <3> QED
      BY <1>1, <1>3, <1>4, <3>1, <3>2 DEF Placed
  <2>3. \A d \in Conn : d \in shut => Open(d)
    BY DEF Shutting
  <2> QED
    BY <1>1, <1>4, <1>6, <1>8, <2>1, <2>2, <2>3, PlacesKept
<1> QED
  BY <1>6, <1>7, <1>8, <1>9, <1>10

(* The byte is written and the mutex given up.                              *)
LEMMA AlarmStep ==
  ASSUME IInv, NEW w \in Worker, Alarm(w)
  PROVE  IInv'
<1> USE DEF IInv, Alarm, TaskAt, Step
<1>1. /\ step[w] = "alarm" /\ step' = [step EXCEPT ![w] = "done"]
      /\ mutex = w /\ mutex' = Nobody
      /\ UNCHANGED <<handles, pool, tail, crossed, newcomer, lst, batch, turn, queue, job, main>>
      /\ UNCHANGED <<online, shut>>
  BY DEF loop, taken, list, users, Labelled
<1>2. /\ Range(queue)' = Range(queue) /\ Listed' = Listed
      /\ \A d \in Conn : /\ Dealing(d)' = Dealing(d) /\ Full(d)' = Full(d)
                         /\ Using(d)' = Using(d) /\ Copies(d)' = Copies(d)
                         /\ Closed(d)' = Closed(d) /\ Open(d)' = Open(d)
  BY <1>1 DEF Using, Dealing, Full, Copies, Entries, Closed, Open, Listed, TypeOK
<1>3. TypeOK'
  BY <1>1, BoundAssumption DEF TypeOK, TaskLabels, clients, loop, list
<1>4. Labelled'
  BY <1>1, ThreadAssumption DEF Labelled, PushesNow, clients, loop, TypeOK, Thread
<1>5. Apart'
  BY <1>1, <1>2 DEF Apart
<1>6. Crossing'
  BY <1>1, CrossingKept DEF PushesNow, Pushee, TypeOK, Thread
<1>7. Counted' /\ Shutting'
  <2>1. \A d \in Conn : OfPlace(d)' = OfPlace(d) /\ (Placed(d)' <=> Placed(d))
    BY <1>1, <1>2 DEF OfPlace, Placed
  <2>2. \A d \in Conn : d \in shut => Open(d)
    BY DEF Shutting
  <2> QED
    BY <1>1, <1>2, <1>3, <1>5, <2>1, <2>2, PlacesKept
<1> QED
  BY <1>3, <1>4, <1>5, <1>6, <1>7

(* The task ends with its connection in the list.                           *)
LEMMA DoneStep ==
  ASSUME IInv, NEW w \in Worker, Done(w)
  PROVE  IInv'
<1> USE DEF IInv, Done, TaskAt, Step
<1>1. PICK c \in Conn : c = job[w]
  BY HandlesAtLeast
<1> DEFINE left == [handles EXCEPT ![c] = @ - 2]
<1>2. /\ step[w] = "done" /\ handles[c] >= 2
      /\ step' = [step EXCEPT ![w] = "idle"] /\ job' = [job EXCEPT ![w] = None]
      /\ UNCHANGED <<pool, tail, crossed, newcomer, lst, batch, turn, queue, main, mutex, online>>
      /\ Release(left)
  <2>1. handles[c] >= 2
    BY <1>1, HandlesAtLeast, CountTypes
  <2> QED
    BY <1>1, <2>1 DEF loop, taken, list, Drop
<1>3. /\ left \in [Conn -> Nat] /\ left[c] = handles[c] - 2
      /\ \A d \in Conn \ {c} : left[d] = handles[d]
  BY <1>2 DEF TypeOK
<1>4. /\ handles' = left /\ handles' \in [Conn -> Nat]
      /\ peer' \in [Conn -> {"here", "gone", "none"}]
      /\ inbox' \in [Conn -> Nat]
      /\ shut' \subseteq Conn
      /\ \A d \in Conn : d \in shut' <=> d \in shut /\ Open(d)'
  BY <1>2, <1>3, ReleaseStep
<1>5. /\ Range(queue)' = Range(queue) /\ Listed' = Listed
      /\ \A d \in Conn : /\ Dealing(d)' = Dealing(d) /\ Using(d)' = Using(d)
                         /\ Full(d)' = Full(d) \ {w} /\ (d # c => Full(d)' = Full(d))
                         /\ Copies(d)' = Copies(d) /\ Closed(d)' = Closed(d)
  BY <1>1, <1>2, ConnAssumption
     DEF Using, Dealing, Full, Listed, Copies, Entries, Closed, TypeOK
<1>6. TypeOK'
  BY <1>1, <1>2, <1>4 DEF TypeOK, TaskLabels, loop, taken, list
<1>7. Labelled'
  BY <1>1, <1>2, ThreadAssumption DEF Labelled, PushesNow, loop, TypeOK, Thread
<1>8. Apart'
  BY <1>1, <1>2, <1>5 DEF Apart
<1>9. Crossing'
  BY <1>1, <1>2, CrossingKept DEF PushesNow, Pushee, TypeOK, Thread
<1>10. Counted' /\ Shutting'
  <2>1. \A d \in Conn : Placed(d)' <=> Placed(d)
    BY <1>1, <1>2, <1>5 DEF Placed
  <2>2. Cardinality(Full(c)') = Cardinality(Full(c)) - 1
    <3>1. w \in Full(c)
      BY <1>1, <1>2 DEF Full
    <3> QED
      BY <1>5, <3>1, CountTypes, OneLess
  <2>3. OfPlace(c)' = OfPlace(c)
    BY <1>3, <1>4, <1>5, <2>2, CountTypes DEF OfPlace
  <2>4. \A d \in Conn : d # c => OfPlace(d)' = OfPlace(d)
    BY <1>3, <1>4, <1>5 DEF OfPlace
  <2>5. \A d \in Conn : Open(d)' => Open(d)
    <3>1. Open(c)
      BY <1>2, CountTypes DEF Open
    <3>2. \A d \in Conn \ {c} : Open(d)' => Open(d)
      BY <1>3, <1>4 DEF Open
    <3> QED
      BY <3>1, <3>2
  <2> QED
    BY <1>2, <1>4, <1>5, <1>6, <1>8, <2>1, <2>3, <2>4, <2>5, PlacesKept
<1> QED
  BY <1>6, <1>7, <1>8, <1>9, <1>10

(* The modules hear that it is closed: an entry goes with its handle, and   *)
(* the connection is shut from now on.                                      *)
LEMMA ForgetStep ==
  ASSUME IInv, NEW w \in Worker, Forget(w)
  PROVE  IInv'
<1> USE DEF IInv, Forget, TaskAt, Step
<1>1. PICK c \in Conn : c = job[w]
  BY HandlesAtLeast
<1>2. /\ step[w] = "close" /\ step' = [step EXCEPT ![w] = "closed"]
      /\ handles[c] >= Copies(c) + 1 /\ Copies(c) \in Nat /\ handles[c] \in Nat
      /\ shut' = shut \cup {c}
      /\ UNCHANGED <<pool, tail, crossed, newcomer, lst, batch, turn, queue, job, main, mutex>>
  BY <1>1, HandlesAtLeast, CountTypes DEF loop, taken, list
<1>3. \/ UNCHANGED <<online, handles>>
      \/ \E u \in Entries(c) : /\ online' = [online EXCEPT ![u] = None]
                               /\ handles' = [handles EXCEPT ![c] = @ - 1]
  BY <1>1 DEF Entries
<1>4. /\ Range(queue)' = Range(queue) /\ Listed' = Listed
      /\ \A d \in Conn : /\ Dealing(d)' = Dealing(d) /\ Full(d)' = Full(d)
                         /\ Using(d)' = Using(d)
                         /\ d # c => (Closed(d)' <=> Closed(d))
      /\ Closed(c)'
  BY <1>1, <1>2 DEF Using, Dealing, Full, Listed, Closed, TypeOK
<1>5. /\ \A d \in Conn : d # c => Copies(d)' = Copies(d) /\ handles'[d] = handles[d]
      /\ handles' \in [Conn -> Nat] /\ handles'[c] \in Nat /\ handles'[c] > 0
      /\ handles[c] - Copies(c) = handles'[c] - Copies(c)'
      /\ online' \in [Uid -> Conn \cup {None}]
  <2>1. CASE UNCHANGED <<online, handles>>
    <3>1. \A d \in Conn : Copies(d)' = Copies(d)
      BY <1>2, <2>1 DEF Copies, Entries
    <3> QED
      BY <1>2, <2>1, <3>1 DEF TypeOK
  <2>2. ASSUME NEW u \in Entries(c), online' = [online EXCEPT ![u] = None],
               handles' = [handles EXCEPT ![c] = @ - 1]
        PROVE  <1>5!1 /\ <1>5!2 /\ <1>5!3 /\ <1>5!4
    <3>1. /\ u \in Uid /\ Entries(c)' = Entries(c) \ {u}
          /\ \A d \in Conn : d # c => Entries(d)' = Entries(d)
      BY <2>2, ConnAssumption DEF Entries, TypeOK
    <3>2. /\ Entries(c) \in SUBSET Uid /\ IsFiniteSet(Entries(c))
          /\ Cardinality(Entries(c)) \in Nat /\ Cardinality(Entries(c)') \in Nat
      BY EntriesFinite DEF Entries
    <3>3. Cardinality(Entries(c)') = Cardinality(Entries(c)) - 1
      BY <2>2, <3>1, <3>2, FS_RemoveElement
    <3>4. \A d \in Conn : d # c => Copies(d)' = Copies(d)
      BY <1>2, <3>1 DEF Copies
    <3>5. Copies(c)' = Copies(c) - 1 /\ Copies(c)' \in Nat
      <4>1. One(c \in lst \ batch)' = One(c \in lst \ batch) /\ One(c = turn)' = One(c = turn)
        BY <1>2
      <4>2. One(c \in lst \ batch) \in Nat /\ One(c = turn) \in Nat
        BY DEF One
      <4> QED
        BY <3>2, <3>3, <4>1, <4>2, CountsAfter DEF Copies
    <3>6. handles'[c] = handles[c] - 1 /\ \A d \in Conn : d # c => handles'[d] = handles[d]
      BY <2>2 DEF TypeOK
    <3>7. handles'[c] \in Nat /\ handles'[c] > 0
      BY <1>2, <3>5, <3>6
    <3>8. handles' \in [Conn -> Nat]
      BY <2>2, <3>6, <3>7 DEF TypeOK
    <3>9. online' \in [Uid -> Conn \cup {None}]
      BY <2>2 DEF TypeOK
    <3> QED
      BY <1>2, <3>4, <3>5, <3>6, <3>7, <3>8, <3>9
  <2> QED
    BY <1>3, <2>1, <2>2
<1>6. TypeOK'
  <2>1. step' \in [Worker -> TaskLabels]
    BY <1>2 DEF TypeOK, TaskLabels
  <2> QED
    BY <1>2, <1>5, <2>1 DEF TypeOK, clients, loop
<1>7. Labelled'
  BY <1>2, ThreadAssumption DEF Labelled, PushesNow, clients, loop, TypeOK, Thread
<1>8. Apart'
  BY <1>2, <1>4 DEF Apart
<1>9. Crossing'
  BY <1>2, CrossingKept DEF PushesNow, Pushee, TypeOK, Thread
<1>10. \A d \in Conn : Placed(d)' <=> Placed(d)
  BY <1>2, <1>4 DEF Placed
<1>11. \A d \in Conn : OfPlace(d)' = OfPlace(d)
  <2>1. OfPlace(c)' = OfPlace(c)
    <3>1. OfPlace(c) = handles[c] - Cardinality(Dealing(c)) - 2 * Cardinality(Full(c)) - Copies(c)
      BY DEF OfPlace
    <3>2. OfPlace(c)' = handles'[c] - Cardinality(Dealing(c)) - 2 * Cardinality(Full(c)) - Copies(c)'
      BY <1>4 DEF OfPlace
    <3> QED
      BY <1>2, <1>5, <3>1, <3>2, CountTypes, CountsAfter
  <2>2. \A d \in Conn : d # c => OfPlace(d)' = OfPlace(d)
    BY <1>4, <1>5 DEF OfPlace
  <2> QED
    BY <2>1, <2>2
<1>12. Counted'
  BY <1>2, <1>4, <1>10, <1>11 DEF Counted
<1>13. Shutting'
  <2>1. Open(c) /\ Open(c)'
    BY <1>2, <1>5 DEF Open
  <2>2. \A d \in Conn : d # c => Open(d)' = Open(d)
    BY <1>5 DEF Open
  <2>3. c \notin Listed'
    <3>1. w \in Using(c)
      BY <1>1, <1>2 DEF Using
    <3> QED
      BY <1>4, <3>1 DEF Apart
  <2> QED
    BY <1>2, <1>4, <1>10, <2>1, <2>2, <2>3 DEF Shutting
<1> QED
  BY <1>6, <1>7, <1>8, <1>9, <1>12, <1>13

(* The task ends without: the handle of the place goes with it.             *)
LEMMA CloseStep ==
  ASSUME IInv, NEW w \in Worker, Close(w)
  PROVE  IInv'
<1> USE DEF IInv, Close, TaskAt, Step
<1>1. PICK c \in Conn : c = job[w]
  BY HandlesAtLeast
<1> DEFINE left == [handles EXCEPT ![c] = @ - 1]
<1>2. /\ step[w] = "closed" /\ handles[c] >= 1
      /\ step' = [step EXCEPT ![w] = "idle"] /\ job' = [job EXCEPT ![w] = None]
      /\ UNCHANGED <<pool, tail, crossed, newcomer, lst, batch, turn, queue, main, mutex, online>>
      /\ Release(left)
  <2>1. handles[c] >= 1
    BY <1>1, HandlesAtLeast, CountTypes
  <2> QED
    BY <1>1, <2>1 DEF loop, taken, list, Drop
<1>3. /\ left \in [Conn -> Nat] /\ left[c] = handles[c] - 1
      /\ \A d \in Conn \ {c} : left[d] = handles[d]
  BY <1>2 DEF TypeOK
<1>4. /\ handles' = left /\ handles' \in [Conn -> Nat]
      /\ peer' \in [Conn -> {"here", "gone", "none"}]
      /\ inbox' \in [Conn -> Nat]
      /\ shut' \subseteq Conn
      /\ \A d \in Conn : d \in shut' <=> d \in shut /\ Open(d)'
  BY <1>2, <1>3, ReleaseStep
<1>5. /\ Range(queue)' = Range(queue) /\ Listed' = Listed
      /\ \A d \in Conn : /\ Dealing(d)' = Dealing(d) /\ Full(d)' = Full(d)
                         /\ Using(d)' = Using(d) \ {w} /\ (d # c => Using(d)' = Using(d))
                         /\ Copies(d)' = Copies(d)
                         /\ d # c => (Closed(d)' <=> Closed(d))
  <2>1. Range(queue)' = Range(queue) /\ Listed' = Listed
    BY <1>2 DEF Listed
  <2>2. \A d \in Conn : Copies(d)' = Copies(d)
    BY <1>2 DEF Copies, Entries
  <2>3. \A d \in Conn : Dealing(d)' = Dealing(d) /\ Full(d)' = Full(d)
    BY <1>1, <1>2, ConnAssumption DEF Dealing, Full, TypeOK
  <2>4. \A d \in Conn : /\ Using(d)' = Using(d) \ {w} /\ (d # c => Using(d)' = Using(d))
                        /\ d # c => (Closed(d)' <=> Closed(d))
    BY <1>1, <1>2, ConnAssumption DEF Using, Closed, TypeOK
  <2> QED
    BY <2>1, <2>2, <2>3, <2>4
<1>6. w \in Using(c)
  BY <1>1, <1>2 DEF Using
<1>7. TypeOK'
  BY <1>1, <1>2, <1>4 DEF TypeOK, TaskLabels, loop, taken, list
<1>8. Labelled'
  BY <1>1, <1>2, ThreadAssumption DEF Labelled, PushesNow, loop, TypeOK, Thread
<1>9. Apart'
  BY <1>1, <1>2, <1>5 DEF Apart
<1>10. Crossing'
  BY <1>1, <1>2, CrossingKept DEF PushesNow, Pushee, TypeOK, Thread
<1>11. Placed(c) /\ ~Placed(c)' /\ c \notin Listed' /\ ~Closed(c)'
  <2>1. c \notin Listed \cup batch \cup Range(queue) /\ c # newcomer /\ Using(c) \ {w} = {}
    BY <1>1, <1>2, <1>6 DEF Apart
  <2>2. c \notin pool
    BY <2>1 DEF Listed
  <2>3. Using(c)' = {}
    BY <1>5, <2>1
  <2>4. ~Closed(c)'
    BY <2>3 DEF Closed, Using
  <2> QED
    BY <1>1, <1>2, <1>5, <1>6, <2>1, <2>2, <2>3, <2>4 DEF Placed
<1>12. c \in shut
  BY <1>1, <1>2 DEF Shutting, Closed
<1>13. OfPlace(c)' = 0
  <2>1. OfPlace(c) = 1
    BY <1>1, <1>2, <1>11 DEF Counted
  <2>2. OfPlace(c) = handles[c] - Cardinality(Dealing(c)) - 2 * Cardinality(Full(c)) - Copies(c)
    BY DEF OfPlace
  <2>3. OfPlace(c)' = (handles[c] - 1) - Cardinality(Dealing(c)) - 2 * Cardinality(Full(c)) - Copies(c)
    BY <1>3, <1>4, <1>5 DEF OfPlace
  <2> QED
    BY <2>1, <2>2, <2>3, CountTypes
<1>14. \A d \in Conn : d # c => /\ OfPlace(d)' = OfPlace(d) /\ (Placed(d)' <=> Placed(d))
                                /\ Open(d)' = Open(d)
  BY <1>1, <1>2, <1>3, <1>4, <1>5 DEF OfPlace, TypeOK, Placed, Open
<1>15. Counted'
  BY <1>1, <1>2, <1>5, <1>11, <1>13, <1>14 DEF Counted
<1>16. Shutting'
  BY <1>2, <1>4, <1>5, <1>11, <1>12, <1>14 DEF Shutting
<1> QED
  BY <1>7, <1>8, <1>9, <1>10, <1>15, <1>16

-----------------------------------------------------------------------------
(* The theorems *)

LEMMA InitStep ==
  ASSUME Init
  PROVE  IInv
<1> USE DEF Init
<1>1. TypeOK
  <2>1. pipe \in 0 .. PipeSize
    BY BoundAssumption
  <2>2. /\ peer \in [Conn -> {"here", "gone", "none"}]
        /\ inbox \in [Conn -> Nat] /\ handles \in [Conn -> Nat]
        /\ tail \in [Thread -> SUBSET Conn]
        /\ job \in [Worker -> Conn \cup {None}] /\ step \in [Worker -> TaskLabels]
    BY DEF TaskLabels
  <2>3. queue \in Seq(Conn) /\ main \in LoopLabels
    BY DEF LoopLabels
  <2>4. knocked \in BOOLEAN /\ is_close \in BOOLEAN
    OBVIOUS
  <2>5. knocks \in Nat /\ mutex \in Worker \cup {Nobody} /\ newcomer \in Conn \cup {None}
        /\ pool \subseteq Conn /\ sets \subseteq Conn /\ batch \subseteq Conn
        /\ crossed \subseteq Conn
    OBVIOUS
  <2>6. /\ lst \subseteq Conn /\ turn \in Conn \cup {None} /\ shut \subseteq Conn
        /\ online \in [Uid -> Conn \cup {None}]
    OBVIOUS
  <2> QED
    BY <2>1, <2>2, <2>3, <2>4, <2>5, <2>6 DEF TypeOK
<1>2. Labelled
  BY ThreadAssumption DEF Labelled
<1>3. /\ Listed = {} /\ Range(queue) = {} /\ DOMAIN queue = {}
      /\ \A c \in Conn : Using(c) = {} /\ Dealing(c) = {} /\ Full(c) = {} /\ Entries(c) = {}
  BY ConnAssumption DEF Listed, Range, Using, Dealing, Full, Entries
<1>4. Apart
  BY <1>3 DEF Apart
<1>5. Crossing
  BY ThreadAssumption DEF Crossing, PushesNow, Thread
<1>6. Counted
  <2>1. \A c \in Conn : OfPlace(c) = 0
    <3> TAKE c \in Conn
    <3>1. handles[c] = 0 /\ Dealing(c) = {} /\ Full(c) = {} /\ Entries(c) = {}
      BY <1>3
    <3>2. Cardinality(Dealing(c)) = 0 /\ Cardinality(Full(c)) = 0 /\ Cardinality(Entries(c)) = 0
      BY <3>1, FS_EmptySet
    <3>3. One(c \in lst \ batch) = 0 /\ One(c = turn) = 0
      BY ConnAssumption DEF One
    <3>4. Copies(c) = 0
      BY <3>2, <3>3 DEF Copies
    <3> QED
      BY <3>1, <3>2, <3>4 DEF OfPlace
  <2>2. \A c \in Conn : ~Placed(c) /\ c \notin Listed
    BY <1>3, ConnAssumption DEF Placed
  <2> QED
    BY <2>1, <2>2 DEF Counted
<1>7. Shutting
  BY ConnAssumption DEF Shutting, Open, Closed
<1> QED
  BY <1>1, <1>2, <1>4, <1>5, <1>6, <1>7 DEF IInv

LEMMA StutterStep ==
  ASSUME IInv, UNCHANGED vars
  PROVE  IInv'
<1> USE DEF IInv, vars
<1>1. TypeOK' /\ Labelled'
  BY DEF TypeOK, Labelled, PushesNow
<1>2. Apart' /\ Crossing' /\ Counted' /\ Shutting'
  BY <1>1, NothingMoves
<1> QED
  BY <1>1, <1>2

LEMMA Inductive == Spec => []IInv
<1>1. Init => IInv
  BY InitStep
<1>2. IInv /\ [Next]_vars => IInv'
  <2> SUFFICES ASSUME IInv, [Next]_vars PROVE IInv'
    OBVIOUS
  <2>1. CASE UNCHANGED vars
    BY <2>1, StutterStep
  <2>2. CASE Knock \/ Exit \/ \E c \in Conn : SendPacket(c) \/ HangUp(c)
    BY <2>2, ClientStep
  <2>3. CASE LoopLocks \/ LoopGoesOn
    BY <2>3, LoopStep, TakeStep, AcceptStep, PushNewStep, PushedNewStep, DispatchStep,
       EndTurnStep, DispatchedStep
       DEF LoopLocks, LoopGoesOn
  <2>4. ASSUME NEW w \in Worker, TaskGoesOn(w) \/ Deals(w) \/ Add(w) PROVE IInv'
    <3>1. CASE TaskGoesOn(w)
      BY <3>1, StartStep, RecvStep, FailsStep, PushedStep, AlarmStep, DoneStep, ForgetStep,
         CloseStep
         DEF TaskGoesOn
    <3>2. CASE Deals(w) \/ Add(w)
      BY <3>2, FailsStep, DealsStep, AddStep DEF Deals
    <3> QED
      BY <2>4, <3>1, <3>2
  <2>5. ASSUME NEW u \in Uid, Evict(u) PROVE IInv'
    BY <2>5, EvictStep
  <2> QED
    BY <2>1, <2>2, <2>3, <2>4, <2>5 DEF Next
<1> QED
  BY <1>1, <1>2, PTL DEF Spec

(* The number of places of a connection, and of handles: what the invariant *)
(* says without counting.                                                   *)
LEMMA PlacesCounted ==
  ASSUME IInv, NEW c \in Conn
  PROVE  /\ Places(c) = One(Placed(c))
         /\ Cardinality(Dealing(c)) \in {0, 1}
<1> DEFINE U == Using(c)
           Q == {i \in DOMAIN queue : queue[i] = c}
<1>1. /\ U = {} \/ \E w : U = {w}
      /\ Q = {} \/ \E i : Q = {i}
  <2>1. Apart
    BY DEF IInv
  <2>2. \A v, w \in U : v = w
    BY <2>1 DEF Apart
  <2>3. \A i, j \in Q : i = j
    BY <2>1 DEF Apart
  <2> QED
    BY <2>2, <2>3
<1>2. /\ Cardinality(U) = One(U # {})
      /\ Cardinality(Q) = One(Q # {})
  BY <1>1, FS_EmptySet, FS_Singleton DEF One
<1>3. Q # {} <=> c \in Range(queue)
  BY DEF Range
<1>4. pool \subseteq Listed
  BY DEF Listed
<1>5. Places(c) = One(c \in pool) + One(c \in batch) + One(c = newcomer) + One(U # {})
                    + One(c \in Range(queue))
  BY <1>2, <1>3 DEF Places
<1>6. /\ ~(c \in pool /\ c \in batch) /\ ~(c \in pool /\ c = newcomer)
      /\ ~(c \in pool /\ U # {}) /\ ~(c \in pool /\ c \in Range(queue))
      /\ ~(c \in batch /\ c = newcomer) /\ ~(c \in batch /\ U # {})
      /\ ~(c \in batch /\ c \in Range(queue)) /\ ~(c = newcomer /\ U # {})
      /\ ~(c = newcomer /\ c \in Range(queue)) /\ ~(U # {} /\ c \in Range(queue))
  BY <1>4 DEF IInv, Apart
<1>7. Placed(c) <=> c \in pool \/ c \in batch \/ c = newcomer \/ U # {} \/ c \in Range(queue)
  BY DEF Placed
<1>8. Places(c) = One(Placed(c))
  BY <1>5, <1>6, <1>7 DEF One
<1>9. Cardinality(Dealing(c)) \in {0, 1}
  <2>1. Dealing(c) \subseteq U
    BY DEF Dealing, Using
  <2>2. Dealing(c) = {} \/ \E w : Dealing(c) = {w}
    BY <1>1, <2>1
  <2> QED
    BY <2>2, FS_EmptySet, FS_Singleton
<1> QED
  BY <1>8, <1>9

(* The variables of the loop and the tasks keep their types: among others,  *)
(* a handle counter never goes below 0, and the pipe is never over-full.    *)
THEOREM TypeCorrect == Spec => []TypeOK
<1>1. IInv => TypeOK
  BY DEF IInv
<1> QED
  BY <1>1, Inductive, PTL

(* The loop and the tasks never have a connection twice, so no two tasks    *)
(* read from one socket; it is open while they have it; and one that is     *)
(* open is not forgotten, unless std::list was pushed to by two at once or  *)
(* its task told the modules that it is closed, and then no task gets it    *)
(* any more.                                                                *)
THEOREM ConnectionsInOnePlace == Spec => []OnePlace
<1>1. IInv => OnePlace
  <2> SUFFICES ASSUME IInv, NEW c \in Conn
               PROVE  /\ Places(c) <= 1
                      /\ Places(c) = 1 => Open(c)
                      /\ Open(c) => Places(c) = 1 \/ c \in crossed \/ c \in shut
                      /\ c \in shut => Places(c) = 0 \/ Closed(c)
    BY DEF OnePlace, Closed
  <2>1. Places(c) = One(Placed(c))
    BY PlacesCounted
  <2>2. /\ Places(c) <= 1
        /\ Places(c) = 1 <=> Placed(c)
        /\ Places(c) = 0 <=> ~Placed(c)
    BY <2>1 DEF One
  <2>3. Placed(c) => Open(c)
    <3> SUFFICES ASSUME Placed(c) PROVE handles[c] > 0
      BY DEF Open
    <3>1. OfPlace(c) = 1
      BY DEF IInv, Counted
    <3>2. handles[c] = 1 + Cardinality(Dealing(c)) + 2 * Cardinality(Full(c)) + Copies(c)
      BY <3>1, CountTypes DEF IInv, OfPlace
    <3> QED
      BY <3>2, CountTypes DEF IInv
  <2>4. /\ Open(c) => Placed(c) \/ c \in crossed \/ c \in shut
        /\ c \in shut => ~Placed(c) \/ Closed(c)
    BY DEF IInv, Shutting
  <2> QED
    BY <2>2, <2>3, <2>4
<1> QED
  BY <1>1, Inductive, PTL

(* TCPConnection closes a socket with the last handle: the counter is the   *)
(* number of handles that the loop, its copies, the list, the tasks and the *)
(* user module have, and one more for a connection that was lost from the   *)
(* list.                                                                    *)
THEOREM HandlesCounted == Spec => []HandlesMatch
<1>1. IInv => HandlesMatch
  <2> SUFFICES ASSUME IInv, NEW c \in Conn
               PROVE  LET held == Places(c) + Cardinality(Dealing(c)) + 2 * Cardinality(Full(c))
                                    + One(c \in lst \ batch) + 2 * One(c = turn)
                                    + Cardinality(Entries(c))
                      IN handles[c] = held \/ (c \in crossed /\ handles[c] = held + 1)
    BY DEF HandlesMatch, Dealing, Full
  <2> DEFINE there == Places(c) + Cardinality(Dealing(c)) + 2 * Cardinality(Full(c))
                        + One(c \in lst \ batch) + 2 * One(c = turn) + Cardinality(Entries(c))
  <2>1. /\ OfPlace(c) \in {0, 1}
        /\ Placed(c) => OfPlace(c) = 1
        /\ OfPlace(c) = 1 => Placed(c) \/ c \in crossed
    BY DEF IInv, Counted
  <2>2. OfPlace(c) = One(Placed(c)) \/ (c \in crossed /\ OfPlace(c) = One(Placed(c)) + 1)
    BY <2>1 DEF One
  <2>3. /\ Cardinality(Dealing(c)) \in Nat /\ Cardinality(Full(c)) \in Nat
        /\ Cardinality(Entries(c)) \in Nat /\ handles[c] \in Nat
        /\ One(c \in lst \ batch) \in Nat /\ One(c = turn) \in Nat /\ One(Placed(c)) \in Nat
    BY CountsBefore, CountTypes DEF IInv, One
  <2>4. Places(c) = One(Placed(c))
    BY PlacesCounted
  <2>5. OfPlace(c) = handles[c] - Cardinality(Dealing(c)) - 2 * Cardinality(Full(c))
                       - (One(c \in lst \ batch) + 2 * One(c = turn) + Cardinality(Entries(c)))
    BY DEF OfPlace, Copies
  <2>6. handles[c] = there \/ (c \in crossed /\ handles[c] = there + 1)
    BY <2>2, <2>3, <2>4, <2>5
  <2> QED
    BY <2>6
<1> QED
  BY <1>1, Inductive, PTL

-----------------------------------------------------------------------------
(* The two calls of send *)

(* A header goes out: with another sender in the middle the packets overlap.*)
LEMMA HeaderSent ==
  ASSUME SendingInv, NEW s \in Sender, NEW n \in Nat, SendHeader(s, n), UNCHANGED gone
  PROVE  HeaderLast'
<1> SUFFICES ASSUME ~gone, ~overlapped' PROVE HeaderLast'
  BY DEF HeaderLast
<1>1. middle = {} /\ middle' = {s}
  BY DEF SendHeader
<1>2. last' = Piece(s, n, "header") /\ frame'[s] = n
  BY DEF SendHeader, SendingInv, Counts
<1> QED
  BY <1>1, <1>2 DEF HeaderLast, Piece

(* Its body follows: the sender was the only one in the middle.             *)
LEMMA BodySent ==
  ASSUME SendingInv, NEW s \in middle, SendBody(s), UNCHANGED gone
  PROVE  HeaderLast'
<1> SUFFICES ASSUME ~gone, ~overlapped PROVE HeaderLast'
  BY DEF SendBody, HeaderLast
<1>1. \A q \in middle : Piece(q, frame[q], "header") = Piece(s, frame[s], "header")
  BY DEF SendingInv, HeaderLast
<1>2. \A q \in middle : q = s
  BY <1>1 DEF Piece
<1>3. middle' = {} /\ last' = Piece(s, frame[s], "body")
  BY <1>2 DEF SendBody
<1> QED
  BY <1>3 DEF HeaderLast, InMiddle, Piece

(* What a header does to the client: it was not in the middle of a packet.  *)
LEMMA HeaderIntact ==
  ASSUME SendingInv, NEW s \in Sender, NEW n \in Nat, SendHeader(s, n),
         ~gone, ~overlapped'
  PROVE  last'.part = "header" /\ ~InMiddle
<1>1. middle = {} /\ ~overlapped
  BY DEF SendHeader
<1> QED
  BY <1>1 DEF SendingInv, HeaderLast, SendHeader, Piece

(* And a body: what was sent last is its own header.                        *)
LEMMA BodyIntact ==
  ASSUME SendingInv, NEW s \in middle, SendBody(s), ~gone, ~overlapped'
  PROVE  /\ InMiddle
         /\ last'.part = "body"
         /\ last' = [last EXCEPT !.part = "body"]
<1>1. last = Piece(s, frame[s], "header")
  BY DEF SendBody, SendingInv, HeaderLast
<1>2. s \in Sender /\ frame[s] \in Nat
  BY DEF SendingInv, Counts
<1>3. last # Nothing
  BY <1>1, <1>2, NothingAssumption DEF Piece
<1> QED
  BY <1>1, <1>3 DEF InMiddle, SendBody, Piece

-----------------------------------------------------------------------------
(* What a step may do: Intact is the action of OutgoingIntact *)

Intact ==
  /\ (last' # last /\ ~gone /\ ~overlapped') =>
       last'.part = (IF InMiddle THEN "body" ELSE "header")
  /\ (last' # last /\ InMiddle /\ ~gone /\ ~overlapped') =>
       last' = [last EXCEPT !.part = "body"]
  /\ \A s \in Sender : frame'[s] >= frame[s]

(* A step that sends nothing, and leaves the queue alone.                   *)
LEMMA QuietStep ==
  ASSUME SendingInv, UNCHANGED sending, UNCHANGED queueing, UNCHANGED overlapped,
         gone => gone', reads' \in Nat, reads' >= reads,
         phase = "answer" <=> phase' = "answer"
  PROVE  SendingInv' /\ Intact
<1> USE DEF sending, queueing, SendingInv, Counts
<1>1. Counts' /\ MiddleByPhase'
  BY DEF MiddleByPhase
<1>2. HeaderLast'
  BY DEF HeaderLast, InMiddle
<1>3. NumbersAhead'
  BY SenderAssumption DEF NumbersAhead, Sender
<1>4. Intact
  BY DEF Intact
<1> QED
  BY <1>1, <1>2, <1>3, <1>4

(* The client and the network send nothing to the client.                   *)
LEMMA PeerStep ==
  ASSUME SendingInv, Client
  PROVE  SendingInv' /\ Intact
<1>1. /\ UNCHANGED <<sending, queueing, overlapped, reading>> \/ Arrive
      /\ gone => gone'
  <2>1. ASSUME NEW size \in Size, Request(size)
        PROVE  UNCHANGED <<sending, queueing, overlapped, reading>> /\ (gone => gone')
    BY <2>1 DEF Request
  <2> QED
    BY <2>1 DEF Client, Arrive, ClientLeaves
<1>2. UNCHANGED <<sending, queueing, overlapped, reads, phase>>
  BY <1>1 DEF Arrive, reading
<1> QED
  BY <1>1, <1>2, QuietStep DEF SendingInv, Counts

(* Reading a request; the number read only grows.                           *)
LEMMA ReadStep ==
  ASSUME SendingInv, Begin \/ ReadHeader \/ ReadBody \/ ReadFails
  PROVE  SendingInv' /\ Intact
<1>1. UNCHANGED <<sending, queueing, overlapped, gone>>
  BY DEF Begin, ReadHeader, ReadBody, ReadFails
<1>2. reads' = reads \/ reads' = reads + 1
  BY DEF Begin, ReadHeader, ReadBody, ReadFails
<1>3. phase # "answer" /\ phase' # "answer"
  BY DEF Begin, ReadHeader, ReadBody, ReadFails, At
<1>4. reads \in Nat
  BY DEF SendingInv, Counts
<1> QED
  BY <1>1, <1>2, <1>3, <1>4, QuietStep

(* The task answers the request it has read last.                           *)
LEMMA AnswerStep ==
  ASSUME SendingInv, Answer
  PROVE  SendingInv' /\ Intact
<1> USE DEF SendingInv, Counts
<1>1. /\ phase = "deal" /\ UNCHANGED <<reads, queueing, gone>>
      /\ Task \in Sender /\ reads \in Nat /\ frame[Task] <= reads /\ Task # Queue
  BY SenderAssumption DEF Answer, At, Sender, NumbersAhead
<1>2. CASE SendHeader(Task, reads) /\ phase' = "answer"
  <2>1. HeaderLast'
    BY <1>1, <1>2, HeaderSent
  <2>2. Counts' /\ MiddleByPhase' /\ NumbersAhead'
    BY <1>1, <1>2 DEF SendHeader, MiddleByPhase, NumbersAhead, queueing
  <2>3. Intact
    <3>1. \A s \in Sender : frame'[s] >= frame[s]
      BY <1>1, <1>2 DEF SendHeader
    <3> QED
      BY <1>1, <1>2, <3>1, HeaderIntact DEF Intact
  <2> QED
    BY <2>1, <2>2, <2>3
<1>3. CASE HeaderFails(Task, reads) /\ phase' = "wait"
  BY <1>1, <1>3 DEF HeaderFails, MiddleByPhase, HeaderLast, NumbersAhead, queueing, Intact
<1>4. CASE LeftOut(Task, reads) /\ phase' = "wait"
  BY <1>1, <1>4 DEF LeftOut, MiddleByPhase, HeaderLast, InMiddle, NumbersAhead, queueing, Intact
<1> QED
  BY <1>2, <1>3, <1>4 DEF Answer

(* A body by one who is in the middle, or its failure: no counter changes.  *)
LEMMA BodyStep ==
  ASSUME SendingInv, NEW s \in middle, SendBody(s) \/ BodyFails(s),
         UNCHANGED <<reads, waiting, submitted, gone>>,
         IF s = Task THEN phase' # "answer" ELSE UNCHANGED phase,
         IF s = Queue THEN thread' # "sending" ELSE UNCHANGED thread
  PROVE  SendingInv' /\ Intact
<1> USE DEF SendingInv, Counts
<1>1. HeaderLast'
  <2>1. CASE SendBody(s)
    BY <2>1, BodySent
  <2>2. CASE BodyFails(s)
    BY <2>2 DEF BodyFails, HeaderLast
  <2> QED
    BY <2>1, <2>2
<1>2. UNCHANGED frame /\ middle' = middle \ {s}
  BY DEF SendBody, BodyFails
<1>3. Counts' /\ MiddleByPhase' /\ NumbersAhead'
  BY <1>2 DEF MiddleByPhase, NumbersAhead
<1>4. Intact
  <2>1. \A q \in Sender : frame'[q] >= frame[q]
    BY <1>2
  <2>2. CASE SendBody(s)
    BY <2>1, <2>2, BodyIntact DEF Intact
  <2>3. CASE BodyFails(s)
    BY <2>1, <2>3 DEF BodyFails, Intact
  <2> QED
    BY <2>2, <2>3
<1> QED
  BY <1>1, <1>3, <1>4

LEMMA AnsweredStep ==
  ASSUME SendingInv, Answered
  PROVE  SendingInv' /\ Intact
<1>1. Task \in middle
  BY DEF Answered, At, SendingInv, MiddleByPhase
<1> QED
  BY <1>1, BodyStep, SenderAssumption DEF Answered, queueing

(* A pusher sends its next packet.                                          *)
LEMMA PushStep ==
  ASSUME SendingInv, NEW p \in Pusher, Push(p)
  PROVE  SendingInv' /\ Intact
<1> USE DEF SendingInv, Counts
<1> DEFINE n == frame[p] + 1
<1>1. /\ p \in Sender /\ p # Task /\ p # Queue /\ frame[p] \in Nat /\ n \in Nat
      /\ p \notin middle /\ UNCHANGED <<reading, queueing, gone>>
  BY SenderAssumption DEF Push, Sender
<1>2. SendHeader(p, n) \/ HeaderFails(p, n) \/ LeftOut(p, n)
  BY DEF Push
<1>3. /\ frame' = [frame EXCEPT ![p] = n]
      /\ middle' = middle \cup {p} \/ middle' = middle
  BY <1>2 DEF SendHeader, HeaderFails, LeftOut
<1>4. Counts'
  BY <1>1, <1>3 DEF reading, queueing
<1>5. MiddleByPhase' /\ NumbersAhead'
  BY <1>1, <1>3, SenderAssumption DEF MiddleByPhase, NumbersAhead, reading, queueing, Sender
<1>6. HeaderLast'
  <2>1. CASE SendHeader(p, n)
    BY <1>1, <2>1, HeaderSent
  <2>2. CASE HeaderFails(p, n)
    BY <1>1, <2>2 DEF HeaderFails, HeaderLast
  <2>3. CASE LeftOut(p, n)
    BY <1>1, <1>3, <2>3 DEF LeftOut, HeaderLast, InMiddle
  <2> QED
    BY <1>2, <2>1, <2>2, <2>3
<1>7. Intact
  <2>1. \A s \in Sender : frame'[s] >= frame[s]
    BY <1>1, <1>3
  <2>2. CASE SendHeader(p, n)
    BY <1>1, <2>1, <2>2, HeaderIntact DEF Intact
  <2>3. CASE HeaderFails(p, n) \/ LeftOut(p, n)
    BY <2>1, <2>3 DEF HeaderFails, LeftOut, Intact
  <2> QED
    BY <1>2, <2>2, <2>3
<1> QED
  BY <1>4, <1>5, <1>6, <1>7

LEMMA PushBodyStep ==
  ASSUME SendingInv, NEW p \in Pusher, PushBody(p)
  PROVE  SendingInv' /\ Intact
BY BodyStep, SenderAssumption DEF PushBody, reading, queueing

-----------------------------------------------------------------------------
(* The queue *)

(* A packet put into the queue gets the next number.                        *)
LEMMA SubmitStep ==
  ASSUME SendingInv, Submit
  PROVE  SendingInv' /\ Intact
<1> USE DEF SendingInv, Counts, Submit, sending, reading
<1>1. /\ Len(waiting') = Len(waiting) + 1 /\ waiting' \in Seq(Nat)
      /\ \A i \in 1 .. Len(waiting) : waiting'[i] = waiting[i]
      /\ waiting'[Len(waiting) + 1] = submitted + 1
  OBVIOUS
<1>2. Counts' /\ MiddleByPhase'
  BY <1>1 DEF MiddleByPhase
<1>3. HeaderLast' /\ Intact
  BY DEF HeaderLast, InMiddle, Intact
<1>4. NumbersAhead'
  <2>1. Len(waiting) \in Nat /\ frame[Queue] \in Nat
    BY DEF Sender
  <2>2. frame'[Queue] + Len(waiting') <= submitted' /\ frame'[Task] <= reads'
    BY <1>1, <2>1 DEF NumbersAhead
  <2>3. ASSUME NEW i \in 1 .. Len(waiting')
        PROVE  waiting'[i] = submitted' - Len(waiting') + i
    BY <1>1, <2>1 DEF NumbersAhead
  <2> QED
    BY <2>2, <2>3 DEF NumbersAhead
<1> QED
  BY <1>2, <1>3, <1>4

(* The thread takes the first packet: it comes after the one sent last.     *)
LEMMA ThreadTakesStep ==
  ASSUME SendingInv, ThreadTakes
  PROVE  SendingInv' /\ Intact
<1> USE DEF SendingInv, Counts, ThreadTakes, reading
<1>1. /\ Len(waiting) \in Nat \ {0} /\ frame[Queue] \in Nat /\ Queue \in Sender
      /\ Head(waiting) = waiting[1] /\ Head(waiting) \in Nat
      /\ Tail(waiting) \in Seq(Nat) /\ Len(Tail(waiting)) = Len(waiting) - 1
      /\ \A i \in 1 .. Len(waiting) - 1 : Tail(waiting)[i] = waiting[i + 1]
  BY DEF Sender
<1>2. /\ Head(waiting) = submitted - Len(waiting) + 1
      /\ frame[Queue] + Len(waiting) <= submitted
      /\ frame' = [frame EXCEPT ![Queue] = Head(waiting)] /\ waiting' = Tail(waiting)
      /\ UNCHANGED <<submitted, reads, last, middle, overlapped, gone, phase>>
  BY <1>1 DEF NumbersAhead
<1>3. Counts'
  BY <1>1, <1>2
<1>4. Queue \notin middle /\ MiddleByPhase'
  BY DEF MiddleByPhase
<1>5. HeaderLast'
  BY <1>2, <1>4 DEF HeaderLast, InMiddle
<1>6. NumbersAhead'
  <2>1. frame'[Queue] + Len(waiting') <= submitted'
    BY <1>1, <1>2
  <2>2. frame'[Task] <= reads'
    BY <1>2, SenderAssumption DEF NumbersAhead
  <2>3. ASSUME NEW i \in 1 .. Len(waiting')
        PROVE  waiting'[i] = submitted' - Len(waiting') + i
    BY <1>1, <1>2 DEF NumbersAhead
  <2> QED
    BY <2>1, <2>2, <2>3 DEF NumbersAhead
<1>7. Intact
  <2>1. Head(waiting) >= frame[Queue]
    BY <1>1, <1>2
  <2> QED
    BY <1>2, <2>1 DEF Intact
<1> QED
  BY <1>3, <1>4, <1>5, <1>6, <1>7

(* It sends the packet it holds.                                            *)
LEMMA SendsStep ==
  ASSUME SendingInv, ThreadSends
  PROVE  SendingInv' /\ Intact
<1> USE DEF SendingInv, Counts, reading
<1> DEFINE n == frame[Queue]
<1>1. /\ Queue \in Sender /\ Queue # Task /\ n \in Nat /\ Queue \notin middle
      /\ UNCHANGED <<reads, phase, waiting, submitted, gone>>
  BY SenderAssumption DEF ThreadSends, Sender, MiddleByPhase
<1>2. \/ SendHeader(Queue, n) /\ thread' = "sending"
      \/ (HeaderFails(Queue, n) \/ LeftOut(Queue, n)) /\ thread' = "ready"
  BY DEF ThreadSends
<1>3. /\ frame' = frame
      /\ \/ middle' = middle \cup {Queue} /\ thread' = "sending"
         \/ middle' = middle /\ thread' = "ready"
  BY <1>1, <1>2 DEF SendHeader, HeaderFails, LeftOut
<1>4. Counts' /\ MiddleByPhase' /\ NumbersAhead'
  BY <1>1, <1>3 DEF MiddleByPhase, NumbersAhead
<1>5. HeaderLast'
  <2>1. CASE SendHeader(Queue, n)
    BY <1>1, <2>1, HeaderSent
  <2>2. CASE HeaderFails(Queue, n)
    BY <1>1, <2>2 DEF HeaderFails, HeaderLast
  <2>3. CASE LeftOut(Queue, n)
    BY <1>1, <1>3, <2>3 DEF LeftOut, HeaderLast, InMiddle
  <2> QED
    BY <1>2, <2>1, <2>2, <2>3
<1>6. Intact
  <2>1. \A s \in Sender : frame'[s] >= frame[s]
    BY <1>3
  <2>2. CASE SendHeader(Queue, n)
    BY <1>1, <2>1, <2>2, HeaderIntact DEF Intact
  <2>3. CASE HeaderFails(Queue, n) \/ LeftOut(Queue, n)
    BY <2>1, <2>3 DEF HeaderFails, LeftOut, Intact
  <2> QED
    BY <1>2, <2>2, <2>3
<1> QED
  BY <1>4, <1>5, <1>6

LEMMA SentStep ==
  ASSUME SendingInv, ThreadSent
  PROVE  SendingInv' /\ Intact
<1>1. Queue \in middle
  BY DEF ThreadSent, SendingInv, MiddleByPhase
<1> QED
  BY <1>1, BodyStep, SenderAssumption DEF ThreadSent, reading

(* It starts, or ends when the queue is empty.                              *)
LEMMA ThreadStep ==
  ASSUME SendingInv, ThreadStarts \/ ThreadEnds
  PROVE  SendingInv' /\ Intact
<1> USE DEF SendingInv, Counts, ThreadStarts, ThreadEnds, reading, sending
<1>1. Counts' /\ MiddleByPhase' /\ NumbersAhead'
  BY DEF MiddleByPhase, NumbersAhead
<1>2. HeaderLast' /\ Intact
  BY DEF HeaderLast, InMiddle, Intact
<1> QED
  BY <1>1, <1>2

-----------------------------------------------------------------------------
(* The theorem *)

LEMMA NextStep ==
  ASSUME SendingInv, [TRNext]_tr_vars
  PROVE  SendingInv' /\ (Intact \/ UNCHANGED tr_vars)
<1>1. CASE UNCHANGED tr_vars
  BY <1>1, QuietStep DEF tr_vars, sending, queueing, SendingInv, Counts
<1>2. CASE Client \/ Serve
  BY <1>2, PeerStep, ReadStep, AnswerStep, AnsweredStep DEF Serve
<1>3. CASE Submit \/ QueueThread
  BY <1>3, SubmitStep, ThreadStep, ThreadTakesStep, SendsStep, SentStep DEF QueueThread
<1>4. ASSUME NEW p \in Pusher, Push(p) \/ PushBody(p)
      PROVE  SendingInv' /\ Intact
  BY <1>4, PushStep, PushBodyStep
<1> QED
  BY <1>1, <1>2, <1>3, <1>4 DEF TRNext

LEMMA StartSending == TRInit => SendingInv
<1> SUFFICES ASSUME TRInit PROVE SendingInv
  OBVIOUS
<1> USE DEF TRInit
<1>1. Counts /\ MiddleByPhase
  BY DEF Counts, MiddleByPhase
<1>2. HeaderLast
  BY DEF HeaderLast, InMiddle
<1>3. NumbersAhead
  BY DEF NumbersAhead, Sender
<1> QED
  BY <1>1, <1>2, <1>3 DEF SendingInv

(* SafeNetwork::Send sends a header and a body by two calls and locks       *)
(* nothing: as long as no two senders of a connection are between the two   *)
(* at once and the client is there, a body follows its header and nothing   *)
(* else; and the answers, the pushes and the queued packets of a sender     *)
(* come in the order in which they were made.                               *)
THEOREM PacketsIntact == TRSpec => OutgoingIntact
<1>1. SendingInv /\ [TRNext]_tr_vars => SendingInv'
  BY NextStep
<1>2. SendingInv /\ [TRNext]_tr_vars => [Intact]_tr_vars
  BY NextStep
<1>3. TRSpec => [][Intact]_tr_vars
  BY StartSending, <1>1, <1>2, PTL DEF TRSpec
<1> QED
  BY <1>3 DEF OutgoingIntact, Intact

-----------------------------------------------------------------------------
(* The receiving side: the reader stays in step with the frames             *)

LEMMA Element ==
  ASSUME NEW S, NEW seq \in Seq(S), NEW n \in 1 .. Len(seq)
  PROVE  seq[n] \in S
OBVIOUS

LEMMA RequestType ==
  ASSUME Stream, NEW n \in 1 .. Len(sent)
  PROVE  sent[n] \in [size : Size, end : Nat] /\ sent[n].size \in Nat /\ sent[n].end \in Nat
<1>1. sent[n] \in [size : Size, end : Nat]
  BY Element DEF Stream
<1> QED
  BY <1>1, SizeAssumption

LEMMA EndType ==
  ASSUME Stream, NEW n \in 0 .. Len(sent)
  PROVE  End(n) \in Nat
<1>1. CASE n = 0
  BY <1>1 DEF End
<1>2. CASE n # 0
  <2>1. n \in 1 .. Len(sent)
    BY <1>2
  <2> QED
    BY <1>2, <2>1, RequestType DEF End
<1> QED
  BY <1>1, <1>2

(* Only the client and the network change the stream.                       *)
LEMMA SentSame ==
  ASSUME UNCHANGED sent, NEW n
  PROVE  End(n)' = End(n)
BY DEF End

(* There is more behind the n-th request than it: another one.              *)
LEMMA MoreBehind ==
  ASSUME Stream, NEW n \in 0 .. Len(sent), arrived > End(n)
  PROVE  n < Len(sent)
BY EndType DEF Stream

LEMMA RequestFrames ==
  ASSUME FrameInv, NEW size \in Size, Request(size)
  PROVE  FrameInv'
<1> DEFINE item == [size |-> size, end |-> End(Len(sent)) + HeaderSize + size]
<1>1. /\ sent' = Append(sent, item)
      /\ pipelined' = (pipelined \/ reads < Len(sent) \/ phase # "wait")
      /\ UNCHANGED <<arrived, consumed, phase, need, reads, header_cut, body_cut>>
  BY DEF Request, reading, cuts
<1>2. PICK l \in Nat : l = Len(sent)
  BY DEF FrameInv, Stream
<1>3. /\ sent \in Seq([size : Size, end : Nat]) /\ End(l) \in Nat
      /\ size \in Nat /\ HeaderSize \in Nat /\ item \in [size : Size, end : Nat]
      /\ reads \in 0 .. l
  BY <1>2, EndType, SizeAssumption DEF FrameInv, Stream
<1>4. item.end = End(l) + HeaderSize + size /\ item.size = size
  BY <1>2
<1> HIDE DEF item
<1>5. /\ Len(sent') = l + 1 /\ sent' \in Seq([size : Size, end : Nat])
      /\ \A n \in 1 .. l : sent'[n] = sent[n]
      /\ sent'[l + 1] = item
  BY <1>1, <1>2, <1>3
<1>6. ASSUME NEW n \in 0 .. l
      PROVE  End(n)' = End(n)
  BY <1>5 DEF End
<1>7. End(l + 1)' = End(l) + HeaderSize + size /\ sent'[l + 1].size = size
  <2>1. l + 1 # 0
    OBVIOUS
  <2> QED
    BY <1>4, <1>5, <2>1 DEF End
<1>8. Stream'
  <2>1. ASSUME NEW n \in 1 .. l + 1
        PROVE  End(n)' = End(n - 1)' + HeaderSize + sent'[n].size
    <3>1. CASE n \in 1 .. l
      <4>1. n - 1 \in 0 .. l /\ n \in 0 .. l
        BY <3>1
      <4>2. End(n) = End(n - 1) + HeaderSize + sent[n].size
        BY <1>2, <3>1 DEF FrameInv, Stream
      <4> QED
        BY <1>5, <1>6, <3>1, <4>1, <4>2
    <3>2. CASE n = l + 1
      <4>1. n - 1 = l /\ End(l)' = End(l)
        BY <1>6, <3>2
      <4> QED
        BY <1>7, <3>2, <4>1
    <3> QED
      BY <3>1, <3>2
  <2>2. arrived' \in 0 .. End(l + 1)' /\ consumed' \in 0 .. arrived' /\ reads' \in 0 .. l + 1
    BY <1>1, <1>2, <1>3, <1>7, SizeAssumption DEF FrameInv, Stream
  <2> QED
    BY <1>5, <2>1, <2>2 DEF Stream
<1>9. PICK k \in 0 .. l : k = reads /\ k = reads'
  BY <1>1, <1>3
<1>10. /\ End(k)' = End(k)
       /\ k < l => End(k + 1)' = End(k + 1) /\ sent'[k + 1] = sent[k + 1]
  BY <1>5, <1>6
<1>11. AtBoundary' /\ Overrun'
  BY <1>1, <1>9, <1>10 DEF FrameInv, AtBoundary, Overrun
<1>12. InHeader' /\ InBody'
  BY <1>1, <1>2, <1>5, <1>9, <1>10 DEF FrameInv, InHeader, InBody
<1>13. Ahead' /\ {header_cut, body_cut, pipelined}' \subseteq BOOLEAN
  <2>1. {header_cut, body_cut, pipelined}' \subseteq BOOLEAN
    BY <1>1 DEF FrameInv
  <2>2. l + 1 >= reads + 2 => reads < l
    BY <1>3
  <2>3. reads < l => pipelined'
    BY <1>1, <1>2
  <2> QED
    BY <1>1, <1>5, <2>1, <2>2, <2>3 DEF Ahead
<1> QED
  BY <1>8, <1>11, <1>12, <1>13 DEF FrameInv

LEMMA ArriveFrames ==
  ASSUME FrameInv, Arrive
  PROVE  FrameInv'
<1>1. /\ UNCHANGED <<sent, consumed, phase, need, reads, header_cut, body_cut, pipelined>>
      /\ arrived' \in arrived + 1 .. End(Len(sent))
  BY DEF Arrive, cuts
<1>2. End(Len(sent)) \in Nat
  BY EndType DEF FrameInv, Stream
<1>3. Stream'
  BY <1>1, <1>2 DEF FrameInv, Stream, End
<1> QED
  BY <1>1, <1>3 DEF FrameInv, AtBoundary, InHeader, InBody, Ahead, Overrun, End

LEMMA BeginFrames ==
  ASSUME FrameInv, Begin
  PROVE  FrameInv'
<1>1. /\ phase = "wait" /\ phase' = "header" /\ need' = HeaderSize /\ arrived > consumed
      /\ UNCHANGED <<sent, arrived, consumed, reads, pipelined>>
      /\ header_cut' = FALSE /\ body_cut' = FALSE
  BY DEF Begin, At
<1>2. consumed = End(reads) /\ reads < Len(sent)
  BY <1>1, MoreBehind DEF FrameInv, AtBoundary, Stream
<1>3. InHeader'
  BY <1>1, <1>2, SizeAssumption DEF InHeader, FrameInv, Stream, End
<1>4. Stream' /\ Ahead'
  BY <1>1 DEF FrameInv, Stream, Ahead, End
<1> QED
  BY <1>1, <1>3, <1>4 DEF FrameInv, AtBoundary, InBody, Overrun

(* recv takes something and no more than is there, or than it is asked for. *)
LEMMA ReceivedIs ==
  ASSUME NEW field \in Nat \ {0}, arrived \in Nat, consumed \in 0 .. arrived, arrived > consumed
  PROVE  /\ Received(field) \in 1 .. field
         /\ consumed + Received(field) <= arrived
BY DEF Received, Least

LEMMA ReadHeaderFrames ==
  ASSUME FrameInv, ReadHeader
  PROVE  FrameInv'
<1> DEFINE took == Received(HeaderSize)
           left == need - took
           size == sent[reads + 1].size
<1>1. /\ phase = "header" /\ arrived > consumed
      /\ consumed' = consumed + took
      /\ header_cut' = (header_cut \/ phase' = "header")
      /\ UNCHANGED <<sent, arrived, reads, body_cut, pipelined>>
  BY DEF ReadHeader, At
<1>2. \/ left > 0 /\ need' = left /\ phase' = phase
      \/ left = 0 /\ need' = size /\ phase' = IF size \in 1 .. MaxPack THEN "body" ELSE "closed"
      \/ left < 0 /\ need' = left /\ phase' = "overrun"
  BY DEF ReadHeader
<1>3. /\ arrived \in 0 .. End(Len(sent)) /\ End(Len(sent)) \in Nat
      /\ consumed \in 0 .. arrived /\ reads \in Nat
      /\ reads < Len(sent) /\ need \in 1 .. HeaderSize
      /\ consumed = End(reads) + HeaderSize - need
      /\ need < HeaderSize => header_cut
  BY <1>1, EndType DEF FrameInv, InHeader, Stream
<1>4. took \in 1 .. HeaderSize /\ consumed' <= arrived
  BY <1>1, <1>3, ReceivedIs, SizeAssumption
<1>5. /\ End(reads + 1) = End(reads) + HeaderSize + size /\ size \in Nat
      /\ End(reads) \in Nat /\ End(reads + 1) \in Nat /\ HeaderSize \in Nat
  <2>1. reads + 1 \in 1 .. Len(sent) /\ reads + 1 \in 0 .. Len(sent) /\ reads \in 0 .. Len(sent)
        /\ (reads + 1) - 1 = reads
    BY <1>3 DEF FrameInv, Stream
  <2>2. size \in Nat
    BY <2>1, RequestType DEF FrameInv
  <2>3. End(reads + 1) = End(reads) + HeaderSize + size
    BY <2>1 DEF FrameInv, Stream
  <2> QED
    BY <2>1, <2>2, <2>3, EndType, SizeAssumption DEF FrameInv
<1> HIDE DEF took, size
<1>6. Stream'
  BY <1>1, <1>3, <1>4 DEF FrameInv, Stream, End
<1>7. \A n : End(n)' = End(n)
  BY <1>1 DEF End
<1>12. /\ left \in Int /\ left < need /\ need \in Nat /\ need <= HeaderSize
       /\ consumed' = End(reads) + HeaderSize - left
  <2>1. consumed' = consumed + took
    BY <1>1
  <2>2. need \in Nat /\ need <= HeaderSize /\ HeaderSize \in Nat
    BY <1>3, <1>5
  <2>3. took \in Nat /\ took > 0
    BY <1>4, <1>5
  <2>4. consumed = End(reads) + HeaderSize - need /\ End(reads) \in Nat
    BY <1>3, <1>5
  <2>5. left = need - took
    OBVIOUS
  <2>6. left \in Int /\ left < need
    BY <2>2, <2>3, <2>5
  <2> QED
    BY <2>1, <2>2, <2>3, <2>4, <2>6
<1> HIDE DEF left
<1>8. CASE left > 0
  <2>1. need' = left /\ phase' = "header"
    BY <1>1, <1>2, <1>8, <1>12
  <2>3. header_cut' = TRUE
    BY <1>1, <2>1
  <2>2. InHeader'
    BY <1>1, <1>3, <1>5, <1>7, <1>8, <1>12, <2>1, <2>3 DEF InHeader
  <2> QED
    BY <1>1, <1>6, <2>1, <2>2, <2>3 DEF FrameInv, AtBoundary, InBody, Ahead, Overrun
<1>9. CASE left = 0
  <2>1. need' = size /\ phase' = IF size \in 1 .. MaxPack THEN "body" ELSE "closed"
    BY <1>2, <1>9, <1>12
  <2>2. InBody'
    <3>1. SUFFICES ASSUME phase' = "body" PROVE InBody'
      BY DEF InBody
    <3>2. size \in 1 .. MaxPack /\ MaxPack \in Nat /\ need' = size
      BY <2>1, <3>1, SizeAssumption
    <3>3. sent'[reads' + 1].size = size /\ End(reads + 1)' = End(reads + 1)
      BY <1>1 DEF size, End
    <3>4. consumed' = End(reads + 1) - need'
      BY <1>5, <1>9, <1>12, <3>2
    <3> QED
      BY <1>1, <1>3, <3>2, <3>3, <3>4 DEF InBody
  <2>3. header_cut' \in BOOLEAN
    BY <1>1 DEF FrameInv
  <2> QED
    BY <1>1, <1>6, <2>1, <2>2, <2>3 DEF FrameInv, AtBoundary, InHeader, Ahead, Overrun
<1>10. CASE left < 0
  <2>1. phase' = "overrun" /\ need < HeaderSize
    BY <1>2, <1>4, <1>5, <1>10, <1>12 DEF left
  <2>2. header_cut' = TRUE
    BY <1>1, <1>3, <2>1
  <2> QED
    BY <1>1, <1>6, <2>1, <2>2 DEF FrameInv, AtBoundary, InHeader, InBody, Ahead, Overrun
<1> QED
  BY <1>8, <1>9, <1>10, <1>12

LEMMA ReadBodyFrames ==
  ASSUME FrameInv, ReadBody
  PROVE  FrameInv'
<1> DEFINE size == sent[reads + 1].size
           took == Received(size)
           left == need - took
<1>1. /\ phase = "body" /\ arrived > consumed
      /\ consumed' = consumed + took /\ need' = left
      /\ phase' = IF left > 0 THEN "body" ELSE IF left = 0 THEN "deal" ELSE "overrun"
      /\ reads' = IF left = 0 THEN reads + 1 ELSE reads
      /\ body_cut' = (body_cut \/ left > 0)
      /\ UNCHANGED <<sent, arrived, header_cut, pipelined>>
  BY DEF ReadBody, At
<1>2. /\ arrived \in 0 .. End(Len(sent)) /\ End(Len(sent)) \in Nat
      /\ consumed \in 0 .. arrived /\ reads \in Nat /\ Len(sent) \in Nat
      /\ reads < Len(sent) /\ need \in 1 .. size
      /\ consumed = End(reads + 1) - need
      /\ need < size => body_cut
  BY <1>1, EndType DEF FrameInv, InBody, Stream
<1>3. size \in Nat \ {0} /\ End(reads + 1) \in Nat
  <2>1. reads + 1 \in 1 .. Len(sent) /\ reads + 1 \in 0 .. Len(sent)
    BY <1>2
  <2>2. size \in Nat
    BY <2>1, RequestType DEF FrameInv
  <2>3. End(reads + 1) \in Nat
    BY <2>1, EndType DEF FrameInv
  <2> QED
    BY <1>2, <2>2, <2>3
<1>4. took \in 1 .. size /\ consumed' <= arrived
  <2>1. arrived \in Nat /\ consumed \in 0 .. arrived /\ arrived > consumed
    BY <1>1, <1>2
  <2> HIDE DEF size
  <2> QED
    BY <1>1, <1>3, <2>1, ReceivedIs
<1>5. /\ left \in Int /\ left < need /\ need \in Nat /\ need <= size
      /\ consumed' = End(reads + 1) - left
  <2>1. consumed' = consumed + took /\ consumed = End(reads + 1) - need
    BY <1>1, <1>2
  <2>2. need \in Nat /\ need <= size
    BY <1>2, <1>3
  <2>3. took \in Nat /\ took > 0
    BY <1>3, <1>4
  <2>4. left \in Int /\ left < need
    BY <2>2, <2>3
  <2> QED
    BY <1>3, <2>1, <2>2, <2>3, <2>4
<1> HIDE DEF took, size, left
<1>6. \A n : End(n)' = End(n)
  BY <1>1 DEF End
<1>7. Stream'
  <2>1. reads' \in 0 .. Len(sent) /\ consumed' \in 0 .. arrived
    BY <1>1, <1>2, <1>3, <1>4
  <2> QED
    BY <1>1, <1>6, <2>1 DEF FrameInv, Stream
<1>8. Ahead'
  BY <1>1, <1>2 DEF FrameInv, Ahead
<1>9. CASE left > 0
  <2>1. phase' = "body" /\ reads' = reads
    BY <1>1, <1>9, <1>5
  <2>2. body_cut' = TRUE
    BY <1>1, <1>9
  <2>3. InBody'
    <3>1. sent'[reads' + 1].size = size /\ End(reads + 1)' = End(reads + 1)
      BY <1>1, <2>1 DEF size, End
    <3>2. need' \in 1 .. size /\ consumed' = End(reads + 1) - need'
      BY <1>1, <1>3, <1>5, <1>9
    <3> QED
      BY <1>1, <1>2, <2>1, <2>2, <3>1, <3>2 DEF InBody
  <2> QED
    BY <1>1, <1>7, <1>8, <2>1, <2>2, <2>3 DEF FrameInv, AtBoundary, InHeader, Overrun
<1>10. CASE left = 0
  <2>1. phase' = "deal" /\ reads' = reads + 1
    BY <1>1, <1>10
  <2>2. consumed' = End(reads + 1)
    BY <1>3, <1>5, <1>10
  <2>3. consumed' = End(reads)'
    BY <1>1, <2>1, <2>2 DEF End
  <2>4. body_cut' \in BOOLEAN
    BY <1>1
  <2> QED
    BY <1>1, <1>7, <1>8, <2>1, <2>3, <2>4 DEF FrameInv, AtBoundary, InHeader, InBody, Overrun
<1>11. CASE left < 0
  <2>1. phase' = "overrun" /\ reads' = reads
    BY <1>1, <1>5, <1>11
  <2>7. need < size
    <3>1. took <= size /\ left = need - took
      BY <1>3, <1>4 DEF left
    <3> QED
      BY <1>3, <1>4, <1>5, <1>11, <3>1
  <2>2. body_cut' = TRUE
    BY <1>1, <1>2, <2>7
  <2>3. arrived > End(reads + 1)
    BY <1>2, <1>3, <1>4, <1>5, <1>11
  <2>4. reads + 1 \in 0 .. Len(sent)
    BY <1>2
  <2>5. reads + 1 < Len(sent)
    BY <2>3, <2>4, MoreBehind DEF FrameInv
  <2>6. pipelined
    BY <1>2, <2>5 DEF FrameInv, Ahead
  <2> QED
    BY <1>1, <1>7, <1>8, <2>1, <2>2, <2>6 DEF FrameInv, AtBoundary, InHeader, InBody, Overrun
<1> QED
  BY <1>5, <1>9, <1>10, <1>11

(* All other steps leave the reader where it is, or move it between waiting *)
(* and answering, or close.                                                 *)
LEMMA OtherFrames ==
  ASSUME FrameInv,
         UNCHANGED <<sent, arrived, consumed, reads, cuts, pipelined>>,
         \/ UNCHANGED <<phase, need>>
         \/ phase' = "closed"
         \/ phase \in {"deal", "answer"} /\ phase' \in {"wait", "answer"}
  PROVE  FrameInv'
<1>1. \A n : End(n)' = End(n)
  BY DEF End
<1>2. Stream' /\ Ahead'
  BY <1>1 DEF FrameInv, Stream, Ahead
<1>3. {header_cut, body_cut, pipelined}' \subseteq BOOLEAN
  BY DEF FrameInv, cuts
<1>4. AtBoundary' /\ InHeader' /\ InBody' /\ Overrun'
  BY <1>1 DEF FrameInv, AtBoundary, InHeader, InBody, Overrun, cuts
<1> QED
  BY <1>2, <1>3, <1>4 DEF FrameInv

LEMMA NextFrames ==
  ASSUME FrameInv, [TRNext]_tr_vars
  PROVE  FrameInv'
<1> USE DEF reading, cuts
<1>1. CASE UNCHANGED tr_vars
  BY <1>1, OtherFrames DEF tr_vars
<1>2. CASE Client
  BY <1>2, RequestFrames, ArriveFrames, OtherFrames DEF Client, ClientLeaves
<1>3. CASE ReadFails \/ Answer \/ Answered
  BY <1>3, OtherFrames DEF ReadFails, Answer, Answered, At
<1>4. CASE Submit \/ QueueThread
  BY <1>4, OtherFrames
     DEF Submit, QueueThread, ThreadStarts, ThreadTakes, ThreadSends, ThreadSent, ThreadEnds
<1>5. ASSUME NEW p \in Pusher, Push(p) \/ PushBody(p)
      PROVE  FrameInv'
  BY <1>5, OtherFrames DEF Push, PushBody
<1> QED
  BY <1>1, <1>2, <1>3, <1>4, <1>5, BeginFrames, ReadHeaderFrames, ReadBodyFrames
     DEF TRNext, Serve

LEMMA StartFrames == TRInit => FrameInv
<1> SUFFICES ASSUME TRInit PROVE FrameInv
  OBVIOUS
<1>1. /\ sent = <<>> /\ Len(sent) = 0 /\ End(0) = 0 /\ sent \in Seq([size : Size, end : Nat])
      /\ reads = 0 /\ arrived = 0 /\ consumed = 0 /\ phase = "wait"
      /\ header_cut = FALSE /\ body_cut = FALSE /\ pipelined = FALSE
  BY DEF TRInit, End
<1>2. Stream
  BY <1>1 DEF Stream
<1>3. AtBoundary /\ Ahead
  BY <1>1 DEF AtBoundary, Ahead
<1> QED
  BY <1>1, <1>2, <1>3 DEF FrameInv, InHeader, InBody, Overrun

(* The size of a packet is read, and its body, by a recv that is asked for  *)
(* the whole field each time: between two packets the reader is at the end  *)
(* of one, and it runs over the end of a field only when the field came in  *)
(* pieces, for a body only when another packet was behind it.               *)
THEOREM ReaderInStep == TRSpec => []FramesInStep
<1>1. FrameInv /\ [TRNext]_tr_vars => FrameInv'
  BY NextFrames
<1>2. FrameInv => FramesInStep
  BY DEF FrameInv, AtBoundary, Overrun, FramesInStep
<1> QED
  BY <1>1, <1>2, StartFrames, PTL DEF TRSpec

-----------------------------------------------------------------------------
(* Types: what the two invariants do not say already                        *)

PieceType == [from : Sender, number : Nat, part : {"header", "body"}] \cup {Nothing}
Labels ==
  /\ phase \in {"wait", "header", "body", "deal", "answer", "closed", "overrun"}
  /\ need \in Int /\ thread \in ThreadLabels
  /\ too_large \subseteq Nat /\ whole \subseteq Nat
Sent == last \in PieceType /\ {gone, overlapped} \subseteq BOOLEAN

LEMMA LabelsKept ==
  ASSUME SendingInv, FrameInv, Labels, [TRNext]_tr_vars
  PROVE  Labels'
<1> USE DEF Labels, reading, queueing, ThreadLabels
<1>1. CASE UNCHANGED tr_vars
  BY <1>1 DEF tr_vars
<1>2. CASE Client
  BY <1>2 DEF Client, Request, Arrive, ClientLeaves
<1>3. CASE Begin \/ ReadFails \/ Answer \/ Answered
  <2>1. UNCHANGED <<thread, too_large, whole>>
    BY <1>3 DEF Begin, ReadFails, Answer, Answered
  <2>2. need' \in Int
    BY <1>3, SizeAssumption DEF Begin, ReadFails, Answer, Answered
  <2>3. phase' \in {"wait", "header", "answer", "closed"}
    BY <1>3 DEF Begin, ReadFails, Answer, Answered
  <2> QED
    BY <2>1, <2>2, <2>3
<1>4. CASE ReadHeader
  <2>1. reads < Len(sent) /\ arrived \in Nat /\ consumed \in 0 .. arrived
    BY <1>4, EndType DEF ReadHeader, At, FrameInv, InHeader, Stream
  <2>2. Received(HeaderSize) \in Int
    BY <1>4, <2>1, ReceivedIs, SizeAssumption DEF ReadHeader
  <2>3. reads + 1 \in 1 .. Len(sent)
    BY <2>1 DEF FrameInv, Stream
  <2>4. sent[reads + 1].size \in Nat
    BY <2>3, RequestType DEF FrameInv
  <2> QED
    BY <1>4, <2>2, <2>4 DEF ReadHeader
<1>5. CASE ReadBody
  <2> DEFINE size == sent[reads + 1].size
  <2>1. /\ arrived \in Nat /\ consumed \in 0 .. arrived /\ arrived > consumed
        /\ need \in 1 .. size /\ reads < Len(sent)
    BY <1>5, EndType DEF ReadBody, At, FrameInv, InBody, Stream
  <2>2. reads + 1 \in 1 .. Len(sent)
    BY <2>1 DEF FrameInv, Stream
  <2>3. size \in Nat \ {0}
    BY <2>1, <2>2, RequestType DEF FrameInv
  <2> HIDE DEF size
  <2>4. Received(size) \in Int
    BY <2>1, <2>3, ReceivedIs
  <2> QED
    BY <1>5, <2>4 DEF ReadBody, size
<1>6. CASE Submit \/ QueueThread
  <2>1. submitted \in Nat /\ frame[Queue] \in Nat
    BY DEF SendingInv, Counts, Sender
  <2>2. UNCHANGED <<phase, need>> /\ thread' \in ThreadLabels
    BY <1>6
       DEF Submit, QueueThread, ThreadStarts, ThreadTakes, ThreadSends, ThreadSent, ThreadEnds
  <2>3. too_large' \subseteq Nat
    <3>1. too_large' \in {too_large, too_large \cup {submitted + 1}}
      BY <1>6
         DEF Submit, QueueThread, ThreadStarts, ThreadTakes, ThreadSends, ThreadSent, ThreadEnds
    <3>2. submitted + 1 \in Nat
      BY <2>1
    <3> QED
      BY <3>1, <3>2
  <2>4. whole' \subseteq Nat
    BY <1>6, <2>1
       DEF Submit, QueueThread, ThreadStarts, ThreadTakes, ThreadSends, ThreadSent, ThreadEnds
  <2> QED
    BY <2>2, <2>3, <2>4
<1>7. ASSUME NEW p \in Pusher, Push(p) \/ PushBody(p)
      PROVE  Labels'
  BY <1>7 DEF Push, PushBody
<1> QED
  BY <1>1, <1>2, <1>3, <1>4, <1>5, <1>6, <1>7 DEF TRNext, Serve

(* What the two calls of send do to it.                                     *)
LEMMA PieceSent ==
  ASSUME SendingInv, Sent, NEW s \in Sender, NEW n \in Nat, gone' \in BOOLEAN,
         SendHeader(s, n) \/ SendBody(s) \/ HeaderFails(s, n) \/ BodyFails(s) \/ LeftOut(s, n)
  PROVE  Sent'
<1>1. frame[s] \in Nat
  BY DEF SendingInv, Counts
<1>2. last' \in PieceType
  BY <1>1 DEF Sent, PieceType, Piece, SendHeader, SendBody, HeaderFails, BodyFails, LeftOut
<1>3. overlapped' \in BOOLEAN
  BY DEF Sent, SendHeader, SendBody, HeaderFails, BodyFails, LeftOut
<1> QED
  BY <1>2, <1>3 DEF Sent

LEMMA SentKept ==
  ASSUME SendingInv, Sent, [TRNext]_tr_vars
  PROVE  Sent'
<1>1. gone \in BOOLEAN /\ reads \in Nat /\ Task \in Sender /\ Queue \in Sender
      /\ \A s \in Sender : frame[s] \in Nat /\ frame[s] + 1 \in Nat
  BY DEF Sent, SendingInv, Counts, Sender
<1>2. CASE UNCHANGED <<last, overlapped>> /\ gone' \in BOOLEAN
  BY <1>2 DEF Sent
<1>3. CASE UNCHANGED tr_vars \/ Begin \/ ReadHeader \/ ReadBody \/ ReadFails \/ Submit
           \/ ThreadStarts \/ ThreadTakes \/ ThreadEnds
  BY <1>1, <1>2, <1>3
     DEF tr_vars, sending, Begin, ReadHeader, ReadBody, ReadFails, Submit, ThreadStarts,
         ThreadTakes, ThreadEnds
<1>4. CASE Client
  <2>1. ASSUME NEW size \in Size, Request(size)
        PROVE  UNCHANGED <<last, overlapped, gone>>
    BY <2>1 DEF Request, sending
  <2> QED
    BY <1>1, <1>2, <1>4, <2>1 DEF Client, Arrive, ClientLeaves, sending
<1>5. CASE Answer \/ Answered
  BY <1>1, <1>2, <1>5, PieceSent DEF Answer, Answered, sending
<1>6. CASE ThreadSends \/ ThreadSent
  BY <1>1, <1>6, PieceSent DEF ThreadSends, ThreadSent
<1>7. ASSUME NEW p \in Pusher, Push(p) \/ PushBody(p)
      PROVE  Sent'
  <2>1. p \in Sender
    BY DEF Sender
  <2> QED
    BY <1>1, <1>7, <2>1, PieceSent DEF Push, PushBody
<1> QED
  BY <1>3, <1>4, <1>5, <1>6, <1>7 DEF TRNext, Serve, QueueThread

(* Every variable of a connection keeps its type.                           *)
THEOREM PacketsTyped == TRSpec => []TRTypeOK
<1> DEFINE TRInv == SendingInv /\ FrameInv /\ Labels /\ Sent
<1>1. TRInit => TRInv
  <2>1. TRInit => Labels
    BY DEF TRInit, Labels, ThreadLabels
  <2>2. TRInit => Sent
    BY DEF TRInit, Sent, PieceType
  <2> QED
    BY <2>1, <2>2, StartSending, StartFrames
<1>2. TRInv /\ [TRNext]_tr_vars => TRInv'
  BY NextStep, NextFrames, LabelsKept, SentKept
     DEF tr_vars, SendingInv, Counts, MiddleByPhase, HeaderLast, InMiddle, NumbersAhead
<1>3. TRInv => TRTypeOK
  BY EndType DEF SendingInv, Counts, FrameInv, Stream, Labels, Sent, PieceType, TRTypeOK
<1> QED
  BY <1>1, <1>2, <1>3, PTL DEF TRSpec
=============================================================================
