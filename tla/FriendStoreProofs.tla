-------------------------- MODULE FriendStoreProofs -------------------------
(* Proofs about FriendStore for every set of users and threads, however     *)
(* the handlers interleave and wherever the server crashes: nobody has a    *)
(* friend without consent; the two lists of a friendship agree, a pending   *)
(* request waits for its answer, and the files implement the graph of       *)
(* FriendGraph, but for what is recorded as spoiled or crossed.             *)
EXTENDS FriendStore, SequenceTheorems, TLAPS

-----------------------------------------------------------------------------
(* Lists *)

(* Appending adds just the element.                                         *)
LEMMA AppendContains ==
  ASSUME NEW s \in Seq(User), NEW x \in User
  PROVE  /\ Append(s, x) \in Seq(User)
         /\ \A v : Contains(Append(s, x), v) <=> Contains(s, v) \/ v = x
<1>1. /\ Append(s, x) \in Seq(User)
      /\ Len(Append(s, x)) = Len(s) + 1
      /\ \A i \in 1..Len(s) : Append(s, x)[i] = s[i]
      /\ Append(s, x)[Len(s) + 1] = x
      /\ Len(s) \in Nat
  OBVIOUS
<1>2. ASSUME NEW v
      PROVE  Contains(Append(s, x), v) <=> Contains(s, v) \/ v = x
  BY <1>1 DEF Contains
<1> QED
  BY <1>1, <1>2

(* Removing adds none.                                                      *)
LEMMA RemoveContains ==
  ASSUME NEW s \in Seq(User), NEW i \in 1..Len(s)
  PROVE  /\ RemoveAt(s, i) \in Seq(User)
         /\ \A v : Contains(RemoveAt(s, i), v) => Contains(s, v)
<1> DEFINE a == SubSeq(s, 1, i - 1)
           b == SubSeq(s, i + 1, Len(s))
<1>1. /\ a \in Seq(User) /\ Len(a) = i - 1
      /\ \A j \in 1..(i - 1) : a[j] = s[j]
  OBVIOUS
<1>2. /\ b \in Seq(User) /\ Len(b) = Len(s) - i
      /\ \A j \in 1..(Len(s) - i) : b[j] = s[i + j]
  OBVIOUS
<1> HIDE DEF a, b
<1>3. /\ a \o b \in Seq(User)
      /\ Len(a \o b) = Len(a) + Len(b)
      /\ \A j \in 1..(Len(a) + Len(b)) :
           (a \o b)[j] = IF j <= Len(a) THEN a[j] ELSE b[j - Len(a)]
  BY <1>1, <1>2, ConcatProperties
<1>4. ASSUME NEW v, Contains(a \o b, v)
      PROVE  Contains(s, v)
  <2>1. PICK j \in 1..(Len(a) + Len(b)) : (a \o b)[j] = v
    BY <1>3, <1>4 DEF Contains
  <2>2. Len(s) \in Nat /\ i \in Nat
    OBVIOUS
  <2>3. CASE j <= i - 1
    <3>1. j \in 1..(i - 1) /\ j \in 1..Len(s) /\ (a \o b)[j] = a[j]
      BY <1>1, <1>2, <1>3, <2>1, <2>2, <2>3
    <3> QED
      BY <1>1, <2>1, <3>1 DEF Contains
  <2>4. CASE ~(j <= i - 1)
    <3> DEFINE k == j - (i - 1)
    <3>1. /\ k \in 1..(Len(s) - i) /\ i + k \in 1..Len(s)
          /\ (a \o b)[j] = b[k]
      BY <1>1, <1>2, <1>3, <2>1, <2>2, <2>4
    <3> QED
      BY <1>2, <2>1, <3>1 DEF Contains
  <2> QED
    BY <2>3, <2>4
<1>5. RemoveAt(s, i) = a \o b
  BY DEF RemoveAt, a, b
<1> QED
  BY <1>3, <1>4, <1>5

-----------------------------------------------------------------------------
(* Consent *)

(* Replacing a file leaves it readable.                                     *)
StayReadable ==
  \A u \in User :
    /\ friends[u] # Broken => friends'[u] # Broken
    /\ requests[u] # Broken => requests'[u] # Broken

(* What a handler that leaves the other threads alone has to keep.          *)
LEMMA ConsentFrame ==
  ASSUME ConsentInv, NEW t \in Thread,
         \A s \in Thread \ {t} :
           /\ pc'[s] = pc[s] /\ op'[s] = op[s]
           /\ own'[s] = own[s] /\ theirs'[s] = theirs[s],
         asked \subseteq asked', agreed \subseteq agreed',
         TypeOK', BusyThreads', StayReadable,
         AddIsConsented(t)', CopiesConsented(t)', FilesReadable(t)',
         OnlyConsented'
  PROVE  ConsentInv'
<1> SUFFICES ASSUME NEW s \in Thread, s # t
             PROVE  AddIsConsented(s)' /\ CopiesConsented(s)' /\ FilesReadable(s)'
  BY DEF ConsentInv
<1>1. AddIsConsented(s) /\ CopiesConsented(s) /\ FilesReadable(s)
  BY DEF ConsentInv
<1>2. AddIsConsented(s)'
  BY <1>1 DEF AddIsConsented, Self, Peer
<1>3. CopiesConsented(s)'
  BY <1>1 DEF CopiesConsented, Consented, Self, Peer
<1>4. FilesReadable(s)'
  <2>1. CASE pc[s] = "idle"
    BY <2>1 DEF FilesReadable
  <2>2. CASE pc[s] # "idle"
    <3>1. Self(s) \in User /\ Peer(s) \in User
      BY <2>2 DEF ConsentInv, BusyThreads, Operations, Self, Peer
    <3>2. Self(s)' = Self(s) /\ Peer(s)' = Peer(s)
      BY DEF Self, Peer
    <3> QED
      BY <1>1, <3>1, <3>2 DEF StayReadable, FilesReadable
  <2> QED
    BY <2>1, <2>2
<1> QED
  BY <1>2, <1>3, <1>4

(* What is recorded is of users and pairs of users.                         *)
RecordsTyped ==
  /\ friends_spoiled \subseteq User /\ requests_spoiled \subseteq User
  /\ crossed \subseteq SUBSET User

(* While the files stay as they are, so does what is listed in them.        *)
LEMMA FilesKept ==
  ASSUME ConsentInv, UNCHANGED files,
         asked \subseteq asked', agreed \subseteq agreed'
  PROVE  OnlyConsented' /\ StayReadable
<1>1. \A u, v \in User : Consented(u, v) => Consented(u, v)'
  BY DEF Consented
<1> QED
  BY <1>1 DEF ConsentInv, OnlyConsented, files, Listed, StayReadable

(* A handler that has ended holds nothing.                                  *)
LEMMA ConsentEnd ==
  ASSUME ConsentInv, NEW t \in Thread, End(t), OnlyConsented', StayReadable,
         friends' \in [User -> Lists], requests' \in [User -> Lists],
         asked \subseteq asked', asked' \subseteq User \X User,
         RecordsTyped', UNCHANGED <<agreed, begun>>
  PROVE  ConsentInv'
<1>1. TypeOK'
  BY DEF ConsentInv, TypeOK, RecordsTyped, End, Labels
<1>2. /\ pc'[t] = "idle"
      /\ \A s \in Thread \ {t} :
           /\ pc'[s] = pc[s] /\ op'[s] = op[s]
           /\ own'[s] = own[s] /\ theirs'[s] = theirs[s]
  BY DEF ConsentInv, TypeOK, End
<1>3. BusyThreads'
  BY <1>2 DEF ConsentInv, BusyThreads
<1>4. AddIsConsented(t)' /\ CopiesConsented(t)' /\ FilesReadable(t)'
  BY <1>2 DEF AddIsConsented, CopiesConsented, FilesReadable, AddLabels
<1> QED
  BY <1>1, <1>2, <1>3, <1>4, ConsentFrame

(* The parts of the frame for a handler that goes on.                       *)
LEMMA ConsentGoto ==
  ASSUME ConsentInv, NEW t \in Thread, NEW label \in Labels, Goto(t, label),
         pc[t] # "idle", UNCHANGED <<files, asked, spoiled, crossed, begun>>,
         agreed \subseteq agreed', agreed' \subseteq User \X User,
         AddIsConsented(t)', CopiesConsented(t)', FilesReadable(t)'
  PROVE  ConsentInv'
<1>1. TypeOK'
  BY DEF ConsentInv, TypeOK, Goto, files, spoiled
<1>2. /\ pc'[t] = label /\ UNCHANGED <<op, own, theirs>>
      /\ \A s \in Thread \ {t} : pc'[s] = pc[s]
  BY DEF ConsentInv, TypeOK, Goto
<1>3. BusyThreads'
  BY <1>2 DEF ConsentInv, BusyThreads
<1> QED
  BY <1>1, <1>2, <1>3, FilesKept, ConsentFrame

LEMMA StartStep ==
  ASSUME ConsentInv, NEW t \in Thread, NEW u \in User, NEW v \in User,
         NEW kind \in {"request", "agree", "ignore"}, Start(t, kind, u, v)
  PROVE  ConsentInv'
<1> DEFINE new == [kind |-> kind, self |-> u, peer |-> v]
<1>1. /\ pc'[t] \in {"not_friend", "is_asked"} /\ op'[t] = new
      /\ \A s \in Thread \ {t} : pc'[s] = pc[s] /\ op'[s] = op[s]
      /\ UNCHANGED <<files, own, theirs, asked, agreed>>
  BY DEF ConsentInv, TypeOK, Start, history, consent, spoiled
<1>2. new \in Operations
  BY DEF Operations
<1>3. {u, v} \in SUBSET User /\ crossed' \subseteq crossed \cup {{u, v}}
  BY DEF Start
<1>4. TypeOK'
  <2> DEFINE pair == {u, v}
  <2> HIDE DEF pair
  <2>1. crossed' \subseteq SUBSET User
    BY <1>3 DEF pair, ConsentInv, TypeOK
  <2>2. pc' \in [Thread -> Labels] /\ begun' \in Nat
    BY DEF ConsentInv, TypeOK, Start, Labels
  <2>3. op' \in [Thread -> Operations \cup {NoOperation}]
    BY <1>2 DEF ConsentInv, TypeOK, Start
  <2>4. UNCHANGED <<friends, requests, own, theirs, asked, agreed,
                    friends_spoiled, requests_spoiled>>
    BY DEF Start, files, consent, spoiled
  <2> QED
    BY <2>1, <2>2, <2>3, <2>4 DEF ConsentInv, TypeOK
<1>5. BusyThreads'
  BY <1>1, <1>2 DEF ConsentInv, BusyThreads
<1>6. AddIsConsented(t)' /\ CopiesConsented(t)' /\ FilesReadable(t)'
  BY <1>1 DEF AddIsConsented, CopiesConsented, FilesReadable, AddLabels
<1> QED
  BY <1>1, <1>4, <1>5, <1>6, FilesKept, ConsentFrame

(* The five checks: each goes on with what it was doing, or ends.           *)
LEMMA CheckStep ==
  ASSUME ConsentInv, NEW t \in Thread, NEW list, NEW v,
         NEW next \in {"still_not_friend", "not_asked", "read_requests",
                       "add_in_sync", "read_own"},
         pc[t] # "idle", next \in AddLabels => pc[t] \in AddLabels,
         next = "read_requests" => list = requests[Peer(t)],
         next = "add_in_sync" => list = friends[Self(t)],
         next = "read_own" => pc[t] = "add_in_sync" /\ list = friends[Peer(t)],
         CheckAbsent(t, list, v, next), UNCHANGED <<files, history, begun>>
  PROVE  ConsentInv'
<1>1. CASE MayContain(v, list) /\ End(t)
  BY <1>1, FilesKept, ConsentEnd
     DEF ConsentInv, TypeOK, RecordsTyped, files, history, consent, spoiled
<1>2. CASE ~MayContain(v, list) /\ Goto(t, next)
  <2>1. pc'[t] = next /\ UNCHANGED <<op, own, theirs, asked, agreed>>
    BY <1>2 DEF ConsentInv, TypeOK, Goto, history, consent, spoiled
  <2>2. AddIsConsented(t)'
    BY <2>1 DEF ConsentInv, AddIsConsented, Self, Peer
  <2>3. CopiesConsented(t)'
    BY <2>1 DEF CopiesConsented
  <2>4. FilesReadable(t)'
    BY <1>2, <2>1 DEF ConsentInv, FilesReadable, MayContain, files, Self, Peer
  <2>5. next \in Labels /\ agreed' \subseteq User \X User
    BY <2>1 DEF Labels, ConsentInv, TypeOK
  <2>6. UNCHANGED <<files, asked, agreed, spoiled, crossed, begun>>
    BY DEF history, consent
  <2> QED
    BY <1>2, <2>2, <2>3, <2>4, <2>5, <2>6, ConsentGoto
<1> QED
  BY <1>1, <1>2 DEF CheckAbsent

LEMMA SelfAndPeer ==
  ASSUME ConsentInv, NEW t \in Thread, pc[t] # "idle"
  PROVE  /\ Self(t) \in User /\ Peer(t) \in User
         /\ op[t].kind \in {"request", "agree", "ignore"}
  BY DEF ConsentInv, BusyThreads, Operations, Self, Peer

(* A file that is not broken is a list.                                     *)
LEMMA ReadStep ==
  ASSUME ConsentInv, NEW t \in Thread, NEW list \in Seq(User),
         NEW next \in {"read_theirs", "store_request", "write_removal"},
         pc[t] # "idle", ReadOwnFile(t, list, next),
         UNCHANGED <<files, history, begun>>,
         next = "read_theirs" =>
           /\ pc[t] = "read_own"
           /\ \A v \in User : Contains(list, v) => Consented(Self(t), v),
         next = "store_request" =>
           \A v \in User : Contains(list, v) => <<v, Peer(t)>> \in asked,
         next = "write_removal" =>
           \A v \in User : Contains(list, v) => <<v, Self(t)>> \in asked
  PROVE  ConsentInv'
<1>1. /\ pc'[t] = next /\ own'[t] = list
      /\ UNCHANGED <<op, theirs, asked, agreed>>
      /\ \A s \in Thread \ {t} : pc'[s] = pc[s] /\ own'[s] = own[s]
  BY DEF ConsentInv, TypeOK, ReadOwnFile, history, consent, spoiled
<1>2. TypeOK'
  BY DEF ConsentInv, TypeOK, ReadOwnFile, Labels, files, history, consent, spoiled
<1>3. BusyThreads'
  BY <1>1 DEF ConsentInv, BusyThreads
<1>4. AddIsConsented(t)'
  BY <1>1 DEF ConsentInv, AddIsConsented, AddLabels, Self, Peer
<1>5. CopiesConsented(t)'
  BY <1>1 DEF CopiesConsented, Consented, Self, Peer
<1>6. FilesReadable(t)'
  BY <1>1 DEF ConsentInv, FilesReadable, files, Self, Peer
<1> QED
  BY <1>1, <1>2, <1>3, <1>4, <1>5, <1>6, FilesKept, ConsentFrame

LEMMA StoreRequestStep ==
  ASSUME ConsentInv, NEW t \in Thread, StoreRequest(t)
  PROVE  ConsentInv'
<1> DEFINE u == Self(t)
           v == Peer(t)
           list == Append(own[t], u)
<1>1. /\ pc[t] = "store_request" /\ u \in User /\ v \in User
      /\ own[t] \in Seq(User)
  BY SelfAndPeer DEF StoreRequest, ConsentInv, TypeOK
<1>2. /\ requests' = [requests EXCEPT ![v] = list] /\ UNCHANGED friends
      /\ asked' = asked \cup {<<u, v>>} /\ UNCHANGED <<agreed, begun>>
      /\ RecordsTyped'
  BY <1>1 DEF StoreRequest, ReplaceRequests, RecordsTyped, ConsentInv, TypeOK
<1>3. /\ list \in Seq(User) /\ list # Broken
      /\ \A w : Contains(list, w) <=> Contains(own[t], w) \/ w = u
  BY <1>1, AppendContains, BrokenAssumption
<1>4. CopiesConsented(t)
  BY DEF ConsentInv
<1>5. requests' \in [User -> Lists] /\ friends' \in [User -> Lists]
  BY <1>2, <1>3 DEF ConsentInv, TypeOK, Lists
<1>6. requests'[v] = list /\ \A w \in User \ {v} : requests'[w] = requests[w]
  BY <1>1, <1>2 DEF ConsentInv, TypeOK
<1>7. StayReadable
  BY <1>2, <1>3, <1>6 DEF StayReadable
<1>8. OnlyConsented'
  <2> SUFFICES ASSUME NEW x \in User, NEW y \in User
               PROVE  /\ Listed(y, friends'[x]) => Consented(x, y)'
                      /\ Listed(y, requests'[x]) => <<y, x>> \in asked'
    BY Zenon DEF OnlyConsented, Listed
  <2>1. Listed(y, friends'[x]) => Consented(x, y)'
    BY <1>2 DEF ConsentInv, OnlyConsented, Consented
  <2>2. Listed(y, requests'[x]) => <<y, x>> \in asked'
    <3>1. CASE x = v
      BY <1>1, <1>2, <1>3, <1>4, <1>6, <3>1 DEF Listed, CopiesConsented
    <3>2. CASE x # v
      BY <1>2, <1>6, <3>2 DEF ConsentInv, OnlyConsented
    <3> QED
      BY <3>1, <3>2
  <2> QED
    BY <2>1, <2>2
<1>9. asked \subseteq asked' /\ asked' \subseteq User \X User
  BY <1>1, <1>2 DEF ConsentInv, TypeOK
<1>10. End(t)
  BY DEF StoreRequest
<1> QED
  BY <1>2, <1>5, <1>7, <1>8, <1>9, <1>10, ConsentEnd

LEMMA CheckAskedStep ==
  ASSUME ConsentInv, NEW t \in Thread, CheckAsked(t)
  PROVE  ConsentInv'
<1> DEFINE list == requests[Self(t)]
           u == Self(t)
           v == Peer(t)
<1>1. pc[t] = "is_asked" /\ u \in User /\ v \in User
  BY SelfAndPeer DEF CheckAsked
<1>2. UNCHANGED <<files, asked, spoiled, crossed, begun>> /\ RecordsTyped'
  BY DEF CheckAsked, ConsentInv, TypeOK, RecordsTyped, spoiled
<1>3. Listed(v, list) => <<v, u>> \in asked
  BY <1>1 DEF ConsentInv, OnlyConsented
<1>4. CASE End(t) /\ UNCHANGED agreed
  BY <1>2, <1>4, FilesKept, ConsentEnd DEF ConsentInv, TypeOK, files
<1>5. CASE /\ Listed(v, list) /\ agreed' = agreed \cup {<<v, u>>}
           /\ Goto(t, "add_not_friend")
  <2>1. pc'[t] = "add_not_friend" /\ UNCHANGED <<op, own, theirs>>
    BY <1>5 DEF ConsentInv, TypeOK, Goto
  <2>2. AddIsConsented(t)' /\ CopiesConsented(t)' /\ FilesReadable(t)'
    BY <1>2, <1>3, <1>5, <2>1
       DEF AddIsConsented, CopiesConsented, FilesReadable, Self, Peer
  <2>3. agreed' \subseteq User \X User /\ agreed \subseteq agreed'
    BY <1>1, <1>5 DEF ConsentInv, TypeOK
  <2> QED
    BY <1>1, <1>2, <1>5, <2>2, <2>3, ConsentGoto DEF Labels
<1>6. CASE Goto(t, "read_removal") /\ UNCHANGED agreed
  <2>1. pc'[t] = "read_removal"
    BY <1>6 DEF ConsentInv, TypeOK, Goto
  <2>2. AddIsConsented(t)' /\ CopiesConsented(t)' /\ FilesReadable(t)'
    BY <2>1 DEF AddIsConsented, CopiesConsented, FilesReadable, AddLabels
  <2> QED
    BY <1>1, <1>2, <1>6, <2>2, ConsentGoto DEF Labels, ConsentInv, TypeOK
<1> QED
  BY <1>4, <1>5, <1>6 DEF CheckAsked

LEMMA ReadTheirsStep ==
  ASSUME ConsentInv, NEW t \in Thread, ReadTheirs(t)
  PROVE  ConsentInv'
<1>1. /\ pc[t] = "read_theirs" /\ Peer(t) \in User
      /\ FilesReadable(t) /\ CopiesConsented(t) /\ AddIsConsented(t)
  BY SelfAndPeer DEF ReadTheirs, ConsentInv
<1>2. friends[Peer(t)] \in Seq(User)
  BY <1>1 DEF ConsentInv, TypeOK, FilesReadable, Lists
<1>3. /\ pc'[t] = "write_own" /\ theirs'[t] = friends[Peer(t)]
      /\ UNCHANGED <<files, op, own, asked, agreed, begun>>
      /\ \A s \in Thread \ {t} : pc'[s] = pc[s] /\ theirs'[s] = theirs[s]
  BY DEF ConsentInv, TypeOK, ReadTheirs, history, consent, spoiled
<1>4. TypeOK'
  BY <1>2 DEF ConsentInv, TypeOK, ReadTheirs, Labels, files, history, consent, spoiled
<1>5. BusyThreads'
  BY <1>1, <1>3 DEF ConsentInv, BusyThreads
<1>6. AddIsConsented(t)'
  BY <1>1, <1>3 DEF AddIsConsented, AddLabels, Self, Peer
<1>7. \A v \in User : Contains(friends[Peer(t)], v) => Consented(Peer(t), v)
  BY <1>1 DEF ConsentInv, OnlyConsented, Listed, FilesReadable
<1>8. CopiesConsented(t)'
  BY <1>1, <1>3, <1>7 DEF CopiesConsented, Consented, Self, Peer
<1>9. FilesReadable(t)'
  BY <1>3 DEF FilesReadable
<1> QED
  BY <1>3, <1>4, <1>5, <1>6, <1>8, <1>9, FilesKept, ConsentFrame

(* One of the two lists of AddFriend is written: what was read of it, with  *)
(* the other user appended.                                                 *)
LEMMA WriteStep ==
  ASSUME ConsentInv, NEW t \in Thread, NEW u \in User, NEW v \in User,
         NEW old \in Seq(User), NEW next \in {"write_theirs", "read_removal"},
         pc[t] # "idle", ReplaceFriends(t, u, Append(old, v)),
         \A w \in User : Contains(old, w) => Consented(u, w), Consented(u, v),
         Goto(t, next), UNCHANGED <<consent, crossed, begun>>,
         next = "write_theirs" => pc[t] = "write_own"
  PROVE  ConsentInv'
<1>1. /\ Append(old, v) \in Seq(User) /\ Append(old, v) # Broken
      /\ \A w : Contains(Append(old, v), w) <=> Contains(old, w) \/ w = v
  BY AppendContains, BrokenAssumption
<1>2. /\ pc'[t] = next /\ UNCHANGED <<op, own, theirs, asked, agreed, requests>>
      /\ \A s \in Thread \ {t} : pc'[s] = pc[s]
      /\ friends_spoiled' \subseteq User
  BY DEF ConsentInv, TypeOK, Goto, ReplaceFriends, consent
<1>3. /\ friends'[u] = Append(old, v)
      /\ \A w \in User \ {u} : friends'[w] = friends[w]
  BY DEF ConsentInv, TypeOK, ReplaceFriends
<1>4. TypeOK'
  BY <1>1, <1>2 DEF ConsentInv, TypeOK, Goto, ReplaceFriends, Labels, Lists, consent
<1>5. BusyThreads'
  BY <1>2 DEF ConsentInv, BusyThreads
<1>6. StayReadable
  BY <1>1, <1>2, <1>3 DEF StayReadable
<1>7. /\ AddIsConsented(t) /\ CopiesConsented(t) /\ AddIsConsented(t)'
  BY <1>2 DEF ConsentInv, AddIsConsented, AddLabels, Self, Peer
<1>8. CopiesConsented(t)'
  BY <1>2, <1>7 DEF CopiesConsented, Consented, Self, Peer
<1>9. FilesReadable(t)'
  BY <1>2 DEF FilesReadable
<1>10. OnlyConsented'
  <2> SUFFICES ASSUME NEW x \in User, NEW y \in User
               PROVE  /\ Listed(y, friends'[x]) => Consented(x, y)
                      /\ Listed(y, requests[x]) => <<y, x>> \in asked
    BY <1>2, Zenon DEF OnlyConsented, Listed, Consented
  <2>1. Listed(y, requests[x]) => <<y, x>> \in asked
    BY DEF ConsentInv, OnlyConsented
  <2>2. CASE x = u
    BY <1>1, <1>3, <2>1, <2>2 DEF Listed
  <2>3. CASE x # u
    BY <1>3, <2>1, <2>3 DEF ConsentInv, OnlyConsented
  <2> QED
    BY <2>2, <2>3
<1> QED
  BY <1>2, <1>4, <1>5, <1>6, <1>7, <1>8, <1>9, <1>10, ConsentFrame

LEMMA WriteRemovalStep ==
  ASSUME ConsentInv, NEW t \in Thread, WriteRemoval(t)
  PROVE  ConsentInv'
<1>1. PICK i \in 1..Len(own[t]) :
        ReplaceRequests(t, Self(t), RemoveAt(own[t], i))
  BY DEF WriteRemoval
<1> DEFINE u == Self(t)
           list == RemoveAt(own[t], i)
<1>2. /\ pc[t] = "write_removal" /\ u \in User /\ own[t] \in Seq(User)
      /\ CopiesConsented(t)
  BY SelfAndPeer DEF WriteRemoval, ConsentInv, TypeOK
<1>3. /\ list \in Seq(User) /\ list # Broken
      /\ \A w : Contains(list, w) => Contains(own[t], w)
  BY <1>2, RemoveContains, BrokenAssumption
<1>4. /\ UNCHANGED <<friends, asked, agreed, begun>> /\ End(t)
      /\ requests' = [requests EXCEPT ![u] = list]
      /\ UNCHANGED <<friends_spoiled, crossed>>
      /\ requests_spoiled' \subseteq requests_spoiled \cup {u}
  BY <1>1 DEF WriteRemoval, ReplaceRequests, consent
<1>5. RecordsTyped'
  BY <1>2, <1>4 DEF RecordsTyped, ConsentInv, TypeOK
<1>6. /\ requests'[u] = list /\ requests' \in [User -> Lists]
      /\ \A w \in User \ {u} : requests'[w] = requests[w]
  BY <1>2, <1>3, <1>4 DEF ConsentInv, TypeOK, Lists
<1> HIDE DEF list, u
<1>7. StayReadable
  BY <1>3, <1>4, <1>6 DEF StayReadable
<1>8. OnlyConsented'
  <2> SUFFICES ASSUME NEW x \in User, NEW y \in User
               PROVE  /\ Listed(y, friends[x]) => Consented(x, y)
                      /\ Listed(y, requests'[x]) => <<y, x>> \in asked
    BY <1>4, Zenon DEF OnlyConsented, Listed, Consented
  <2>1. Listed(y, friends[x]) => Consented(x, y)
    BY DEF ConsentInv, OnlyConsented
  <2>2. CASE x = u
    BY <1>2, <1>3, <1>6, <2>1, <2>2 DEF Listed, CopiesConsented, u
  <2>3. CASE x # u
    BY <1>6, <2>1, <2>3 DEF ConsentInv, OnlyConsented
  <2> QED
    BY <2>2, <2>3
<1> QED
  BY <1>4, <1>6, <1>7, <1>8, <1>5, ConsentEnd DEF ConsentInv, TypeOK

(* A crash empties files and ends every handler.                            *)
LEMMA CrashStep ==
  ASSUME ConsentInv, Crash
  PROVE  ConsentInv'
<1>1. /\ \A u \in User : friends'[u] \in {friends[u], Broken}
      /\ \A u \in User : requests'[u] \in {requests[u], Broken}
      /\ friends' \in [User -> Lists] /\ requests' \in [User -> Lists]
  BY DEF Crash, ConsentInv, TypeOK, Lists
<1>2. /\ \A t \in Thread : pc'[t] = "idle"
      /\ UNCHANGED <<asked, agreed, begun>>
  BY DEF Crash, consent
<1>3. RecordsTyped'
  <2>1. friends_spoiled' \subseteq User
    BY SelfAndPeer DEF Crash, ConsentInv, TypeOK
  <2>2. requests_spoiled' \subseteq User
    BY DEF Crash, ConsentInv, TypeOK
  <2>3. \A t \in Thread : Settling(t) => {Self(t), Peer(t)} \in SUBSET User
    BY SelfAndPeer DEF Settling
  <2>4. crossed' = crossed \cup {{Self(t), Peer(t)} : t \in {s \in Thread : Settling(s)}}
    BY DEF Crash
  <2>5. crossed' \subseteq SUBSET User
    <3> SUFFICES ASSUME NEW c \in crossed', c \notin crossed
                 PROVE  c \in SUBSET User
      BY DEF ConsentInv, TypeOK
    <3>1. PICK t \in Thread : Settling(t) /\ c = {Self(t), Peer(t)}
      BY <2>4
    <3> QED
      BY <2>3, <3>1
  <2> QED
    BY <2>1, <2>2, <2>5 DEF RecordsTyped
<1>4. TypeOK'
  <2>1. /\ op' \in [Thread -> Operations \cup {NoOperation}] /\ pc' \in [Thread -> Labels]
        /\ own' \in [Thread -> Seq(User)] /\ theirs' \in [Thread -> Seq(User)]
    BY DEF Crash, Labels
  <2> QED
    BY <1>1, <1>2, <1>3, <2>1 DEF ConsentInv, TypeOK, RecordsTyped
<1>5. BusyThreads'
  BY <1>2 DEF BusyThreads
<1>6. \A t \in Thread :
        AddIsConsented(t)' /\ CopiesConsented(t)' /\ FilesReadable(t)'
  BY <1>2 DEF AddIsConsented, CopiesConsented, FilesReadable, AddLabels
<1>7. OnlyConsented'
  <2>1. \A u, v \in User : /\ Listed(v, friends'[u]) => Listed(v, friends[u])
                           /\ Listed(v, requests'[u]) => Listed(v, requests[u])
    BY <1>1 DEF Listed
  <2> SUFFICES ASSUME NEW x \in User, NEW y \in User
               PROVE  /\ Listed(y, friends'[x]) => Consented(x, y)
                      /\ Listed(y, requests'[x]) => <<y, x>> \in asked
    BY <1>2, Zenon DEF OnlyConsented, Listed, Consented
  <2> QED
    BY <2>1 DEF ConsentInv, OnlyConsented
<1> QED
  BY <1>4, <1>5, <1>6, <1>7 DEF ConsentInv

LEMMA RequestSteps ==
  ASSUME ConsentInv, NEW t \in Thread, SendFriendRequest(t)
  PROVE  ConsentInv'
<1>1. CASE CheckNotFriend(t)
  BY <1>1, CheckStep DEF CheckNotFriend, AddLabels
<1>2. CASE CheckStillNotFriend(t)
  BY <1>2, CheckStep DEF CheckStillNotFriend, AddLabels
<1>3. CASE CheckNotAsked(t)
  BY <1>3, CheckStep DEF CheckNotAsked, AddLabels
<1>4. CASE ReadRequests(t)
  <2>1. pc[t] = "read_requests" /\ FilesReadable(t) /\ Peer(t) \in User
    BY <1>4, SelfAndPeer DEF ReadRequests, ConsentInv
  <2>2. requests[Peer(t)] \in Seq(User)
    BY <2>1 DEF ConsentInv, TypeOK, FilesReadable, Lists
  <2>3. \A v \in User : Contains(requests[Peer(t)], v) => <<v, Peer(t)>> \in asked
    BY <2>1 DEF ConsentInv, OnlyConsented, FilesReadable, Listed
  <2> QED
    BY <1>4, <2>1, <2>2, <2>3, ReadStep DEF ReadRequests
<1>5. CASE StoreRequest(t)
  BY <1>5, StoreRequestStep
<1>6. CASE NotifyFails(t)
  BY <1>6, FilesKept, ConsentEnd
     DEF NotifyFails, ConsentInv, TypeOK, RecordsTyped, files, history, consent,
         spoiled
<1> QED
  BY <1>1, <1>2, <1>3, <1>4, <1>5, <1>6 DEF SendFriendRequest

LEMMA AnswerSteps ==
  ASSUME ConsentInv, NEW t \in Thread, AgreeFriendRequest(t)
  PROVE  ConsentInv'
<1>1. CASE CheckAsked(t)
  BY <1>1, CheckAskedStep
<1>2. CASE AddCheckNotFriend(t)
  BY <1>2, CheckStep DEF AddCheckNotFriend, AddLabels
<1>3. CASE AddCheckInSync(t)
  BY <1>3, CheckStep DEF AddCheckInSync, AddLabels
<1>4. CASE ReadOwn(t)
  <2>1. pc[t] = "read_own" /\ FilesReadable(t) /\ Self(t) \in User
    BY <1>4, SelfAndPeer DEF ReadOwn, ConsentInv
  <2>2. friends[Self(t)] \in Seq(User)
    BY <2>1 DEF ConsentInv, TypeOK, FilesReadable, Lists
  <2>3. \A v \in User : Contains(friends[Self(t)], v) => Consented(Self(t), v)
    BY <2>1 DEF ConsentInv, OnlyConsented, FilesReadable, Listed
  <2> QED
    BY <1>4, <2>1, <2>2, <2>3, ReadStep DEF ReadOwn
<1>5. CASE ReadTheirs(t)
  BY <1>5, ReadTheirsStep
<1>6. CASE WriteOwn(t)
  <2>1. /\ pc[t] = "write_own" /\ Self(t) \in User /\ Peer(t) \in User
        /\ AddIsConsented(t) /\ CopiesConsented(t) /\ own[t] \in Seq(User)
    BY <1>6, SelfAndPeer DEF WriteOwn, ConsentInv, TypeOK
  <2>2. /\ \A w \in User : Contains(own[t], w) => Consented(Self(t), w)
        /\ Consented(Self(t), Peer(t))
    BY <2>1 DEF AddIsConsented, CopiesConsented, Consented, AddLabels
  <2> QED
    BY <1>6, <2>1, <2>2, WriteStep DEF WriteOwn
<1>7. CASE WriteTheirs(t)
  <2>1. /\ pc[t] = "write_theirs" /\ Self(t) \in User /\ Peer(t) \in User
        /\ AddIsConsented(t) /\ CopiesConsented(t) /\ theirs[t] \in Seq(User)
    BY <1>7, SelfAndPeer DEF WriteTheirs, ConsentInv, TypeOK
  <2>2. /\ \A w \in User : Contains(theirs[t], w) => Consented(Peer(t), w)
        /\ Consented(Peer(t), Self(t))
    BY <2>1 DEF AddIsConsented, CopiesConsented, Consented, AddLabels
  <2> QED
    BY <1>7, <2>1, <2>2, WriteStep DEF WriteTheirs
<1>8. CASE ReadRemoval(t)
  <2>1. /\ pc[t] = "read_removal" /\ UNCHANGED <<files, history, begun>>
        /\ Self(t) \in User
    BY <1>8, SelfAndPeer DEF ReadRemoval
  <2>2. CASE End(t)
    BY <2>1, <2>2, FilesKept, ConsentEnd
       DEF ConsentInv, TypeOK, RecordsTyped, files, history, consent, spoiled
  <2>3. CASE /\ Listed(Peer(t), requests[Self(t)])
             /\ ReadOwnFile(t, requests[Self(t)], "write_removal")
    <3>1. requests[Self(t)] \in Seq(User)
      BY <2>1, <2>3 DEF ConsentInv, TypeOK, Listed, Lists
    <3>2. \A v \in User : Contains(requests[Self(t)], v) => <<v, Self(t)>> \in asked
      BY <2>1, <2>3 DEF ConsentInv, OnlyConsented, Listed
    <3> QED
      BY <2>1, <2>3, <3>1, <3>2, ReadStep
  <2> QED
    BY <1>8, <2>2, <2>3 DEF ReadRemoval
<1>9. CASE WriteRemoval(t)
  BY <1>9, WriteRemovalStep
<1> QED
  BY <1>1, <1>2, <1>3, <1>4, <1>5, <1>6, <1>7, <1>8, <1>9 DEF AgreeFriendRequest

LEMMA ConsentInit == Init => ConsentInv
<1> SUFFICES ASSUME Init PROVE ConsentInv
  OBVIOUS
<1>1. \A u \in User :
        /\ friends[u] \in Seq(User) /\ Len(friends[u]) = 0
        /\ requests[u] \in Seq(User) /\ Len(requests[u]) = 0
  BY DEF Init
<1>2. TypeOK
  BY DEF Init, TypeOK, Labels, Lists
<1>3. OnlyConsented
  BY <1>1 DEF OnlyConsented, Listed, Contains
<1>4. \A t \in Thread : AddIsConsented(t) /\ CopiesConsented(t) /\ FilesReadable(t)
  BY DEF Init, AddIsConsented, CopiesConsented, FilesReadable, AddLabels
<1> QED
  BY <1>2, <1>3, <1>4 DEF Init, ConsentInv, BusyThreads

LEMMA ConsentNext == ConsentInv /\ [Next]_vars => ConsentInv'
<1> SUFFICES ASSUME ConsentInv, [Next]_vars PROVE ConsentInv'
  OBVIOUS
<1>1. ASSUME NEW t \in Thread, NEW u \in User, NEW v \in User,
             RequestFriend(t, u, v) \/ AnswerRequest(t, u, v)
      PROVE  ConsentInv'
  BY <1>1, StartStep DEF RequestFriend, AnswerRequest
<1>2. ASSUME NEW t \in Thread, SendFriendRequest(t)
      PROVE  ConsentInv'
  BY <1>2, RequestSteps
<1>3. ASSUME NEW t \in Thread, AgreeFriendRequest(t)
      PROVE  ConsentInv'
  BY <1>3, AnswerSteps
<1>4. CASE Crash
  BY <1>4, CrashStep
<1>5. CASE UNCHANGED vars
  BY <1>5 DEF vars, ConsentInv, TypeOK, BusyThreads, AddIsConsented,
              CopiesConsented, FilesReadable, OnlyConsented, Consented, Listed,
              Self, Peer
<1> QED
  BY <1>1, <1>2, <1>3, <1>4, <1>5 DEF Next

(* ConsentInv is an inductive invariant.                                    *)
THEOREM Invariance == Spec => []ConsentInv
  BY ConsentInit, ConsentNext, PTL DEF Spec

(* The files hold lists of users or nothing at all.                         *)
THEOREM TypeCorrect == Spec => []TypeOK
<1>1. ConsentInv => TypeOK
  BY DEF ConsentInv
<1> QED
  BY <1>1, Invariance, PTL

(* Nobody has a friend without one of the two having asked and the other    *)
(* having agreed.                                                           *)
THEOREM Consent == Spec => []OnlyConsented
<1>1. ConsentInv => OnlyConsented
  BY DEF ConsentInv
<1> QED
  BY <1>1, Invariance, PTL

-----------------------------------------------------------------------------
(* The two lists of a friendship *)

(* A handler leaves the other threads alone.                                *)
OthersKept(t) ==
  \A s \in Thread \ {t} :
    /\ pc'[s] = pc[s] /\ op'[s] = op[s]
    /\ own'[s] = own[s] /\ theirs'[s] = theirs[s]

LEMMA EndKeeps ==
  ASSUME ConsentInv, NEW t \in Thread, End(t)
  PROVE  pc'[t] = "idle" /\ OthersKept(t)
  BY DEF ConsentInv, TypeOK, End, OthersKept

LEMMA GotoKeeps ==
  ASSUME ConsentInv, NEW t \in Thread, NEW label, Goto(t, label)
  PROVE  pc'[t] = label /\ UNCHANGED <<op, own, theirs>> /\ OthersKept(t)
  BY DEF ConsentInv, TypeOK, Goto, OthersKept

LEMMA ReadKeeps ==
  ASSUME ConsentInv, NEW t \in Thread, NEW list, NEW label,
         ReadOwnFile(t, list, label)
  PROVE  /\ pc'[t] = label /\ own'[t] = list /\ UNCHANGED <<op, theirs>>
         /\ OthersKept(t)
  BY DEF ConsentInv, TypeOK, ReadOwnFile, OthersKept

(* A thread whose kind, target and copies are in order stays so while the   *)
(* files do.                                                                *)
OwnInOrder(t) ==
  /\ KindMatches(t) /\ CopiesCurrent(t)
  /\ pc[t] \in RequestLabels => Self(t) # Peer(t)

LEMMA EndInOrder ==
  ASSUME ConsentInv, NEW t \in Thread, End(t)
  PROVE  OwnInOrder(t)'
<1>1. pc'[t] = "idle"
  BY EndKeeps
<1> QED
  BY <1>1 DEF OwnInOrder, KindMatches, CopiesCurrent, RequestLabels, AnswerLabels,
              AddLabels

(* Steps that change no file.                                               *)
LEMMA SyncFrame ==
  ASSUME ConsentInv, SyncInv, NEW t \in Thread, OthersKept(t),
         UNCHANGED <<friends, requests, friends_spoiled, requests_spoiled, asked>>,
         pc[t] # "write_theirs", pc'[t] # "write_theirs", OwnInOrder(t)'
  PROVE  SyncInv'
<1>1. ASSUME NEW s \in Thread
      PROVE  KindMatches(s)' /\ CopiesCurrent(s)'
  <2>1. CASE s = t
    BY <2>1 DEF OwnInOrder
  <2>2. CASE s # t
    BY <2>2 DEF SyncInv, KindMatches, CopiesCurrent, OthersKept, Self, Peer
  <2> QED
    BY <2>1, <2>2
<1>2. OthersAsked'
  BY DEF SyncInv, OthersAsked, OwnInOrder, OthersKept, Self, Peer
<1>3. BrokenIsSpoiled'
  BY DEF SyncInv, BrokenIsSpoiled
<1>4. FriendListsInSync'
  <2>1. \A u, v \in User : Adding(u, v)' <=> Adding(u, v)
    BY DEF Adding, OthersKept, Self, Peer
  <2> QED
    BY <2>1 DEF SyncInv, FriendListsInSync, Listed
<1> QED
  BY <1>1, <1>2, <1>3, <1>4 DEF SyncInv

LEMMA SyncEnd ==
  ASSUME ConsentInv, SyncInv, NEW t \in Thread, End(t), pc[t] # "write_theirs",
         UNCHANGED <<friends, requests, friends_spoiled, requests_spoiled, asked>>
  PROVE  SyncInv'
<1>1. pc'[t] = "idle" /\ OthersKept(t) /\ OwnInOrder(t)'
  BY EndKeeps, EndInOrder
<1> QED
  BY <1>1, SyncFrame

LEMMA SyncStart ==
  ASSUME ConsentInv, SyncInv, NEW t \in Thread, NEW u \in User, NEW v \in User,
         RequestFriend(t, u, v) \/ AnswerRequest(t, u, v)
  PROVE  SyncInv'
<1>1. PICK kind \in {"request", "agree", "ignore"} :
        Start(t, kind, u, v) /\ (kind = "request" => u # v)
  BY DEF RequestFriend, AnswerRequest
<1>2. /\ pc[t] = "idle"
      /\ pc'[t] = IF kind = "request" THEN "not_friend" ELSE "is_asked"
      /\ op'[t].self = u /\ op'[t].peer = v /\ op'[t].kind = kind
      /\ OthersKept(t)
      /\ UNCHANGED <<friends, requests, friends_spoiled, requests_spoiled, asked>>
  BY <1>1 DEF ConsentInv, TypeOK, Start, OthersKept, files, consent, spoiled
<1>3. OwnInOrder(t)'
  BY <1>1, <1>2 DEF OwnInOrder, KindMatches, CopiesCurrent, RequestLabels,
                    AnswerLabels, AddLabels, Self, Peer
<1> QED
  BY <1>2, <1>3, SyncFrame

(* A handler that goes on from one label to the next of its kind.           *)
LEMMA SyncGoto ==
  ASSUME ConsentInv, SyncInv, NEW t \in Thread, NEW next \in Labels,
         Goto(t, next), pc[t] # "write_theirs", next # "write_theirs",
         UNCHANGED <<friends, requests, friends_spoiled, requests_spoiled, asked>>,
         next \in RequestLabels => pc[t] \in RequestLabels,
         next \in AnswerLabels => pc[t] \in AnswerLabels,
         next \in AddLabels => op[t].kind = "agree",
         next \in {"still_not_friend", "not_asked", "read_requests",
                   "add_not_friend", "add_in_sync", "read_own", "read_removal"}
  PROVE  SyncInv'
<1>1. pc'[t] = next /\ UNCHANGED <<op, own, theirs>> /\ OthersKept(t)
  BY GotoKeeps
<1>2. KindMatches(t)
  BY DEF SyncInv
<1>3. KindMatches(t)'
  BY <1>1, <1>2 DEF KindMatches
<1>4. CopiesCurrent(t)'
  BY <1>1 DEF CopiesCurrent
<1>5. pc'[t] \in RequestLabels => Self(t)' # Peer(t)'
  BY <1>1 DEF SyncInv, OthersAsked, Self, Peer
<1>6. OwnInOrder(t)'
  BY <1>3, <1>4, <1>5 DEF OwnInOrder
<1> QED
  BY <1>1, <1>6, SyncFrame

LEMMA SyncCheck ==
  ASSUME ConsentInv, SyncInv, NEW t \in Thread, NEW list, NEW v,
         NEW next \in {"still_not_friend", "not_asked", "read_requests",
                       "add_in_sync", "read_own"},
         pc[t] # "write_theirs",
         CheckAbsent(t, list, v, next), UNCHANGED <<files, history, begun>>,
         next \in RequestLabels => pc[t] \in RequestLabels,
         next \in AddLabels => pc[t] \in AddLabels
  PROVE  SyncInv'
<1>1. UNCHANGED <<friends, requests, friends_spoiled, requests_spoiled, asked>>
  BY DEF files, history, consent, spoiled
<1>2. CASE End(t)
  BY <1>1, <1>2, SyncEnd
<1>3. CASE Goto(t, next)
  <2>1. next \in AnswerLabels => next \in AddLabels
    BY DEF AnswerLabels
  <2>2. pc[t] \in AddLabels => pc[t] \in AnswerLabels /\ op[t].kind = "agree"
    BY DEF SyncInv, KindMatches, AnswerLabels
  <2>3. next \in Labels
    BY DEF Labels
  <2> QED
    BY <1>1, <1>3, <2>1, <2>2, <2>3, SyncGoto
<1> QED
  BY <1>2, <1>3 DEF CheckAbsent

(* Replacing a file keeps the copies of the other threads current, or       *)
(* spoils the file; in the friend list it keeps the friends that are there. *)
LEMMA OthersCurrent ==
  ASSUME ConsentInv, SyncInv, NEW t \in Thread, OthersKept(t),
         NEW u \in User, NEW list \in Seq(User),
         \/ ReplaceRequests(t, u, list)
         \/ /\ ReplaceFriends(t, u, list)
            /\ u \notin friends_spoiled =>
                 \A v \in User : Listed(v, friends[u]) => Listed(v, list)
  PROVE  \A s \in Thread \ {t} : KindMatches(s)' /\ CopiesCurrent(s)'
<1> SUFFICES ASSUME NEW s \in Thread \ {t}
             PROVE  KindMatches(s)' /\ CopiesCurrent(s)'
  OBVIOUS
<1>1. KindMatches(s) /\ CopiesCurrent(s)
  BY DEF SyncInv
<1>2. /\ pc'[s] = pc[s] /\ op'[s] = op[s] /\ own'[s] = own[s] /\ theirs'[s] = theirs[s]
      /\ Self(s)' = Self(s) /\ Peer(s)' = Peer(s)
  BY DEF OthersKept, Self, Peer
<1>3. KindMatches(s)'
  BY <1>1, <1>2 DEF KindMatches
<1>4. pc[s] # "idle" => Self(s) \in User /\ Peer(s) \in User
  BY SelfAndPeer
<1>5. CASE ReplaceRequests(t, u, list)
  <2>1. /\ UNCHANGED <<friends, friends_spoiled>>
        /\ \A w \in User \ {u} : requests'[w] = requests[w]
        /\ requests_spoiled \subseteq requests_spoiled'
        /\ HasRequests(s, u) => u \in requests_spoiled'
    BY <1>5 DEF ReplaceRequests, ConsentInv, TypeOK
  <2> QED
    BY <1>1, <1>2, <1>3, <1>4, <2>1 DEF CopiesCurrent, HasRequests
<1>6. CASE /\ ReplaceFriends(t, u, list)
           /\ u \notin friends_spoiled =>
                 \A v \in User : Listed(v, friends[u]) => Listed(v, list)
  <2>1. /\ UNCHANGED <<requests, requests_spoiled>>
        /\ \A w \in User \ {u} : friends'[w] = friends[w]
        /\ friends'[u] = list
        /\ friends_spoiled \subseteq friends_spoiled'
        /\ HasFriends(s, u) => u \in friends_spoiled'
    BY <1>6 DEF ReplaceFriends, ConsentInv, TypeOK
  <2>2. pc[s] = "write_theirs" /\ Self(s) \notin friends_spoiled' =>
          Listed(Peer(s), friends'[Self(s)])
    <3>1. CASE Self(s) = u
      BY <1>1, <1>4, <1>6, <2>1, <3>1 DEF CopiesCurrent
    <3>2. CASE Self(s) # u
      BY <1>1, <1>4, <2>1, <3>2 DEF CopiesCurrent
    <3> QED
      BY <3>1, <3>2
  <2>3. /\ pc[s] \in {"read_theirs", "write_own"} /\ Self(s) \notin friends_spoiled' =>
             own[s] = friends'[Self(s)]
        /\ pc[s] \in {"write_own", "write_theirs"} /\ Peer(s) \notin friends_spoiled' =>
             theirs[s] = friends'[Peer(s)]
    BY <1>1, <1>4, <2>1 DEF CopiesCurrent, HasFriends
  <2>4. CopiesCurrent(s)'
    BY <1>1, <1>2, <2>1, <2>2, <2>3 DEF CopiesCurrent
  <2> QED
    BY <1>3, <2>4
<1> QED
  BY <1>5, <1>6

(* A request file is replaced, and the handler ends.                        *)
LEMMA SyncRequests ==
  ASSUME ConsentInv, SyncInv, NEW t \in Thread, pc[t] # "write_theirs", End(t),
         NEW u \in User, NEW list \in Seq(User), ReplaceRequests(t, u, list),
         \A p \in asked' : p[1] # p[2]
  PROVE  SyncInv'
<1>1. pc'[t] = "idle" /\ OthersKept(t) /\ OwnInOrder(t)'
  BY EndKeeps, EndInOrder
<1>2. /\ UNCHANGED <<friends, friends_spoiled>>
      /\ requests'[u] = list /\ \A w \in User \ {u} : requests'[w] = requests[w]
      /\ requests_spoiled \subseteq requests_spoiled'
  BY DEF ReplaceRequests, ConsentInv, TypeOK
<1>3. \A s \in Thread : KindMatches(s)' /\ CopiesCurrent(s)'
  <2>1. \A s \in Thread \ {t} : KindMatches(s)' /\ CopiesCurrent(s)'
    BY <1>1, OthersCurrent
  <2> QED
    BY <1>1, <2>1 DEF OwnInOrder
<1>4. OthersAsked'
  BY <1>1 DEF SyncInv, OthersAsked, OthersKept, OwnInOrder, Self, Peer
<1>5. BrokenIsSpoiled'
  BY <1>2, BrokenAssumption DEF SyncInv, BrokenIsSpoiled
<1>6. FriendListsInSync'
  <2>1. \A x, y \in User : Adding(x, y)' <=> Adding(x, y)
    BY <1>1 DEF Adding, OthersKept, Self, Peer
  <2> QED
    BY <1>2, <2>1 DEF SyncInv, FriendListsInSync, Listed
<1> QED
  BY <1>3, <1>4, <1>5, <1>6 DEF SyncInv

LEMMA SyncRequestSteps ==
  ASSUME ConsentInv, SyncInv, NEW t \in Thread, SendFriendRequest(t)
  PROVE  SyncInv'
<1>1. CASE CheckNotFriend(t)
  BY <1>1, SyncCheck DEF CheckNotFriend, RequestLabels, AddLabels
<1>2. CASE CheckStillNotFriend(t)
  BY <1>2, SyncCheck DEF CheckStillNotFriend, RequestLabels, AddLabels
<1>3. CASE CheckNotAsked(t)
  BY <1>3, SyncCheck DEF CheckNotAsked, RequestLabels, AddLabels
<1>4. CASE ReadRequests(t)
  <2>1. /\ pc[t] = "read_requests" /\ pc'[t] = "store_request"
        /\ own'[t] = requests[Peer(t)] /\ UNCHANGED <<op, theirs>> /\ OthersKept(t)
    BY <1>4, ReadKeeps DEF ReadRequests
  <2>2. UNCHANGED <<friends, requests, friends_spoiled, requests_spoiled, asked>>
    BY <1>4 DEF ReadRequests, files, history, consent, spoiled
  <2>3. KindMatches(t) /\ Self(t) # Peer(t)
    BY <2>1 DEF SyncInv, OthersAsked, RequestLabels
  <2>4. OwnInOrder(t)'
    BY <2>1, <2>2, <2>3 DEF OwnInOrder, KindMatches, CopiesCurrent, RequestLabels,
                            AnswerLabels, AddLabels, Self, Peer
  <2> QED
    BY <2>1, <2>2, <2>4, SyncFrame
<1>5. CASE StoreRequest(t)
  <2>1. /\ pc[t] = "store_request" /\ End(t)
        /\ ReplaceRequests(t, Peer(t), Append(own[t], Self(t)))
        /\ asked' = asked \cup {<<Self(t), Peer(t)>>}
        /\ Self(t) \in User /\ Peer(t) \in User /\ own[t] \in Seq(User)
    BY <1>5, SelfAndPeer DEF StoreRequest, ConsentInv, TypeOK
  <2>2. Append(own[t], Self(t)) \in Seq(User)
    BY <2>1, AppendContains
  <2>3. \A p \in asked' : p[1] # p[2]
    BY <2>1 DEF SyncInv, OthersAsked, RequestLabels
  <2> QED
    BY <2>1, <2>2, <2>3, SyncRequests
<1>6. CASE NotifyFails(t)
  BY <1>6, SyncEnd DEF NotifyFails, files, history, consent, spoiled
<1> QED
  BY <1>1, <1>2, <1>3, <1>4, <1>5, <1>6 DEF SendFriendRequest

(* Both writes of AddFriend: u's list gets v, and u and v are two users.    *)
LEMMA FriendWrite ==
  ASSUME ConsentInv, SyncInv, NEW t \in Thread, OthersKept(t),
         NEW u \in User, NEW v \in User, NEW old \in Seq(User),
         u \notin friends_spoiled => old = friends[u],
         ReplaceFriends(t, u, Append(old, v)),
         asked' = asked, OwnInOrder(t)'
  PROVE  /\ Append(old, v) \in Seq(User)
         /\ \A s \in Thread : KindMatches(s)' /\ CopiesCurrent(s)'
         /\ OthersAsked' /\ BrokenIsSpoiled'
         /\ friends_spoiled \subseteq friends_spoiled'
         /\ \A w \in User \ {u} : friends'[w] = friends[w]
         /\ Listed(v, friends'[u])
         /\ u \notin friends_spoiled =>
              \A w \in User : w # v => (Listed(w, friends'[u]) <=> Listed(w, friends[u]))
<1> DEFINE list == Append(old, v)
<1>1. /\ list \in Seq(User) /\ list # Broken /\ old # Broken
      /\ \A w : Contains(list, w) <=> Contains(old, w) \/ w = v
  BY AppendContains, BrokenAssumption
<1>2. ReplaceFriends(t, u, list)
  OBVIOUS
<1> HIDE DEF list
<1>3. u \notin friends_spoiled => \A w \in User : Listed(w, friends[u]) => Listed(w, list)
  BY <1>1 DEF Listed
<1>4. \A s \in Thread \ {t} : KindMatches(s)' /\ CopiesCurrent(s)'
  BY <1>1, <1>2, <1>3, OthersCurrent
<1>5. /\ UNCHANGED <<requests, requests_spoiled>>
      /\ friends'[u] = list /\ \A w \in User \ {u} : friends'[w] = friends[w]
      /\ friends_spoiled \subseteq friends_spoiled'
  BY <1>2 DEF ReplaceFriends, ConsentInv, TypeOK
<1>6. \A s \in Thread : KindMatches(s)' /\ CopiesCurrent(s)'
  BY <1>4 DEF OwnInOrder
<1>7. OthersAsked'
  BY DEF SyncInv, OthersAsked, OthersKept, OwnInOrder, Self, Peer
<1>8. BrokenIsSpoiled'
  BY <1>1, <1>5 DEF SyncInv, BrokenIsSpoiled
<1>9. Listed(v, friends'[u])
  BY <1>1, <1>5 DEF Listed
<1>10. u \notin friends_spoiled =>
         \A w \in User : w # v => (Listed(w, friends'[u]) <=> Listed(w, friends[u]))
  BY <1>1, <1>5 DEF Listed
<1>11. Append(old, v) \in Seq(User)
  BY <1>1 DEF list
<1> QED
  BY <1>5, <1>6, <1>7, <1>8, <1>9, <1>10, <1>11

(* A thread that adds a friend has two users in hand.                       *)
LEMMA TwoUsers ==
  ASSUME ConsentInv, SyncInv, NEW t \in Thread, pc[t] \in AddLabels
  PROVE  Self(t) \in User /\ Peer(t) \in User /\ Self(t) # Peer(t)
<1>1. Self(t) \in User /\ Peer(t) \in User /\ AddIsConsented(t)
  BY SelfAndPeer DEF AddLabels, ConsentInv
<1> QED
  BY <1>1 DEF SyncInv, OthersAsked, AddIsConsented

LEMMA SyncWriteOwn ==
  ASSUME ConsentInv, SyncInv, NEW t \in Thread, WriteOwn(t)
  PROVE  SyncInv'
<1> DEFINE u == Self(t)
           v == Peer(t)
<1>1. /\ pc[t] = "write_own" /\ u \in User /\ v \in User /\ u # v
      /\ own[t] \in Seq(User) /\ CopiesCurrent(t) /\ KindMatches(t)
      /\ op[t].kind = "agree"
  BY TwoUsers DEF WriteOwn, ConsentInv, SyncInv, TypeOK, AddLabels, KindMatches
<1>2. /\ pc'[t] = "write_theirs" /\ UNCHANGED <<op, own, theirs, asked>>
      /\ OthersKept(t) /\ ReplaceFriends(t, u, Append(own[t], v))
  BY GotoKeeps DEF WriteOwn, consent
<1>3. /\ friends_spoiled \subseteq friends_spoiled'
      /\ \A w \in User \ {u} : friends'[w] = friends[w]
      /\ UNCHANGED <<requests, requests_spoiled>>
      /\ friends'[u] = Append(own[t], v)
  BY <1>1, <1>2 DEF ReplaceFriends, ConsentInv, TypeOK
<1>4. Listed(v, friends'[u])
  BY <1>1, <1>3, AppendContains, BrokenAssumption DEF Listed
<1>5. OwnInOrder(t)'
  <2>1. Self(t)' = u /\ Peer(t)' = v
    BY <1>2 DEF Self, Peer
  <2>2. v \notin friends_spoiled' => theirs[t] = friends'[v]
    BY <1>1, <1>3 DEF CopiesCurrent
  <2>3. CopiesCurrent(t)'
    BY <1>2, <1>4, <2>1, <2>2 DEF CopiesCurrent
  <2>4. KindMatches(t)' /\ pc'[t] \notin RequestLabels
    BY <1>1, <1>2 DEF KindMatches, RequestLabels
  <2> QED
    BY <2>3, <2>4 DEF OwnInOrder
<1>6. u \notin friends_spoiled => own[t] = friends[u]
  BY <1>1 DEF CopiesCurrent
<1>7. /\ \A s \in Thread : KindMatches(s)' /\ CopiesCurrent(s)'
      /\ OthersAsked' /\ BrokenIsSpoiled'
      /\ u \notin friends_spoiled =>
           \A w \in User : w # v => (Listed(w, friends'[u]) <=> Listed(w, friends[u]))
  BY <1>1, <1>2, <1>5, <1>6, FriendWrite
<1>8. FriendListsInSync'
  <2> SUFFICES ASSUME NEW x \in User \ friends_spoiled',
                      NEW y \in User \ friends_spoiled',
                      ~Adding(x, y)', ~Adding(y, x)'
               PROVE  Listed(y, friends'[x]) <=> Listed(x, friends'[y])
    BY DEF FriendListsInSync, Listed
  <2>1. ~Adding(x, y) /\ ~Adding(y, x)
    BY <1>1, <1>2 DEF Adding, OthersKept, Self, Peer
  <2>2. Listed(y, friends[x]) <=> Listed(x, friends[y])
    BY <1>3, <2>1 DEF SyncInv, FriendListsInSync
  <2>3. ~(x = u /\ y = v) /\ ~(x = v /\ y = u)
    BY <1>2 DEF Adding, Self, Peer
  <2> HIDE DEF u, v
  <2>4. CASE x = u /\ y # u
    BY <1>3, <1>7, <2>2, <2>3, <2>4
  <2>5. CASE y = u /\ x # u
    BY <1>3, <1>7, <2>2, <2>3, <2>5
  <2> QED
    BY <1>3, <2>2, <2>4, <2>5
<1> QED
  BY <1>7, <1>8 DEF SyncInv

LEMMA SyncWriteTheirs ==
  ASSUME ConsentInv, SyncInv, NEW t \in Thread, WriteTheirs(t)
  PROVE  SyncInv'
<1> DEFINE u == Self(t)
           v == Peer(t)
<1>1. /\ pc[t] = "write_theirs" /\ u \in User /\ v \in User /\ u # v
      /\ theirs[t] \in Seq(User) /\ CopiesCurrent(t) /\ KindMatches(t)
      /\ op[t].kind = "agree"
  BY TwoUsers DEF WriteTheirs, ConsentInv, SyncInv, TypeOK, AddLabels, KindMatches
<1>2. /\ pc'[t] = "read_removal" /\ UNCHANGED <<op, own, theirs, asked>>
      /\ OthersKept(t) /\ ReplaceFriends(t, v, Append(theirs[t], u))
  BY GotoKeeps DEF WriteTheirs, consent
<1>3. OwnInOrder(t)'
  BY <1>1, <1>2 DEF OwnInOrder, KindMatches, CopiesCurrent, RequestLabels, AddLabels
<1>4. v \notin friends_spoiled => theirs[t] = friends[v]
  BY <1>1 DEF CopiesCurrent
<1>5. /\ \A s \in Thread : KindMatches(s)' /\ CopiesCurrent(s)'
      /\ OthersAsked' /\ BrokenIsSpoiled'
      /\ friends_spoiled \subseteq friends_spoiled'
      /\ \A w \in User \ {v} : friends'[w] = friends[w]
      /\ Listed(u, friends'[v])
      /\ v \notin friends_spoiled =>
           \A w \in User : w # u => (Listed(w, friends'[v]) <=> Listed(w, friends[v]))
  BY <1>1, <1>2, <1>3, <1>4, FriendWrite
<1>6. u \notin friends_spoiled => Listed(v, friends'[u])
  BY <1>1, <1>5 DEF CopiesCurrent
<1>7. FriendListsInSync'
  <2> SUFFICES ASSUME NEW x \in User \ friends_spoiled',
                      NEW y \in User \ friends_spoiled',
                      ~Adding(x, y)', ~Adding(y, x)'
               PROVE  Listed(y, friends'[x]) <=> Listed(x, friends'[y])
    BY DEF FriendListsInSync, Listed
  <2>1. CASE (x = u /\ y = v) \/ (x = v /\ y = u)
    BY <1>5, <1>6, <2>1
  <2>2. CASE ~((x = u /\ y = v) \/ (x = v /\ y = u))
    <3>1. ~Adding(x, y) /\ ~Adding(y, x)
      BY <1>2, <2>2 DEF Adding, OthersKept, Self, Peer
    <3>2. Listed(y, friends[x]) <=> Listed(x, friends[y])
      BY <1>5, <3>1 DEF SyncInv, FriendListsInSync
    <3> HIDE DEF u, v
    <3>3. CASE x = v /\ y # v
      BY <1>5, <2>2, <3>2, <3>3
    <3>4. CASE y = v /\ x # v
      BY <1>5, <2>2, <3>2, <3>4
    <3>5. CASE x = y
      BY <3>5
    <3> QED
      BY <1>5, <3>2, <3>3, <3>4, <3>5
  <2> QED
    BY <2>1, <2>2
<1> QED
  BY <1>5, <1>7 DEF SyncInv

LEMMA SyncAnswerSteps ==
  ASSUME ConsentInv, SyncInv, NEW t \in Thread, AgreeFriendRequest(t)
  PROVE  SyncInv'
<1> DEFINE same == UNCHANGED <<friends, requests, friends_spoiled,
                               requests_spoiled, asked>>
<1>1. CASE CheckAsked(t)
  <2>1. pc[t] = "is_asked" /\ same
    BY <1>1 DEF CheckAsked, files, spoiled
  <2>2. CASE End(t)
    BY <2>1, <2>2, SyncEnd
  <2>3. CASE op[t].kind = "agree" /\ Goto(t, "add_not_friend")
    BY <2>1, <2>3, SyncGoto DEF Labels, RequestLabels, AnswerLabels
  <2>4. CASE Goto(t, "read_removal")
    BY <2>1, <2>4, SyncGoto DEF Labels, RequestLabels, AnswerLabels, AddLabels
  <2> QED
    BY <1>1, <2>2, <2>3, <2>4 DEF CheckAsked
<1>2. CASE AddCheckNotFriend(t)
  BY <1>2, SyncCheck DEF AddCheckNotFriend, RequestLabels, AddLabels
<1>3. CASE AddCheckInSync(t)
  BY <1>3, SyncCheck DEF AddCheckInSync, RequestLabels, AddLabels
<1>4. CASE ReadOwn(t)
  <2>1. /\ pc[t] = "read_own" /\ pc'[t] = "read_theirs"
        /\ own'[t] = friends[Self(t)] /\ UNCHANGED <<op, theirs>> /\ OthersKept(t)
    BY <1>4, ReadKeeps DEF ReadOwn
  <2>2. same
    BY <1>4 DEF ReadOwn, files, history, consent, spoiled
  <2>3. KindMatches(t)
    BY DEF SyncInv
  <2>4. OwnInOrder(t)'
    BY <2>1, <2>2, <2>3 DEF OwnInOrder, KindMatches, CopiesCurrent, RequestLabels,
                            AnswerLabels, AddLabels, Self, Peer
  <2> QED
    BY <2>1, <2>2, <2>4, SyncFrame
<1>5. CASE ReadTheirs(t)
  <2>1. /\ pc[t] = "read_theirs" /\ pc'[t] = "write_own"
        /\ theirs'[t] = friends[Peer(t)] /\ UNCHANGED <<op, own>> /\ OthersKept(t)
    BY <1>5 DEF ReadTheirs, ConsentInv, TypeOK, OthersKept
  <2>2. same
    BY <1>5 DEF ReadTheirs, files, history, consent, spoiled
  <2>3. KindMatches(t) /\ CopiesCurrent(t)
    BY DEF SyncInv
  <2>4. KindMatches(t)' /\ pc'[t] \notin RequestLabels
    BY <2>1, <2>3 DEF KindMatches, RequestLabels, AnswerLabels, AddLabels
  <2>5. CopiesCurrent(t)'
    BY <2>1, <2>2, <2>3 DEF CopiesCurrent, Self, Peer
  <2>6. OwnInOrder(t)'
    BY <2>4, <2>5 DEF OwnInOrder
  <2> QED
    BY <2>1, <2>2, <2>6, SyncFrame
<1>6. CASE WriteOwn(t)
  BY <1>6, SyncWriteOwn
<1>7. CASE WriteTheirs(t)
  BY <1>7, SyncWriteTheirs
<1>8. CASE ReadRemoval(t)
  <2>1. pc[t] = "read_removal" /\ same
    BY <1>8 DEF ReadRemoval, files, history, consent, spoiled
  <2>2. CASE End(t)
    BY <2>1, <2>2, SyncEnd
  <2>3. CASE ReadOwnFile(t, requests[Self(t)], "write_removal")
    <3>1. /\ pc'[t] = "write_removal" /\ own'[t] = requests[Self(t)]
          /\ UNCHANGED <<op, theirs>> /\ OthersKept(t)
      BY <2>3, ReadKeeps
    <3>2. KindMatches(t)
      BY DEF SyncInv
    <3>3. OwnInOrder(t)'
      BY <2>1, <3>1, <3>2 DEF OwnInOrder, KindMatches, CopiesCurrent, RequestLabels,
                              AnswerLabels, AddLabels, Self, Peer
    <3> QED
      BY <2>1, <3>1, <3>3, SyncFrame
  <2> QED
    BY <1>8, <2>2, <2>3 DEF ReadRemoval
<1>9. CASE WriteRemoval(t)
  <2>1. PICK i \in 1..Len(own[t]) :
          ReplaceRequests(t, Self(t), RemoveAt(own[t], i))
    BY <1>9 DEF WriteRemoval
  <2>2. /\ pc[t] = "write_removal" /\ End(t) /\ UNCHANGED asked
        /\ Self(t) \in User /\ own[t] \in Seq(User)
    BY <1>9, SelfAndPeer DEF WriteRemoval, ConsentInv, TypeOK, consent
  <2>3. RemoveAt(own[t], i) \in Seq(User)
    BY <2>2, RemoveContains
  <2>4. \A p \in asked' : p[1] # p[2]
    BY <2>2 DEF SyncInv, OthersAsked
  <2> QED
    BY <2>1, <2>2, <2>3, <2>4, SyncRequests
<1> QED
  BY <1>1, <1>2, <1>3, <1>4, <1>5, <1>6, <1>7, <1>8, <1>9 DEF AgreeFriendRequest

(* A crash empties files, which spoils them, and so does a crash between    *)
(* the two writes.                                                          *)
LEMMA SyncCrash ==
  ASSUME ConsentInv, SyncInv, Crash
  PROVE  SyncInv'
<1>1. /\ \A t \in Thread : pc'[t] = "idle"
      /\ UNCHANGED asked
      /\ \A u \in User : friends'[u] \in {friends[u], Broken}
      /\ \A u \in User : friends'[u] = Broken => u \in friends_spoiled'
      /\ \A u \in User : requests'[u] = Broken => u \in requests_spoiled'
      /\ friends_spoiled \subseteq friends_spoiled'
      /\ \A t \in Thread : pc[t] = "write_theirs" => Peer(t) \in friends_spoiled'
  BY DEF Crash, consent
<1>2. \A t \in Thread : KindMatches(t)' /\ CopiesCurrent(t)'
  BY <1>1 DEF KindMatches, CopiesCurrent, RequestLabels, AnswerLabels, AddLabels
<1>3. OthersAsked' /\ BrokenIsSpoiled'
  BY <1>1 DEF SyncInv, OthersAsked, BrokenIsSpoiled, RequestLabels
<1>4. FriendListsInSync'
  <2> SUFFICES ASSUME NEW x \in User \ friends_spoiled',
                      NEW y \in User \ friends_spoiled'
               PROVE  Listed(y, friends'[x]) <=> Listed(x, friends'[y])
    BY DEF FriendListsInSync, Listed
  <2>1. ~Adding(x, y) /\ ~Adding(y, x)
    BY <1>1 DEF Adding
  <2>2. friends'[x] = friends[x] /\ friends'[y] = friends[y]
    BY <1>1
  <2> QED
    BY <1>1, <2>1, <2>2 DEF SyncInv, FriendListsInSync
<1> QED
  BY <1>2, <1>3, <1>4 DEF SyncInv

LEMMA SyncInit == Init => SyncInv
<1> SUFFICES ASSUME Init PROVE SyncInv
  OBVIOUS
<1>1. <<>> \in Seq(User) /\ Len(<<>>) = 0
  OBVIOUS
<1>2. BrokenIsSpoiled
  BY <1>1, BrokenAssumption DEF Init, BrokenIsSpoiled
<1>3. FriendListsInSync
  BY <1>1 DEF Init, FriendListsInSync, Listed, Contains
<1>4. OthersAsked /\ \A t \in Thread : KindMatches(t) /\ CopiesCurrent(t)
  BY DEF Init, OthersAsked, KindMatches, CopiesCurrent, RequestLabels, AnswerLabels,
         AddLabels
<1> QED
  BY <1>2, <1>3, <1>4 DEF SyncInv

LEMMA SyncNext == ConsentInv /\ SyncInv /\ [Next]_vars => SyncInv'
<1> SUFFICES ASSUME ConsentInv, SyncInv, [Next]_vars PROVE SyncInv'
  OBVIOUS
<1>1. ASSUME NEW t \in Thread, NEW u \in User, NEW v \in User,
             RequestFriend(t, u, v) \/ AnswerRequest(t, u, v)
      PROVE  SyncInv'
  BY <1>1, SyncStart
<1>2. ASSUME NEW t \in Thread, SendFriendRequest(t)
      PROVE  SyncInv'
  BY <1>2, SyncRequestSteps
<1>3. ASSUME NEW t \in Thread, AgreeFriendRequest(t)
      PROVE  SyncInv'
  BY <1>3, SyncAnswerSteps
<1>4. CASE Crash
  BY <1>4, SyncCrash
<1>5. CASE UNCHANGED vars
  <2>1. \A u, v \in User : Adding(u, v)' <=> Adding(u, v)
    BY <1>5 DEF vars, Adding, Self, Peer
  <2>2. FriendListsInSync'
    BY <1>5, <2>1 DEF vars, SyncInv, FriendListsInSync, Listed
  <2>3. \A t \in Thread : KindMatches(t)' /\ CopiesCurrent(t)'
    BY <1>5 DEF vars, SyncInv, KindMatches, CopiesCurrent, Listed, Self, Peer
  <2> QED
    BY <1>5, <2>2, <2>3 DEF vars, SyncInv, BrokenIsSpoiled, OthersAsked, Self, Peer
<1> QED
  BY <1>1, <1>2, <1>3, <1>4, <1>5 DEF Next

(* A friendship is in both files or in neither, unless it is being made     *)
(* right now, however many requests and answers are handled at once: only   *)
(* two threads that replace one file at once, and a crash, can leave what   *)
(* AddFriend calls "Friend list not async".                                 *)
THEOREM ListsInSync == Spec => []FriendListsInSync
<1>1. SyncInv => FriendListsInSync
  BY DEF SyncInv
<1>2. Spec => []SyncInv
  BY Invariance, SyncInit, SyncNext, PTL DEF Spec
<1> QED
  BY <1>1, <1>2, PTL

-----------------------------------------------------------------------------
(* What becomes of a pending request *)

(* Removing an element moves those behind it.                               *)
LEMMA RemoveIs ==
  ASSUME NEW s \in Seq(User), NEW i \in 1..Len(s)
  PROVE  /\ Len(RemoveAt(s, i)) = Len(s) - 1
         /\ \A j \in 1..(Len(s) - 1) : RemoveAt(s, i)[j] = IF j < i THEN s[j] ELSE s[j + 1]
<1> DEFINE a == SubSeq(s, 1, i - 1)
           b == SubSeq(s, i + 1, Len(s))
           r == a \o b
<1>1. /\ a \in Seq(User) /\ Len(a) = i - 1
      /\ \A j \in 1..(i - 1) : a[j] = s[j]
  OBVIOUS
<1>2. /\ b \in Seq(User) /\ Len(b) = Len(s) - i
      /\ \A j \in 1..(Len(s) - i) : b[j] = s[i + j]
  OBVIOUS
<1>3. Len(s) \in Nat /\ i \in Nat /\ i <= Len(s) /\ i >= 1
  OBVIOUS
<1> HIDE DEF a, b
<1>4. /\ Len(r) = Len(a) + Len(b)
      /\ \A j \in 1..(Len(a) + Len(b)) : r[j] = IF j <= Len(a) THEN a[j] ELSE b[j - Len(a)]
  BY <1>1, <1>2, ConcatProperties
<1> HIDE DEF r
<1>5. Len(r) = Len(s) - 1
  BY <1>1, <1>2, <1>3, <1>4
<1>6. ASSUME NEW j \in 1..(Len(s) - 1)
      PROVE  r[j] = IF j < i THEN s[j] ELSE s[j + 1]
  <2>1. CASE j < i
    <3>1. j \in 1..(i - 1) /\ j \in 1..(Len(a) + Len(b)) /\ j <= Len(a)
      BY <1>1, <1>2, <1>3, <2>1
    <3> QED
      BY <1>1, <1>4, <2>1, <3>1
  <2>2. CASE ~(j < i)
    <3> DEFINE k == j - (i - 1)
    <3>1. /\ k \in 1..(Len(s) - i) /\ j \in 1..(Len(a) + Len(b)) /\ ~(j <= Len(a))
          /\ j - Len(a) = k /\ i + k = j + 1
      BY <1>1, <1>2, <1>3, <2>2
    <3>2. r[j] = b[k] /\ b[k] = s[i + k]
      BY <1>2, <1>4, <3>1
    <3> QED
      BY <2>2, <3>1, <3>2
  <2> QED
    BY <2>1, <2>2
<1>7. RemoveAt(s, i) = r
  BY DEF RemoveAt, a, b, r
<1> QED
  BY <1>5, <1>6, <1>7

LEMMA RemoveKeeps ==
  ASSUME NEW s \in Seq(User), NEW i \in 1..Len(s), NEW v, v # s[i], Contains(s, v)
  PROVE  Contains(RemoveAt(s, i), v)
<1> DEFINE r == RemoveAt(s, i)
<1>1. /\ Len(r) = Len(s) - 1
      /\ \A j \in 1..(Len(s) - 1) : r[j] = IF j < i THEN s[j] ELSE s[j + 1]
  BY RemoveIs
<1> HIDE DEF r
<1>2. Len(s) \in Nat /\ i \in Nat /\ i <= Len(s) /\ i >= 1
  OBVIOUS
<1>3. PICK j \in 1..Len(s) : s[j] = v
  BY DEF Contains
<1> DEFINE k == IF j < i THEN j ELSE j - 1
<1>4. k \in 1..(Len(s) - 1) /\ r[k] = v
  BY <1>1, <1>2, <1>3
<1> QED
  BY <1>1, <1>4 DEF Contains, r

(* A file of requests that is not spoiled loses only the request that the   *)
(* thread answers.                                                          *)
LEMMA AwaitStep ==
  ASSUME ConsentInv, SyncInv, [Next]_vars,
         NEW u \in User \ requests_spoiled', NEW v \in User,
         Listed(v, requests[u]), ~Listed(v, requests'[u])
  PROVE  \E t \in Thread : /\ op[t] # NoOperation
                           /\ op[t].kind \in {"agree", "ignore"}
                           /\ Self(t) = u /\ Peer(t) = v
<1>1. ~(UNCHANGED requests)
  OBVIOUS
<1>2. ~Crash
  <2>1. ASSUME Crash PROVE FALSE
    <3>1. /\ requests'[u] \in {requests[u], Broken}
          /\ requests'[u] = Broken => u \in requests_spoiled'
      BY <2>1 DEF Crash
    <3> QED
      BY <3>1
  <2> QED
    BY <2>1
<1>3. PICK t \in Thread : StoreRequest(t) \/ WriteRemoval(t)
  BY <1>1, <1>2
     DEF Next, vars, files, RequestFriend, AnswerRequest, Start, SendFriendRequest,
         AgreeFriendRequest, CheckNotFriend, NotifyFails, CheckStillNotFriend, CheckNotAsked,
         ReadRequests, CheckAsked, AddCheckNotFriend, AddCheckInSync, ReadOwn, ReadTheirs,
         WriteOwn, WriteTheirs, ReplaceFriends, ReadRemoval
<1>4. KindMatches(t) /\ CopiesCurrent(t)
  BY DEF SyncInv
<1>5. CASE StoreRequest(t)
  <2>1. /\ ReplaceRequests(t, Peer(t), Append(own[t], Self(t)))
        /\ pc[t] = "store_request"
        /\ Self(t) \in User /\ Peer(t) \in User /\ own[t] \in Seq(User)
    BY <1>5, SelfAndPeer DEF StoreRequest, ConsentInv, TypeOK
  <2>2. /\ Append(own[t], Self(t)) # Broken
        /\ \A w : Contains(own[t], w) => Contains(Append(own[t], Self(t)), w)
    BY <2>1, AppendContains, BrokenAssumption
  <2>3. /\ requests'[u] = IF u = Peer(t) THEN Append(own[t], Self(t)) ELSE requests[u]
        /\ u \notin requests_spoiled
    BY <2>1 DEF ReplaceRequests, ConsentInv, TypeOK
  <2> QED
    BY <1>4, <2>1, <2>2, <2>3 DEF Listed, CopiesCurrent
<1>6. CASE WriteRemoval(t)
  <2>1. PICK i \in 1..Len(own[t]) :
          /\ own[t][i] = Peer(t)
          /\ ReplaceRequests(t, Self(t), RemoveAt(own[t], i))
    BY <1>6 DEF WriteRemoval
  <2>2. /\ pc[t] = "write_removal" /\ op[t] \in Operations
        /\ Self(t) \in User /\ own[t] \in Seq(User)
        /\ op[t].kind \in {"agree", "ignore"}
    BY <1>4, <1>6, SelfAndPeer
       DEF WriteRemoval, ConsentInv, BusyThreads, TypeOK, KindMatches, AnswerLabels
  <2>3. /\ RemoveAt(own[t], i) # Broken
        /\ \A w : Contains(own[t], w) /\ w # Peer(t) => Contains(RemoveAt(own[t], i), w)
    BY <2>1, <2>2, RemoveContains, RemoveKeeps, BrokenAssumption
  <2>4. /\ requests'[u] = IF u = Self(t) THEN RemoveAt(own[t], i) ELSE requests[u]
        /\ u \notin requests_spoiled
    BY <2>1, <2>2 DEF ReplaceRequests, ConsentInv, TypeOK
  <2>5. u = Self(t) /\ own[t] = requests[u]
    BY <1>4, <2>2, <2>4 DEF CopiesCurrent
  <2>6. v = Peer(t)
    BY <2>3, <2>4, <2>5 DEF Listed
  <2> QED
    BY <2>2, <2>5, <2>6, NoOperationAssumption
<1> QED
  BY <1>3, <1>5, <1>6

(* A pending request goes only when the user who was asked answers it, or   *)
(* from a file that is spoiled.                                             *)
THEOREM RequestsAnswered == Spec => RequestsAwaitAnswer
<1> DEFINE Await ==
      \A u \in User \ requests_spoiled', v \in User :
        Listed(v, requests[u]) /\ ~Listed(v, requests'[u]) =>
          \E t \in Thread : /\ op[t] # NoOperation
                            /\ op[t].kind \in {"agree", "ignore"}
                            /\ Self(t) = u /\ Peer(t) = v
<1>1. ConsentInv /\ SyncInv /\ [Next]_vars => [Await]_vars
  BY AwaitStep
<1>2. ConsentInv /\ SyncInv /\ [Next]_vars => SyncInv'
  BY SyncNext
<1> QED
  BY <1>1, <1>2, SyncInit, Invariance, PTL DEF Spec, RequestsAwaitAnswer

-----------------------------------------------------------------------------
(* What a step may touch: the pair of users that the thread handles *)

(* Appending a new element, or removing one, leaves each in the list once.  *)
LEMMA AppendOnce ==
  ASSUME NEW s \in Seq(User), NEW x \in User, NEW y,
         Once(s, y), y = x => ~Contains(s, x)
  PROVE  Once(Append(s, x), y)
<1> DEFINE a == Append(s, x)
<1>1. /\ Len(a) = Len(s) + 1 /\ Len(s) \in Nat
      /\ \A i \in 1..Len(s) : a[i] = s[i]
      /\ a[Len(s) + 1] = x
  OBVIOUS
<1> HIDE DEF a
<1>2. \A i \in 1..Len(s) : s[i] = x => y # x
  BY DEF Contains
<1>3. \A k \in 1..(Len(s) + 1) : k \in 1..Len(s) \/ k = Len(s) + 1
  BY <1>1
<1>4. Once(a, y)
  BY <1>1, <1>2, <1>3 DEF Once
<1> QED
  BY <1>4 DEF a

LEMMA RemoveOnce ==
  ASSUME NEW s \in Seq(User), NEW i \in 1..Len(s), NEW y, Once(s, y)
  PROVE  /\ Once(RemoveAt(s, i), y)
         /\ y = s[i] => ~Contains(RemoveAt(s, i), y)
<1> DEFINE r == RemoveAt(s, i)
           at(j) == IF j < i THEN j ELSE j + 1
<1>1. /\ Len(r) = Len(s) - 1
      /\ \A j \in 1..(Len(s) - 1) : r[j] = IF j < i THEN s[j] ELSE s[j + 1]
  BY RemoveIs
<1> HIDE DEF r
<1>2. Len(s) \in Nat /\ i \in Nat /\ i <= Len(s) /\ i >= 1
  OBVIOUS
<1>3. \A j \in 1..Len(r) : at(j) \in 1..Len(s) /\ at(j) # i /\ r[j] = s[at(j)]
  BY <1>1, <1>2
<1>4. \A j, k \in 1..Len(r) : at(j) = at(k) => j = k
  BY <1>1, <1>2
<1> HIDE DEF at
<1>5. Once(r, y)
  BY <1>3, <1>4 DEF Once
<1>6. y = s[i] => ~Contains(r, y)
  BY <1>3 DEF Once, Contains
<1> QED
  BY <1>5, <1>6 DEF r

SamePair(x, y, u, v) == (x = u /\ y = v) \/ (x = v /\ y = u)

LEMMA PairsAreSets == \A x, y, u, v : {x, y} = {u, v} <=> SamePair(x, y, u, v)
  BY DEF SamePair

LEMMA LostIs ==
  \A x, y :
    /\ Lost(x, y) <=>
         \/ x \in friends_spoiled \/ x \in requests_spoiled
         \/ y \in friends_spoiled \/ y \in requests_spoiled
         \/ {x, y} \in crossed
    /\ Lost(x, y) <=> Lost(y, x)
<1>1. \A x, y : {x, y} = {y, x}
  OBVIOUS
<1>2. ASSUME NEW x, NEW y
      PROVE  Lost(x, y) <=>
               \/ x \in friends_spoiled \/ x \in requests_spoiled
               \/ y \in friends_spoiled \/ y \in requests_spoiled
               \/ {x, y} \in crossed
  BY DEF Lost
<1> QED
  BY <1>1, <1>2

LEMMA LostIsNext ==
  \A x, y :
    /\ Lost(x, y)' <=>
         \/ x \in friends_spoiled' \/ x \in requests_spoiled'
         \/ y \in friends_spoiled' \/ y \in requests_spoiled'
         \/ {x, y} \in crossed'
    /\ Lost(x, y)' <=> Lost(y, x)'
<1>1. \A x, y : {x, y} = {y, x}
  OBVIOUS
<1>2. ASSUME NEW x, NEW y
      PROVE  Lost(x, y)' <=>
               \/ x \in friends_spoiled' \/ x \in requests_spoiled'
               \/ y \in friends_spoiled' \/ y \in requests_spoiled'
               \/ {x, y} \in crossed'
  BY DEF Lost
<1> QED
  BY <1>1, <1>2

(* The records only grow, and only by the pair.                             *)
RecordsGrow ==
  /\ friends_spoiled \subseteq friends_spoiled'
  /\ requests_spoiled \subseteq requests_spoiled'
  /\ crossed \subseteq crossed'

GrowByPair(u, v) ==
  /\ friends_spoiled' \subseteq friends_spoiled \cup {u, v}
  /\ requests_spoiled' \subseteq requests_spoiled \cup {u, v}
  /\ crossed' \subseteq crossed \cup {{u, v}}

LEMMA LostGrows ==
  ASSUME RecordsGrow
  PROVE  \A x, y : Lost(x, y) => Lost(x, y)'
  BY LostIs, LostIsNext DEF RecordsGrow

LEMMA LostSettled ==
  ASSUME RecordsGrow, NEW u, NEW v, GrowByPair(u, v), ~Lost(u, v)'
  PROVE  \A x, y : Lost(x, y)' <=> Lost(x, y)
<1>1. /\ u \notin friends_spoiled' /\ v \notin friends_spoiled'
      /\ u \notin requests_spoiled' /\ v \notin requests_spoiled'
      /\ {u, v} \notin crossed'
  BY LostIsNext
<1>2. friends_spoiled' = friends_spoiled /\ requests_spoiled' = requests_spoiled
  BY <1>1 DEF RecordsGrow, GrowByPair
<1> DEFINE pair == {u, v}
<1> HIDE DEF pair
<1>3. pair \notin crossed' /\ crossed' \subseteq crossed \cup {pair}
  BY <1>1 DEF GrowByPair, pair
<1>4. crossed' = crossed
  BY <1>3 DEF RecordsGrow
<1> QED
  BY <1>2, <1>4, LostIs, LostIsNext

(* The files tell the same of all other pairs.                              *)
OutsideKept(u, v) ==
  \A x, y \in User :
    ~SamePair(x, y, u, v) /\ ~Lost(x, y)' =>
      /\ Listed(y, friends'[x]) <=> Listed(y, friends[x])
      /\ Listed(y, requests'[x]) <=> Listed(y, requests[x])

(* A step of a thread that handles u and v, before or after it.             *)
Acts(t, u, v) ==
  /\ u \in User /\ v \in User
  /\ OthersKept(t)
  /\ pc[t] # "idle" => SamePair(Self(t), Peer(t), u, v)
  /\ pc'[t] # "idle" => SamePair(Self(t)', Peer(t)', u, v)
  /\ pc[t] # "idle" \/ pc'[t] # "idle"
  /\ pc[t] = "idle" /\ (\E s \in Thread : Handles(s, {u, v})) => {u, v} \in crossed'
  /\ RecordsGrow /\ GrowByPair(u, v) /\ OutsideKept(u, v)

(* Nobody else handles the pair, or it is lost.                             *)
LEMMA Alone ==
  ASSUME GraphInv, NEW t \in Thread, NEW u, NEW v, Acts(t, u, v), ~Lost(u, v)',
         NEW s \in Thread \ {t}, pc[s] # "idle"
  PROVE  ~SamePair(Self(s), Peer(s), u, v)
<1> SUFFICES ASSUME SamePair(Self(s), Peer(s), u, v) PROVE {u, v} \in crossed'
  BY LostIsNext
<1>1. Handles(s, {u, v})
  BY PairsAreSets DEF Handles
<1>2. CASE pc[t] = "idle"
  BY <1>1, <1>2 DEF Acts
<1>3. CASE pc[t] # "idle"
  <2>1. {Self(t), Peer(t)} = {u, v}
    BY <1>3, PairsAreSets DEF Acts
  <2>2. {u, v} \in crossed
    BY <1>1, <1>3, <2>1 DEF GraphInv, OneHandler
  <2> QED
    BY <2>2 DEF Acts, RecordsGrow
<1> QED
  BY <1>2, <1>3

LEMMA GraphFrame ==
  ASSUME ConsentInv, GraphInv, NEW t \in Thread, NEW u, NEW v, Acts(t, u, v),
         pc'[t] # "idle" => FoundHolds(t)', AskedOnce'
  PROVE  GraphInv'
<1>1. \A s \in Thread \ {t} :
        /\ pc'[s] = pc[s] /\ op'[s] = op[s]
        /\ Self(s)' = Self(s) /\ Peer(s)' = Peer(s)
  BY DEF Acts, OthersKept, Self, Peer
<1>2. OneHandler'
  <2> SUFFICES ASSUME NEW r \in Thread, NEW s \in Thread, r # s,
                      pc'[r] # "idle", pc'[s] # "idle",
                      {Self(r)', Peer(r)'} = {Self(s)', Peer(s)'}
               PROVE  {Self(s)', Peer(s)'} \in crossed'
    BY DEF OneHandler, Handles
  <2>1. CASE r # t /\ s # t
    BY <1>1, <2>1 DEF GraphInv, OneHandler, Handles, Acts, RecordsGrow
  <2>2. ASSUME NEW o \in Thread \ {t}, pc'[o] # "idle", pc'[t] # "idle",
               {Self(o)', Peer(o)'} = {Self(t)', Peer(t)'}
        PROVE  {Self(t)', Peer(t)'} \in crossed'
    <3>1. SamePair(Self(t)', Peer(t)', u, v) /\ {Self(t)', Peer(t)'} = {u, v}
      BY <2>2, PairsAreSets DEF Acts
    <3>2. SamePair(Self(o), Peer(o), u, v) /\ pc[o] # "idle"
      BY <1>1, <2>2, <3>1, PairsAreSets
    <3>3. {u, v} \in crossed'
      <4>1. Handles(o, {u, v})
        BY <3>2, PairsAreSets DEF Handles
      <4>2. CASE pc[t] = "idle"
        BY <4>1, <4>2 DEF Acts
      <4>3. CASE pc[t] # "idle"
        <5>1. {Self(t), Peer(t)} = {u, v}
          BY <4>3, PairsAreSets DEF Acts
        <5> QED
          BY <4>1, <4>3, <5>1 DEF GraphInv, OneHandler, Acts, RecordsGrow
      <4> QED
        BY <4>2, <4>3
    <3> QED
      BY <3>1, <3>3
  <2> QED
    BY <2>1, <2>2
<1>3. ASSUME NEW s \in Thread, pc'[s] # "idle"
      PROVE  FoundHolds(s)'
  <2>1. CASE s = t
    BY <1>3, <2>1
  <2>2. CASE s # t
    <3>0. PICK x, y : x = Self(s) /\ y = Peer(s)
      OBVIOUS
    <3>1. pc'[s] = pc[s] /\ op'[s] = op[s] /\ x \in User /\ y \in User
          /\ Self(s)' = x /\ Peer(s)' = y /\ FoundHolds(s)
      BY <1>1, <1>3, <2>2, <3>0, SelfAndPeer DEF GraphInv
    <3>2. Settling(s)' <=> Settling(s)
      BY <3>1 DEF Settling
    <3>3. CASE Lost(x, y)'
      BY <3>1, <3>3, LostIsNext DEF FoundHolds, Lost
    <3>4. CASE ~Lost(x, y)'
      <4>1. ~SamePair(x, y, u, v)
        <5>1. CASE Lost(u, v)'
          BY <3>4, <5>1, LostIsNext DEF SamePair
        <5>2. CASE ~Lost(u, v)'
          BY <1>3, <2>2, <3>0, <3>1, <5>2, Alone
        <5> QED
          BY <5>1, <5>2
      <4>2. ~SamePair(y, x, u, v) /\ ~Lost(y, x)'
        BY <3>4, <4>1, LostIsNext DEF SamePair
      <4>3. /\ Listed(y, friends'[x]) <=> Listed(y, friends[x])
            /\ Listed(y, requests'[x]) <=> Listed(y, requests[x])
            /\ Listed(x, friends'[y]) <=> Listed(x, friends[y])
            /\ Listed(x, requests'[y]) <=> Listed(x, requests[y])
        BY <3>1, <3>4, <4>1, <4>2 DEF Acts, OutsideKept
      <4>4. ~Lost(x, y)
        BY <3>4, LostGrows DEF Acts
      <4>5. /\ pc[s] \in {"not_asked", "read_requests", "store_request", "add_in_sync",
                          "read_own", "read_theirs", "write_own"} => ~Listed(y, friends'[x])
            /\ pc[s] \in {"read_own", "read_theirs", "write_own"} => ~Listed(x, friends'[y])
            /\ pc[s] \in {"read_requests", "store_request"} => ~Listed(x, requests'[y])
            /\ pc[s] \in AddLabels \cup {"write_removal"}
                 \/ (pc[s] = "read_removal" /\ Settling(s)) => Listed(y, requests'[x])
        BY <3>0, <3>1, <4>3, <4>4 DEF FoundHolds
      <4> QED
        BY <3>1, <3>2, <4>5 DEF FoundHolds, Listed
    <3> QED
      BY <3>3, <3>4
  <2> QED
    BY <2>1, <2>2
<1> QED
  BY <1>2, <1>3 DEF GraphInv

-----------------------------------------------------------------------------
(* GraphInv is an invariant *)

LEMMA RecordsSame ==
  ASSUME UNCHANGED <<friends_spoiled, requests_spoiled, crossed>>
  PROVE  /\ RecordsGrow /\ \A u, v : GrowByPair(u, v)
         /\ \A x, y : Lost(x, y)' <=> Lost(x, y)
  BY LostIs, LostIsNext DEF RecordsGrow, GrowByPair

(* A step that changes no file.                                             *)
LEMMA LocalActs ==
  ASSUME ConsentInv, NEW t \in Thread, pc[t] # "idle", OthersKept(t),
         UNCHANGED <<friends, requests, friends_spoiled, requests_spoiled, crossed>>,
         pc'[t] # "idle" => op'[t] = op[t]
  PROVE  /\ Acts(t, Self(t), Peer(t))
         /\ AskedOnce => AskedOnce'
<1>1. PICK u, v : u = Self(t) /\ v = Peer(t) /\ u \in User /\ v \in User
  BY SelfAndPeer
<1>2. OutsideKept(u, v)
  BY DEF OutsideKept, Listed
<1>3. pc'[t] # "idle" => Self(t)' = u /\ Peer(t)' = v
  BY <1>1 DEF Self, Peer
<1>4. Acts(t, u, v)
  BY <1>1, <1>2, <1>3, RecordsSame DEF Acts, SamePair
<1>5. AskedOnce => AskedOnce'
  BY RecordsSame DEF AskedOnce, Once
<1> QED
  BY <1>1, <1>4, <1>5

LEMMA GraphLocal ==
  ASSUME ConsentInv, GraphInv, NEW t \in Thread, pc[t] # "idle", OthersKept(t),
         UNCHANGED <<friends, requests, friends_spoiled, requests_spoiled, crossed>>,
         pc'[t] # "idle" => op'[t] = op[t] /\ FoundHolds(t)'
  PROVE  GraphInv'
<1>1. PICK u, v : u = Self(t) /\ v = Peer(t)
  OBVIOUS
<1>2. Acts(t, u, v) /\ AskedOnce'
  BY <1>1, LocalActs DEF GraphInv
<1> QED
  BY <1>2, GraphFrame

(* It goes on with what it has found.                                       *)
LEMMA GraphGoto ==
  ASSUME ConsentInv, GraphInv, NEW t \in Thread, pc[t] # "idle", OthersKept(t),
         UNCHANGED <<friends, requests, friends_spoiled, requests_spoiled, crossed>>,
         NEW next, pc'[t] = next, op'[t] = op[t],
         NEW x, NEW y, x = Self(t), y = Peer(t),
         ~Lost(x, y) =>
           /\ next \in {"not_asked", "read_requests", "store_request", "add_in_sync",
                        "read_own", "read_theirs", "write_own"} => ~Listed(y, friends[x])
           /\ next \in {"read_own", "read_theirs", "write_own"} => ~Listed(x, friends[y])
           /\ next \in {"read_requests", "store_request"} => ~Listed(x, requests[y])
           /\ next \in AddLabels \cup {"write_removal"}
                \/ (next = "read_removal" /\ op[t].kind = "agree") => Listed(y, requests[x])
  PROVE  GraphInv'
<1>1. Self(t)' = x /\ Peer(t)' = y
  BY DEF Self, Peer
<1>2. Lost(x, y)' <=> Lost(x, y)
  BY RecordsSame
<1>3. Settling(t)' => op[t].kind = "agree"
  BY DEF Settling
<1>4. FoundHolds(t)'
  <2>1. CASE Lost(x, y)'
    BY <1>1, <2>1, LostIsNext DEF FoundHolds, Lost
  <2>2. CASE ~Lost(x, y)'
    BY <1>1, <1>2, <1>3, <2>2 DEF FoundHolds, Listed
  <2> QED
    BY <2>1, <2>2
<1> QED
  BY <1>4, GraphLocal

LEMMA GraphEnd ==
  ASSUME ConsentInv, GraphInv, NEW t \in Thread, pc[t] # "idle", End(t),
         UNCHANGED <<friends, requests, friends_spoiled, requests_spoiled, crossed>>
  PROVE  GraphInv'
  BY EndKeeps, GraphLocal

(* A request file of one of the pair is replaced, the other appended to it  *)
(* or removed.                                                              *)
LEMMA RequestsActs ==
  ASSUME ConsentInv, NEW t \in Thread, pc[t] # "idle", OthersKept(t), pc'[t] = "idle",
         NEW w \in User, NEW z \in User, SamePair(Self(t), Peer(t), w, z),
         NEW list, ReplaceRequests(t, w, list), crossed' = crossed,
         w \notin requests_spoiled =>
           \A y \in User \ {z} : /\ Listed(y, list) <=> Listed(y, requests[w])
                                 /\ Once(requests[w], y) => Once(list, y)
  PROVE  /\ Acts(t, w, z)
         /\ AskedOnce /\ (~Lost(w, z)' => Once(list, z)) => AskedOnce'
<1>1. /\ requests'[w] = list /\ \A x \in User \ {w} : requests'[x] = requests[x]
      /\ UNCHANGED <<friends, friends_spoiled>>
      /\ requests_spoiled \subseteq requests_spoiled'
      /\ requests_spoiled' \subseteq requests_spoiled \cup {w}
  BY DEF ReplaceRequests, ConsentInv, TypeOK
<1>2. RecordsGrow /\ GrowByPair(w, z)
  BY <1>1 DEF RecordsGrow, GrowByPair
<1>3. \A x, y : ~Lost(x, y)' => ~Lost(x, y) /\ x \notin requests_spoiled
                                /\ y \notin requests_spoiled
  BY <1>2, LostGrows, LostIs
<1>4. OutsideKept(w, z)
  <2> SUFFICES ASSUME NEW x \in User, NEW y \in User,
                      ~SamePair(x, y, w, z), ~Lost(x, y)'
               PROVE  Listed(y, requests'[x]) <=> Listed(y, requests[x])
    BY <1>1 DEF OutsideKept, Listed
  <2>1. CASE x = w
    BY <1>1, <1>3, <2>1 DEF SamePair
  <2>2. CASE x # w
    BY <1>1, <2>2
  <2> QED
    BY <2>1, <2>2
<1>5. Acts(t, w, z)
  BY <1>2, <1>4 DEF Acts
<1>6. ASSUME AskedOnce, ~Lost(w, z)' => Once(list, z)
      PROVE  AskedOnce'
  <2> SUFFICES ASSUME NEW x \in User, NEW y \in User, ~Lost(x, y)'
               PROVE  Once(requests'[y], x)
    BY DEF AskedOnce, Once
  <2>1. Once(requests[y], x) /\ y \notin requests_spoiled
    BY <1>3, <1>6 DEF AskedOnce
  <2>2. CASE y = w /\ x = z
    BY <1>1, <1>6, <2>2, LostIsNext
  <2>3. CASE y = w /\ x # z
    BY <1>1, <2>1, <2>3
  <2>4. CASE y # w
    BY <1>1, <2>1, <2>4
  <2> QED
    BY <2>2, <2>3, <2>4
<1> QED
  BY <1>5, <1>6

LEMMA FriendsActs ==
  ASSUME ConsentInv, NEW t \in Thread, pc[t] # "idle", OthersKept(t), op'[t] = op[t],
         NEW w \in User, NEW z \in User, SamePair(Self(t), Peer(t), w, z),
         NEW old \in Seq(User), ReplaceFriends(t, w, Append(old, z)),
         w \notin friends_spoiled => old = friends[w], crossed' = crossed
  PROVE  /\ Acts(t, w, z)
         /\ AskedOnce => AskedOnce'
<1> DEFINE list == Append(old, z)
<1>1. /\ friends'[w] = list /\ \A x \in User \ {w} : friends'[x] = friends[x]
      /\ UNCHANGED <<requests, requests_spoiled>>
      /\ friends_spoiled \subseteq friends_spoiled'
      /\ friends_spoiled' \subseteq friends_spoiled \cup {w}
  BY DEF ReplaceFriends, ConsentInv, TypeOK
<1>2. w \notin friends_spoiled =>
        \A y \in User \ {z} : Listed(y, list) <=> Listed(y, friends[w])
  BY AppendContains, BrokenAssumption DEF Listed
<1> HIDE DEF list
<1>3. RecordsGrow /\ GrowByPair(w, z)
  BY <1>1 DEF RecordsGrow, GrowByPair
<1>4. \A x, y : ~Lost(x, y)' => ~Lost(x, y) /\ x \notin friends_spoiled
  BY <1>3, LostGrows, LostIs
<1>5. OutsideKept(w, z)
  <2> SUFFICES ASSUME NEW x \in User, NEW y \in User,
                      ~SamePair(x, y, w, z), ~Lost(x, y)'
               PROVE  Listed(y, friends'[x]) <=> Listed(y, friends[x])
    BY <1>1 DEF OutsideKept, Listed
  <2>1. CASE x = w
    BY <1>1, <1>2, <1>4, <2>1 DEF SamePair
  <2>2. CASE x # w
    BY <1>1, <2>2
  <2> QED
    BY <2>1, <2>2
<1>6. Self(t)' = Self(t) /\ Peer(t)' = Peer(t)
  BY DEF Self, Peer
<1>7. Acts(t, w, z)
  BY <1>3, <1>5, <1>6 DEF Acts
<1>8. AskedOnce => AskedOnce'
  BY <1>1, <1>4 DEF AskedOnce, Once
<1> QED
  BY <1>7, <1>8

LEMMA StartActs ==
  ASSUME ConsentInv, NEW t \in Thread, NEW u \in User, NEW v \in User,
         NEW kind \in {"request", "agree", "ignore"}, Start(t, kind, u, v)
  PROVE  /\ Acts(t, u, v)
         /\ AskedOnce => AskedOnce'
<1>1. /\ pc[t] = "idle" /\ pc'[t] \in {"not_friend", "is_asked"}
      /\ op'[t].self = u /\ op'[t].peer = v /\ OthersKept(t)
      /\ UNCHANGED <<friends, requests, friends_spoiled, requests_spoiled>>
      /\ crossed' = crossed \cup {p \in {{u, v}} : \E s \in Thread : Handles(s, p)}
  BY DEF Start, ConsentInv, TypeOK, OthersKept, files, spoiled
<1>2. Self(t)' = u /\ Peer(t)' = v
  BY <1>1 DEF Self, Peer
<1>3. RecordsGrow /\ GrowByPair(u, v)
  BY <1>1 DEF RecordsGrow, GrowByPair
<1>4. (\E s \in Thread : Handles(s, {u, v})) => {u, v} \in crossed'
  BY <1>1
<1>5. OutsideKept(u, v)
  BY <1>1 DEF OutsideKept, Listed
<1>6. Acts(t, u, v)
  BY <1>1, <1>2, <1>3, <1>4, <1>5 DEF Acts, SamePair
<1>7. AskedOnce => AskedOnce'
  BY <1>1, <1>3, LostGrows DEF AskedOnce, Once
<1> QED
  BY <1>6, <1>7

LEMMA GraphStart ==
  ASSUME ConsentInv, GraphInv, NEW t \in Thread, NEW u \in User, NEW v \in User,
         NEW kind \in {"request", "agree", "ignore"}, Start(t, kind, u, v)
  PROVE  GraphInv'
<1>1. pc'[t] \in {"not_friend", "is_asked"}
  BY DEF Start, ConsentInv, TypeOK
<1>2. FoundHolds(t)'
  BY <1>1 DEF FoundHolds, AddLabels
<1> QED
  BY <1>2, StartActs, GraphFrame DEF GraphInv

(* The request that is stored was not there, and is the only one.           *)
LEMMA StoreActs ==
  ASSUME ConsentInv, SyncInv, GraphInv, NEW t \in Thread, StoreRequest(t),
         NEW u, NEW v, u = Self(t), v = Peer(t)
  PROVE  /\ Acts(t, v, u) /\ AskedOnce' /\ pc'[t] = "idle"
         /\ UNCHANGED friends
         /\ \A w \in User \ {v} : requests'[w] = requests[w]
         /\ ~Lost(v, u)' => Listed(u, requests'[v]) /\ ~Lost(u, v) /\ FoundHolds(t)
<1> DEFINE list == Append(own[t], u)
<1>1. /\ pc[t] = "store_request" /\ u \in User /\ v \in User /\ own[t] \in Seq(User)
      /\ CopiesCurrent(t) /\ FoundHolds(t)
  BY SelfAndPeer DEF StoreRequest, ConsentInv, TypeOK, SyncInv, GraphInv
<1>2. /\ ReplaceRequests(t, v, list) /\ UNCHANGED <<friends, crossed>>
      /\ pc'[t] = "idle" /\ OthersKept(t)
  BY EndKeeps DEF StoreRequest, ReplaceRequests
<1>3. /\ list # Broken
      /\ \A y : Contains(list, y) <=> Contains(own[t], y) \/ y = u
      /\ \A y : Once(own[t], y) /\ (y = u => ~Contains(own[t], u)) => Once(list, y)
  BY <1>1, AppendContains, AppendOnce, BrokenAssumption
<1>4. v \notin requests_spoiled => own[t] = requests[v] /\ own[t] # Broken
  BY <1>1, BrokenAssumption DEF CopiesCurrent
<1>5. requests'[v] = list /\ \A w \in User \ {v} : requests'[w] = requests[w]
  BY <1>1, <1>2 DEF ReplaceRequests, ConsentInv, TypeOK
<1> HIDE DEF list
<1>6. v \notin requests_spoiled =>
        \A y \in User \ {u} : /\ Listed(y, list) <=> Listed(y, requests[v])
                              /\ Once(requests[v], y) => Once(list, y)
  BY <1>3, <1>4 DEF Listed
<1>7. /\ Acts(t, v, u)
      /\ AskedOnce /\ (~Lost(v, u)' => Once(list, u)) => AskedOnce'
  BY <1>1, <1>2, <1>6, RequestsActs DEF SamePair
<1>8. ~Lost(v, u)' => ~Lost(v, u) /\ ~Lost(u, v)
  BY <1>7, LostGrows, LostIs DEF Acts
<1>9. ~Lost(v, u)' => Once(list, u)
  <2> SUFFICES ASSUME ~Lost(v, u)' PROVE Once(list, u)
    OBVIOUS
  <2>1. own[t] = requests[v] /\ ~Listed(u, requests[v])
    BY <1>1, <1>4, <1>8, LostIs DEF FoundHolds
  <2>2. Once(own[t], u) /\ ~Contains(own[t], u)
    BY <1>1, <1>4, <1>8, <2>1, LostIs DEF GraphInv, AskedOnce, Listed
  <2> QED
    BY <1>3, <2>2
<1>10. Listed(u, requests'[v])
  BY <1>3, <1>5 DEF Listed
<1> QED
  BY <1>1, <1>2, <1>5, <1>7, <1>8, <1>9, <1>10 DEF GraphInv

(* The request that is removed was there once.                              *)
LEMMA RemovalActs ==
  ASSUME ConsentInv, SyncInv, GraphInv, NEW t \in Thread, WriteRemoval(t),
         NEW u, NEW v, u = Self(t), v = Peer(t)
  PROVE  /\ Acts(t, u, v) /\ AskedOnce' /\ pc'[t] = "idle"
         /\ UNCHANGED friends
         /\ \A w \in User \ {u} : requests'[w] = requests[w]
         /\ ~Lost(u, v)' => ~Listed(v, requests'[u]) /\ ~Lost(u, v) /\ FoundHolds(t)
<1>1. /\ pc[t] = "write_removal" /\ u \in User /\ v \in User /\ own[t] \in Seq(User)
      /\ CopiesCurrent(t) /\ FoundHolds(t)
  BY SelfAndPeer DEF WriteRemoval, ConsentInv, TypeOK, SyncInv, GraphInv
<1>2. PICK i \in 1..Len(own[t]) :
        own[t][i] = v /\ ReplaceRequests(t, u, RemoveAt(own[t], i))
  BY DEF WriteRemoval
<1> DEFINE list == RemoveAt(own[t], i)
<1>3. /\ ReplaceRequests(t, u, list) /\ UNCHANGED <<friends, crossed>>
      /\ pc'[t] = "idle" /\ OthersKept(t)
  BY <1>2, EndKeeps DEF WriteRemoval, ReplaceRequests
<1>4. /\ list # Broken
      /\ \A y : Contains(list, y) => Contains(own[t], y)
      /\ \A y : y # v /\ Contains(own[t], y) => Contains(list, y)
      /\ \A y : Once(own[t], y) => Once(list, y)
      /\ Once(own[t], v) => ~Contains(list, v)
  BY <1>1, <1>2, RemoveContains, RemoveKeeps, RemoveOnce, BrokenAssumption
<1>5. u \notin requests_spoiled => own[t] = requests[u] /\ own[t] # Broken
  BY <1>1, BrokenAssumption DEF CopiesCurrent
<1>6. requests'[u] = list /\ \A w \in User \ {u} : requests'[w] = requests[w]
  BY <1>1, <1>3 DEF ReplaceRequests, ConsentInv, TypeOK
<1> HIDE DEF list
<1>7. u \notin requests_spoiled =>
        \A y \in User \ {v} : /\ Listed(y, list) <=> Listed(y, requests[u])
                              /\ Once(requests[u], y) => Once(list, y)
  BY <1>4, <1>5 DEF Listed
<1>8. /\ Acts(t, u, v)
      /\ AskedOnce /\ (~Lost(u, v)' => Once(list, v)) => AskedOnce'
  BY <1>1, <1>3, <1>7, RequestsActs DEF SamePair
<1>9. ~Lost(u, v)' => ~Lost(u, v) /\ ~Lost(v, u)
  BY <1>8, LostGrows, LostIs DEF Acts
<1>10. ~Lost(u, v)' => Once(own[t], v)
  BY <1>1, <1>5, <1>9, LostIs DEF GraphInv, AskedOnce
<1>11. ~Lost(u, v)' => Once(list, v) /\ ~Listed(v, requests'[u])
  BY <1>4, <1>6, <1>10 DEF Listed
<1> QED
  BY <1>1, <1>3, <1>6, <1>8, <1>9, <1>11 DEF GraphInv

(* The two writes of AddFriend.                                             *)
LEMMA WritesAct ==
  ASSUME ConsentInv, SyncInv, NEW t \in Thread,
         NEW u, NEW v, u = Self(t), v = Peer(t)
  PROVE  /\ WriteOwn(t) => Acts(t, u, v) /\ (AskedOnce => AskedOnce')
         /\ WriteTheirs(t) => Acts(t, v, u) /\ (AskedOnce => AskedOnce')
<1>1. CASE WriteOwn(t)
  <2>1. /\ pc[t] = "write_own" /\ u \in User /\ v \in User /\ own[t] \in Seq(User)
        /\ CopiesCurrent(t)
    BY <1>1, SelfAndPeer DEF WriteOwn, ConsentInv, TypeOK, SyncInv
  <2>2. /\ ReplaceFriends(t, u, Append(own[t], v)) /\ crossed' = crossed
        /\ OthersKept(t) /\ op'[t] = op[t]
    BY <1>1, GotoKeeps DEF WriteOwn
  <2>3. u \notin friends_spoiled => own[t] = friends[u]
    BY <2>1 DEF CopiesCurrent
  <2>4. Acts(t, u, v) /\ (AskedOnce => AskedOnce')
    BY <2>1, <2>2, <2>3, FriendsActs DEF SamePair
  <2> QED
    BY <2>1, <2>4 DEF WriteTheirs
<1>2. CASE WriteTheirs(t)
  <2>1. /\ pc[t] = "write_theirs" /\ u \in User /\ v \in User /\ theirs[t] \in Seq(User)
        /\ CopiesCurrent(t)
    BY <1>2, SelfAndPeer DEF WriteTheirs, ConsentInv, TypeOK, SyncInv
  <2>2. /\ ReplaceFriends(t, v, Append(theirs[t], u)) /\ crossed' = crossed
        /\ OthersKept(t) /\ op'[t] = op[t]
    BY <1>2, GotoKeeps DEF WriteTheirs
  <2>3. v \notin friends_spoiled => theirs[t] = friends[v]
    BY <2>1 DEF CopiesCurrent
  <2>4. Acts(t, v, u) /\ (AskedOnce => AskedOnce')
    BY <2>1, <2>2, <2>3, FriendsActs DEF SamePair
  <2> QED
    BY <2>1, <2>4 DEF WriteOwn
<1> QED
  BY <1>1, <1>2

LEMMA GraphWrites ==
  ASSUME ConsentInv, SyncInv, GraphInv, NEW t \in Thread, WriteOwn(t) \/ WriteTheirs(t)
  PROVE  GraphInv'
<1>1. PICK u, v : u = Self(t) /\ v = Peer(t)
  OBVIOUS
<1>2. Acts(t, u, v) \/ Acts(t, v, u)
  BY <1>1, WritesAct
<1>3. AskedOnce'
  BY <1>1, WritesAct DEF GraphInv
<1>4. /\ pc[t] \in {"write_own", "write_theirs"}
      /\ pc'[t] \in {"write_theirs", "read_removal"}
      /\ op'[t] = op[t] /\ UNCHANGED requests
  BY GotoKeeps DEF WriteOwn, WriteTheirs, ReplaceFriends
<1>5. FoundHolds(t)'
  <2>1. Self(t)' = u /\ Peer(t)' = v
    BY <1>1, <1>4 DEF Self, Peer
  <2>2. ~Lost(u, v)' => ~Lost(u, v)
    BY <1>2, LostGrows DEF Acts
  <2>3. ~Lost(u, v) => Listed(v, requests[u])
    BY <1>1, <1>4 DEF GraphInv, FoundHolds, AddLabels
  <2>4. CASE Lost(u, v)'
    BY <2>1, <2>4, LostIsNext DEF FoundHolds, Lost
  <2>5. CASE ~Lost(u, v)'
    BY <1>4, <2>1, <2>2, <2>3, <2>5 DEF FoundHolds, Listed
  <2> QED
    BY <2>4, <2>5
<1> QED
  BY <1>2, <1>3, <1>5, GraphFrame

LEMMA GraphCheck ==
  ASSUME ConsentInv, GraphInv, NEW t \in Thread, pc[t] # "idle", NEW x, NEW y,
         x = Self(t), y = Peer(t), NEW list, NEW z,
         NEW next \in {"still_not_friend", "not_asked", "read_requests",
                       "add_in_sync", "read_own"},
         CheckAbsent(t, list, z, next), UNCHANGED <<files, history, begun>>,
         next = "not_asked" => list = friends[x] /\ z = y,
         next = "read_requests" => pc[t] = "not_asked" /\ list = requests[y] /\ z = x,
         next = "add_in_sync" => pc[t] = "add_not_friend" /\ list = friends[x] /\ z = y,
         next = "read_own" => pc[t] = "add_in_sync" /\ list = friends[y] /\ z = x
  PROVE  GraphInv'
<1>1. UNCHANGED <<friends, requests, friends_spoiled, requests_spoiled, crossed>>
  BY DEF files, history, spoiled
<1>2. CASE End(t)
  BY <1>1, <1>2, GraphEnd
<1>3. CASE ~MayContain(z, list) /\ Goto(t, next)
  <2>1. pc'[t] = next /\ op'[t] = op[t] /\ OthersKept(t)
    BY <1>3, GotoKeeps
  <2>2. FoundHolds(t) /\ ~Listed(z, list)
    BY <1>3 DEF GraphInv, MayContain, Listed
  <2>3. ~Lost(x, y) =>
           /\ next \in {"not_asked", "read_requests", "store_request", "add_in_sync",
                        "read_own", "read_theirs", "write_own"} => ~Listed(y, friends[x])
           /\ next \in {"read_own", "read_theirs", "write_own"} => ~Listed(x, friends[y])
           /\ next \in {"read_requests", "store_request"} => ~Listed(x, requests[y])
           /\ next \in AddLabels \cup {"write_removal"}
                \/ (next = "read_removal" /\ op[t].kind = "agree") => Listed(y, requests[x])
    BY <2>2 DEF FoundHolds, AddLabels
  <2> QED
    BY <1>1, <2>1, <2>3, GraphGoto
<1> QED
  BY <1>2, <1>3 DEF CheckAbsent

LEMMA GraphSteps ==
  ASSUME ConsentInv, SyncInv, GraphInv, NEW t \in Thread,
         SendFriendRequest(t) \/ AgreeFriendRequest(t)
  PROVE  GraphInv'
<1>1. PICK x, y : x = Self(t) /\ y = Peer(t)
  OBVIOUS
<1>2. pc[t] # "idle" => FoundHolds(t) /\ KindMatches(t)
  BY DEF GraphInv, SyncInv
<1> DEFINE same == UNCHANGED <<friends, requests, friends_spoiled, requests_spoiled,
                               crossed>>
<1>3. CASE CheckNotFriend(t)
  BY <1>1, <1>3, GraphCheck DEF CheckNotFriend
<1>4. CASE NotifyFails(t)
  BY <1>4, GraphEnd DEF NotifyFails, files, history, spoiled
<1>5. CASE CheckStillNotFriend(t)
  BY <1>1, <1>5, GraphCheck DEF CheckStillNotFriend
<1>6. CASE CheckNotAsked(t)
  BY <1>1, <1>6, GraphCheck DEF CheckNotAsked
<1>7. CASE ReadRequests(t)
  <2>1. /\ pc[t] = "read_requests" /\ pc'[t] = "store_request" /\ op'[t] = op[t]
        /\ OthersKept(t) /\ same
    BY <1>7, ReadKeeps DEF ReadRequests, files, history, spoiled
  <2> QED
    BY <1>1, <1>2, <2>1, GraphGoto DEF FoundHolds, AddLabels
<1>8. CASE StoreRequest(t)
  <2>1. Acts(t, y, x) /\ AskedOnce' /\ pc'[t] = "idle"
    BY <1>1, <1>8, StoreActs
  <2> QED
    BY <2>1, GraphFrame
<1>9. CASE CheckAsked(t)
  <2>1. pc[t] = "is_asked" /\ same
    BY <1>9 DEF CheckAsked, files, spoiled
  <2>2. CASE End(t)
    BY <2>1, <2>2, GraphEnd
  <2>3. CASE Listed(y, requests[x]) /\ Goto(t, "add_not_friend")
    <3>1. pc'[t] = "add_not_friend" /\ op'[t] = op[t] /\ OthersKept(t)
      BY <2>3, GotoKeeps
    <3> QED
      BY <1>1, <2>1, <2>3, <3>1, GraphGoto
  <2>4. CASE op[t].kind = "ignore" /\ Goto(t, "read_removal")
    <3>1. pc'[t] = "read_removal" /\ op'[t] = op[t] /\ OthersKept(t)
      BY <2>4, GotoKeeps
    <3> QED
      BY <1>1, <2>1, <2>4, <3>1, GraphGoto DEF AddLabels
  <2> QED
    BY <1>1, <1>9, <2>2, <2>3, <2>4 DEF CheckAsked
<1>10. CASE AddCheckNotFriend(t)
  BY <1>1, <1>10, GraphCheck DEF AddCheckNotFriend
<1>11. CASE AddCheckInSync(t)
  BY <1>1, <1>11, GraphCheck DEF AddCheckInSync
<1>12. CASE ReadOwn(t)
  <2>1. /\ pc[t] = "read_own" /\ pc'[t] = "read_theirs" /\ op'[t] = op[t]
        /\ OthersKept(t) /\ same
    BY <1>12, ReadKeeps DEF ReadOwn, files, history, spoiled
  <2> QED
    BY <1>1, <1>2, <2>1, GraphGoto DEF FoundHolds, AddLabels
<1>13. CASE ReadTheirs(t)
  <2>1. /\ pc[t] = "read_theirs" /\ pc'[t] = "write_own" /\ op'[t] = op[t]
        /\ OthersKept(t) /\ same
    BY <1>13 DEF ReadTheirs, ConsentInv, TypeOK, OthersKept, files, history, spoiled
  <2> QED
    BY <1>1, <1>2, <2>1, GraphGoto DEF FoundHolds, AddLabels
<1>14. CASE WriteOwn(t) \/ WriteTheirs(t)
  BY <1>14, GraphWrites
<1>15. CASE ReadRemoval(t)
  <2>1. pc[t] = "read_removal" /\ same
    BY <1>15 DEF ReadRemoval, files, history, spoiled
  <2>2. CASE End(t)
    BY <2>1, <2>2, GraphEnd
  <2>3. CASE Listed(y, requests[x]) /\ ReadOwnFile(t, requests[x], "write_removal")
    <3>1. pc'[t] = "write_removal" /\ op'[t] = op[t] /\ OthersKept(t)
      BY <2>3, ReadKeeps
    <3> QED
      BY <1>1, <2>1, <2>3, <3>1, GraphGoto
  <2> QED
    BY <1>1, <1>15, <2>2, <2>3 DEF ReadRemoval
<1>16. CASE WriteRemoval(t)
  <2>1. Acts(t, x, y) /\ AskedOnce' /\ pc'[t] = "idle"
    BY <1>1, <1>16, RemovalActs
  <2> QED
    BY <2>1, GraphFrame
<1> QED
  BY <1>3, <1>4, <1>5, <1>6, <1>7, <1>8, <1>9, <1>10, <1>11, <1>12, <1>13, <1>14,
     <1>15, <1>16 DEF SendFriendRequest, AgreeFriendRequest

(* After a crash nobody handles anything, and the files that are not        *)
(* spoiled are what they were.                                              *)
LEMMA CrashKeeps ==
  ASSUME ConsentInv, Crash
  PROVE  /\ RecordsGrow
         /\ \A t \in Thread : pc'[t] = "idle"
         /\ \A t \in Thread : Settling(t) => {Self(t), Peer(t)} \in crossed'
         /\ \A u \in User : /\ u \notin friends_spoiled' => friends'[u] = friends[u]
                            /\ u \notin requests_spoiled' => requests'[u] = requests[u]
<1>1. RecordsGrow
  BY DEF Crash, RecordsGrow
<1>2. \A t \in Thread : pc'[t] = "idle"
  BY DEF Crash
<1>3. \A t \in Thread : Settling(t) => {Self(t), Peer(t)} \in crossed'
  BY DEF Crash
<1>4. \A u \in User : /\ friends'[u] \in {friends[u], Broken}
                      /\ requests'[u] \in {requests[u], Broken}
                      /\ friends'[u] = Broken => u \in friends_spoiled'
                      /\ requests'[u] = Broken => u \in requests_spoiled'
  BY DEF Crash
<1> QED
  BY <1>1, <1>2, <1>3, <1>4

LEMMA GraphInvNext == ConsentInv /\ SyncInv /\ GraphInv /\ [Next]_vars => GraphInv'
<1> SUFFICES ASSUME ConsentInv, SyncInv, GraphInv, [Next]_vars PROVE GraphInv'
  OBVIOUS
<1>1. ASSUME NEW t \in Thread, NEW u \in User, NEW v \in User,
             RequestFriend(t, u, v) \/ AnswerRequest(t, u, v)
      PROVE  GraphInv'
  BY <1>1, GraphStart DEF RequestFriend, AnswerRequest
<1>2. ASSUME NEW t \in Thread, SendFriendRequest(t) \/ AgreeFriendRequest(t)
      PROVE  GraphInv'
  BY <1>2, GraphSteps
<1>3. CASE Crash
  <2>1. OneHandler' /\ \A t \in Thread : pc'[t] # "idle" => FoundHolds(t)'
    BY <1>3, CrashKeeps DEF OneHandler
  <2>2. AskedOnce'
    <3> SUFFICES ASSUME NEW u \in User, NEW v \in User, ~Lost(u, v)'
                 PROVE  Once(requests'[v], u)
      BY DEF AskedOnce, Once
    <3>1. requests'[v] = requests[v] /\ ~Lost(u, v)
      BY <1>3, CrashKeeps, LostGrows, LostIsNext
    <3> QED
      BY <3>1 DEF GraphInv, AskedOnce
  <2> QED
    BY <2>1, <2>2 DEF GraphInv
<1>4. CASE UNCHANGED vars
  <2>1. /\ pc' = pc /\ op' = op /\ friends' = friends /\ requests' = requests
        /\ friends_spoiled' = friends_spoiled /\ requests_spoiled' = requests_spoiled
        /\ crossed' = crossed
    BY <1>4 DEF vars
  <2>2. \A x, y : Lost(x, y)' <=> Lost(x, y)
    BY <2>1, LostIs, LostIsNext
  <2>3. OneHandler'
    BY <2>1 DEF GraphInv, OneHandler, Handles, Self, Peer
  <2>4. ASSUME NEW t \in Thread, pc'[t] # "idle"
        PROVE  FoundHolds(t)'
    <3>1. PICK x, y : x = Self(t) /\ y = Peer(t)
      OBVIOUS
    <3>2. Self(t)' = x /\ Peer(t)' = y /\ (Settling(t)' <=> Settling(t)) /\ FoundHolds(t)
      BY <2>1, <2>4, <3>1 DEF GraphInv, Self, Peer, Settling
    <3>3. Lost(x, y) => (FoundHolds(t))'
      BY <2>1, <2>2, <3>2 DEF FoundHolds, Lost
    <3>4. ASSUME ~Lost(x, y) PROVE FoundHolds(t)'
      BY <2>1, <3>1, <3>2, <3>4 DEF FoundHolds, Listed
    <3> QED
      BY <3>3, <3>4
  <2>5. AskedOnce'
    BY <2>1, <2>2 DEF GraphInv, AskedOnce, Once
  <2> QED
    BY <2>3, <2>4, <2>5 DEF GraphInv
<1> QED
  BY <1>1, <1>2, <1>3, <1>4 DEF Next

LEMMA GraphInvInit == Init => GraphInv
<1> SUFFICES ASSUME Init PROVE GraphInv
  OBVIOUS
<1>1. \A u \in User : Len(requests[u]) = 0
  BY DEF Init
<1>2. AskedOnce
  BY <1>1 DEF AskedOnce, Once
<1> QED
  BY <1>2 DEF Init, GraphInv, OneHandler


-----------------------------------------------------------------------------
(* FriendStore implements FriendGraph *)

(* A relation is known by its pairs, a graph by its edges.                  *)
LEMMA SamePairs ==
  ASSUME NEW P \in SUBSET (User \X User), NEW Q \in SUBSET (User \X User),
         \A x, y \in User : <<x, y>> \in P <=> <<x, y>> \in Q
  PROVE  P = Q
<1>1. \A p \in User \X User : p = <<p[1], p[2]>> /\ p[1] \in User /\ p[2] \in User
  OBVIOUS
<1> QED
  BY <1>1

LEMMA SameEdges ==
  ASSUME NEW P, NEW Q,
         \A e \in P \cup Q : \E x, y \in User : e = {x, y},
         \A x, y \in User : {x, y} \in P <=> {x, y} \in Q
  PROVE  P = Q
  OBVIOUS

LEMMA PairsOfAre ==
  ASSUME NEW R \in SUBSET (User \X User)
  PROVE  /\ \A e \in PairsOf(R) : \E x, y \in User : e = {x, y}
         /\ \A x, y \in User : {x, y} \in PairsOf(R) <=> <<x, y>> \in R \/ <<y, x>> \in R
<1>1. \A p \in R : p = <<p[1], p[2]>> /\ p[1] \in User /\ p[2] \in User
  OBVIOUS
<1>2. \A e \in PairsOf(R) : \E x, y \in User : e = {x, y}
  BY <1>1 DEF PairsOf
<1>3. ASSUME NEW x \in User, NEW y \in User, {x, y} \in PairsOf(R)
      PROVE  <<x, y>> \in R \/ <<y, x>> \in R
  <2>1. PICK p \in R : {x, y} = {p[1], p[2]}
    BY <1>3 DEF PairsOf
  <2>2. (x = p[1] /\ y = p[2]) \/ (x = p[2] /\ y = p[1])
    BY <2>1
  <2> QED
    BY <1>1, <2>2
<1>4. ASSUME NEW x \in User, NEW y \in User, <<x, y>> \in R
      PROVE  {x, y} \in PairsOf(R)
  <2>1. <<x, y>>[1] = x /\ <<x, y>>[2] = y
    OBVIOUS
  <2> QED
    BY <1>4, <2>1 DEF PairsOf
<1>5. \A x, y \in User : {x, y} = {y, x}
  OBVIOUS
<1> QED
  BY <1>2, <1>3, <1>4, <1>5

(* What is in the files, as the graph sees it, now and after a step.        *)
LEMMA PendingIs ==
  /\ Pending \in SUBSET (User \X User)
  /\ \A x, y \in User :
       <<x, y>> \in Pending <=>
         Listed(x, requests[y]) /\ ~Answered(x, y) /\ ~Lost(x, y)
  BY DEF Pending

LEMMA PendingIsNext ==
  /\ Pending' \in SUBSET (User \X User)
  /\ \A x, y \in User :
       <<x, y>> \in Pending' <=>
         Listed(x, requests'[y]) /\ ~Answered(x, y)' /\ ~Lost(x, y)'
  BY DEF Pending

LEMMA FriendshipsAre ==
  /\ \A e \in Friendships : \E x, y \in User : e = {x, y}
  /\ \A x, y \in User :
       {x, y} \in Friendships <=>
         ~Lost(x, y) /\ (Listed(y, friends[x]) \/ Listed(x, friends[y]))
<1> DEFINE R == {p \in User \X User : Listed(p[2], friends[p[1]]) /\ ~Lost(p[1], p[2])}
<1>1. R \in SUBSET (User \X User) /\ Friendships = PairsOf(R)
  BY DEF Friendships
<1>2. \A x, y \in User : <<x, y>> \in R <=> Listed(y, friends[x]) /\ ~Lost(x, y)
  OBVIOUS
<1> HIDE DEF R
<1> QED
  BY <1>1, <1>2, PairsOfAre, LostIs

LEMMA FriendshipsAreNext ==
  /\ \A e \in Friendships' : \E x, y \in User : e = {x, y}
  /\ \A x, y \in User :
       {x, y} \in Friendships' <=>
         ~Lost(x, y)' /\ (Listed(y, friends'[x]) \/ Listed(x, friends'[y]))
<1> DEFINE R == {p \in User \X User : Listed(p[2], friends'[p[1]]) /\ ~Lost(p[1], p[2])'}
<1>1. R \in SUBSET (User \X User) /\ Friendships' = PairsOf(R)
  BY DEF Friendships, PairsOf
<1>2. \A x, y \in User : <<x, y>> \in R <=> Listed(y, friends'[x]) /\ ~Lost(x, y)'
  OBVIOUS
<1> HIDE DEF R
<1> QED
  BY <1>1, <1>2, PairsOfAre, LostIsNext

LEMMA LostPairsAre ==
  /\ \A e \in LostPairs : \E x, y \in User : e = {x, y}
  /\ \A x, y \in User : {x, y} \in LostPairs <=> Lost(x, y)
<1> DEFINE R == {p \in User \X User : Lost(p[1], p[2])}
<1>1. R \in SUBSET (User \X User) /\ LostPairs = PairsOf(R)
  BY DEF LostPairs
<1>2. \A x, y \in User : <<x, y>> \in R <=> Lost(x, y)
  OBVIOUS
<1> HIDE DEF R
<1> QED
  BY <1>1, <1>2, PairsOfAre, LostIs

LEMMA LostPairsAreNext ==
  /\ \A e \in LostPairs' : \E x, y \in User : e = {x, y}
  /\ \A x, y \in User : {x, y} \in LostPairs' <=> Lost(x, y)'
<1> DEFINE R == {p \in User \X User : Lost(p[1], p[2])'}
<1>1. R \in SUBSET (User \X User) /\ LostPairs' = PairsOf(R)
  BY DEF LostPairs, PairsOf
<1>2. \A x, y \in User : <<x, y>> \in R <=> Lost(x, y)'
  OBVIOUS
<1> HIDE DEF R
<1> QED
  BY <1>1, <1>2, PairsOfAre, LostIsNext

(* The graph sees the same of a pair.                                       *)
Befriended(x, y) == Listed(y, friends[x]) \/ Listed(x, friends[y])
Waiting(x, y) == Listed(x, requests[y]) /\ ~Answered(x, y)

SameOf(x, y) ==
  /\ Befriended(x, y)' <=> Befriended(x, y)
  /\ Waiting(x, y)' <=> Waiting(x, y)

LEMMA Loses ==
  ASSUME RecordsGrow, \A x, y \in User : ~Lost(x, y)' => SameOf(x, y)
  PROVE  Graph!Lose
<1>1. \A x, y \in User : ~Lost(x, y)' => ~Lost(x, y) /\ ~Lost(y, x)'
  BY LostGrows, LostIsNext
<1>2. LostPairs \subseteq LostPairs'
  BY <1>1, LostPairsAre, LostPairsAreNext
<1>3. LostPairs' \subseteq {{p[1], p[2]} : p \in User \X User}
  <2> SUFFICES ASSUME NEW e \in LostPairs' PROVE e \in {{p[1], p[2]} : p \in User \X User}
    OBVIOUS
  <2>1. PICK x, y \in User : e = {x, y}
    BY LostPairsAreNext
  <2>2. <<x, y>> \in User \X User /\ <<x, y>>[1] = x /\ <<x, y>>[2] = y
    OBVIOUS
  <2> QED
    BY <2>1, <2>2
<1>4. Pending' = {p \in Pending : {p[1], p[2]} \notin LostPairs'}
  <2> DEFINE Q == {p \in Pending : {p[1], p[2]} \notin LostPairs'}
             P == Pending'
  <2>1. Q \in SUBSET (User \X User) /\ P \in SUBSET (User \X User)
    BY PendingIs, PendingIsNext
  <2>2. \A x, y \in User : <<x, y>> \in Q <=> <<x, y>> \in Pending /\ ~Lost(x, y)'
    BY LostPairsAreNext
  <2>3. \A x, y \in User : <<x, y>> \in P <=> <<x, y>> \in Pending /\ ~Lost(x, y)'
    <3> SUFFICES ASSUME NEW x \in User, NEW y \in User
                 PROVE  <<x, y>> \in P <=> <<x, y>> \in Pending /\ ~Lost(x, y)'
      OBVIOUS
    <3>1. <<x, y>> \in P <=> Waiting(x, y)' /\ ~Lost(x, y)'
      BY PendingIsNext DEF Waiting
    <3>2. <<x, y>> \in Pending <=> Waiting(x, y) /\ ~Lost(x, y)
      BY PendingIs DEF Waiting
    <3> QED
      BY <1>1, <3>1, <3>2 DEF SameOf
  <2> HIDE DEF P, Q
  <2>4. P = Q
    BY <2>1, <2>2, <2>3, SamePairs
  <2> QED
    BY <2>4 DEF P, Q
<1>5. Friendships' = Friendships \ LostPairs'
  <2> DEFINE Q == Friendships \ LostPairs'
             P == Friendships'
  <2>1. \A e \in P \cup Q : \E x, y \in User : e = {x, y}
    BY FriendshipsAre, FriendshipsAreNext
  <2>2. \A x, y \in User : {x, y} \in Q <=> {x, y} \in Friendships /\ ~Lost(x, y)'
    BY LostPairsAreNext
  <2>3. \A x, y \in User : {x, y} \in P <=> {x, y} \in Friendships /\ ~Lost(x, y)'
    BY <1>1, FriendshipsAre, FriendshipsAreNext DEF SameOf, Befriended
  <2> HIDE DEF P, Q
  <2>4. P = Q
    BY <2>1, <2>2, <2>3, SameEdges
  <2> QED
    BY <2>4 DEF P, Q
<1> QED
  BY <1>2, <1>3, <1>4, <1>5 DEF Graph!Lose

(* What a step that handles u and v leaves to the other pairs, and what is  *)
(* left of the pair's own answer.                                           *)
LEMMA AnsweredOutside ==
  ASSUME NEW t \in Thread, NEW u, NEW v, Acts(t, u, v)
  PROVE  \A x, y : ~SamePair(x, y, u, v) => (Answered(x, y)' <=> Answered(x, y))
<1>1. \A s \in Thread \ {t} : /\ Settling(s)' <=> Settling(s)
                              /\ Self(s)' = Self(s) /\ Peer(s)' = Peer(s)
  BY DEF Acts, OthersKept, Settling, Self, Peer
<1>2. /\ Settling(t) => SamePair(Self(t), Peer(t), u, v)
      /\ Settling(t)' => SamePair(Self(t)', Peer(t)', u, v)
  BY DEF Acts, Settling
<1>3. \A x, y : ~SamePair(x, y, u, v) => ~SamePair(y, x, u, v)
  BY DEF SamePair
<1> QED
  BY <1>1, <1>2, <1>3 DEF Answered

LEMMA AnsweredInside ==
  ASSUME GraphInv, NEW t \in Thread, NEW u, NEW v, Acts(t, u, v), ~Lost(u, v)'
  PROVE  \A x, y : SamePair(x, y, u, v) =>
           /\ Answered(x, y) <=> Settling(t) /\ Self(t) = y /\ Peer(t) = x
           /\ Answered(x, y)' <=> Settling(t)' /\ Self(t)' = y /\ Peer(t)' = x
<1>1. \A s \in Thread \ {t} :
        /\ Settling(s)' <=> Settling(s)
        /\ Self(s)' = Self(s) /\ Peer(s)' = Peer(s)
        /\ Settling(s) => ~SamePair(Self(s), Peer(s), u, v)
  <2> SUFFICES ASSUME NEW s \in Thread \ {t}
               PROVE  /\ Settling(s)' <=> Settling(s)
                      /\ Self(s)' = Self(s) /\ Peer(s)' = Peer(s)
                      /\ Settling(s) => ~SamePair(Self(s), Peer(s), u, v)
    OBVIOUS
  <2>1. (Settling(s)' <=> Settling(s)) /\ Self(s)' = Self(s) /\ Peer(s)' = Peer(s)
    BY DEF Acts, OthersKept, Settling, Self, Peer
  <2>2. Settling(s) => pc[s] # "idle"
    BY DEF Settling
  <2> QED
    BY <2>1, <2>2, Alone
<1>2. \A x, y : SamePair(x, y, u, v) => SamePair(y, x, u, v)
  BY DEF SamePair
<1> QED
  BY <1>1, <1>2 DEF Answered

LEMMA SameOutside ==
  ASSUME NEW t \in Thread, NEW u, NEW v, Acts(t, u, v),
         NEW x \in User, NEW y \in User, ~SamePair(x, y, u, v), ~Lost(x, y)'
  PROVE  SameOf(x, y)
<1>1. ~SamePair(y, x, u, v) /\ ~Lost(y, x)'
  BY LostIsNext DEF SamePair
<1>2. /\ Listed(y, friends'[x]) <=> Listed(y, friends[x])
      /\ Listed(x, friends'[y]) <=> Listed(x, friends[y])
      /\ Listed(x, requests'[y]) <=> Listed(x, requests[y])
  BY <1>1 DEF Acts, OutsideKept
<1>3. Answered(x, y)' <=> Answered(x, y)
  BY AnsweredOutside
<1>4. Befriended(x, y)' <=> Listed(y, friends'[x]) \/ Listed(x, friends'[y])
  BY DEF Befriended, Listed
<1>5. Waiting(x, y)' <=> Listed(x, requests'[y]) /\ ~Answered(x, y)'
  BY DEF Waiting, Listed
<1> QED
  BY <1>2, <1>3, <1>4, <1>5 DEF SameOf, Befriended, Waiting

LEMMA LosesPair ==
  ASSUME NEW t \in Thread, NEW u, NEW v, Acts(t, u, v),
         ~Lost(u, v)' => SameOf(u, v) /\ SameOf(v, u)
  PROVE  Graph!Lose
<1>1. ASSUME NEW x \in User, NEW y \in User, ~Lost(x, y)'
      PROVE  SameOf(x, y)
  <2>1. CASE SamePair(x, y, u, v)
    <3>1. CASE x = u /\ y = v
      BY <1>1, <3>1
    <3>2. CASE x = v /\ y = u
      BY <1>1, <3>2, LostIsNext
    <3> QED
      BY <2>1, <3>1, <3>2 DEF SamePair
  <2>2. CASE ~SamePair(x, y, u, v)
    BY <1>1, <2>2, SameOutside
  <2> QED
    BY <2>1, <2>2
<1> QED
  BY <1>1, Loses DEF Acts

(* A step that changes the pair, which is not lost, leaves the requests P   *)
(* and the friendships F.                                                   *)
Leaves(P, F, u, v) ==
  /\ P \in SUBSET (User \X User)
  /\ \A e \in F : \E x, y \in User : e = {x, y}
  /\ \A x, y \in User : SamePair(x, y, u, v) =>
       /\ <<x, y>> \in P <=> Waiting(x, y)'
       /\ {x, y} \in F <=> Befriended(x, y)'
  /\ \A x, y \in User : ~SamePair(x, y, u, v) =>
       /\ <<x, y>> \in P <=> <<x, y>> \in Pending
       /\ {x, y} \in F <=> {x, y} \in Friendships

LEMMA Changes ==
  ASSUME NEW t \in Thread, NEW u, NEW v, Acts(t, u, v), ~Lost(u, v)',
         NEW P, NEW F, Leaves(P, F, u, v)
  PROVE  Pending' = P /\ Friendships' = F /\ LostPairs' = LostPairs
<1>1. \A x, y : Lost(x, y)' <=> Lost(x, y)
  BY LostSettled DEF Acts
<1>2. LostPairs' = LostPairs
  <2> DEFINE Q == LostPairs'
  <2>1. /\ \A e \in Q \cup LostPairs : \E x, y \in User : e = {x, y}
        /\ \A x, y \in User : {x, y} \in Q <=> {x, y} \in LostPairs
    BY <1>1, LostPairsAre, LostPairsAreNext
  <2> HIDE DEF Q
  <2>2. Q = LostPairs
    BY <2>1, SameEdges
  <2> QED
    BY <2>2 DEF Q
<1>3. ASSUME NEW x \in User, NEW y \in User
      PROVE  /\ <<x, y>> \in P <=> <<x, y>> \in Pending'
             /\ {x, y} \in F <=> {x, y} \in Friendships'
  <2>1. /\ <<x, y>> \in Pending' <=> Waiting(x, y)' /\ ~Lost(x, y)'
        /\ {x, y} \in Friendships' <=> Befriended(x, y)' /\ ~Lost(x, y)'
    BY PendingIsNext, FriendshipsAreNext DEF Waiting, Befriended
  <2>2. /\ <<x, y>> \in Pending <=> Waiting(x, y) /\ ~Lost(x, y)
        /\ {x, y} \in Friendships <=> Befriended(x, y) /\ ~Lost(x, y)
    BY PendingIs, FriendshipsAre DEF Waiting, Befriended
  <2>3. CASE SamePair(x, y, u, v)
    <3>1. ~Lost(x, y)'
      BY <2>3, LostIsNext DEF SamePair
    <3> QED
      BY <2>1, <2>3, <3>1 DEF Leaves
  <2>4. CASE ~SamePair(x, y, u, v) /\ Lost(x, y)'
    BY <1>1, <2>1, <2>2, <2>4 DEF Leaves
  <2>5. CASE ~SamePair(x, y, u, v) /\ ~Lost(x, y)'
    <3>1. SameOf(x, y)
      BY <2>5, SameOutside
    <3> QED
      BY <1>1, <2>1, <2>2, <2>5, <3>1 DEF SameOf, Leaves
  <2> QED
    BY <2>3, <2>4, <2>5
<1>4. Pending' = P
  <2> DEFINE Q == Pending'
  <2>1. Q \in SUBSET (User \X User) /\ \A x, y \in User : <<x, y>> \in Q <=> <<x, y>> \in P
    BY <1>3, PendingIsNext DEF Leaves
  <2> HIDE DEF Q
  <2>2. Q = P
    BY <2>1, SamePairs DEF Leaves
  <2> QED
    BY <2>2 DEF Q
<1>5. Friendships' = F
  <2> DEFINE Q == Friendships'
  <2>1. /\ \A e \in Q \cup F : \E x, y \in User : e = {x, y}
        /\ \A x, y \in User : {x, y} \in Q <=> {x, y} \in F
    BY <1>3, FriendshipsAreNext DEF Leaves
  <2> HIDE DEF Q
  <2>2. Q = F
    BY <2>1, SameEdges
  <2> QED
    BY <2>2 DEF Q
<1> QED
  BY <1>2, <1>4, <1>5

-----------------------------------------------------------------------------
(* Every step is a step of the graph *)

LEMMA LocalLoses ==
  ASSUME ConsentInv, GraphInv, NEW t \in Thread, pc[t] # "idle", OthersKept(t),
         UNCHANGED <<friends, requests, friends_spoiled, requests_spoiled, crossed>>,
         pc'[t] # "idle" => op'[t] = op[t],
         \/ Settling(t)' <=> Settling(t)
         \/ ~Listed(Peer(t), requests[Self(t)])
  PROVE  Graph!Lose
<1>1. PICK x, y : x = Self(t) /\ y = Peer(t) /\ x \in User /\ y \in User
  BY SelfAndPeer
<1>2. Acts(t, x, y)
  BY <1>1, LocalActs
<1>3. Settling(t)' => Self(t)' = x /\ Peer(t)' = y
  BY <1>1 DEF Settling, Self, Peer
<1>4. ASSUME ~Lost(x, y)', NEW a, NEW b, SamePair(a, b, x, y)
      PROVE  SameOf(a, b)
  <2>1. /\ Answered(a, b) <=> Settling(t) /\ x = b /\ y = a
        /\ Answered(a, b)' <=> Settling(t)' /\ x = b /\ y = a
    BY <1>1, <1>2, <1>3, <1>4, AnsweredInside
  <2>2. (Answered(a, b)' <=> Answered(a, b)) \/ ~Listed(a, requests[b])
    BY <1>1, <2>1
  <2> QED
    BY <2>2 DEF SameOf, Befriended, Waiting, Listed
<1> QED
  BY <1>2, <1>4, LosesPair DEF SamePair

LEMMA StartLoses ==
  ASSUME ConsentInv, GraphInv, NEW t \in Thread, NEW u \in User, NEW v \in User,
         NEW kind \in {"request", "agree", "ignore"}, Start(t, kind, u, v)
  PROVE  Graph!Lose
<1>1. /\ pc[t] = "idle" /\ pc'[t] \in {"not_friend", "is_asked"}
      /\ UNCHANGED <<friends, requests>>
  BY DEF Start, ConsentInv, TypeOK, files
<1>2. ~Settling(t) /\ ~Settling(t)'
  BY <1>1 DEF Settling
<1>3. Acts(t, u, v)
  BY StartActs
<1>4. ASSUME ~Lost(u, v)', NEW a, NEW b, SamePair(a, b, u, v)
      PROVE  SameOf(a, b)
  <2>1. ~Answered(a, b) /\ ~Answered(a, b)'
    BY <1>2, <1>3, <1>4, AnsweredInside
  <2> QED
    BY <1>1, <2>1 DEF SameOf, Befriended, Waiting, Listed
<1> QED
  BY <1>3, <1>4, LosesPair DEF SamePair

LEMMA CrashLoses ==
  ASSUME ConsentInv, Crash
  PROVE  Graph!Lose
<1>1. ASSUME NEW x \in User, NEW y \in User, ~Lost(x, y)'
      PROVE  SameOf(x, y)
  <2>1. /\ friends'[x] = friends[x] /\ friends'[y] = friends[y]
        /\ requests'[y] = requests[y]
    BY <1>1, CrashKeeps, LostIsNext
  <2>2. ~Answered(x, y)' /\ ~Answered(x, y)
    <3>1. \A t \in Thread : ~Settling(t)'
      BY CrashKeeps DEF Settling
    <3>2. ASSUME NEW t \in Thread, Settling(t), Self(t) = y, Peer(t) = x
          PROVE  FALSE
      <4>1. {x, y} = {y, x}
        OBVIOUS
      <4> QED
        BY <1>1, <3>2, <4>1, CrashKeeps, LostIsNext
    <3> QED
      BY <3>1, <3>2 DEF Answered
  <2> QED
    BY <2>1, <2>2 DEF SameOf, Befriended, Waiting, Listed
<1> QED
  BY <1>1, CrashKeeps, Loses

(* A request that is stored is asked for.                                   *)
LEMMA StoreAsks ==
  ASSUME ConsentInv, SyncInv, GraphInv, NEW t \in Thread, StoreRequest(t)
  PROVE  Graph!Next
<1>1. PICK u, v : u = Self(t) /\ v = Peer(t)
  OBVIOUS
<1>2. /\ Acts(t, v, u) /\ pc'[t] = "idle" /\ UNCHANGED friends
      /\ \A w \in User \ {v} : requests'[w] = requests[w]
      /\ ~Lost(v, u)' => Listed(u, requests'[v]) /\ ~Lost(u, v) /\ FoundHolds(t)
  BY <1>1, StoreActs
<1>3. /\ pc[t] = "store_request" /\ u \in User /\ v \in User /\ u # v
      /\ ~Settling(t) /\ ~Settling(t)'
  BY <1>1, <1>2, SelfAndPeer DEF StoreRequest, Settling, SyncInv, OthersAsked, RequestLabels
<1>4. CASE Lost(v, u)'
  BY <1>2, <1>4, LosesPair DEF Graph!Next
<1>5. CASE ~Lost(v, u)'
  <2>1. ~Lost(u, v) /\ ~Listed(v, friends[u]) /\ ~Listed(u, requests[v])
    BY <1>1, <1>2, <1>3, <1>5 DEF FoundHolds
  <2>2. ~Listed(u, friends[v])
    <3>1. ~Adding(u, v) /\ ~Adding(v, u)
      <4> SUFFICES ASSUME NEW s \in Thread, pc[s] = "write_theirs"
                   PROVE  ~SamePair(Self(s), Peer(s), v, u)
        BY DEF Adding, SamePair
      <4> QED
        BY <1>2, <1>3, <1>5, Alone
    <3> QED
      BY <1>3, <2>1, <3>1, LostIs DEF SyncInv, FriendListsInSync
  <2>3. \A x, y : SamePair(x, y, v, u) => ~Answered(x, y) /\ ~Answered(x, y)'
    BY <1>2, <1>3, <1>5, AnsweredInside
  <2>4. /\ u # v /\ {u, v} \notin Friendships \cup LostPairs
        /\ <<u, v>> \notin Pending
    BY <1>3, <2>1, <2>2, FriendshipsAre, LostPairsAre, PendingIs
  <2>5. /\ Pending' = Pending \cup {<<u, v>>}
        /\ Friendships' = Friendships /\ LostPairs' = LostPairs
    <3> DEFINE P == Pending \cup {<<u, v>>}
    <3>1. P \in SUBSET (User \X User)
      BY <1>3, PendingIs
    <3>2. \A e \in Friendships : \E x, y \in User : e = {x, y}
      BY FriendshipsAre
    <3>3. /\ ~Waiting(v, u) => ~Waiting(v, u)'
          /\ Waiting(v, u) => Waiting(v, u)'
          /\ Waiting(u, v)'
      BY <1>2, <1>3, <1>5, <2>3 DEF Waiting, Listed, SamePair
    <3>4. \A x, y : Befriended(x, y)' <=> Befriended(x, y)
      BY <1>2 DEF Befriended, Listed
    <3>5. ~Lost(v, u)
      BY <2>1, LostIs
    <3>6. ASSUME NEW x \in User, NEW y \in User, SamePair(x, y, v, u)
          PROVE  /\ <<x, y>> \in P <=> Waiting(x, y)'
                 /\ {x, y} \in Friendships <=> Befriended(x, y)'
      <4>1. {x, y} \in Friendships <=> Befriended(x, y)'
        BY <2>1, <3>4, <3>5, <3>6, FriendshipsAre DEF Befriended, SamePair
      <4>2. <<v, u>> \in P <=> Waiting(v, u)
        BY <1>3, <3>5, PendingIs DEF Waiting
      <4> QED
        BY <3>3, <3>6, <4>1, <4>2 DEF SamePair
    <3>7. ASSUME NEW x \in User, NEW y \in User, ~SamePair(x, y, v, u)
          PROVE  <<x, y>> \in P <=> <<x, y>> \in Pending
      BY <3>7 DEF SamePair
    <3> HIDE DEF P
    <3>8. Leaves(P, Friendships, v, u)
      BY <3>1, <3>2, <3>6, <3>7 DEF Leaves
    <3>9. Pending' = P /\ Friendships' = Friendships /\ LostPairs' = LostPairs
      BY <1>2, <1>5, <3>8, Changes
    <3> QED
      BY <3>9 DEF P
  <2>6. Graph!Ask(u, v)
    BY <2>4, <2>5 DEF Graph!Ask
  <2> QED
    BY <1>3, <2>6 DEF Graph!Next
<1> QED
  BY <1>4, <1>5

(* With its first write, a request is accepted.                             *)
LEMMA WriteOwnAccepts ==
  ASSUME ConsentInv, SyncInv, GraphInv, NEW t \in Thread, WriteOwn(t)
  PROVE  Graph!Next
<1>1. PICK x, y : x = Self(t) /\ y = Peer(t) /\ x \in User /\ y \in User
  BY SelfAndPeer DEF WriteOwn
<1>2. Acts(t, x, y)
  BY <1>1, WritesAct
<1>3. /\ pc[t] = "write_own" /\ pc'[t] = "write_theirs" /\ op'[t] = op[t]
      /\ UNCHANGED requests /\ friends' = [friends EXCEPT ![x] = Append(own[t], y)]
      /\ own[t] \in Seq(User)
  BY <1>1, GotoKeeps DEF WriteOwn, ReplaceFriends, ConsentInv, TypeOK
<1>4. x # y /\ op[t].kind = "agree"
  BY <1>1, <1>3 DEF ConsentInv, AddIsConsented, SyncInv, OthersAsked, KindMatches, AddLabels
<1>5. /\ ~Settling(t) /\ Settling(t)'
      /\ Self(t)' = x /\ Peer(t)' = y
  BY <1>1, <1>3, <1>4 DEF Settling, Self, Peer
<1>6. Listed(y, friends'[x])
  <2>1. friends'[x] = Append(own[t], y)
    BY <1>1, <1>3 DEF ConsentInv, TypeOK
  <2>2. Append(own[t], y) \in Seq(User) /\ Contains(Append(own[t], y), y)
    BY <1>1, <1>3, AppendContains
  <2> QED
    BY <2>1, <2>2, BrokenAssumption DEF Listed
<1>7. CASE Lost(x, y)'
  BY <1>2, <1>7, LosesPair DEF Graph!Next
<1>8. CASE ~Lost(x, y)'
  <2>1. ~Lost(x, y) /\ ~Lost(y, x)
    BY <1>2, <1>8, LostGrows, LostIs DEF Acts
  <2>2. ~Listed(y, friends[x]) /\ ~Listed(x, friends[y]) /\ Listed(y, requests[x])
    BY <1>1, <1>3, <2>1 DEF GraphInv, FoundHolds, AddLabels
  <2>3. /\ ~Answered(y, x) /\ Answered(y, x)'
        /\ ~Answered(x, y) /\ ~Answered(x, y)'
    BY <1>1, <1>2, <1>4, <1>5, <1>8, AnsweredInside DEF SamePair
  <2>4. <<y, x>> \in Pending /\ {y, x} \notin Friendships
    BY <1>1, <2>1, <2>2, <2>3, PendingIs, FriendshipsAre
  <2>5. /\ Pending' = Pending \ {<<y, x>>}
        /\ Friendships' = Friendships \cup {{y, x}} /\ LostPairs' = LostPairs
    <3> DEFINE P == Pending \ {<<y, x>>}
               F == Friendships \cup {{y, x}}
    <3>1. P \in SUBSET (User \X User) /\ \A e \in F : \E a, b \in User : e = {a, b}
      BY <1>1, PendingIs, FriendshipsAre
    <3>2. ASSUME NEW a \in User, NEW b \in User, ~SamePair(a, b, x, y)
          PROVE  /\ <<a, b>> \in P <=> <<a, b>> \in Pending
                 /\ {a, b} \in F <=> {a, b} \in Friendships
      BY <3>2, PairsAreSets DEF SamePair
    <3>3. /\ ~Waiting(y, x)' /\ Befriended(x, y)' /\ Befriended(y, x)'
          /\ Waiting(x, y)' <=> Waiting(x, y)
      BY <1>3, <1>6, <2>3 DEF Waiting, Befriended, Listed
    <3>4. /\ <<y, x>> \notin P /\ {x, y} \in F /\ {y, x} \in F
          /\ <<x, y>> \in P <=> Waiting(x, y)
      <4>1. {x, y} = {y, x} /\ <<x, y>> # <<y, x>>
        BY <1>4
      <4> QED
        BY <1>1, <2>1, <4>1, PendingIs DEF Waiting
    <3> HIDE DEF P, F
    <3>5. ASSUME NEW a \in User, NEW b \in User, SamePair(a, b, x, y)
          PROVE  /\ <<a, b>> \in P <=> Waiting(a, b)'
                 /\ {a, b} \in F <=> Befriended(a, b)'
      BY <3>3, <3>4, <3>5 DEF SamePair
    <3>6. Leaves(P, F, x, y)
      BY <3>1, <3>2, <3>5 DEF Leaves
    <3>7. Pending' = P /\ Friendships' = F /\ LostPairs' = LostPairs
      BY <1>2, <1>8, <3>6, Changes
    <3> QED
      BY <3>7 DEF P, F
  <2>6. Graph!Accept(y, x)
    BY <2>4, <2>5 DEF Graph!Accept
  <2> QED
    BY <1>1, <2>6 DEF Graph!Next
<1> QED
  BY <1>7, <1>8

(* The second write changes nothing that the graph sees.                    *)
LEMMA WriteTheirsLoses ==
  ASSUME ConsentInv, SyncInv, GraphInv, NEW t \in Thread, WriteTheirs(t)
  PROVE  Graph!Lose
<1>1. PICK x, y : x = Self(t) /\ y = Peer(t) /\ x \in User /\ y \in User
  BY SelfAndPeer DEF WriteTheirs
<1>2. Acts(t, y, x)
  BY <1>1, WritesAct
<1>3. /\ pc[t] = "write_theirs" /\ pc'[t] = "read_removal" /\ op'[t] = op[t]
      /\ UNCHANGED requests /\ friends' = [friends EXCEPT ![y] = Append(theirs[t], x)]
      /\ theirs[t] \in Seq(User)
  BY <1>1, GotoKeeps DEF WriteTheirs, ReplaceFriends, ConsentInv, TypeOK
<1>4. (Settling(t)' <=> Settling(t)) /\ Self(t)' = x /\ Peer(t)' = y
  BY <1>1, <1>3 DEF Settling, Self, Peer
<1>5. Listed(x, friends'[y])
  <2>1. friends'[y] = Append(theirs[t], x)
    BY <1>1, <1>3 DEF ConsentInv, TypeOK
  <2>2. Append(theirs[t], x) \in Seq(User) /\ Contains(Append(theirs[t], x), x)
    BY <1>1, <1>3, AppendContains
  <2> QED
    BY <2>1, <2>2, BrokenAssumption DEF Listed
<1>6. ASSUME ~Lost(y, x)', NEW a, NEW b, SamePair(a, b, y, x)
      PROVE  SameOf(a, b)
  <2>1. Listed(y, friends[x])
    <3>1. ~Lost(x, y)
      BY <1>2, <1>6, LostGrows, LostIs DEF Acts
    <3> QED
      BY <1>1, <1>3, <3>1, LostIs DEF SyncInv, CopiesCurrent
  <2>2. Befriended(a, b)' /\ Befriended(a, b)
    BY <1>5, <1>6, <2>1 DEF Befriended, SamePair
  <2>3. Answered(a, b)' <=> Answered(a, b)
    BY <1>1, <1>2, <1>4, <1>6, AnsweredInside
  <2> QED
    BY <1>3, <2>2, <2>3 DEF SameOf, Waiting, Listed
<1> QED
  BY <1>2, <1>6, LosesPair DEF SamePair

(* The removal of a request that was agreed to is part of its answer.       *)
LEMMA WriteRemovalIgnores ==
  ASSUME ConsentInv, SyncInv, GraphInv, NEW t \in Thread, WriteRemoval(t)
  PROVE  Graph!Next
<1>1. PICK x, y : x = Self(t) /\ y = Peer(t) /\ x \in User /\ y \in User
  BY SelfAndPeer DEF WriteRemoval
<1>2. /\ Acts(t, x, y) /\ pc'[t] = "idle" /\ UNCHANGED friends
      /\ \A w \in User \ {x} : requests'[w] = requests[w]
      /\ ~Lost(x, y)' => ~Listed(y, requests'[x]) /\ ~Lost(x, y) /\ FoundHolds(t)
  BY <1>1, RemovalActs
<1>3. pc[t] = "write_removal" /\ ~Settling(t)' /\ (Settling(t) <=> op[t].kind = "agree")
  BY <1>2 DEF WriteRemoval, Settling
<1>4. CASE Lost(x, y)'
  BY <1>2, <1>4, LosesPair DEF Graph!Next
<1>5. CASE ~Lost(x, y)'
  <2>1. /\ ~Lost(x, y) /\ ~Lost(y, x) /\ Listed(y, requests[x])
        /\ ~Listed(y, requests'[x])
    BY <1>1, <1>2, <1>3, <1>5, LostIs DEF FoundHolds
  <2>2. x # y
    BY <1>1, <2>1 DEF ConsentInv, OnlyConsented, SyncInv, OthersAsked
  <2>3. /\ Answered(y, x) <=> Settling(t)
        /\ ~Answered(y, x)' /\ ~Answered(x, y) /\ ~Answered(x, y)'
    BY <1>1, <1>2, <1>3, <1>5, <2>2, AnsweredInside DEF SamePair
  <2>4. /\ ~Waiting(y, x)' /\ (Waiting(x, y)' <=> Waiting(x, y))
        /\ \A a, b : Befriended(a, b)' <=> Befriended(a, b)
    BY <1>1, <1>2, <2>1, <2>2, <2>3 DEF Waiting, Befriended, Listed
  <2>5. CASE Settling(t)
    <3>1. SameOf(x, y) /\ SameOf(y, x)
      BY <2>3, <2>4, <2>5 DEF SameOf, Waiting
    <3> QED
      BY <1>2, <3>1, LosesPair DEF Graph!Next
  <2>6. CASE ~Settling(t)
    <3>1. <<y, x>> \in Pending
      BY <1>1, <2>1, <2>3, <2>6, PendingIs
    <3>2. /\ Pending' = Pending \ {<<y, x>>}
          /\ Friendships' = Friendships /\ LostPairs' = LostPairs
      <4> DEFINE P == Pending \ {<<y, x>>}
      <4>1. P \in SUBSET (User \X User) /\ \A e \in Friendships : \E a, b \in User : e = {a, b}
        BY PendingIs, FriendshipsAre
      <4>2. ASSUME NEW a \in User, NEW b \in User, ~SamePair(a, b, x, y)
            PROVE  <<a, b>> \in P <=> <<a, b>> \in Pending
        BY <4>2 DEF SamePair
      <4>3. <<y, x>> \notin P /\ (<<x, y>> \in P <=> Waiting(x, y))
        BY <1>1, <2>1, <2>2, PendingIs DEF Waiting
      <4> HIDE DEF P
      <4>4. ASSUME NEW a \in User, NEW b \in User, SamePair(a, b, x, y)
            PROVE  /\ <<a, b>> \in P <=> Waiting(a, b)'
                   /\ {a, b} \in Friendships <=> Befriended(a, b)'
        <5>1. {a, b} \in Friendships <=> Befriended(a, b)'
          BY <2>1, <2>4, <4>4, FriendshipsAre DEF Befriended, SamePair
        <5> QED
          BY <2>4, <4>3, <4>4, <5>1 DEF SamePair
      <4>5. Leaves(P, Friendships, x, y)
        BY <4>1, <4>2, <4>4 DEF Leaves
      <4>6. Pending' = P /\ Friendships' = Friendships /\ LostPairs' = LostPairs
        BY <1>2, <1>5, <4>5, Changes
      <4> QED
        BY <4>6 DEF P
    <3>3. Graph!Ignore(y, x)
      BY <3>1, <3>2 DEF Graph!Ignore
    <3> QED
      BY <1>1, <3>3 DEF Graph!Next
  <2> QED
    BY <2>5, <2>6
<1> QED
  BY <1>4, <1>5

(* The steps that change no file are nothing to the graph.                  *)
LEMMA EndLoses ==
  ASSUME ConsentInv, GraphInv, NEW t \in Thread, pc[t] # "idle", End(t),
         UNCHANGED <<friends, requests, friends_spoiled, requests_spoiled, crossed>>,
         ~Settling(t) \/ ~Listed(Peer(t), requests[Self(t)])
  PROVE  Graph!Lose
<1>1. ~Settling(t)'
  BY EndKeeps DEF Settling
<1> QED
  BY <1>1, EndKeeps, LocalLoses

LEMMA GotoLoses ==
  ASSUME ConsentInv, GraphInv, NEW t \in Thread, pc[t] # "idle", OthersKept(t),
         NEW label, pc'[t] = label, op'[t] = op[t],
         UNCHANGED <<friends, requests, friends_spoiled, requests_spoiled, crossed>>,
         \/ pc[t] = "read_removal" /\ label = "write_removal"
         \/ ~Settling(t) /\ (label \in {"write_theirs", "read_removal", "write_removal"}
                             => op[t].kind # "agree")
  PROVE  Graph!Lose
<1>1. Settling(t)' <=> Settling(t)
  BY DEF Settling
<1> QED
  BY <1>1, LocalLoses

LEMMA CheckLoses ==
  ASSUME ConsentInv, GraphInv, NEW t \in Thread,
         pc[t] \notin {"idle", "write_theirs", "read_removal", "write_removal"},
         NEW list, NEW v,
         NEW next \in {"still_not_friend", "not_asked", "read_requests",
                       "add_in_sync", "read_own"},
         CheckAbsent(t, list, v, next), UNCHANGED <<files, history, begun>>
  PROVE  Graph!Lose
<1>1. /\ UNCHANGED <<friends, requests, friends_spoiled, requests_spoiled, crossed>>
      /\ ~Settling(t)
  BY DEF files, history, spoiled, Settling
<1>2. CASE End(t)
  BY <1>1, <1>2, EndLoses
<1>3. CASE Goto(t, next)
  BY <1>1, <1>3, GotoKeeps, GotoLoses
<1> QED
  BY <1>2, <1>3 DEF CheckAbsent

LEMMA GraphHandler ==
  ASSUME ConsentInv, SyncInv, GraphInv, NEW t \in Thread,
         SendFriendRequest(t) \/ AgreeFriendRequest(t)
  PROVE  Graph!Next
<1> DEFINE same == UNCHANGED <<friends, requests, friends_spoiled, requests_spoiled,
                               crossed>>
<1>1. CASE CheckNotFriend(t)
  BY <1>1, CheckLoses DEF CheckNotFriend, Graph!Next
<1>2. CASE NotifyFails(t)
  <2>1. pc[t] # "idle" /\ ~Settling(t) /\ End(t) /\ same
    BY <1>2 DEF NotifyFails, Settling, files, history, spoiled
  <2> QED
    BY <2>1, EndLoses DEF Graph!Next
<1>3. CASE CheckStillNotFriend(t)
  BY <1>3, CheckLoses DEF CheckStillNotFriend, Graph!Next
<1>4. CASE CheckNotAsked(t)
  BY <1>4, CheckLoses DEF CheckNotAsked, Graph!Next
<1>5. CASE ReadRequests(t)
  <2>1. /\ pc[t] = "read_requests" /\ pc'[t] = "store_request" /\ op'[t] = op[t]
        /\ OthersKept(t) /\ same
    BY <1>5, ReadKeeps DEF ReadRequests, files, history, spoiled
  <2>2. ~Settling(t)
    BY <2>1 DEF Settling
  <2> QED
    BY <2>1, <2>2, GotoLoses DEF Graph!Next
<1>6. CASE StoreRequest(t)
  BY <1>6, StoreAsks
<1>7. CASE CheckAsked(t)
  <2>1. pc[t] = "is_asked" /\ ~Settling(t) /\ same
    BY <1>7 DEF CheckAsked, Settling, files, spoiled
  <2>2. CASE End(t)
    BY <2>1, <2>2, EndLoses DEF Graph!Next
  <2>3. CASE Goto(t, "add_not_friend")
    BY <2>1, <2>3, GotoKeeps, GotoLoses DEF Graph!Next
  <2>4. CASE op[t].kind = "ignore" /\ Goto(t, "read_removal")
    BY <2>1, <2>4, GotoKeeps, GotoLoses DEF Graph!Next
  <2> QED
    BY <1>7, <2>2, <2>3, <2>4 DEF CheckAsked
<1>8. CASE AddCheckNotFriend(t)
  BY <1>8, CheckLoses DEF AddCheckNotFriend, Graph!Next
<1>9. CASE AddCheckInSync(t)
  BY <1>9, CheckLoses DEF AddCheckInSync, Graph!Next
<1>10. CASE ReadOwn(t)
  <2>1. /\ pc[t] = "read_own" /\ pc'[t] = "read_theirs" /\ op'[t] = op[t]
        /\ OthersKept(t) /\ same
    BY <1>10, ReadKeeps DEF ReadOwn, files, history, spoiled
  <2>2. ~Settling(t)
    BY <2>1 DEF Settling
  <2> QED
    BY <2>1, <2>2, GotoLoses DEF Graph!Next
<1>11. CASE ReadTheirs(t)
  <2>1. /\ pc[t] = "read_theirs" /\ pc'[t] = "write_own" /\ op'[t] = op[t]
        /\ OthersKept(t) /\ same
    BY <1>11 DEF ReadTheirs, ConsentInv, TypeOK, OthersKept, files, history, spoiled
  <2>2. ~Settling(t)
    BY <2>1 DEF Settling
  <2> QED
    BY <2>1, <2>2, GotoLoses DEF Graph!Next
<1>12. CASE WriteOwn(t)
  BY <1>12, WriteOwnAccepts
<1>13. CASE WriteTheirs(t)
  BY <1>13, WriteTheirsLoses DEF Graph!Next
<1>14. CASE ReadRemoval(t)
  <2>1. pc[t] = "read_removal" /\ same
    BY <1>14 DEF ReadRemoval, files, history, spoiled
  <2>2. CASE ~Listed(Peer(t), requests[Self(t)]) /\ End(t)
    BY <2>1, <2>2, EndLoses DEF Graph!Next
  <2>3. CASE ReadOwnFile(t, requests[Self(t)], "write_removal")
    <3>1. pc'[t] = "write_removal" /\ op'[t] = op[t] /\ OthersKept(t)
      BY <2>3, ReadKeeps
    <3> QED
      BY <2>1, <3>1, GotoLoses DEF Graph!Next
  <2> QED
    BY <1>14, <2>2, <2>3 DEF ReadRemoval
<1>15. CASE WriteRemoval(t)
  BY <1>15, WriteRemovalIgnores
<1> QED
  BY <1>1, <1>2, <1>3, <1>4, <1>5, <1>6, <1>7, <1>8, <1>9, <1>10, <1>11, <1>12,
     <1>13, <1>14, <1>15 DEF SendFriendRequest, AgreeFriendRequest

LEMMA GraphInit == Init => Graph!Init
<1> SUFFICES ASSUME Init PROVE Graph!Init
  OBVIOUS
<1>1. \A x, y \in User : /\ ~Listed(x, requests[y]) /\ ~Listed(x, friends[y])
                         /\ ~Lost(x, y)
  BY LostIs DEF Init, Listed, Contains
<1>2. Pending = {}
  BY <1>1 DEF Pending
<1>3. Friendships = {}
  BY <1>1, FriendshipsAre
<1>4. LostPairs = {}
  BY <1>1, LostPairsAre
<1> QED
  BY <1>2, <1>3, <1>4 DEF Graph!Init

LEMMA GraphNext ==
  ConsentInv /\ SyncInv /\ GraphInv /\ [Next]_vars => [Graph!Next]_(Graph!vars)
<1> SUFFICES ASSUME ConsentInv, SyncInv, GraphInv, [Next]_vars PROVE [Graph!Next]_(Graph!vars)
  OBVIOUS
<1>1. ASSUME NEW t \in Thread, NEW u \in User, NEW v \in User,
             RequestFriend(t, u, v) \/ AnswerRequest(t, u, v)
      PROVE  Graph!Next
  BY <1>1, StartLoses DEF RequestFriend, AnswerRequest, Graph!Next
<1>2. ASSUME NEW t \in Thread, SendFriendRequest(t) \/ AgreeFriendRequest(t)
      PROVE  Graph!Next
  BY <1>2, GraphHandler
<1>3. CASE Crash
  BY <1>3, CrashLoses DEF Graph!Next
<1>4. CASE UNCHANGED vars
  <2>1. UNCHANGED <<Pending, Friendships, LostPairs>>
    BY <1>4 DEF vars, Pending, Friendships, LostPairs, PairsOf, Answered, Settling,
                Self, Peer, Lost, Listed
  <2> QED
    BY <2>1 DEF Graph!vars
<1> QED
  BY <1>1, <1>2, <1>3, <1>4 DEF Next

(* The files are a graph of friends and a set of pending requests that only *)
(* asking, accepting and ignoring change, for every number of threads and   *)
(* wherever the server crashes, but for the pairs that were spoiled         *)
(* (user.cpp 178-394).                                                      *)
THEOREM Refinement == Spec => ImplementsFriendGraph
<1>1. ConsentInv /\ SyncInv /\ GraphInv /\ [Next]_vars => [Graph!Next]_(Graph!vars)
  BY GraphNext
<1> QED
  BY <1>1, GraphInit, Invariance, SyncInit, SyncNext, GraphInvInit, GraphInvNext, PTL
  DEF Spec, ImplementsFriendGraph, Graph!Spec
=============================================================================
