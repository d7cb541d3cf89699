----------------------------- MODULE FriendStore ----------------------------
(***************************************************************************)
(* Friend requests and friend lists (user.cpp and the handlers 102, 104 of *)
(* online_user_collection.cpp).  A user's friends.json and                 *)
(* friend_request.json are read and replaced by several handlers, each of  *)
(* which reads a file more than once and writes back what it computed from *)
(* an earlier read.                                                        *)
(*                                                                         *)
(* Each step reads or replaces one file: the shared mutex of the file makes *)
(* that atomic (FileRWLock), and nothing spans two of them.                *)
(***************************************************************************)
EXTENDS Naturals, Sequences, SequencesExt

CONSTANTS
  User,           \* the registered users
  Thread,         \* the threads that handle requests
  MaxOperations,  \* a bound: the requests handled in the run
  Broken,         \* the content of a file emptied by a crash
  NoOperation

ASSUME MaxOperationsAssumption == MaxOperations \in Nat
ASSUME BrokenAssumption == Broken \notin Seq(User)

(* A request as it is handled.                                             *)
Operations ==
  [kind : {"request", "agree", "ignore"}, self : User, peer : User]

ASSUME NoOperationAssumption == NoOperation \notin Operations

VARIABLES
  friends,   \* user -> the list in friends.json, empty if there is no file
  requests,  \* user -> who asks, in friend_request.json, empty if no file
  op,        \* thread -> the request it handles
  pc,        \* thread -> what it does next
  own,       \* thread -> this_friends, or the list it is going to replace
  theirs,    \* thread -> f_friends
  asked,     \* history: the pairs <<u, v>> where u asked v to be a friend
  agreed,    \* history: the pairs <<u, v>> where v agreed to be a friend of u
  friends_spoiled,   \* history: users whose friends.json two threads were
                     \* replacing at once, or a crash emptied or left behind
  requests_spoiled,  \* history: the same of friend_request.json
  crossed,   \* history: the pairs {u, v} with two requests at once, or a crash
             \* after they became friends and before the request was removed
  begun      \* requests handled so far

files == <<friends, requests>>
consent == <<asked, agreed>>
spoiled == <<friends_spoiled, requests_spoiled>>
history == <<consent, spoiled, crossed>>
vars == <<friends, requests, op, pc, own, theirs, asked, agreed, friends_spoiled,
          requests_spoiled, crossed, begun>>

Init ==
  /\ friends = [u \in User |-> <<>>]
  /\ requests = [u \in User |-> <<>>]
  /\ op = [t \in Thread |-> NoOperation]
  /\ pc = [t \in Thread |-> "idle"]
  /\ own = [t \in Thread |-> <<>>]
  /\ theirs = [t \in Thread |-> <<>>]
  /\ asked = {}
  /\ agreed = {}
  /\ friends_spoiled = {} /\ requests_spoiled = {}
  /\ crossed = {}
  /\ begun = 0

-----------------------------------------------------------------------------
(* The steps of a handler *)

Self(t) == op[t].self
Peer(t) == op[t].peer

(* The request that thread s handles is between the two users of the pair. *)
Handles(s, pair) == pc[s] # "idle" /\ {Self(s), Peer(s)} = pair

Goto(t, label) ==
  /\ pc' = [pc EXCEPT ![t] = label]
  /\ UNCHANGED <<op, own, theirs>>

(* The handler answers, or an exception ends it.                           *)
End(t) ==
  /\ pc' = [pc EXCEPT ![t] = "idle"]
  /\ op' = [op EXCEPT ![t] = NoOperation]
  /\ own' = [own EXCEPT ![t] = <<>>]
  /\ theirs' = [theirs EXCEPT ![t] = <<>>]

Start(t, kind, u, v) ==
  /\ pc[t] = "idle"
  /\ begun < MaxOperations
  /\ begun' = begun + 1
  /\ op' = [op EXCEPT ![t] = [kind |-> kind, self |-> u, peer |-> v]]
  /\ pc' = [pc EXCEPT ![t] = IF kind = "request" THEN "not_friend" ELSE "is_asked"]
  /\ crossed' = crossed \cup {p \in {{u, v}} : \E s \in Thread : Handles(s, p)}
  /\ UNCHANGED <<files, own, theirs, consent, spoiled>>

(* v is in the list; v may be in the list, which cannot be read.           *)
Listed(v, list) == list # Broken /\ Contains(list, v)
MayContain(v, list) == list # Broken => Contains(list, v)

(* A file is read, and the handler goes on if v is not in it.  File::Read  *)
(* throws on an empty file, and no handler catches that exception.         *)
CheckAbsent(t, list, v, next) ==
  \/ ~MayContain(v, list) /\ Goto(t, next)
  \/ MayContain(v, list) /\ End(t)

(* A file is read to be replaced later.  The handler has read it before,   *)
(* so it is not broken.                                                    *)
ReadOwnFile(t, list, next) ==
  /\ own' = [own EXCEPT ![t] = list]
  /\ pc' = [pc EXCEPT ![t] = next]
  /\ UNCHANGED <<op, theirs>>

(* A thread has read a file of u that it is going to replace.              *)
HasFriends(s, u) ==
  \/ pc[s] \in {"read_theirs", "write_own"} /\ Self(s) = u
  \/ pc[s] \in {"write_own", "write_theirs"} /\ Peer(s) = u

HasRequests(s, u) ==
  \/ pc[s] = "store_request" /\ Peer(s) = u
  \/ pc[s] = "write_removal" /\ Self(s) = u

(* It replaces the file: what it read is gone, and so is what another      *)
(* thread wrote since, or the copy of another is outdated now.             *)
ReplaceFriends(t, u, list) ==
  /\ friends' = [friends EXCEPT ![u] = list]
  /\ friends_spoiled' =
       friends_spoiled \cup {w \in {u} : \E s \in Thread \ {t} : HasFriends(s, w)}
  /\ UNCHANGED <<requests, requests_spoiled>>

ReplaceRequests(t, u, list) ==
  /\ requests' = [requests EXCEPT ![u] = list]
  /\ requests_spoiled' =
       requests_spoiled \cup {w \in {u} : \E s \in Thread \ {t} : HasRequests(s, w)}
  /\ UNCHANGED <<friends, friends_spoiled>>

-----------------------------------------------------------------------------
(* request_friend_message and User::SendFriendRequest *)

(* A user asks another one to be a friend.                                 *)
RequestFriend(t, u, v) == u # v /\ Start(t, "request", u, v)

CheckNotFriend(t) ==
  /\ pc[t] = "not_friend"
  /\ CheckAbsent(t, friends[Self(t)], Peer(t), "still_not_friend")
  /\ UNCHANGED <<files, history, begun>>

(* In between the peer, if online, is told of the request.  When that      *)
(* fails, the exception ends the handler.                                  *)
NotifyFails(t) ==
  /\ pc[t] = "still_not_friend"
  /\ End(t)
  /\ UNCHANGED <<files, history, begun>>

CheckStillNotFriend(t) ==
  /\ pc[t] = "still_not_friend"
  /\ CheckAbsent(t, friends[Self(t)], Peer(t), "not_asked")
  /\ UNCHANGED <<files, history, begun>>

CheckNotAsked(t) ==
  /\ pc[t] = "not_asked"
  /\ CheckAbsent(t, requests[Peer(t)], Self(t), "read_requests")
  /\ UNCHANGED <<files, history, begun>>

ReadRequests(t) ==
  /\ pc[t] = "read_requests"
  /\ ReadOwnFile(t, requests[Peer(t)], "store_request")
  /\ UNCHANGED <<files, history, begun>>

(* Mutant: the request is stored with the asker as its target. *)
StoreRequest_Swapped(t) ==
  /\ pc[t] = "store_request"
  /\ ReplaceRequests(t, Self(t), Append(own[t], Peer(t)))
  /\ asked' = asked \cup {<<Self(t), Peer(t)>>}
  /\ End(t)
  /\ UNCHANGED <<agreed, crossed, begun>>

StoreRequest(t) ==
  /\ pc[t] = "store_request"
  /\ ReplaceRequests(t, Peer(t), Append(own[t], Self(t)))
  /\ asked' = asked \cup {<<Self(t), Peer(t)>>}
  /\ End(t)
  /\ UNCHANGED <<agreed, crossed, begun>>

-----------------------------------------------------------------------------
(* agree_friend_request_message, User::AddFriend and RemoveFriendRequest *)

(* A user answers the request of another one.                              *)
AnswerRequest(t, u, v) == \E kind \in {"agree", "ignore"} : Start(t, kind, u, v)

(* Mutant: whoever is named is added, asked or not. *)
CheckAsked_Skipped(t) ==
  /\ pc[t] = "is_asked"
  /\ Goto(t, IF op[t].kind = "agree" THEN "add_not_friend" ELSE "read_removal")
  /\ agreed' = agreed \cup {<<Peer(t), Self(t)>>}
  /\ UNCHANGED <<files, asked, spoiled, crossed, begun>>

(* Only a pending request can be answered.  To agree adds the friend       *)
(* first, to ignore goes straight to the removal of the request.           *)
CheckAsked(t) ==
  LET list == requests[Self(t)]
  IN  /\ pc[t] = "is_asked"
      /\ \/ /\ ~Listed(Peer(t), list)
            /\ End(t)
            /\ UNCHANGED agreed
         \/ /\ Listed(Peer(t), list)
            /\ op[t].kind = "agree"
            /\ agreed' = agreed \cup {<<Peer(t), Self(t)>>}
            /\ Goto(t, "add_not_friend")
         \/ /\ Listed(Peer(t), list)
            /\ op[t].kind = "ignore"
            /\ Goto(t, "read_removal")
            /\ UNCHANGED agreed
      /\ UNCHANGED <<files, asked, spoiled, crossed, begun>>

AddCheckNotFriend(t) ==
  /\ pc[t] = "add_not_friend"
  /\ CheckAbsent(t, friends[Self(t)], Peer(t), "add_in_sync")
  /\ UNCHANGED <<files, history, begun>>

(* "Friend list not async" is thrown when only the peer has the friend.    *)
AddCheckInSync(t) ==
  /\ pc[t] = "add_in_sync"
  /\ CheckAbsent(t, friends[Peer(t)], Self(t), "read_own")
  /\ UNCHANGED <<files, history, begun>>

ReadOwn(t) ==
  /\ pc[t] = "read_own"
  /\ ReadOwnFile(t, friends[Self(t)], "read_theirs")
  /\ UNCHANGED <<files, history, begun>>

ReadTheirs(t) ==
  /\ pc[t] = "read_theirs"
  /\ theirs' = [theirs EXCEPT ![t] = friends[Peer(t)]]
  /\ pc' = [pc EXCEPT ![t] = "write_own"]
  /\ UNCHANGED <<files, op, own, history, begun>>

WriteOwn(t) ==
  /\ pc[t] = "write_own"
  /\ ReplaceFriends(t, Self(t), Append(own[t], Peer(t)))
  /\ Goto(t, "write_theirs")
  /\ UNCHANGED <<consent, crossed, begun>>

(* Mutant: the friend's list is written from the user's own. *)
WriteTheirs_FromOwn(t) ==
  /\ pc[t] = "write_theirs"
  /\ ReplaceFriends(t, Peer(t), Append(own[t], Self(t)))
  /\ Goto(t, "read_removal")
  /\ UNCHANGED <<consent, crossed, begun>>

WriteTheirs(t) ==
  /\ pc[t] = "write_theirs"
  /\ ReplaceFriends(t, Peer(t), Append(theirs[t], Self(t)))
  /\ Goto(t, "read_removal")
  /\ UNCHANGED <<consent, crossed, begun>>

(* A request that is gone by now needs no removal.                         *)
ReadRemoval(t) ==
  LET list == requests[Self(t)]
  IN  /\ pc[t] = "read_removal"
      /\ \/ ~Listed(Peer(t), list) /\ End(t)
         \/ Listed(Peer(t), list) /\ ReadOwnFile(t, list, "write_removal")
      /\ UNCHANGED <<files, history, begun>>

(* Mutant: the last request is removed instead of the answered one. *)
WriteRemoval_Last(t) ==
  /\ pc[t] = "write_removal"
  /\ ReplaceRequests(t, Self(t), Front(own[t]))
  /\ End(t)
  /\ UNCHANGED <<consent, crossed, begun>>

(* The first request of the peer in the list is removed.                   *)
WriteRemoval(t) ==
  /\ pc[t] = "write_removal"
  /\ \E i \in 1..Len(own[t]) :
       /\ own[t][i] = Peer(t)
       /\ \A j \in 1..(i - 1) : own[t][j] # Peer(t)
       /\ ReplaceRequests(t, Self(t), RemoveAt(own[t], i))
  /\ End(t)
  /\ UNCHANGED <<consent, crossed, begun>>

-----------------------------------------------------------------------------
(* The users are friends, and the request is not removed yet.              *)
Settling(t) ==
  pc[t] \in {"write_theirs", "read_removal", "write_removal"} /\ op[t].kind = "agree"

(* The server dies and is started again.  Opening a file to replace it     *)
(* empties it, so a file somebody was replacing may be left empty.         *)
Crash ==
  /\ \E S \in SUBSET {t \in Thread : pc[t] \in {"store_request", "write_removal",
                                                "write_own", "write_theirs"}} :
       LET emptied(label) == {t \in S : pc[t] = label}
       IN  /\ friends' = [u \in User |->
                IF \/ \E t \in emptied("write_own") : Self(t) = u
                   \/ \E t \in emptied("write_theirs") : Peer(t) = u
                THEN Broken ELSE friends[u]]
           /\ requests' = [u \in User |->
                IF \/ \E t \in emptied("write_removal") : Self(t) = u
                   \/ \E t \in emptied("store_request") : Peer(t) = u
                THEN Broken ELSE requests[u]]
  /\ op' = [t \in Thread |-> NoOperation]
  /\ pc' = [t \in Thread |-> "idle"]
  /\ own' = [t \in Thread |-> <<>>]
  /\ theirs' = [t \in Thread |-> <<>>]
  /\ friends_spoiled' = friends_spoiled \cup {u \in User : friends'[u] = Broken}
                          \cup {Peer(t) : t \in {s \in Thread : pc[s] = "write_theirs"}}
  /\ requests_spoiled' = requests_spoiled \cup {u \in User : requests'[u] = Broken}
  /\ crossed' = crossed \cup {{Self(t), Peer(t)} : t \in {s \in Thread : Settling(s)}}
  /\ UNCHANGED <<consent, begun>>

-----------------------------------------------------------------------------
SendFriendRequest(t) ==
  \/ CheckNotFriend(t)
  \/ NotifyFails(t)
  \/ CheckStillNotFriend(t)
  \/ CheckNotAsked(t)
  \/ ReadRequests(t)
  \/ StoreRequest(t)

AgreeFriendRequest(t) ==
  \/ CheckAsked(t)
  \/ AddCheckNotFriend(t)
  \/ AddCheckInSync(t)
  \/ ReadOwn(t)
  \/ ReadTheirs(t)
  \/ WriteOwn(t)
  \/ WriteTheirs(t)
  \/ ReadRemoval(t)
  \/ WriteRemoval(t)

Next ==
  \/ \E t \in Thread :
       \/ \E u, v \in User : RequestFriend(t, u, v) \/ AnswerRequest(t, u, v)
       \/ SendFriendRequest(t)
       \/ AgreeFriendRequest(t)
  \/ Crash

Spec == Init /\ [][Next]_vars

-----------------------------------------------------------------------------
(* Properties *)

Lists == Seq(User) \cup {Broken}

Labels ==
  {"idle", "not_friend", "still_not_friend", "not_asked", "read_requests",
   "store_request", "is_asked", "add_not_friend", "add_in_sync", "read_own",
   "read_theirs", "write_own", "write_theirs", "read_removal", "write_removal"}

TypeOK ==
  /\ friends \in [User -> Lists]
  /\ requests \in [User -> Lists]
  /\ op \in [Thread -> Operations \cup {NoOperation}]
  /\ pc \in [Thread -> Labels]
  /\ own \in [Thread -> Seq(User)]
  /\ theirs \in [Thread -> Seq(User)]
  /\ asked \subseteq User \X User
  /\ agreed \subseteq User \X User
  /\ friends_spoiled \subseteq User /\ requests_spoiled \subseteq User
  /\ crossed \subseteq SUBSET User
  /\ begun \in Nat

(* Nobody has a friend without one of the two having asked and the other   *)
(* having agreed; nobody has a request nobody made.  However the handlers  *)
(* interleave, whatever they overwrite, and wherever the server crashes.   *)
Consented(u, v) ==
  <<u, v>> \in asked \cap agreed \/ <<v, u>> \in asked \cap agreed

OnlyConsented ==
  \A u, v \in User :
    /\ Listed(v, friends[u]) => Consented(u, v)
    /\ Listed(v, requests[u]) => <<v, u>> \in asked

(* What keeps that true: a thread adds only a friend who asked, and what it *)
(* has read and will write back was consented to as well.                  *)
AddLabels ==
  {"add_not_friend", "add_in_sync", "read_own", "read_theirs", "write_own",
   "write_theirs"}

BusyThreads == \A t \in Thread : pc[t] # "idle" => op[t] \in Operations

AddIsConsented(t) ==
  pc[t] \in AddLabels => <<Peer(t), Self(t)>> \in asked \cap agreed

CopiesConsented(t) ==
  \A v \in User :
    /\ pc[t] \in {"read_theirs", "write_own"} /\ Contains(own[t], v) =>
         Consented(Self(t), v)
    /\ pc[t] \in {"write_own", "write_theirs"} /\ Contains(theirs[t], v) =>
         Consented(Peer(t), v)
    /\ pc[t] = "store_request" /\ Contains(own[t], v) => <<v, Peer(t)>> \in asked
    /\ pc[t] = "write_removal" /\ Contains(own[t], v) => <<v, Self(t)>> \in asked

(* What a thread has read before, it can read again.                       *)
FilesReadable(t) ==
  /\ pc[t] = "read_requests" => requests[Peer(t)] # Broken
  /\ pc[t] \in {"add_in_sync", "read_own"} => friends[Self(t)] # Broken
  /\ pc[t] \in {"read_own", "read_theirs"} => friends[Peer(t)] # Broken

ConsentInv ==
  /\ TypeOK
  /\ BusyThreads
  /\ \A t \in Thread :
       AddIsConsented(t) /\ CopiesConsented(t) /\ FilesReadable(t)
  /\ OnlyConsented

(* A thread between the two writes of AddFriend for u and v.               *)
Adding(u, v) ==
  \E t \in Thread :
    pc[t] = "write_theirs" /\ Self(t) = u /\ Peer(t) = v

(* "Friend list not async" (user.cpp 230) is an inconsistency: unless it   *)
(* is being made right now, a friendship is in both files or in neither,   *)
(* as long as no two threads replaced one of the files at once and no      *)
(* crash emptied one or came between the two writes.                       *)
FriendListsInSync ==
  \A u, v \in User \ friends_spoiled :
    ~Adding(u, v) /\ ~Adding(v, u) =>
      (Listed(v, friends[u]) <=> Listed(u, friends[v]))

(* A pending request goes only when the user asked answers it: the list of *)
(* handler 103 shows it until then.  It is lost only from a file that two  *)
(* threads were replacing at once or that a crash emptied.                 *)
RequestsAwaitAnswer ==
  [][\A u \in User \ requests_spoiled', v \in User :
       Listed(v, requests[u]) /\ ~Listed(v, requests'[u]) =>
         \E t \in Thread : /\ op[t] # NoOperation
                           /\ op[t].kind \in {"agree", "ignore"}
                           /\ Self(t) = u /\ Peer(t) = v]_vars

(* The two kinds of files are a graph of friends and a set of pending      *)
(* requests, however many threads handle requests, except for the pairs    *)
(* whose files were spoiled or who were handled twice at once.  Agreeing   *)
(* takes effect with the first write, the removal of the request that      *)
(* follows belongs to it.                                                  *)
Lost(u, v) ==
  \/ {u, v} \cap (friends_spoiled \cup requests_spoiled) # {}
  \/ {u, v} \in crossed

Answered(v, u) == \E t \in Thread : Settling(t) /\ Self(t) = u /\ Peer(t) = v

Pending ==
  {p \in User \X User :
     Listed(p[1], requests[p[2]]) /\ ~Answered(p[1], p[2]) /\ ~Lost(p[1], p[2])}

PairsOf(relation) == {{p[1], p[2]} : p \in relation}

Friendships ==
  PairsOf({p \in User \X User : Listed(p[2], friends[p[1]]) /\ ~Lost(p[1], p[2])})

LostPairs == PairsOf({p \in User \X User : Lost(p[1], p[2])})

Graph == INSTANCE FriendGraph WITH pending <- Pending, friendships <- Friendships,
                                   lost <- LostPairs

ImplementsFriendGraph == Graph!Spec

-----------------------------------------------------------------------------
(* The inductive invariant, for FriendListsInSync and ImplementsFriendGraph *)

AnswerLabels == AddLabels \cup {"is_asked", "read_removal", "write_removal"}

RequestLabels ==
  {"not_friend", "still_not_friend", "not_asked", "read_requests", "store_request"}

KindMatches(t) ==
  /\ pc[t] \in RequestLabels => op[t].kind = "request"
  /\ pc[t] \in AnswerLabels => op[t].kind \in {"agree", "ignore"}
  /\ pc[t] \in AddLabels => op[t].kind = "agree"

OthersAsked ==
  /\ \A p \in asked : p[1] # p[2]
  /\ \A t \in Thread : pc[t] \in RequestLabels => Self(t) # Peer(t)

BrokenIsSpoiled ==
  \A u \in User : /\ friends[u] = Broken => u \in friends_spoiled
                  /\ requests[u] = Broken => u \in requests_spoiled

(* What a thread has read of a file is what is in it, and the friend that   *)
(* it added is still in the user's list when it writes the other one.       *)
CopiesCurrent(t) ==
  /\ pc[t] \in {"read_theirs", "write_own"} /\ Self(t) \notin friends_spoiled =>
       own[t] = friends[Self(t)]
  /\ pc[t] \in {"write_own", "write_theirs"} /\ Peer(t) \notin friends_spoiled =>
       theirs[t] = friends[Peer(t)]
  /\ pc[t] = "write_theirs" /\ Self(t) \notin friends_spoiled =>
       Listed(Peer(t), friends[Self(t)])
  /\ pc[t] = "store_request" /\ Peer(t) \notin requests_spoiled =>
       own[t] = requests[Peer(t)]
  /\ pc[t] = "write_removal" /\ Self(t) \notin requests_spoiled =>
       own[t] = requests[Self(t)]

SyncInv ==
  /\ \A t \in Thread : KindMatches(t) /\ CopiesCurrent(t)
  /\ OthersAsked
  /\ BrokenIsSpoiled
  /\ FriendListsInSync

(* Two threads never handle the same pair but where that is recorded, so    *)
(* what a thread has found in the files holds until it changes them, and a  *)
(* user is once in the requests of another.                                 *)
OneHandler ==
  \A s, t \in Thread : s # t /\ pc[t] # "idle" =>
    (Handles(s, {Self(t), Peer(t)}) => {Self(t), Peer(t)} \in crossed)

FoundHolds(t) ==
  ~Lost(Self(t), Peer(t)) =>
    /\ pc[t] \in {"not_asked", "read_requests", "store_request", "add_in_sync",
                  "read_own", "read_theirs", "write_own"} =>
         ~Listed(Peer(t), friends[Self(t)])
    /\ pc[t] \in {"read_own", "read_theirs", "write_own"} =>
         ~Listed(Self(t), friends[Peer(t)])
    /\ pc[t] \in {"read_requests", "store_request"} =>
         ~Listed(Self(t), requests[Peer(t)])
    /\ pc[t] \in AddLabels \cup {"write_removal"} \/ (pc[t] = "read_removal" /\ Settling(t)) =>
         Listed(Peer(t), requests[Self(t)])

Once(list, v) ==
  \A i, j \in 1..Len(list) : list[i] = v /\ list[j] = v => i = j

AskedOnce == \A u, v \in User : ~Lost(u, v) => Once(requests[v], u)

GraphInv ==
  /\ OneHandler
  /\ \A t \in Thread : pc[t] # "idle" => FoundHolds(t)
  /\ AskedOnce
=============================================================================
