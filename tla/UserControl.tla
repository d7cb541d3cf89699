---------------------------- MODULE UserControl -----------------------------
(***************************************************************************)
(* UserControlModule (online_user_collection.cpp): the tables `users` and  *)
(* `user_connections`, the two shared mutexes that guard them, the request *)
(* handlers that read and write them, and the thread that evicts expired   *)
(* users.                                                                  *)
(*                                                                         *)
(* Threads.  A connection is taken out of the connection pool while its    *)
(* packet is handled and put back afterwards (main.cpp 86-104), so there   *)
(* is at most one handler per connection, and it is named by the           *)
(* connection.  One more thread, the Cleaner, is started by OnLoad.        *)
(*                                                                         *)
(* A critical section on ONE mutex is one step, since nobody can see its   *)
(* inside.  Where the code holds BOTH mutexes every acquisition is a step. *)
(***************************************************************************)
EXTENDS Naturals, FiniteSets

CONSTANTS
  Uid,          \* the registered users, positive numbers: std::map orders them
  Conn,         \* the TCP connections of the run
  Token,        \* the tokens User::Login can issue
  Expiring,     \* the tokens whose two hours end during the run
  Kinds,        \* the requests clients make
  MaxRequests,  \* a bound: the packets received in the run
  Cleaner,      \* the eviction thread
  Nobody,       \* no thread holds the mutex exclusively
  NoToken,      \* no session; also any string that never was a token
  NoConn        \* not online

(* Requests of clients that are signed in: "query" stands for those that   *)
(* touch neither table (103, 104, 105, 106, 203), "online" and "offline"   *)
(* for 107, "sendMessage" for 201, "requestFriend" for 102.                *)
AllKinds == {"query", "online", "offline", "sendMessage", "requestFriend"}

ASSUME UidAssumption == Uid \subseteq Nat \ {0}
ASSUME TokenAssumption == NoToken \notin Token /\ Expiring \subseteq Token
ASSUME ConnAssumption == NoConn \notin Conn
ASSUME ThreadAssumption == Cleaner \notin Conn /\ Nobody \notin Conn \cup {Cleaner}
ASSUME KindsAssumption == Kinds \subseteq AllKinds
ASSUME MaxRequestsAssumption == MaxRequests \in Nat

VARIABLES
  users,             \* uid -> token of its session
  user_connections,  \* uid -> connection its pushes are sent to
  users_mutex,
  online_connections_mutex,
  owner,             \* token -> uid it was issued to, 0 while not issued
  expired,           \* tokens whose deadline has passed
  pc,                \* connection -> what its handler does next
  req,               \* connection -> the request being handled
  cleaner_pc,        \* what the eviction thread does next
  expired_users,     \* the eviction thread's local list
  exit,              \* OnUnload's flag
  received,          \* packets received so far
  authenticated,     \* history: <<u, c>> where u proved its identity on c
  latest             \* history: the last token stored for each uid

tables   == <<users, user_connections>>
mutexes  == <<users_mutex, online_connections_mutex>>
tokens   == <<owner, expired>>
handlers == <<pc, req, received>>
cleaning == <<cleaner_pc, expired_users, exit>>
history  == <<authenticated, latest>>
vars == <<tables, mutexes, tokens, handlers, cleaning, history>>

-----------------------------------------------------------------------------
(* std::shared_mutex *)

Unlocked == [writer |-> Nobody, readers |-> {}]
FreeForShared(m) == m.writer = Nobody
FreeForUnique(m) == m.writer = Nobody /\ m.readers = {}
LockShared(m, p) == [m EXCEPT !.readers = @ \cup {p}]
UnlockShared(m, p) == [m EXCEPT !.readers = @ \ {p}]
LockUnique(m, p) == [m EXCEPT !.writer = p]
UnlockUnique(m) == [m EXCEPT !.writer = Nobody]

(* The states a shared mutex can be in: one writer and no reader, or any   *)
(* number of readers.  Only the cleaner is ever seen as a writer: the      *)
(* exclusive sections of the handlers are single steps.                    *)
Mutex == [writer : {Nobody}, readers : SUBSET Conn]
           \cup [writer : {Cleaner}, readers : {{}}]

-----------------------------------------------------------------------------
(* Requests *)

NoRequest == [kind |-> "none", uid |-> 0, token |-> NoToken, peer |-> 0]

Request == [kind : AllKinds \cup {"login"}, uid : Uid,
            token : Token \cup {NoToken}, peer : Uid \cup {0}]

Issued == {t \in Token : owner[t] # 0}

Push(c) == req[c].kind \in {"sendMessage", "requestFriend"}

Goto(c, label) == pc' = [pc EXCEPT ![c] = label]

(* The handler returns; OnMessage sends the reply, if there is one, and    *)
(* the connection goes back to the pool.                                   *)
Return(c) ==
  /\ Goto(c, "idle")
  /\ req' = [req EXCEPT ![c] = NoRequest]

(* An exception that is not a std::exception leaves OnMessage and reaches  *)
(* the catch (...) of the connection's task: the connection is closed.     *)
Abandon(c) ==
  /\ Goto(c, "closing")
  /\ req' = [req EXCEPT ![c] = NoRequest]

-----------------------------------------------------------------------------
(* OnLoad: the tables are empty and the cleaner runs. *)

Init ==
  /\ users = [u \in Uid |-> NoToken]
  /\ user_connections = [u \in Uid |-> NoConn]
  /\ users_mutex = Unlocked
  /\ online_connections_mutex = Unlocked
  /\ owner = [t \in Token |-> 0]
  /\ expired = {}
  /\ pc = [c \in Conn |-> "idle"]
  /\ req = [c \in Conn |-> NoRequest]
  /\ cleaner_pc = "sleep"
  /\ expired_users = {}
  /\ exit = FALSE
  /\ received = 0
  /\ authenticated = {}
  /\ latest = [u \in Uid |-> NoToken]

Receive(c) ==
  /\ pc[c] = "idle"
  /\ ~exit
  /\ received < MaxRequests
  /\ received' = received + 1

(* Login.  User::Login issues a token made of the deadline and a new UUID. *)
Login(c, u, t) ==
  /\ Receive(c)
  /\ owner[t] = 0
  /\ owner' = [owner EXCEPT ![t] = u]
  /\ Goto(c, "storeUser")
  /\ req' = [req EXCEPT
       ![c] = [kind |-> "login", uid |-> u, token |-> t, peer |-> 0]]
  /\ UNCHANGED <<tables, mutexes, expired, cleaning, history>>

(* A wrong password is answered; a broken user file is not a normal        *)
(* exception and costs the client its connection.                          *)
LoginRefused(c) ==
  /\ Receive(c)
  /\ Return(c) \/ Abandon(c)
  /\ UNCHANGED <<tables, mutexes, tokens, cleaning, history>>

StoreUser(c) ==
  LET u == req[c].uid
      t == req[c].token
  IN  /\ pc[c] = "storeUser"
      /\ FreeForUnique(users_mutex)
      /\ users' = [users EXCEPT ![u] = t]
      /\ latest' = [latest EXCEPT ![u] = t]
      /\ Goto(c, "storeConnection")
      /\ UNCHANGED <<user_connections, mutexes, tokens, req, received,
                     cleaning, authenticated>>

StoreConnection(c) ==
  LET u == req[c].uid
  IN  /\ pc[c] = "storeConnection"
      /\ FreeForUnique(online_connections_mutex)
      /\ user_connections' = [user_connections EXCEPT ![u] = c]
      /\ authenticated' = authenticated \cup {<<u, c>>}
      /\ Return(c)
      /\ UNCHANGED <<users, mutexes, tokens, received, cleaning, latest>>

-----------------------------------------------------------------------------
(* Requests that carry a uid and a token: any the client may know. *)

TokenRequest(c, k, u, t, p) ==
  /\ Receive(c)
  /\ Goto(c, "checkToken")
  /\ req' = [req EXCEPT
       ![c] = [kind |-> k, uid |-> u, token |-> t, peer |-> p]]
  /\ UNCHANGED <<tables, mutexes, tokens, cleaning, history>>

(* Mutant: any token does, once the user is signed in. *)
TokenAccepted_NotCompared(u, t) == users[u] # NoToken /\ t \notin expired

TokenAccepted(u, t) == users[u] # NoToken /\ users[u] = t /\ t \notin expired

(* The queries are done with the tables; they answer, or a broken user     *)
(* file costs the client its connection.                                   *)
QueryDone(c) == req[c].kind = "query" /\ (Return(c) \/ Abandon(c))

(* A push may be refused by the checks on the user files and sessions, and *)
(* always is when the peer is the sender: nobody is a friend of himself.   *)
PushChecks(c) ==
  /\ Push(c)
  /\ \/ Return(c)
     \/ /\ req[c].peer # req[c].uid
        /\ Goto(c, "lockOnline")
        /\ UNCHANGED req

CheckToken(c) ==
  /\ pc[c] = "checkToken"
  /\ FreeForShared(users_mutex)
  /\ IF TokenAccepted(req[c].uid, req[c].token)
     THEN \/ QueryDone(c)
          \/ PushChecks(c)
          \/ /\ req[c].kind \in {"online", "offline"}
             /\ Goto(c, "signState")
             /\ UNCHANGED req
     ELSE Return(c)
  /\ UNCHANGED <<tables, mutexes, tokens, received, cleaning, history>>

(* sign_online_state, after its check_token. *)
SignOnlineState(c) ==
  LET u == req[c].uid
  IN  /\ pc[c] = "signState"
      /\ FreeForUnique(online_connections_mutex)
      /\ \/ /\ req[c].kind = "online"
            /\ user_connections' = [user_connections EXCEPT ![u] = c]
            /\ authenticated' = authenticated \cup {<<u, c>>}
         \/ /\ req[c].kind = "offline"
            /\ user_connections' = [user_connections EXCEPT ![u] = NoConn]
            /\ UNCHANGED authenticated
      /\ Return(c)
      /\ UNCHANGED <<users, mutexes, tokens, received, cleaning, latest>>

-----------------------------------------------------------------------------
(* Pushing to the peer: lock1 on online_connections_mutex, then lock2 on   *)
(* users_mutex, both shared, both held while the packet is sent.           *)

(* Mutant: lock1 is dropped as soon as it is taken. *)
PushLockOnline_Dropped(c) ==
  /\ pc[c] = "lockOnline"
  /\ FreeForShared(online_connections_mutex)
  /\ Goto(c, "lockUsers")
  /\ UNCHANGED <<tables, mutexes, tokens, req, received, cleaning, history>>

PushLockOnline(c) ==
  /\ pc[c] = "lockOnline"
  /\ FreeForShared(online_connections_mutex)
  /\ online_connections_mutex' = LockShared(online_connections_mutex, c)
  /\ Goto(c, "lockUsers")
  /\ UNCHANGED <<tables, users_mutex, tokens, req, received, cleaning, history>>

PeerOnline(p) ==
  p \in Uid /\ user_connections[p] # NoConn /\ users[p] # NoToken

PushLockUsers(c) ==
  /\ pc[c] = "lockUsers"
  /\ FreeForShared(users_mutex)
  /\ users_mutex' = LockShared(users_mutex, c)
  /\ Goto(c, IF PeerOnline(req[c].peer) THEN "send" ELSE "unlock")
  /\ UNCHANGED <<tables, online_connections_mutex, tokens, req, received,
                 cleaning, history>>

ReleaseBoth(c) ==
  /\ users_mutex' = UnlockShared(users_mutex, c)
  /\ online_connections_mutex' = UnlockShared(online_connections_mutex, c)

(* The packet goes to user_connections[peer] with the token users[peer].   *)
Send(c) ==
  /\ pc[c] = "send"
  /\ Goto(c, "unlock")
  /\ UNCHANGED <<tables, mutexes, tokens, req, received, cleaning, history>>

(* The send fails.  sendMessage ignores a SafeNetworkException; every      *)
(* other failure ends the handler without an answer, and the locks go      *)
(* with its stack frame.                                                   *)
SendFails(c) ==
  /\ pc[c] = "send"
  /\ \/ /\ req[c].kind = "sendMessage"
        /\ Goto(c, "unlock")
        /\ UNCHANGED <<mutexes, req>>
     \/ /\ ReleaseBoth(c)
        /\ Return(c)
  /\ UNCHANGED <<tables, tokens, received, cleaning, history>>

PushUnlock(c) ==
  /\ pc[c] = "unlock"
  /\ ReleaseBoth(c)
  /\ Return(c)
  /\ UNCHANGED <<tables, tokens, received, cleaning, history>>

-----------------------------------------------------------------------------
(* The client is gone: receiving its next packet fails, and the task of    *)
(* the connection reports it to the module before it drops the connection. *)

Disconnect(c) ==
  /\ pc[c] = "idle"
  /\ Goto(c, "closing")
  /\ UNCHANGED <<tables, mutexes, tokens, req, received, cleaning, history>>

(* Mutant: entries of users without a session are passed over. *)
EntriesOf_SignedIn(c) ==
  {u \in Uid : user_connections[u] = c /\ users[u] # NoToken}

EntriesOf(c) == {u \in Uid : user_connections[u] = c}

(* The loop of OnConnectionClosed returns at the first entry it erases.    *)
OnConnectionClosed(c) ==
  /\ pc[c] = "closing"
  /\ FreeForUnique(online_connections_mutex)
  /\ \/ /\ EntriesOf(c) = {}
        /\ UNCHANGED user_connections
     \/ \E first \in EntriesOf(c) :
          /\ \A u \in EntriesOf(c) : first <= u
          /\ user_connections' = [user_connections EXCEPT ![first] = NoConn]
  /\ Goto(c, "closed")
  /\ UNCHANGED <<users, mutexes, tokens, req, received, cleaning, history>>

-----------------------------------------------------------------------------
(* The eviction thread. *)

(* Mutant: the test of IsTokenAllow is the wrong way round. *)
ExpiredUsers_Negated == {u \in Uid : users[u] \notin expired \cup {NoToken}}

ExpiredUsers == {u \in Uid : users[u] \in expired}

Collect ==
  /\ cleaner_pc = "sleep"
  /\ ~exit
  /\ FreeForShared(users_mutex)
  /\ expired_users' = ExpiredUsers
  /\ cleaner_pc' = IF expired_users' = {} THEN "sleep" ELSE "lockUsers"
  /\ UNCHANGED <<tables, mutexes, tokens, handlers, exit, history>>

CleanerLockUsers ==
  /\ cleaner_pc = "lockUsers"
  /\ FreeForUnique(users_mutex)
  /\ users_mutex' = LockUnique(users_mutex, Cleaner)
  /\ cleaner_pc' = "lockOnline"
  /\ UNCHANGED <<tables, online_connections_mutex, tokens, handlers,
                 expired_users, exit, history>>

(* Mutant: lock2 names users_mutex again. *)
CleanerLockOnline_UsersTwice ==
  /\ cleaner_pc = "lockOnline"
  /\ FreeForUnique(users_mutex)
  /\ users_mutex' = LockUnique(users_mutex, Cleaner)
  /\ cleaner_pc' = "erase"
  /\ UNCHANGED <<tables, online_connections_mutex, tokens, handlers,
                 expired_users, exit, history>>

CleanerLockOnline ==
  /\ cleaner_pc = "lockOnline"
  /\ FreeForUnique(online_connections_mutex)
  /\ online_connections_mutex' = LockUnique(online_connections_mutex, Cleaner)
  /\ cleaner_pc' = "erase"
  /\ UNCHANGED <<tables, users_mutex, tokens, handlers, expired_users, exit,
                 history>>

(* Mutant: only users_mutex is unlocked. *)
Erase_KeepsOnline ==
  /\ cleaner_pc = "erase"
  /\ users' = [u \in Uid |-> IF u \in expired_users THEN NoToken ELSE users[u]]
  /\ user_connections' =
       [u \in Uid |-> IF u \in expired_users THEN NoConn
                      ELSE user_connections[u]]
  /\ users_mutex' = UnlockUnique(users_mutex)
  /\ expired_users' = {}
  /\ cleaner_pc' = "sleep"
  /\ UNCHANGED <<online_connections_mutex, tokens, handlers, exit, history>>

(* Erases the collected users as they are now, and unlocks.                *)
Erase ==
  /\ cleaner_pc = "erase"
  /\ users' = [u \in Uid |-> IF u \in expired_users THEN NoToken ELSE users[u]]
  /\ user_connections' =
       [u \in Uid |-> IF u \in expired_users THEN NoConn
                      ELSE user_connections[u]]
  /\ users_mutex' = UnlockUnique(users_mutex)
  /\ online_connections_mutex' = UnlockUnique(online_connections_mutex)
  /\ expired_users' = {}
  /\ cleaner_pc' = "sleep"
  /\ UNCHANGED <<tokens, handlers, exit, history>>

CleanerExit ==
  /\ cleaner_pc = "sleep"
  /\ exit
  /\ cleaner_pc' = "done"
  /\ UNCHANGED <<tables, mutexes, tokens, handlers, expired_users, exit, history>>

(* OnUnload: the server no longer handles packets (MainServer::Start has   *)
(* returned).                                                              *)
OnUnload ==
  /\ ~exit
  /\ \A c \in Conn : pc[c] \in {"idle", "closed"}
  /\ exit' = TRUE
  /\ UNCHANGED <<tables, mutexes, tokens, handlers, cleaner_pc, expired_users,
                 history>>

(* The deadline inside an issued token passes.                             *)
Expire(t) ==
  /\ t \in (Expiring \cap Issued) \ expired
  /\ expired' = expired \cup {t}
  /\ UNCHANGED <<tables, mutexes, owner, handlers, cleaning, history>>

-----------------------------------------------------------------------------
Client(c) ==
  \/ \E u \in Uid, t \in Token : Login(c, u, t)
  \/ LoginRefused(c)
  \/ \E k \in Kinds, u \in Uid, t \in Issued \cup {NoToken}, p \in Uid \cup {0} :
       /\ (p = 0) <=> (k \in {"query", "online", "offline"})
       /\ TokenRequest(c, k, u, t, p)
  \/ Disconnect(c)

Handler(c) ==
  \/ StoreUser(c)
  \/ StoreConnection(c)
  \/ CheckToken(c)
  \/ SignOnlineState(c)
  \/ PushLockOnline(c)
  \/ PushLockUsers(c)
  \/ Send(c)
  \/ SendFails(c)
  \/ PushUnlock(c)
  \/ OnConnectionClosed(c)

CleanerThread ==
  \/ Collect
  \/ CleanerLockUsers
  \/ CleanerLockOnline
  \/ Erase
  \/ CleanerExit

Next ==
  \/ \E c \in Conn : Client(c) \/ Handler(c)
  \/ CleanerThread
  \/ OnUnload
  \/ \E t \in Token : Expire(t)

Spec == Init /\ [][Next]_vars

(* A thread that can take a step takes one.  For Send this assumes that    *)
(* the peer reads its socket or the connection breaks.  Nobody has to send *)
(* a request, and no token has to expire.                                  *)
Fairness ==
  /\ \A c \in Conn : WF_vars(Handler(c))
  /\ WF_vars(CleanerThread)

FairSpec == Spec /\ Fairness
-----------------------------------------------------------------------------
(* Properties *)

Labels == {"idle", "storeUser", "storeConnection", "checkToken", "signState",
           "lockOnline", "lockUsers", "send", "unlock", "closing", "closed"}

CleanerLabels == {"sleep", "lockUsers", "lockOnline", "erase", "done"}

(* Every variable keeps its type; the mutexes stay in states a shared      *)
(* mutex can be in (Mutex), so no exclusive section overlaps a push.       *)
TypeOK ==
  /\ users \in [Uid -> Token \cup {NoToken}]
  /\ user_connections \in [Uid -> Conn \cup {NoConn}]
  /\ users_mutex \in Mutex
  /\ online_connections_mutex \in Mutex
  /\ owner \in [Token -> Uid \cup {0}]
  /\ expired \subseteq Token
  /\ pc \in [Conn -> Labels]
  /\ req \in [Conn -> Request \cup {NoRequest}]
  /\ cleaner_pc \in CleanerLabels
  /\ expired_users \subseteq Uid
  /\ exit \in BOOLEAN
  /\ received \in Nat
  /\ authenticated \subseteq Uid \X Conn
  /\ latest \in [Uid -> Token \cup {NoToken}]

(* While a push is being sent, the entries of the peer that the handler    *)
(* found are still there: it dereferences user_connections.find(friend_uid)*)
(* and users.find(friend_uid) again after the test (386-395, 146-159),     *)
(* which is undefined if a login, a 107 or the eviction thread could have  *)
(* erased them in between.                                                 *)
PushTargetStable == \A c \in Conn : pc[c] = "send" => PeerOnline(req[c].peer)

(* A handler that got past check_token acts for a uid with a token that    *)
(* was issued to that very uid, however logins, evictions and other        *)
(* clients' requests interleave with it.                                   *)
Acting == {"signState", "lockOnline", "lockUsers", "send", "unlock"}

ActsForTokenOwner ==
  \A c \in Conn : pc[c] \in Acting =>
    /\ req[c].token \in Token
    /\ owner[req[c].token] = req[c].uid

(* Once OnConnectionClosed has run for a connection, the module pushes     *)
(* nothing to it any more, except for uids that are not the least one that *)
(* authenticated on it: the loop stops at its first match (589-596).       *)
ClosedConnectionForgotten ==
  \A c \in Conn, u \in Uid :
    pc[c] = "closed" /\ user_connections[u] = c =>
      \E v \in Uid : v # u /\ <<v, c>> \in authenticated

(* The eviction thread signs out only uids one of whose tokens has         *)
(* expired: a user who never outlived a token is never signed out, although*)
(* the thread erases by uid and not by token (499-518).                    *)
NeverEvictedWithoutExpiry ==
  \A u \in Uid :
    latest[u] # NoToken /\ users[u] = NoToken =>
      \E t \in expired : owner[t] = u

(* What keeps those true.  Who holds which mutex, told from where the      *)
(* threads are; what a handler knows of its request; where a session, an   *)
(* online entry and a collected uid come from.                             *)
LocksHeld ==
  /\ users_mutex.readers = {c \in Conn : pc[c] \in {"send", "unlock"}}
  /\ online_connections_mutex.readers =
       {c \in Conn : pc[c] \in {"lockUsers", "send", "unlock"}}
  /\ users_mutex.writer = Cleaner <=> cleaner_pc \in {"lockOnline", "erase"}
  /\ online_connections_mutex.writer = Cleaner <=> cleaner_pc = "erase"

Working == {"storeUser", "storeConnection", "checkToken"} \cup Acting

RequestsFormed ==
  \A c \in Conn :
    /\ pc[c] \in Working => req[c] \in Request
    /\ pc[c] \in {"storeUser", "storeConnection"} =>
         req[c].token \in Token /\ owner[req[c].token] = req[c].uid

SessionsOwned ==
  \A u \in Uid : users[u] # NoToken => owner[users[u]] = u

OnlineWhereAuthenticated ==
  \A u \in Uid :
    user_connections[u] # NoConn => <<u, user_connections[u]>> \in authenticated

CollectedExpired ==
  \A u \in expired_users : \E t \in expired : owner[t] = u

IInv ==
  /\ TypeOK
  /\ RequestsFormed
  /\ LocksHeld
  /\ PushTargetStable
  /\ ActsForTokenOwner
  /\ SessionsOwned
  /\ OnlineWhereAuthenticated
  /\ ClosedConnectionForgotten
  /\ CollectedExpired
  /\ NeverEvictedWithoutExpiry

(* The locking, the threads and the order of the steps cannot be told from *)
(* a table with atomic operations: every step is one operation of          *)
(* SessionTable or leaves the tables alone.  In particular an eviction     *)
(* takes the uid out of both tables at once.                               *)
Table == INSTANCE SessionTable

ImplementsSessionTable == Table!Spec

(* The eviction thread has users_mutex and waits for                       *)
(* online_connections_mutex, a push has the latter and waits for the       *)
(* former.  Neither will ever go on.                                       *)
LocksCrossed ==
  cleaner_pc = "lockOnline" /\ \E c \in Conn : pc[c] = "lockUsers"

(* Every packet is handled to the end, unless the two locks have been      *)
(* taken crosswise: nothing else ever stops a handler.                     *)
RequestHandled ==
  \A c \in Conn :
    pc[c] \notin {"idle", "closed"} ~>
      pc[c] \in {"idle", "closed"} \/ LocksCrossed

(* An expired session does not stay in the table while the module runs.    *)
ExpiredSessionEvicted ==
  \A u \in Uid, t \in Token :
    users[u] = t /\ t \in expired ~> users[u] # t \/ exit \/ LocksCrossed

(* ~UserControlModule's task pool can join the eviction thread.            *)
UnloadCompletes == exit ~> cleaner_pc = "done" \/ LocksCrossed

(* Message.md 85: the token a login returned serves the later requests.    *)
(* So the last token stored for a uid must be the one check_token compares *)
(* with, as long as it has not expired.                                    *)
FreshTokenAccepted ==
  \A u \in Uid :
    latest[u] # NoToken /\ latest[u] \notin expired => users[u] = latest[u]
=============================================================================
