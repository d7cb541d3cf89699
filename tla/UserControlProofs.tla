------------------------- MODULE UserControlProofs --------------------------
(* Proofs about UserControl for every set of users, connections, tokens and *)
(* requests: its type invariant, the safety invariants, and that it         *)
(* implements SessionTable.                                                 *)
EXTENDS UserControl, TLAPS

-----------------------------------------------------------------------------
(* The shared mutex: each operation leads from a legal state to a legal     *)
(* state, and changes the part it is for.                                   *)

LEMMA UnlockedMutex == Unlocked \in Mutex
  BY DEF Unlocked, Mutex

LEMMA LockSharedMutex ==
  ASSUME NEW m \in Mutex, NEW c \in Conn, FreeForShared(m)
  PROVE  /\ LockShared(m, c) \in Mutex
         /\ LockShared(m, c).readers = m.readers \cup {c}
         /\ LockShared(m, c).writer = Nobody
  BY ThreadAssumption DEF LockShared, FreeForShared, Mutex

LEMMA UnlockSharedMutex ==
  ASSUME NEW m \in Mutex, NEW c \in Conn
  PROVE  /\ UnlockShared(m, c) \in Mutex
         /\ UnlockShared(m, c).readers = m.readers \ {c}
         /\ UnlockShared(m, c).writer = m.writer
  BY ThreadAssumption DEF UnlockShared, Mutex

LEMMA LockUniqueMutex ==
  ASSUME NEW m \in Mutex, FreeForUnique(m)
  PROVE  /\ LockUnique(m, Cleaner) \in Mutex
         /\ LockUnique(m, Cleaner).readers = {}
         /\ LockUnique(m, Cleaner).writer = Cleaner
  BY ThreadAssumption DEF LockUnique, FreeForUnique, Mutex

LEMMA UnlockUniqueMutex ==
  ASSUME NEW m \in Mutex
  PROVE  /\ UnlockUnique(m) \in Mutex
         /\ UnlockUnique(m).readers = m.readers
         /\ UnlockUnique(m).writer = Nobody
  BY ThreadAssumption DEF UnlockUnique, Mutex

LEMMA WriterExcludesReaders ==
  ASSUME NEW m \in Mutex
  PROVE  /\ m.writer \in {Nobody, Cleaner}
         /\ m.readers \subseteq Conn
         /\ m.writer = Cleaner => m.readers = {}
  BY ThreadAssumption DEF Mutex

-----------------------------------------------------------------------------
(* Type correctness *)

LEMMA InitTypeOK == Init => TypeOK
<1> SUFFICES ASSUME Init PROVE TypeOK
  OBVIOUS
<1>1. users_mutex \in Mutex /\ online_connections_mutex \in Mutex
  BY UnlockedMutex DEF Init
<1>2. exit \in BOOLEAN
  BY DEF Init
<1> QED
  BY <1>1, <1>2 DEF Init, TypeOK, Labels, CleanerLabels

LEMMA ClientTypeOK ==
  ASSUME TypeOK, NEW c \in Conn, Client(c)
  PROVE  TypeOK'
<1> USE DEF TypeOK, Labels, Goto, tables, mutexes, tokens, handlers, cleaning,
            history
<1>1. ASSUME NEW u \in Uid, NEW t \in Token, Login(c, u, t)
      PROVE  TypeOK'
  <2>1. [kind |-> "login", uid |-> u, token |-> t, peer |-> 0] \in Request
    BY DEF Request
  <2> QED
    BY <1>1, <2>1 DEF Login, Receive
<1>2. CASE LoginRefused(c)
  BY <1>2 DEF LoginRefused, Receive, Return, Abandon
<1>3. ASSUME NEW k \in Kinds, NEW u \in Uid, NEW t \in Issued \cup {NoToken},
             NEW p \in Uid \cup {0}, TokenRequest(c, k, u, t, p)
      PROVE  TypeOK'
  <2>1. [kind |-> k, uid |-> u, token |-> t, peer |-> p] \in Request
    BY KindsAssumption DEF Request, Issued
  <2> QED
    BY <1>3, <2>1 DEF TokenRequest, Receive
<1>4. CASE Disconnect(c)
  BY <1>4 DEF Disconnect
<1> QED
  BY <1>1, <1>2, <1>3, <1>4 DEF Client

TypeInv == TypeOK /\ RequestsFormed

LEMMA HandlerTypeOK ==
  ASSUME TypeInv, NEW c \in Conn, Handler(c)
  PROVE  TypeOK'
<1> USE DEF TypeInv, TypeOK, Labels, Goto, Return, tables, mutexes, tokens,
            handlers, cleaning, history
<1>1. CASE StoreUser(c)
  <2>1. req[c].token \in Token
    BY <1>1 DEF StoreUser, RequestsFormed
  <2> QED
    BY <1>1, <2>1 DEF StoreUser
<1>2. CASE StoreConnection(c)
  <2>1. req[c].uid \in Uid
    BY <1>2 DEF StoreConnection, RequestsFormed, Working, Request
  <2> QED
    BY <1>2, <2>1 DEF StoreConnection
<1>3. CASE CheckToken(c)
  BY <1>3 DEF CheckToken, QueryDone, PushChecks, Abandon
<1>4. CASE SignOnlineState(c)
  <2>1. req[c].uid \in Uid
    BY <1>4 DEF SignOnlineState, RequestsFormed, Working, Acting, Request
  <2> QED
    BY <1>4, <2>1 DEF SignOnlineState
<1>5. CASE PushLockOnline(c)
  BY <1>5, LockSharedMutex DEF PushLockOnline
<1>6. CASE PushLockUsers(c)
  BY <1>6, LockSharedMutex DEF PushLockUsers
<1>7. CASE Send(c)
  BY <1>7 DEF Send
<1>8. CASE SendFails(c)
  <2>1. /\ users_mutex' \in Mutex
        /\ online_connections_mutex' \in Mutex
    BY <1>8, UnlockSharedMutex DEF SendFails, ReleaseBoth
  <2>2. /\ pc' \in [Conn -> Labels]
        /\ req' \in [Conn -> Request \cup {NoRequest}]
    BY <1>8 DEF SendFails
  <2> QED
    BY <1>8, <2>1, <2>2 DEF SendFails
<1>9. CASE PushUnlock(c)
  BY <1>9, UnlockSharedMutex DEF PushUnlock, ReleaseBoth
<1>10. CASE OnConnectionClosed(c)
  BY <1>10 DEF OnConnectionClosed, EntriesOf
<1> QED
  BY <1>1, <1>2, <1>3, <1>4, <1>5, <1>6, <1>7, <1>8, <1>9, <1>10 DEF Handler

LEMMA CleanerTypeOK ==
  ASSUME TypeOK, CleanerThread
  PROVE  TypeOK'
<1> USE DEF TypeOK, CleanerLabels, tables, mutexes, tokens, handlers, cleaning,
            history
<1>1. CASE Collect
  BY <1>1 DEF Collect, ExpiredUsers
<1>2. CASE CleanerLockUsers
  BY <1>2, LockUniqueMutex DEF CleanerLockUsers
<1>3. CASE CleanerLockOnline
  BY <1>3, LockUniqueMutex DEF CleanerLockOnline
<1>4. CASE Erase
  BY <1>4, UnlockUniqueMutex DEF Erase
<1>5. CASE CleanerExit
  BY <1>5 DEF CleanerExit
<1> QED
  BY <1>1, <1>2, <1>3, <1>4, <1>5 DEF CleanerThread

LEMMA NextTypeOK ==
  ASSUME TypeInv, [Next]_vars
  PROVE  TypeOK'
<1>1. ASSUME NEW c \in Conn, Client(c)
      PROVE  TypeOK'
  BY <1>1, ClientTypeOK DEF TypeInv
<1>2. ASSUME NEW c \in Conn, Handler(c)
      PROVE  TypeOK'
  BY <1>2, HandlerTypeOK
<1>3. CASE CleanerThread
  BY <1>3, CleanerTypeOK DEF TypeInv
<1>4. CASE OnUnload
  <2>1. exit' \in BOOLEAN
    BY <1>4 DEF OnUnload
  <2> QED
    BY <1>4, <2>1 DEF OnUnload, TypeInv, TypeOK, tables, mutexes, tokens,
                      handlers, cleaning, history
<1>5. ASSUME NEW t \in Token, Expire(t)
      PROVE  TypeOK'
  BY <1>5 DEF Expire, TypeInv, TypeOK, tables, mutexes, tokens, handlers,
              cleaning, history
<1>6. CASE UNCHANGED vars
  BY <1>6 DEF TypeInv, TypeOK, vars, tables, mutexes, tokens, handlers,
              cleaning, history
<1> QED
  BY <1>1, <1>2, <1>3, <1>4, <1>5, <1>6 DEF Next

-----------------------------------------------------------------------------
(* Tokens: once issued, a token keeps its owner, and expiry is for good.    *)
TokensKept ==
  /\ \A t \in Token : owner[t] # 0 => owner'[t] = owner[t]
  /\ expired \subseteq expired'

LEMMA NextTokensKept ==
  ASSUME TypeOK, [Next]_vars
  PROVE  TokensKept
<1> USE DEF TokensKept, tokens
<1>1. ASSUME NEW c \in Conn, Client(c)
      PROVE  TokensKept
  BY <1>1 DEF Client, Login, LoginRefused, TokenRequest, Disconnect, TypeOK
<1>2. ASSUME NEW c \in Conn, Handler(c)
      PROVE  TokensKept
  BY <1>2 DEF Handler, StoreUser, StoreConnection, CheckToken, QueryDone, PushChecks, SignOnlineState,
              PushLockOnline, PushLockUsers, Send, SendFails, PushUnlock,
              OnConnectionClosed
<1>3. CASE CleanerThread
  BY <1>3 DEF CleanerThread, Collect, CleanerLockUsers, CleanerLockOnline,
              Erase, CleanerExit
<1>4. CASE OnUnload
  BY <1>4 DEF OnUnload
<1>5. ASSUME NEW t \in Token, Expire(t)
      PROVE  TokensKept
  BY <1>5 DEF Expire
<1>6. CASE UNCHANGED vars
  BY <1>6 DEF vars
<1> QED
  BY <1>1, <1>2, <1>3, <1>4, <1>5, <1>6 DEF Next

(* In the form the invariants need it: u stays the owner of its tokens.     *)
LEMMA OwnedTokensKept ==
  ASSUME TypeOK, [Next]_vars, NEW u \in Uid, NEW t \in Token, owner[t] = u
  PROVE  owner'[t] = u
  BY NextTokensKept, UidAssumption DEF TokensKept

-----------------------------------------------------------------------------
(* RequestsFormed *)

LEMMA ClientRequestsFormed ==
  ASSUME TypeInv, NEW c \in Conn, Client(c), TokensKept
  PROVE  RequestsFormed'
<1> USE DEF TypeInv, TypeOK, RequestsFormed, Working, Acting, Goto, Receive
<1>1. ASSUME NEW u \in Uid, NEW t \in Token, Login(c, u, t)
      PROVE  RequestsFormed'
  <2>1. [kind |-> "login", uid |-> u, token |-> t, peer |-> 0] \in Request
    BY DEF Request
  <2>2. owner'[t] = u
    BY <1>1 DEF Login
  <2> SUFFICES ASSUME NEW d \in Conn
               PROVE  RequestsFormed!(d)'
    OBVIOUS
  <2>3. CASE d = c
    BY <1>1, <2>1, <2>2, <2>3 DEF Login
  <2>4. CASE d # c
    BY <1>1, <2>4, UidAssumption DEF Login, Request, TokensKept
  <2> QED
    BY <2>3, <2>4
<1>2. CASE LoginRefused(c)
  BY <1>2 DEF LoginRefused, Return, Abandon, tokens
<1>3. ASSUME NEW k \in Kinds, NEW u \in Uid, NEW t \in Issued \cup {NoToken},
             NEW p \in Uid \cup {0}, TokenRequest(c, k, u, t, p)
      PROVE  RequestsFormed'
  <2>1. [kind |-> k, uid |-> u, token |-> t, peer |-> p] \in Request
    BY KindsAssumption DEF Request, Issued
  <2> QED
    BY <1>3, <2>1 DEF TokenRequest, tokens
<1>4. CASE Disconnect(c)
  BY <1>4 DEF Disconnect, tokens
<1> QED
  BY <1>1, <1>2, <1>3, <1>4 DEF Client

LEMMA HandlerRequestsFormed ==
  ASSUME TypeInv, NEW c \in Conn, Handler(c)
  PROVE  RequestsFormed'
<1> USE DEF TypeInv, TypeOK, RequestsFormed, Working, Acting, Goto, Return,
            Abandon, tokens
<1>1. CASE StoreUser(c)
  BY <1>1 DEF StoreUser
<1>2. CASE StoreConnection(c)
  BY <1>2 DEF StoreConnection
<1>3. CASE CheckToken(c)
  BY <1>3 DEF CheckToken, QueryDone, PushChecks
<1>4. CASE SignOnlineState(c)
  BY <1>4 DEF SignOnlineState
<1>5. CASE PushLockOnline(c)
  BY <1>5 DEF PushLockOnline
<1>6. CASE PushLockUsers(c)
  BY <1>6 DEF PushLockUsers
<1>7. CASE Send(c)
  BY <1>7 DEF Send
<1>8. CASE SendFails(c)
  BY <1>8 DEF SendFails
<1>9. CASE PushUnlock(c)
  BY <1>9 DEF PushUnlock
<1>10. CASE OnConnectionClosed(c)
  BY <1>10 DEF OnConnectionClosed
<1> QED
  BY <1>1, <1>2, <1>3, <1>4, <1>5, <1>6, <1>7, <1>8, <1>9, <1>10 DEF Handler

LEMMA NextRequestsFormed ==
  ASSUME TypeInv, [Next]_vars
  PROVE  RequestsFormed'
<1>1. ASSUME NEW c \in Conn, Client(c)
      PROVE  RequestsFormed'
  BY <1>1, ClientRequestsFormed, NextTokensKept DEF TypeInv
<1>2. ASSUME NEW c \in Conn, Handler(c)
      PROVE  RequestsFormed'
  BY <1>2, HandlerRequestsFormed
<1>3. CASE UNCHANGED <<pc, req, owner>>
  BY <1>3 DEF TypeInv, RequestsFormed
<1>4. CASE CleanerThread
  BY <1>3, <1>4 DEF CleanerThread, Collect, CleanerLockUsers,
                    CleanerLockOnline, Erase, CleanerExit, handlers, tokens
<1>5. CASE OnUnload
  BY <1>3, <1>5 DEF OnUnload, handlers, tokens
<1>6. ASSUME NEW t \in Token, Expire(t)
      PROVE  RequestsFormed'
  BY <1>3, <1>6 DEF Expire, handlers
<1>7. CASE UNCHANGED vars
  BY <1>3, <1>7 DEF vars, handlers, tokens
<1> QED
  BY <1>1, <1>2, <1>4, <1>5, <1>6, <1>7 DEF Next

-----------------------------------------------------------------------------
(* LocksHeld *)

LEMMA ClientLocksHeld ==
  ASSUME TypeInv, LocksHeld, NEW c \in Conn, Client(c)
  PROVE  LocksHeld'
<1> USE DEF TypeInv, TypeOK, LocksHeld, Goto, Receive, mutexes, cleaning
<1>1. ASSUME NEW u \in Uid, NEW t \in Token, Login(c, u, t)
      PROVE  LocksHeld'
  BY <1>1 DEF Login
<1>2. CASE LoginRefused(c)
  BY <1>2 DEF LoginRefused, Return, Abandon
<1>3. ASSUME NEW k \in Kinds, NEW u \in Uid, NEW t \in Issued \cup {NoToken},
             NEW p \in Uid \cup {0}, TokenRequest(c, k, u, t, p)
      PROVE  LocksHeld'
  BY <1>3 DEF TokenRequest
<1>4. CASE Disconnect(c)
  BY <1>4 DEF Disconnect
<1> QED
  BY <1>1, <1>2, <1>3, <1>4 DEF Client

LEMMA HandlerLocksHeld ==
  ASSUME TypeInv, LocksHeld, NEW c \in Conn, Handler(c)
  PROVE  LocksHeld'
<1> USE DEF TypeInv, TypeOK, LocksHeld, Goto, Return, Abandon, mutexes, cleaning
<1>1. CASE StoreUser(c)
  BY <1>1 DEF StoreUser
<1>2. CASE StoreConnection(c)
  BY <1>2 DEF StoreConnection
<1>3. CASE CheckToken(c)
  BY <1>3 DEF CheckToken, QueryDone, PushChecks
<1>4. CASE SignOnlineState(c)
  BY <1>4 DEF SignOnlineState
<1>5. CASE PushLockOnline(c)
  <2>1. /\ online_connections_mutex'.readers
             = online_connections_mutex.readers \cup {c}
        /\ online_connections_mutex'.writer = online_connections_mutex.writer
    BY <1>5, LockSharedMutex DEF PushLockOnline, FreeForShared
  <2> QED
    BY <1>5, <2>1 DEF PushLockOnline
<1>6. CASE PushLockUsers(c)
  <2>1. /\ users_mutex'.readers = users_mutex.readers \cup {c}
        /\ users_mutex'.writer = users_mutex.writer
    BY <1>6, LockSharedMutex DEF PushLockUsers, FreeForShared
  <2> QED
    BY <1>6, <2>1 DEF PushLockUsers
<1>7. CASE Send(c)
  BY <1>7 DEF Send
<1>8. ASSUME ReleaseBoth(c), Return(c), pc[c] \in {"send", "unlock"},
             UNCHANGED cleaner_pc
      PROVE  LocksHeld'
  BY <1>8, UnlockSharedMutex DEF ReleaseBoth
<1>9. CASE SendFails(c)
  BY <1>8, <1>9 DEF SendFails
<1>10. CASE PushUnlock(c)
  BY <1>8, <1>10 DEF PushUnlock
<1>11. CASE OnConnectionClosed(c)
  BY <1>11 DEF OnConnectionClosed
<1> QED
  BY <1>1, <1>2, <1>3, <1>4, <1>5, <1>6, <1>7, <1>9, <1>10, <1>11 DEF Handler

LEMMA CleanerLocksHeld ==
  ASSUME TypeInv, LocksHeld, CleanerThread
  PROVE  LocksHeld'
<1> USE DEF TypeInv, TypeOK, LocksHeld, mutexes, handlers
<1>1. CASE Collect
  BY <1>1 DEF Collect
<1>2. CASE CleanerLockUsers
  BY <1>2, LockUniqueMutex, ThreadAssumption
  DEF CleanerLockUsers, FreeForUnique
<1>3. CASE CleanerLockOnline
  BY <1>3, LockUniqueMutex, ThreadAssumption
  DEF CleanerLockOnline, FreeForUnique
<1>4. CASE Erase
  <2>1. /\ users_mutex'.readers = users_mutex.readers
        /\ online_connections_mutex'.readers = online_connections_mutex.readers
        /\ users_mutex'.writer # Cleaner
        /\ online_connections_mutex'.writer # Cleaner
    BY <1>4, UnlockUniqueMutex, ThreadAssumption DEF Erase
  <2> QED
    BY <1>4, <2>1 DEF Erase
<1>5. CASE CleanerExit
  BY <1>5 DEF CleanerExit
<1> QED
  BY <1>1, <1>2, <1>3, <1>4, <1>5 DEF CleanerThread

LEMMA NextLocksHeld ==
  ASSUME TypeInv, LocksHeld, [Next]_vars
  PROVE  LocksHeld'
<1>1. ASSUME NEW c \in Conn, Client(c)
      PROVE  LocksHeld'
  BY <1>1, ClientLocksHeld
<1>2. ASSUME NEW c \in Conn, Handler(c)
      PROVE  LocksHeld'
  BY <1>2, HandlerLocksHeld
<1>3. CASE CleanerThread
  BY <1>3, CleanerLocksHeld
<1>4. CASE UNCHANGED <<mutexes, pc, cleaner_pc>>
  BY <1>4 DEF LocksHeld, mutexes
<1>5. CASE OnUnload
  BY <1>4, <1>5 DEF OnUnload, handlers
<1>6. ASSUME NEW t \in Token, Expire(t)
      PROVE  LocksHeld'
  BY <1>4, <1>6 DEF Expire, handlers, cleaning
<1>7. CASE UNCHANGED vars
  BY <1>4, <1>7 DEF vars, handlers, cleaning
<1> QED
  BY <1>1, <1>2, <1>3, <1>5, <1>6, <1>7 DEF Next

-----------------------------------------------------------------------------
(* What the locks are for: nobody changes a table while a handler pushes.   *)

LEMMA NothingErasedDuringPush ==
  ASSUME TypeInv, LocksHeld, [Next]_vars, NEW d \in Conn, pc[d] = "send"
  PROVE  UNCHANGED tables
<1>1. ~FreeForUnique(users_mutex) /\ ~FreeForUnique(online_connections_mutex)
  BY DEF LocksHeld, FreeForUnique
<1>2. cleaner_pc # "erase"
  BY WriterExcludesReaders DEF TypeInv, TypeOK, LocksHeld
<1>3. ASSUME NEW c \in Conn, Client(c)
      PROVE  UNCHANGED tables
  BY <1>3 DEF Client, Login, LoginRefused, TokenRequest, Disconnect
<1>4. ASSUME NEW c \in Conn, Handler(c)
      PROVE  UNCHANGED tables
  BY <1>1, <1>4
  DEF Handler, StoreUser, StoreConnection, CheckToken, QueryDone, PushChecks, SignOnlineState,
      PushLockOnline, PushLockUsers, Send, SendFails, PushUnlock,
      OnConnectionClosed, tables
<1>5. CASE CleanerThread
  BY <1>2, <1>5 DEF CleanerThread, Collect, CleanerLockUsers, CleanerLockOnline,
                    Erase, CleanerExit
<1>6. CASE OnUnload \/ UNCHANGED vars
  BY <1>6 DEF OnUnload, vars
<1>7. ASSUME NEW t \in Token, Expire(t)
      PROVE  UNCHANGED tables
  BY <1>7 DEF Expire
<1> QED
  BY <1>3, <1>4, <1>5, <1>6, <1>7 DEF Next

(* The only way to start sending is to find the peer in both tables.        *)
LEMMA SendingStarts ==
  ASSUME TypeOK, [Next]_vars, NEW d \in Conn, pc[d] # "send", pc'[d] = "send"
  PROVE  PushLockUsers(d)
<1> USE DEF TypeOK, Labels, Goto, Return, Abandon, Receive
<1>1. ASSUME NEW c \in Conn, Client(c)
      PROVE  FALSE
  BY <1>1 DEF Client, Login, LoginRefused, TokenRequest, Disconnect
<1>2. ASSUME NEW c \in Conn, Handler(c)
      PROVE  PushLockUsers(d)
  BY <1>2
  DEF Handler, StoreUser, StoreConnection, CheckToken, QueryDone, PushChecks, SignOnlineState,
      PushLockOnline, PushLockUsers, Send, SendFails, PushUnlock,
      OnConnectionClosed
<1>3. CASE UNCHANGED pc
  BY <1>3
<1>4. CASE CleanerThread
  BY <1>3, <1>4 DEF CleanerThread, Collect, CleanerLockUsers, CleanerLockOnline,
                    Erase, CleanerExit, handlers
<1>5. CASE OnUnload \/ UNCHANGED vars
  BY <1>3, <1>5 DEF OnUnload, vars, handlers
<1>6. ASSUME NEW t \in Token, Expire(t)
      PROVE  FALSE
  BY <1>3, <1>6 DEF Expire, handlers
<1> QED
  BY <1>1, <1>2, <1>4, <1>5, <1>6 DEF Next

(* A handler that goes on sending goes on with the same request.            *)
LEMMA SendingKeepsRequest ==
  ASSUME TypeOK, [Next]_vars, NEW d \in Conn, pc[d] = "send", pc'[d] = "send"
  PROVE  req'[d] = req[d]
<1> USE DEF TypeOK, Labels, Goto, Return, Abandon, Receive
<1>1. ASSUME NEW c \in Conn, Client(c)
      PROVE  req'[d] = req[d]
  BY <1>1 DEF Client, Login, LoginRefused, TokenRequest, Disconnect
<1>2. ASSUME NEW c \in Conn, Handler(c)
      PROVE  req'[d] = req[d]
  <2>1. c # d
    BY <1>2
    DEF Handler, StoreUser, StoreConnection, CheckToken, QueryDone, PushChecks, SignOnlineState,
        PushLockOnline, PushLockUsers, Send, SendFails, PushUnlock,
        OnConnectionClosed
  <2>2. req' = req \/ Return(c) \/ Abandon(c)
    BY <1>2
    DEF Handler, StoreUser, StoreConnection, CheckToken, QueryDone, PushChecks, SignOnlineState,
        PushLockOnline, PushLockUsers, Send, SendFails, PushUnlock,
        OnConnectionClosed
  <2> QED
    BY <2>1, <2>2
<1>3. CASE CleanerThread
  BY <1>3 DEF CleanerThread, Collect, CleanerLockUsers, CleanerLockOnline,
              Erase, CleanerExit, handlers
<1>4. CASE OnUnload \/ UNCHANGED vars
  BY <1>4 DEF OnUnload, vars, handlers
<1>5. ASSUME NEW t \in Token, Expire(t)
      PROVE  req'[d] = req[d]
  BY <1>5 DEF Expire, handlers
<1> QED
  BY <1>1, <1>2, <1>3, <1>4, <1>5 DEF Next

LEMMA NextPushTargetStable ==
  ASSUME TypeInv, LocksHeld, PushTargetStable, [Next]_vars
  PROVE  PushTargetStable'
<1> SUFFICES ASSUME NEW d \in Conn, pc'[d] = "send"
             PROVE  PeerOnline(req[d].peer)'
  BY DEF PushTargetStable
<1>1. CASE pc[d] = "send"
  <2>1. PeerOnline(req[d].peer)
    BY <1>1 DEF PushTargetStable
  <2>2. UNCHANGED tables
    BY <1>1, NothingErasedDuringPush
  <2>3. req'[d] = req[d]
    BY <1>1, SendingKeepsRequest DEF TypeInv
  <2> QED
    BY <2>1, <2>2, <2>3 DEF PeerOnline, tables
<1>2. CASE pc[d] # "send"
  <2>1. PushLockUsers(d)
    BY <1>2, SendingStarts DEF TypeInv
  <2> QED
    BY <2>1 DEF PushLockUsers, Goto, TypeInv, TypeOK, PeerOnline, tables
<1> QED
  BY <1>1, <1>2

-----------------------------------------------------------------------------
(* Who a handler acts for, and whose session a user has.                    *)

LEMMA NextActsForTokenOwner ==
  ASSUME TypeInv, SessionsOwned, ActsForTokenOwner, [Next]_vars
  PROVE  ActsForTokenOwner'
<1> USE DEF TypeInv, TypeOK, Labels, ActsForTokenOwner, Acting, Goto, Return,
            Abandon, Receive
<1>0. \A d \in Conn : pc[d] \in Acting =>
        /\ req[d].token \in Token
        /\ owner'[req[d].token] = req[d].uid
  <2> SUFFICES ASSUME NEW d \in Conn, pc[d] \in Acting
               PROVE  /\ req[d].token \in Token
                      /\ owner'[req[d].token] = req[d].uid
    OBVIOUS
  <2>1. req[d].uid \in Uid
    BY DEF RequestsFormed, Working, Request
  <2> QED
    BY <2>1, OwnedTokensKept
<1>1. ASSUME NEW c \in Conn, Client(c)
      PROVE  ActsForTokenOwner'
  <2>1. \A d \in Conn : pc'[d] \in Acting => pc'[d] = pc[d] /\ req'[d] = req[d]
    BY <1>1 DEF Client, Login, LoginRefused, TokenRequest, Disconnect
  <2> QED
    BY <1>0, <2>1
<1>2. ASSUME NEW c \in Conn, Handler(c), ~CheckToken(c)
      PROVE  ActsForTokenOwner'
  <2>1. \A d \in Conn : pc'[d] \in Acting => pc[d] \in Acting /\ req'[d] = req[d]
    BY <1>2
    DEF Handler, StoreUser, StoreConnection, SignOnlineState, PushLockOnline,
        PushLockUsers, Send, SendFails, PushUnlock, OnConnectionClosed
  <2> QED
    BY <1>0, <2>1
<1>3. ASSUME NEW c \in Conn, CheckToken(c)
      PROVE  ActsForTokenOwner'
  <2>1. owner' = owner
    BY <1>3 DEF CheckToken, QueryDone, PushChecks, tokens
  <2>2. \A d \in Conn : pc'[d] \in Acting =>
          req'[d] = req[d] /\ (pc[d] \in Acting \/ d = c)
    BY <1>3 DEF CheckToken, QueryDone, PushChecks
  <2>3. ASSUME pc'[c] \in Acting
        PROVE  req[c].token \in Token /\ owner[req[c].token] = req[c].uid
    <3>1. req[c] \in Request
      BY <1>3 DEF CheckToken, QueryDone, PushChecks, RequestsFormed, Working
    <3>2. TokenAccepted(req[c].uid, req[c].token)
      BY <1>3, <2>3 DEF CheckToken, QueryDone, PushChecks
    <3> QED
      BY <3>1, <3>2 DEF TokenAccepted, SessionsOwned, Request
  <2> QED
    BY <2>1, <2>2, <2>3
<1>4. CASE UNCHANGED <<pc, req>>
  BY <1>0, <1>4
<1>5. CASE CleanerThread
  BY <1>4, <1>5 DEF CleanerThread, Collect, CleanerLockUsers, CleanerLockOnline,
                    Erase, CleanerExit, handlers
<1>6. CASE OnUnload \/ UNCHANGED vars
  BY <1>4, <1>6 DEF OnUnload, vars, handlers
<1>7. ASSUME NEW t \in Token, Expire(t)
      PROVE  ActsForTokenOwner'
  BY <1>4, <1>7 DEF Expire, handlers
<1> QED
  BY <1>1, <1>2, <1>3, <1>5, <1>6, <1>7 DEF Next

LEMMA NextSessionsOwned ==
  ASSUME TypeInv, SessionsOwned, [Next]_vars
  PROVE  SessionsOwned'
<1> USE DEF TypeInv, TypeOK, SessionsOwned
<1>1. ASSUME NEW c \in Conn, StoreUser(c)
      PROVE  SessionsOwned'
  BY <1>1 DEF StoreUser, RequestsFormed, tokens
<1>2. CASE \A u \in Uid : users'[u] \in {users[u], NoToken}
  <2> SUFFICES ASSUME NEW u \in Uid, users'[u] # NoToken
               PROVE  owner'[users'[u]] = u
    OBVIOUS
  <2>1. users'[u] = users[u] /\ users[u] \in Token /\ owner[users[u]] = u
    BY <1>2
  <2> QED
    BY <2>1, OwnedTokensKept
<1>3. ASSUME NEW c \in Conn, Client(c)
      PROVE  SessionsOwned'
  BY <1>2, <1>3 DEF Client, Login, LoginRefused, TokenRequest, Disconnect, tables
<1>4. ASSUME NEW c \in Conn, Handler(c), ~StoreUser(c)
      PROVE  SessionsOwned'
  BY <1>2, <1>4
  DEF Handler, StoreConnection, CheckToken, QueryDone, PushChecks, SignOnlineState, PushLockOnline,
      PushLockUsers, Send, SendFails, PushUnlock, OnConnectionClosed, tables
<1>5. CASE CleanerThread
  BY <1>2, <1>5 DEF CleanerThread, Collect, CleanerLockUsers, CleanerLockOnline,
                    Erase, CleanerExit, tables
<1>6. CASE OnUnload \/ UNCHANGED vars
  BY <1>2, <1>6 DEF OnUnload, vars, tables
<1>7. ASSUME NEW t \in Token, Expire(t)
      PROVE  SessionsOwned'
  BY <1>2, <1>7 DEF Expire, tables
<1> QED
  BY <1>1, <1>3, <1>4, <1>5, <1>6, <1>7 DEF Next

-----------------------------------------------------------------------------
(* Where users are online.                                                  *)

LEMMA NextOnlineWhereAuthenticated ==
  ASSUME TypeInv, OnlineWhereAuthenticated, [Next]_vars
  PROVE  OnlineWhereAuthenticated'
<1> USE DEF TypeInv, TypeOK, OnlineWhereAuthenticated
<1>1. ASSUME NEW c \in Conn, StoreConnection(c) \/ SignOnlineState(c)
      PROVE  OnlineWhereAuthenticated'
  BY <1>1 DEF StoreConnection, SignOnlineState
<1>2. CASE /\ \A u \in Uid : user_connections'[u] \in {user_connections[u], NoConn}
           /\ authenticated' = authenticated
  BY <1>2
<1>3. ASSUME NEW c \in Conn, Client(c)
      PROVE  OnlineWhereAuthenticated'
  BY <1>2, <1>3
  DEF Client, Login, LoginRefused, TokenRequest, Disconnect, tables, history
<1>4. ASSUME NEW c \in Conn, Handler(c), ~StoreConnection(c), ~SignOnlineState(c)
      PROVE  OnlineWhereAuthenticated'
  BY <1>2, <1>4
  DEF Handler, StoreUser, CheckToken, QueryDone, PushChecks, PushLockOnline, PushLockUsers, Send,
      SendFails, PushUnlock, OnConnectionClosed, tables, history
<1>5. CASE CleanerThread
  BY <1>2, <1>5 DEF CleanerThread, Collect, CleanerLockUsers, CleanerLockOnline,
                    Erase, CleanerExit, tables, history
<1>6. CASE OnUnload \/ UNCHANGED vars
  BY <1>2, <1>6 DEF OnUnload, vars, tables, history
<1>7. ASSUME NEW t \in Token, Expire(t)
      PROVE  OnlineWhereAuthenticated'
  BY <1>2, <1>7 DEF Expire, tables, history
<1> QED
  BY <1>1, <1>3, <1>4, <1>5, <1>6, <1>7 DEF Next

(* A closed connection gets no new entry: an entry can only be made by the  *)
(* handler of its own connection.                                           *)
LEMMA NextClosedConnectionForgotten ==
  ASSUME TypeInv, OnlineWhereAuthenticated, ClosedConnectionForgotten,
         [Next]_vars
  PROVE  ClosedConnectionForgotten'
<1> USE DEF TypeInv, TypeOK, Labels, ClosedConnectionForgotten, Goto, Return,
            Abandon, Receive
<1>1. CASE /\ \A d \in Conn : pc'[d] = "closed" => pc[d] = "closed"
           /\ \A d \in Conn, u \in Uid :
                pc'[d] = "closed" /\ user_connections'[u] = d =>
                  user_connections[u] = d
           /\ authenticated \subseteq authenticated'
  BY <1>1
<1>2. ASSUME NEW c \in Conn, Client(c)
      PROVE  ClosedConnectionForgotten'
  BY <1>1, <1>2
  DEF Client, Login, LoginRefused, TokenRequest, Disconnect, tables, history
<1>3. ASSUME NEW c \in Conn, Handler(c), ~OnConnectionClosed(c)
      PROVE  ClosedConnectionForgotten'
  <2>1. \A d \in Conn : pc'[d] = "closed" => pc[d] = "closed" /\ d # c
    BY <1>3
    DEF Handler, StoreUser, StoreConnection, CheckToken, QueryDone, PushChecks, SignOnlineState,
        PushLockOnline, PushLockUsers, Send, SendFails, PushUnlock
  <2>2. /\ \A u \in Uid : user_connections'[u] \in {user_connections[u], c, NoConn}
        /\ authenticated \subseteq authenticated'
    BY <1>3
    DEF Handler, StoreUser, StoreConnection, CheckToken, QueryDone, PushChecks, SignOnlineState,
        PushLockOnline, PushLockUsers, Send, SendFails, PushUnlock, tables,
        history
  <2> QED
    BY <1>1, <2>1, <2>2, ConnAssumption
<1>4. ASSUME NEW c \in Conn, OnConnectionClosed(c)
      PROVE  ClosedConnectionForgotten'
  <2>1. \A u \in Uid : user_connections'[u] \in {user_connections[u], NoConn}
    BY <1>4 DEF OnConnectionClosed, tables
  <2>2. authenticated' = authenticated
    BY <1>4 DEF OnConnectionClosed, history
  <2> SUFFICES ASSUME NEW d \in Conn, NEW u \in Uid,
                      pc'[d] = "closed", user_connections'[u] = d
               PROVE  \E v \in Uid : v # u /\ <<v, d>> \in authenticated
    BY <2>2
  <2>3. user_connections[u] = d
    BY <2>1, ConnAssumption
  <2>4. CASE d # c
    BY <1>4, <2>3, <2>4 DEF OnConnectionClosed
  <2>5. CASE d = c
    <3>1. u \in EntriesOf(c)
      BY <2>3, <2>5 DEF EntriesOf
    <3>2. PICK first \in EntriesOf(c) :
            user_connections' = [user_connections EXCEPT ![first] = NoConn]
      BY <1>4, <3>1 DEF OnConnectionClosed
    <3>3. first # u
      BY <3>2, ConnAssumption
    <3>4. first \in Uid /\ <<first, c>> \in authenticated
      BY ConnAssumption DEF EntriesOf, OnlineWhereAuthenticated
    <3> QED
      BY <2>5, <3>3, <3>4
  <2> QED
    BY <2>4, <2>5
<1>5. CASE CleanerThread
  BY <1>1, <1>5, ConnAssumption
  DEF CleanerThread, Collect, CleanerLockUsers, CleanerLockOnline, Erase,
      CleanerExit, tables, handlers, history
<1>6. CASE OnUnload \/ UNCHANGED vars
  BY <1>1, <1>6 DEF OnUnload, vars, tables, handlers, history
<1>7. ASSUME NEW t \in Token, Expire(t)
      PROVE  ClosedConnectionForgotten'
  BY <1>1, <1>7 DEF Expire, tables, handlers, history
<1> QED
  BY <1>2, <1>3, <1>4, <1>5, <1>6, <1>7 DEF Next

-----------------------------------------------------------------------------
(* Evictions.                                                               *)

LEMMA NextCollectedExpired ==
  ASSUME TypeInv, SessionsOwned, CollectedExpired, [Next]_vars
  PROVE  CollectedExpired'
<1> USE DEF TypeInv, TypeOK, CollectedExpired
<1>1. CASE expired_users' \subseteq expired_users
  <2> SUFFICES ASSUME NEW u \in expired_users
               PROVE  \E t \in expired' : owner'[t] = u
    BY <1>1
  <2>1. PICK t \in expired : owner[t] = u
    OBVIOUS
  <2> QED
    BY <2>1, OwnedTokensKept, NextTokensKept DEF TokensKept
<1>2. CASE Collect
  <2>1. \A u \in ExpiredUsers : users[u] \in expired /\ owner[users[u]] = u
    BY TokenAssumption DEF ExpiredUsers, SessionsOwned
  <2> QED
    BY <1>2, <2>1 DEF Collect, tokens
<1>3. ASSUME NEW c \in Conn, Client(c) \/ Handler(c)
      PROVE  CollectedExpired'
  BY <1>1, <1>3
  DEF Client, Login, LoginRefused, TokenRequest, Disconnect, Handler, StoreUser,
      StoreConnection, CheckToken, QueryDone, PushChecks, SignOnlineState, PushLockOnline,
      PushLockUsers, Send, SendFails, PushUnlock, OnConnectionClosed, cleaning
<1>4. CASE CleanerThread /\ ~Collect
  BY <1>1, <1>4
  DEF CleanerThread, CleanerLockUsers, CleanerLockOnline, Erase, CleanerExit
<1>5. CASE OnUnload \/ UNCHANGED vars
  BY <1>1, <1>5 DEF OnUnload, vars, cleaning
<1>6. ASSUME NEW t \in Token, Expire(t)
      PROVE  CollectedExpired'
  BY <1>1, <1>6 DEF Expire, cleaning
<1> QED
  BY <1>2, <1>3, <1>4, <1>5, <1>6 DEF Next

LEMMA NextNeverEvictedWithoutExpiry ==
  ASSUME TypeInv, CollectedExpired, NeverEvictedWithoutExpiry, [Next]_vars
  PROVE  NeverEvictedWithoutExpiry'
<1> USE DEF TypeInv, TypeOK, NeverEvictedWithoutExpiry
<1>0. ASSUME NEW u \in Uid, \E t \in expired : owner[t] = u
      PROVE  \E t \in expired' : owner'[t] = u
  BY <1>0, OwnedTokensKept, NextTokensKept DEF TokensKept
<1>1. CASE UNCHANGED <<users, latest>>
  BY <1>0, <1>1
<1>2. ASSUME NEW c \in Conn, StoreUser(c)
      PROVE  NeverEvictedWithoutExpiry'
  <2>1. req[c].token # NoToken
    BY <1>2, TokenAssumption DEF StoreUser, RequestsFormed
  <2> QED
    BY <1>0, <1>2, <2>1 DEF StoreUser
<1>3. CASE Erase
  <2> SUFFICES ASSUME NEW u \in Uid, latest'[u] # NoToken, users'[u] = NoToken
               PROVE  \E t \in expired : owner[t] = u
    BY <1>0
  <2>1. u \in expired_users \/ (users[u] = NoToken /\ latest[u] # NoToken)
    BY <1>3 DEF Erase, history
  <2> QED
    BY <2>1 DEF CollectedExpired
<1>4. ASSUME NEW c \in Conn, Client(c)
      PROVE  NeverEvictedWithoutExpiry'
  BY <1>1, <1>4
  DEF Client, Login, LoginRefused, TokenRequest, Disconnect, tables, history
<1>5. ASSUME NEW c \in Conn, Handler(c), ~StoreUser(c)
      PROVE  NeverEvictedWithoutExpiry'
  BY <1>1, <1>5
  DEF Handler, StoreConnection, CheckToken, QueryDone, PushChecks, SignOnlineState, PushLockOnline,
      PushLockUsers, Send, SendFails, PushUnlock, OnConnectionClosed, tables,
      history
<1>6. CASE CleanerThread /\ ~Erase
  BY <1>1, <1>6
  DEF CleanerThread, Collect, CleanerLockUsers, CleanerLockOnline, CleanerExit,
      tables, history
<1>7. CASE OnUnload \/ UNCHANGED vars
  BY <1>1, <1>7 DEF OnUnload, vars, tables, history
<1>8. ASSUME NEW t \in Token, Expire(t)
      PROVE  NeverEvictedWithoutExpiry'
  BY <1>1, <1>8 DEF Expire, tables, history
<1> QED
  BY <1>2, <1>3, <1>4, <1>5, <1>6, <1>7, <1>8 DEF Next

-----------------------------------------------------------------------------
(* The inductive invariant, and what it implies.                            *)

LEMMA InitIInv == Init => IInv
<1> SUFFICES ASSUME Init
             PROVE  IInv
  OBVIOUS
<1>1. TypeOK
  BY InitTypeOK
<1>2. LocksHeld
  BY ThreadAssumption DEF Init, LocksHeld, Unlocked
<1> QED
  BY <1>1, <1>2
  DEF Init, IInv, RequestsFormed, Working, Acting, PushTargetStable,
      ActsForTokenOwner, SessionsOwned, OnlineWhereAuthenticated,
      ClosedConnectionForgotten, CollectedExpired, NeverEvictedWithoutExpiry

LEMMA NextIInv == IInv /\ [Next]_vars => IInv'
  BY NextTypeOK, NextRequestsFormed, NextLocksHeld, NextPushTargetStable,
     NextActsForTokenOwner, NextSessionsOwned, NextOnlineWhereAuthenticated,
     NextClosedConnectionForgotten, NextCollectedExpired,
     NextNeverEvictedWithoutExpiry
  DEF IInv, TypeInv

(* The inductive invariant holds in every reachable state of the module, for *)
(* any number of users, connections and tokens, and any mix of requests.     *)
THEOREM Invariance == Spec => []IInv
  BY InitIInv, NextIInv, PTL DEF Spec

(* Type correctness; with the type Mutex, exclusive and shared holders of a  *)
(* mutex never coexist.                                                      *)
THEOREM TypeCorrect == Spec => []TypeOK
<1>1. IInv => TypeOK
  BY DEF IInv
<1> QED
  BY <1>1, Invariance, PTL

(* No push dereferences an entry that is gone (386-395, 146-159).            *)
THEOREM PushesAreSafe == Spec => []PushTargetStable
<1>1. IInv => PushTargetStable
  BY DEF IInv
<1> QED
  BY <1>1, Invariance, PTL

(* Whoever passes check_token holds a token issued to the uid it acts for.   *)
THEOREM Authentication == Spec => []ActsForTokenOwner
<1>1. IInv => ActsForTokenOwner
  BY DEF IInv
<1> QED
  BY <1>1, Invariance, PTL

(* OnConnectionClosed forgets the connection of a client that was one user.  *)
THEOREM ClosedIsForgotten == Spec => []ClosedConnectionForgotten
<1>1. IInv => ClosedConnectionForgotten
  BY DEF IInv
<1> QED
  BY <1>1, Invariance, PTL

(* Nobody is signed out who never let a token expire.                        *)
THEOREM EvictionNeedsExpiry == Spec => []NeverEvictedWithoutExpiry
<1>1. IInv => NeverEvictedWithoutExpiry
  BY DEF IInv
<1> QED
  BY <1>1, Invariance, PTL

-----------------------------------------------------------------------------
(* UserControl implements SessionTable.                                      *)

LEMMA InitTable == Init => Table!Init
  BY DEF Init, Table!Init

LEMMA NextTable ==
  ASSUME IInv, [Next]_vars
  PROVE  [Table!Next]_(Table!vars)
<1> DEFINE TableSame == UNCHANGED <<users, user_connections, owner, expired>>
<1> USE DEF Table!vars
<1>1. CASE TableSame
  BY <1>1
<1>2. ASSUME NEW c \in Conn, Client(c)
      PROVE  [Table!Next]_(Table!vars)
  <2>1. ASSUME NEW u \in Uid, NEW t \in Token, Login(c, u, t)
        PROVE  Table!Issue(u, t)
    BY <2>1 DEF Login, Table!Issue, tables
  <2>2. TableSame \/ \E u \in Uid, t \in Token : Login(c, u, t)
    BY <1>2 DEF Client, LoginRefused, TokenRequest, Disconnect, tables, tokens
  <2> QED
    BY <1>1, <2>1, <2>2 DEF Table!Next
<1>3. ASSUME NEW c \in Conn, Handler(c)
      PROVE  [Table!Next]_(Table!vars)
  <2> USE DEF tables, tokens
  <2>1. CASE StoreUser(c)
    <3>1. /\ req[c].uid \in Uid
          /\ req[c].token \in Token
          /\ owner[req[c].token] = req[c].uid
      BY <2>1 DEF StoreUser, IInv, RequestsFormed, Working, Request
    <3>2. Table!SignIn(req[c].uid, req[c].token)
      BY <2>1, <3>1 DEF StoreUser, Table!SignIn
    <3> QED
      BY <3>1, <3>2 DEF Table!Next
  <2>2. CASE StoreConnection(c)
    <3>1. req[c].uid \in Uid
      BY <2>2 DEF StoreConnection, IInv, RequestsFormed, Working, Request
    <3>2. Table!GoOnline(req[c].uid, c)
      BY <2>2 DEF StoreConnection, Table!GoOnline
    <3> QED
      BY <3>1, <3>2 DEF Table!Next
  <2>3. CASE SignOnlineState(c)
    <3>1. req[c].uid \in Uid
      BY <2>3 DEF SignOnlineState, IInv, RequestsFormed, Working, Acting, Request
    <3>2. Table!GoOnline(req[c].uid, c) \/ Table!GoOffline(req[c].uid)
      BY <2>3 DEF SignOnlineState, Table!GoOnline, Table!GoOffline
    <3> QED
      BY <3>1, <3>2 DEF Table!Next
  <2>4. CASE OnConnectionClosed(c)
    <3>1. TableSame \/ \E u \in Uid : Table!GoOffline(u)
      BY <2>4 DEF OnConnectionClosed, EntriesOf, Table!GoOffline
    <3> QED
      BY <1>1, <3>1 DEF Table!Next
  <2>5. CASE /\ ~StoreUser(c) /\ ~StoreConnection(c) /\ ~SignOnlineState(c)
             /\ ~OnConnectionClosed(c)
    BY <1>1, <1>3, <2>5
    DEF Handler, CheckToken, QueryDone, PushChecks, PushLockOnline, PushLockUsers, Send, SendFails,
        PushUnlock
  <2> QED
    BY <2>1, <2>2, <2>3, <2>4, <2>5
<1>4. CASE Erase
  <2>1. expired_users \in SUBSET Uid
    BY DEF IInv, TypeOK
  <2>2. Table!SignOut(expired_users)
    BY <1>4 DEF Erase, Table!SignOut, IInv, CollectedExpired, tokens
  <2> QED
    BY <2>1, <2>2 DEF Table!Next
<1>5. CASE CleanerThread /\ ~Erase
  BY <1>1, <1>5
  DEF CleanerThread, Collect, CleanerLockUsers, CleanerLockOnline, CleanerExit,
      tables, tokens
<1>6. CASE OnUnload \/ UNCHANGED vars
  BY <1>1, <1>6 DEF OnUnload, vars, tables, tokens
<1>7. ASSUME NEW t \in Token, Expire(t)
      PROVE  [Table!Next]_(Table!vars)
  <2>1. Table!Expire(t)
    BY <1>7 DEF Expire, Issued, Table!Expire, tables
  <2> QED
    BY <2>1 DEF Table!Next
<1> QED
  BY <1>2, <1>3, <1>4, <1>5, <1>6, <1>7 DEF Next

(* Whatever the threads do, the two tables change only by the atomic         *)
(* operations of SessionTable; an eviction takes a uid out of both at once.  *)
THEOREM Refinement == Spec => ImplementsSessionTable
<1>1. IInv /\ [Next]_vars => [Table!Next]_(Table!vars)
  BY NextTable
<1> QED
  BY <1>1, InitTable, Invariance, PTL DEF Spec, ImplementsSessionTable, Table!Spec
=============================================================================
