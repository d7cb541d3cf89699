---------------------------- MODULE SessionTable ----------------------------
(***************************************************************************)
(* What UserControlModule promises about its two tables, as a table whose  *)
(* operations are atomic: the token a uid is signed in with, and the       *)
(* connection its pushes go to.  No locks, no threads.  UserControl.tla is *)
(* shown to implement it.                                                  *)
(***************************************************************************)
EXTENDS Naturals

CONSTANTS Uid, Token, Conn, NoToken, NoConn

VARIABLES users,             \* the token each uid is signed in with
          user_connections,  \* the connection each uid is online on
          owner,             \* the uid a token was issued to, 0 if not issued
          expired            \* the tokens whose deadline has passed

vars == <<users, user_connections, owner, expired>>

Init ==
  /\ users = [u \in Uid |-> NoToken]
  /\ user_connections = [u \in Uid |-> NoConn]
  /\ owner = [t \in Token |-> 0]
  /\ expired = {}

(* A password was accepted: a token nobody holds is issued to u.           *)
Issue(u, t) ==
  /\ owner[t] = 0
  /\ owner' = [owner EXCEPT ![t] = u]
  /\ UNCHANGED <<users, user_connections, expired>>

(* Only a token issued to u becomes the session of u.                      *)
SignIn(u, t) ==
  /\ owner[t] = u
  /\ users' = [users EXCEPT ![u] = t]
  /\ UNCHANGED <<user_connections, owner, expired>>

GoOnline(u, c) ==
  /\ user_connections' = [user_connections EXCEPT ![u] = c]
  /\ UNCHANGED <<users, owner, expired>>

GoOffline(u) ==
  /\ user_connections' = [user_connections EXCEPT ![u] = NoConn]
  /\ UNCHANGED <<users, owner, expired>>

Expire(t) ==
  /\ owner[t] # 0
  /\ expired' = expired \cup {t}
  /\ UNCHANGED <<users, user_connections, owner>>

(* A set of uids is signed out, from both tables in one step, and only     *)
(* uids one of whose tokens has expired.                                   *)
SignOut(S) ==
  /\ \A u \in S : \E t \in expired : owner[t] = u
  /\ users' = [u \in Uid |-> IF u \in S THEN NoToken ELSE users[u]]
  /\ user_connections' =
       [u \in Uid |-> IF u \in S THEN NoConn ELSE user_connections[u]]
  /\ UNCHANGED <<owner, expired>>

Next ==
  \/ \E u \in Uid, t \in Token : Issue(u, t) \/ SignIn(u, t)
  \/ \E u \in Uid, c \in Conn : GoOnline(u, c)
  \/ \E u \in Uid : GoOffline(u)
  \/ \E t \in Token : Expire(t)
  \/ \E S \in SUBSET Uid : SignOut(S)

Spec == Init /\ [][Next]_vars
=============================================================================
