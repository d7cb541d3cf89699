----------------------------- MODULE FriendGraph ----------------------------
(***************************************************************************)
(* What the friend files of a user directory are for: a set of pending     *)
(* requests and a symmetric friendship, changed by asking and answering.   *)
(* FriendStore.tla keeps both in one file per user and is shown to         *)
(* implement this.  What two handlers or a crash may spoil there is given  *)
(* up here: of a lost pair nothing is promised any more.                   *)
(***************************************************************************)
CONSTANT User

VARIABLES pending,     \* the pairs <<u, v>> where u asked v and v has not answered
          friendships, \* the unordered pairs {u, v}
          lost         \* the unordered pairs {u, v} that were given up

vars == <<pending, friendships, lost>>

Init == pending = {} /\ friendships = {} /\ lost = {}

(* One asks only somebody else, who is not a friend and not asked yet.     *)
Ask(u, v) ==
  /\ u # v
  /\ {u, v} \notin friendships \cup lost
  /\ <<u, v>> \notin pending
  /\ pending' = pending \cup {<<u, v>>}
  /\ UNCHANGED <<friendships, lost>>

(* Only who was asked can accept, and accepting makes both friends.        *)
Accept(u, v) ==
  /\ <<u, v>> \in pending
  /\ {u, v} \notin friendships
  /\ friendships' = friendships \cup {{u, v}}
  /\ pending' = pending \ {<<u, v>>}
  /\ UNCHANGED lost

Ignore(u, v) ==
  /\ <<u, v>> \in pending
  /\ pending' = pending \ {<<u, v>>}
  /\ UNCHANGED <<friendships, lost>>

(* Pairs are lost for good, and nothing changes for the others.            *)
Lose ==
  /\ lost \subseteq lost' /\ lost' \subseteq {{p[1], p[2]} : p \in User \X User}
  /\ pending' = {p \in pending : {p[1], p[2]} \notin lost'}
  /\ friendships' = friendships \ lost'

Next == Lose \/ \E u, v \in User : Ask(u, v) \/ Accept(u, v) \/ Ignore(u, v)

Spec == Init /\ [][Next]_vars
=============================================================================
