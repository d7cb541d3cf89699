------------------------------ MODULE Sessions ------------------------------
(***************************************************************************)
(* The messages of friends (sessions.cpp and the handlers 201 and 203 of   *)
(* online_user_collection.cpp).  Every user has a table that says which    *)
(* session he shares with which friend, every session a table of messages. *)
(* A first message makes the session and enters it in both users' tables.  *)
(*                                                                         *)
(* Each step is one SQL statement, which SQLite makes atomic, or one       *)
(* critical section of sessions_rw_lock.  No transaction and no lock spans *)
(* two of them.                                                            *)
(***************************************************************************)
EXTENDS Integers, Sequences, FiniteSets

CONSTANTS
  User,           \* the registered users, who are all friends
  Thread,         \* the threads that handle requests
  Session,        \* the UUIDs that can be generated
  Ranges,         \* the ranges that clients ask for, pairs of integers
  Faults,         \* what may go wrong: "busy" databases, a "crash"
  MaxOperations,  \* a bound: the requests handled in the run
  NoSession,
  NoOperation,
  NoAnswer

ASSUME SessionAssumption == NoSession \notin Session
ASSUME RangesAssumption == Ranges \subseteq Int \X Int
ASSUME FaultsAssumption == Faults \subseteq {"busy", "crash"}
ASSUME MaxOperationsAssumption == MaxOperations \in Nat

VARIABLES
  sessions,          \* the rows of table sessions
  members,           \* session -> the uids in its column members
  user_tables,       \* the users who have a table <uid>_friends_sessions
  friends_sessions,  \* user -> friend -> session, the rows of these tables
  message_tables,    \* the sessions that have a table session_messages_<uuid>
  messages,          \* session -> its messages in the order of their times
  op,                \* thread -> the request it handles
  pc,                \* thread -> what it does next
  session_id,        \* thread -> the session it is making or using
  answer,            \* the last range of messages a client was sent
  acknowledged,      \* history: the messages that 201 stored with success
  disturbed,         \* history: the pairs {u, v} whose requests 201 have
                     \* overlapped or have been cut short
  begun              \* requests handled so far

tables == <<sessions, members, user_tables, friends_sessions>>
logs == <<message_tables, messages>>
handlers == <<op, pc, session_id>>
history == <<acknowledged, disturbed>>
vars == <<tables, logs, handlers, answer, history, begun>>

Init ==
  /\ sessions = {}
  /\ members = [s \in Session |-> {}]
  /\ user_tables = {}
  /\ friends_sessions = [u \in User |-> [v \in User |-> NoSession]]
  /\ message_tables = {}
  /\ messages = [s \in Session |-> <<>>]
  /\ op = [t \in Thread |-> NoOperation]
  /\ pc = [t \in Thread |-> "idle"]
  /\ session_id = [t \in Thread |-> NoSession]
  /\ answer = NoAnswer
  /\ acknowledged = {}
  /\ disturbed = {}
  /\ begun = 0

-----------------------------------------------------------------------------
(* Requests *)

Self(t) == op[t].self
Peer(t) == op[t].peer
Entry(u, v) == friends_sessions[u][v]

Sending(t) == pc[t] # "idle" /\ op[t].kind = "send"
PairOf(t) == {Self(t), Peer(t)}

Goto(t, label) ==
  /\ pc' = [pc EXCEPT ![t] = label]
  /\ UNCHANGED op

(* The handler answers, or an exception ends it.                           *)
End(t) ==
  /\ pc' = [pc EXCEPT ![t] = "idle"]
  /\ op' = [op EXCEPT ![t] = NoOperation]
  /\ session_id' = [session_id EXCEPT ![t] = NoSession]

(* The handler goes on if the test succeeds, and answers an error if not.  *)
Proceed(t, test, label) ==
  IF test THEN Goto(t, label) /\ UNCHANGED session_id ELSE End(t)

Start(t, operation) ==
  /\ pc[t] = "idle"
  /\ begun < MaxOperations
  /\ begun' = begun + 1
  /\ op' = [op EXCEPT ![t] = operation]
  /\ pc' = [pc EXCEPT ![t] = "open_own"]
  /\ UNCHANGED <<tables, logs, session_id, answer, acknowledged>>

(* 201: u sends v a message, the begun-th of the run.                      *)
Send(t, u, v) ==
  /\ u # v
  /\ Start(t, [kind |-> "send", self |-> u, peer |-> v, number |-> begun])
  /\ disturbed' = disturbed \cup
       {p \in {{u, v}} : \E s \in Thread : Sending(s) /\ PairOf(s) = p}

(* 203: u asks for a range of his messages with v.                         *)
Query(t, u, v, range) ==
  /\ u # v
  /\ Start(t, [kind |-> "query", self |-> u, peer |-> v, range |-> range])
  /\ UNCHANGED disturbed

-----------------------------------------------------------------------------
(* The constructor of FriendsSessions: two statements, of which the second *)
(* fails if the table has been made meanwhile.  (IsTableExist dereferences *)
(* the end of an empty map when there is no table; the models take the     *)
(* outcome that the name does not match, or, as "crash", that the process   *)
(* dies.)                                                                  *)

AfterOpenOwn(t) == IF op[t].kind = "send" THEN "open_theirs" ELSE "look"

Open(t, label, owner, create, next) ==
  /\ pc[t] = label
  /\ Goto(t, IF owner \in user_tables THEN next ELSE create)
  /\ UNCHANGED <<tables, logs, session_id, history, begun>>

Create(t, label, owner, next) ==
  /\ pc[t] = label
  /\ user_tables' = user_tables \cup {owner}
  /\ Proceed(t, owner \notin user_tables, next)
  /\ UNCHANGED <<sessions, members, friends_sessions, logs, history, begun>>

OpenTables(t) ==
  \/ Open(t, "open_own", Self(t), "create_own", AfterOpenOwn(t))
  \/ Create(t, "create_own", Self(t), AfterOpenOwn(t))
  \/ Open(t, "open_theirs", Peer(t), "create_theirs", "look")
  \/ Create(t, "create_theirs", Peer(t), "look")

-----------------------------------------------------------------------------
(* 201: send_message_to_friend_message *)

(* There is a session for the friend, or one has to be made.               *)
FindSession(t) ==
  /\ pc[t] = "look"
  /\ op[t].kind = "send"
  /\ Goto(t, IF Entry(Self(t), Peer(t)) = NoSession THEN "create" ELSE "use")
  /\ UNCHANGED <<tables, logs, session_id, history, begun>>

(* A fresh UUID and its row in table sessions.                             *)
CreateSession(t) ==
  /\ pc[t] = "create"
  /\ \E s \in Session \ sessions :
       /\ sessions' = sessions \cup {s}
       /\ session_id' = [session_id EXCEPT ![t] = s]
  /\ Goto(t, "add_members")
  /\ UNCHANGED <<members, user_tables, friends_sessions, logs, history, begun>>

AddMembers(t) ==
  /\ pc[t] = "add_members"
  /\ members' = [members EXCEPT ![session_id[t]] = @ \cup PairOf(t)]
  /\ Goto(t, "add_own")
  /\ UNCHANGED <<sessions, user_tables, friends_sessions, logs, session_id,
                 history, begun>>

(* Mutant: the row is replaced if there is one (INSERT OR REPLACE). *)
AddFriendSession_Replaces(t, u, v, next) ==
  /\ friends_sessions' = [friends_sessions EXCEPT ![u][v] = session_id[t]]
  /\ Goto(t, next)
  /\ UNCHANGED session_id

(* friend_uuid is a primary key: the second row for a friend is refused.   *)
AddFriendSession(t, u, v, next) ==
  /\ friends_sessions' = IF Entry(u, v) = NoSession
                         THEN [friends_sessions EXCEPT ![u][v] = session_id[t]]
                         ELSE friends_sessions
  /\ Proceed(t, Entry(u, v) = NoSession, next)

AddOwnSession(t) ==
  /\ pc[t] = "add_own"
  /\ AddFriendSession(t, Self(t), Peer(t), "add_theirs")
  /\ UNCHANGED <<sessions, members, user_tables, logs, history, begun>>

(* Mutant: the friend's table is forgotten. *)
AddFriendsSession_Forgotten(t) ==
  /\ pc[t] = "add_theirs"
  /\ Goto(t, "use")
  /\ UNCHANGED <<tables, session_id, logs, history, begun>>

AddFriendsSession(t) ==
  /\ pc[t] = "add_theirs"
  /\ AddFriendSession(t, Peer(t), Self(t), "use")
  /\ UNCHANGED <<sessions, members, user_tables, logs, history, begun>>

(* Mutant: the WHERE clause is dropped, and the first row taken. *)
OwnSession_AnyRow(t) ==
  CHOOSE s \in {Entry(Self(t), v) : v \in User} : s # NoSession

(* GetFriendSession *)
OwnSession(t) == Entry(Self(t), Peer(t))

(* The constructor of Session looks for its row; there is one, see         *)
(* SessionsArePrivate.                                                     *)
UseSession(t) ==
  /\ pc[t] = "use"
  /\ OwnSession(t) \in sessions
  /\ session_id' = [session_id EXCEPT ![t] = OwnSession(t)]
  /\ Goto(t, "make_log")
  /\ UNCHANGED <<tables, logs, history, begun>>

(* AddMessage: its table is made if need be, then the message is inserted. *)
MakeMessageTable(t) ==
  /\ pc[t] = "make_log"
  /\ message_tables' = message_tables \cup {session_id[t]}
  /\ Goto(t, "add_message")
  /\ UNCHANGED <<tables, messages, session_id, history, begun>>

Message(t) == [from |-> Self(t), to |-> Peer(t), number |-> op[t].number]

AddMessage(t) ==
  /\ pc[t] = "add_message"
  /\ messages' = [messages EXCEPT ![session_id[t]] = Append(@, Message(t))]
  /\ acknowledged' = acknowledged \cup {Message(t)}
  /\ End(t)
  /\ UNCHANGED <<tables, message_tables, disturbed, begun>>

-----------------------------------------------------------------------------
(* 203: get_messages_message *)

(* "LIMIT l OFFSET o" of SQLite: no limit if l is negative, and no offset  *)
(* if o is.                                                                *)
Page(list, l, o) ==
  LET first == IF o < 0 THEN 0 ELSE o
      end == IF l < 0 \/ first + l > Len(list) THEN Len(list) ELSE first + l
  IN  SubSeq(list, first + 1, end)

Refused(range) ==
  \/ range[1] < 0 /\ range[2] >= 0
  \/ range[2] < range[1] /\ ~(range[1] >= 0 /\ range[2] < 0)

(* Mutant: the range is taken for half open. *)
GetMessages_HalfOpen(list, range) ==
  LET a == range[1]
      b == range[2]
      n == Len(list)
  IN  CASE a >= 0 /\ b < 0 -> Page(list, n + b - a, a)
        [] a >= 0 /\ b >= 0 -> Page(list, b - a, a)
        [] OTHER -> Page(list, b - a, n + a)

(* The three queries of Session::GetMessages, for a range not refused.     *)
GetMessages(list, range) ==
  LET a == range[1]
      b == range[2]
      n == Len(list)
  IN  CASE a >= 0 /\ b < 0 -> Page(list, n + 1 + b - a, a)
        [] a >= 0 /\ b >= 0 -> Page(list, b - a + 1, a)
        [] OTHER -> Page(list, b - a + 1, n + a)

(* Without a session the answer is an empty list.                          *)
LookForMessages(t) ==
  /\ pc[t] = "look"
  /\ op[t].kind = "query"
  /\ Proceed(t, Entry(Self(t), Peer(t)) # NoSession, "read")
  /\ UNCHANGED <<tables, logs, history, begun>>

(* GetFriendSession finds what was seen before: rows are never changed.    *)
(* A table of messages that is not there yet makes the query fail.         *)
ReadMessages(t) ==
  LET list == messages[OwnSession(t)]
      range == op[t].range
  IN  /\ pc[t] = "read"
      /\ answer' = [log |-> list, range |-> range,
                    ok |-> OwnSession(t) \in message_tables /\ ~Refused(range),
                    list |-> GetMessages(list, range)]
      /\ End(t)
      /\ UNCHANGED <<tables, logs, history, begun>>

-----------------------------------------------------------------------------
(* Faults *)

CutShort(T) == disturbed' = disturbed \cup {PairOf(t) : t \in {r \in T : Sending(r)}}

(* Every handler has its own connection to the database, and none waits    *)
(* for a lock: a statement fails while another handler's is under way.     *)
Busy(t) ==
  /\ "busy" \in Faults
  /\ pc[t] # "idle"
  /\ \E s \in Thread \ {t} : pc[s] # "idle"
  /\ End(t)
  /\ CutShort({t})
  /\ UNCHANGED <<tables, logs, acknowledged, begun>>

Crash ==
  /\ "crash" \in Faults
  /\ \E t \in Thread : pc[t] # "idle"
  /\ op' = [t \in Thread |-> NoOperation]
  /\ pc' = [t \in Thread |-> "idle"]
  /\ session_id' = [t \in Thread |-> NoSession]
  /\ CutShort(Thread)
  /\ UNCHANGED <<tables, logs, acknowledged, begun>>

-----------------------------------------------------------------------------
Handler(t) ==
  \/ OpenTables(t)
  \/ FindSession(t)
  \/ CreateSession(t)
  \/ AddMembers(t)
  \/ AddOwnSession(t)
  \/ AddFriendsSession(t)
  \/ UseSession(t)
  \/ MakeMessageTable(t)
  \/ AddMessage(t)
  \/ LookForMessages(t)
  \/ Busy(t)

Next ==
  \/ \E t \in Thread :
       \/ \E u, v \in User : Send(t, u, v) \/ \E r \in Ranges : Query(t, u, v, r)
       \/ Handler(t) /\ answer' = NoAnswer
       \/ ReadMessages(t)
  \/ Crash /\ answer' = NoAnswer

Spec == Init /\ [][Next]_vars

-----------------------------------------------------------------------------
(* Properties *)

Labels == {"idle", "open_own", "create_own", "open_theirs", "create_theirs",
           "look", "create", "add_members", "add_own", "add_theirs", "use",
           "make_log", "add_message", "read"}

Messages == [from : User, to : User, number : Nat]

Operations ==
  [kind : {"send"}, self : User, peer : User, number : Nat]
    \cup [kind : {"query"}, self : User, peer : User, range : Ranges]

Answers ==
  [log : Seq(Messages), range : Ranges, ok : BOOLEAN, list : Seq(Messages)]

(* Every variable keeps its type: in particular no message table is made   *)
(* for, and no message stored in, a session nobody has looked up.          *)
TypeOK ==
  /\ sessions \subseteq Session
  /\ members \in [Session -> SUBSET User]
  /\ user_tables \subseteq User
  /\ friends_sessions \in [User -> [User -> Session \cup {NoSession}]]
  /\ message_tables \subseteq Session
  /\ messages \in [Session -> Seq(Messages)]
  /\ op \in [Thread -> Operations \cup {NoOperation}]
  /\ pc \in [Thread -> Labels]
  /\ session_id \in [Thread -> Session \cup {NoSession}]
  /\ answer \in Answers \cup {NoAnswer}
  /\ acknowledged \subseteq Messages
  /\ disturbed \subseteq SUBSET User
  /\ begun \in Nat

In(m, list) == \E i \in 1..Len(list) : list[i] = m

(* A session that is in the table of u for v is in table sessions, has u   *)
(* and v as its members and holds messages between u and v only, however   *)
(* requests interleave and wherever one is cut short: 203 shows nobody the *)
(* messages of others.                                                     *)
SessionsArePrivate ==
  \A u, v \in User :
    Entry(u, v) # NoSession =>
      /\ Entry(u, v) \in sessions
      /\ members[Entry(u, v)] = {u, v}
      /\ \A i \in 1..Len(messages[Entry(u, v)]) :
           LET m == messages[Entry(u, v)][i] IN {m.from, m.to} = {u, v}

(* A message that 201 acknowledged stays where its sender's 203 looks.     *)
AcknowledgedKept ==
  \A m \in acknowledged :
    LET s == Entry(m.from, m.to)
    IN  s \in message_tables /\ In(m, messages[s])

(* Two friends have the same session, or both none, unless 201 is being    *)
(* handled for them, or was for both at once, or was cut short.            *)
OneSession ==
  \A u, v \in User :
    Entry(u, v) = Entry(v, u) \/ {u, v} \in disturbed
      \/ \E t \in Thread : Sending(t) /\ PairOf(t) = {u, v}

(* What keeps those true.  A busy thread has a request of the right kind.  *)
(* The session a thread is making is in table sessions, without members at *)
(* first and then with the two friends; two threads never make the same.   *)
(* A session without its row has no members.  A thread that is going to    *)
(* store a message has the session of its own table.  Messages are stored  *)
(* only between the members of a session.                                  *)
SendLabels == {"open_theirs", "create_theirs", "create", "add_members", "add_own",
               "add_theirs", "use", "make_log", "add_message"}

BusyThread(t) ==
  /\ pc[t] # "idle" => op[t] \in Operations
  /\ pc[t] # "idle" /\ op[t].kind = "send" => Self(t) # Peer(t)
  /\ pc[t] \in SendLabels => op[t].kind = "send"
  /\ pc[t] = "read" => op[t].kind = "query" /\ OwnSession(t) # NoSession

Making(t) ==
  /\ pc[t] \in {"add_members", "add_own", "add_theirs", "make_log", "add_message"} =>
       session_id[t] \in sessions
  /\ pc[t] = "add_members" => members[session_id[t]] = {}
  /\ pc[t] \in {"add_own", "add_theirs", "make_log", "add_message"} =>
       members[session_id[t]] = PairOf(t)
  /\ pc[t] \in {"make_log", "add_message"} => session_id[t] = OwnSession(t)
  /\ pc[t] = "add_message" => session_id[t] \in message_tables

MakersDistinct ==
  \A s, t \in Thread :
    pc[s] = "add_members" /\ pc[t] = "add_members" /\ s # t =>
      session_id[s] # session_id[t]

MembersOfSessions == \A s \in Session \ sessions : members[s] = {}

MessagesOfMembers ==
  \A s \in Session :
    \A i \in 1..Len(messages[s]) :
      {messages[s][i].from, messages[s][i].to} = members[s]

EntriesRight ==
  \A u, v \in User :
    Entry(u, v) # NoSession =>
      Entry(u, v) \in sessions /\ members[Entry(u, v)] = {u, v}

(* For OneSession: only one request 201 is handled for an undisturbed pair, *)
(* and it knows what the two tables hold.                                  *)
SoleSender ==
  \A s, t \in Thread :
    Sending(s) /\ Sending(t) /\ s # t /\ PairOf(s) = PairOf(t) =>
      PairOf(t) \in disturbed

WithoutEntries == {"create", "add_members", "add_own"}

Phase(t) ==
  LET own == Entry(Self(t), Peer(t))
      theirs == Entry(Peer(t), Self(t))
  IN  /\ pc[t] \in WithoutEntries => own = NoSession /\ theirs = NoSession
      /\ pc[t] = "add_theirs" => own = session_id[t] /\ theirs = NoSession
      /\ pc[t] \notin WithoutEntries \cup {"add_theirs"} => own = theirs

Undisturbed == \A t \in Thread : Sending(t) /\ PairOf(t) \notin disturbed => Phase(t)

IInv ==
  /\ TypeOK
  /\ \A t \in Thread : BusyThread(t) /\ Making(t)
  /\ MakersDistinct
  /\ MembersOfSessions
  /\ MessagesOfMembers
  /\ EntriesRight
  /\ AcknowledgedKept

PairInv ==
  /\ SoleSender
  /\ Undisturbed
  /\ OneSession

(* Message.md 497: the range is a closed interval, negative numbers count  *)
(* from the end, the others from 0.  The positions it designates in n      *)
(* messages, and the messages there.                                       *)
Position(i, n) == IF i < 0 THEN n + i ELSE i

Slice(list, range) ==
  LET n == Len(list)
      lo == Position(range[1], n)
      hi == Position(range[2], n)
  IN  SubSeq(list, lo + 1, IF hi >= n THEN n ELSE hi + 1)

(* A range that begins inside the log and does not end more than one       *)
(* before it begins is answered with the messages it designates.           *)
RangeAnswered ==
  answer # NoAnswer =>
    LET n == Len(answer.log)
        lo == Position(answer.range[1], n)
        hi == Position(answer.range[2], n)
    IN  answer.ok /\ 0 <= lo /\ lo <= hi + 1 =>
          answer.list = Slice(answer.log, answer.range)
=============================================================================
