--------------------------- MODULE SessionsProofs ---------------------------
(* Proofs about Sessions for every set of users, threads, sessions and      *)
(* ranges and whatever goes wrong: sessions stay private to two friends,    *)
(* acknowledged messages stay where their senders look, ranges designate    *)
(* the messages Message.md says, and two friends share a session unless     *)
(* their requests have overlapped or been cut short.                        *)
EXTENDS Sessions, SequenceTheorems, TLAPS

-----------------------------------------------------------------------------
(* Ranges *)

(* A page of a list is a list of the same type.                             *)
LEMMA PageType ==
  ASSUME NEW S, NEW list \in Seq(S), NEW l \in Int, NEW o \in Int
  PROVE  Page(list, l, o) \in Seq(S)
<1> DEFINE first == IF o < 0 THEN 0 ELSE o
           end == IF l < 0 \/ first + l > Len(list) THEN Len(list) ELSE first + l
<1>1. first \in Nat /\ Len(list) \in Nat
  OBVIOUS
<1>2. end \in Int /\ end <= Len(list)
  BY <1>1
<1> HIDE DEF first, end
<1>3. \A i \in (first + 1)..end : list[i] \in S
  BY <1>1, <1>2, ElementOfSeq
<1>4. SubSeq(list, first + 1, end) \in Seq(S)
  BY <1>1, <1>2, <1>3, SubSeqProperties
<1> QED
  BY <1>4 DEF Page, first, end

(* For a range that begins in the list (or at its end) and does not end     *)
(* more than one before it begins, the three SQL queries return the closed  *)
(* interval that Message.md describes, for every list and every range.      *)
THEOREM RangesDesignate ==
  ASSUME NEW S, NEW list \in Seq(S), NEW a \in Int, NEW b \in Int,
         0 <= Position(a, Len(list)),
         Position(a, Len(list)) <= Position(b, Len(list)) + 1,
         ~Refused(<<a, b>>)
  PROVE  GetMessages(list, <<a, b>>) = Slice(list, <<a, b>>)
<1> DEFINE n == Len(list)
           lo == Position(a, n)
           hi == Position(b, n)
<1>1. n \in Nat
  OBVIOUS
<1>2. lo \in Int /\ hi \in Int /\ 0 <= lo /\ lo <= hi + 1
  BY <1>1 DEF Position
<1> DEFINE stop == IF hi >= n THEN n ELSE hi + 1
           l == hi - lo + 1
<1>3. GetMessages(list, <<a, b>>) = Page(list, l, lo)
  <2>1. CASE a >= 0 /\ b < 0
    BY <1>1, <2>1 DEF GetMessages, Position
  <2>2. CASE a >= 0 /\ b >= 0
    BY <1>1, <2>2 DEF GetMessages, Position
  <2>3. CASE a < 0
    BY <1>1, <2>3 DEF GetMessages, Position, Refused
  <2> QED
    BY <2>1, <2>2, <2>3
<1>4. Slice(list, <<a, b>>) = SubSeq(list, lo + 1, stop)
  BY DEF Slice
<1> HIDE DEF lo, hi
<1>5. /\ ~(lo < 0) /\ ~(l < 0) /\ l \in Int
      /\ (IF lo + l > n THEN n ELSE lo + l) = stop
  BY <1>1, <1>2
<1> HIDE DEF l, stop
<1>6. Page(list, l, lo) = SubSeq(list, lo + 1, IF lo + l > n THEN n ELSE lo + l)
  <2>1. (IF lo < 0 THEN 0 ELSE lo) = lo
    BY <1>5
  <2>2. (IF l < 0 \/ lo + l > n THEN n ELSE lo + l) = (IF lo + l > n THEN n ELSE lo + l)
    BY <1>5
  <2> QED
    BY <2>1, <2>2 DEF Page
<1> QED
  BY <1>3, <1>4, <1>5, <1>6
-----------------------------------------------------------------------------
(* Steps of one handler *)

OthersKept(t) ==
  \A s \in Thread \ {t} :
    pc'[s] = pc[s] /\ op'[s] = op[s] /\ session_id'[s] = session_id[s]

(* A row of a friends_sessions table is never changed.                      *)
EntriesKept ==
  \A u, v \in User : Entry(u, v) # NoSession => Entry(u, v)' = Entry(u, v)

MakingLabels ==
  {"add_members", "add_own", "add_theirs", "make_log", "add_message"}

(* A handler that was not at work on the changed data is where it was.      *)
LEMMA OthersStay ==
  ASSUME IInv, NEW t \in Thread, NEW s \in Thread \ {t}, OthersKept(t), EntriesKept,
         sessions \subseteq sessions', message_tables \subseteq message_tables',
         pc[s] \in MakingLabels => members'[session_id[s]] = members[session_id[s]]
  PROVE  BusyThread(s)' /\ Making(s)'
<1>1. /\ pc'[s] = pc[s] /\ op'[s] = op[s] /\ session_id'[s] = session_id[s]
      /\ BusyThread(s) /\ Making(s)
  BY DEF OthersKept, IInv
<1>2. /\ Self(s)' = Self(s) /\ Peer(s)' = Peer(s) /\ PairOf(s)' = PairOf(s)
  BY <1>1 DEF Self, Peer, PairOf
<1>3. pc[s] # "idle" => Self(s) \in User /\ Peer(s) \in User
  BY <1>1 DEF BusyThread, Operations, Self, Peer
<1>4. pc[s] # "idle" /\ OwnSession(s) # NoSession => OwnSession(s)' = OwnSession(s)
  BY <1>2, <1>3 DEF EntriesKept, OwnSession, Entry
<1>5. BusyThread(s)'
  BY <1>1, <1>2, <1>4 DEF BusyThread
<1>6. pc[s] \in {"make_log", "add_message"} => OwnSession(s) # NoSession
  BY <1>1, SessionAssumption DEF Making, IInv, TypeOK
<1>7. Making(s)'
  BY <1>1, <1>2, <1>4, <1>6 DEF Making, MakingLabels
<1> QED
  BY <1>5, <1>7

(* Everything the invariant says of the tables alone.                       *)
DataKept ==
  UNCHANGED <<sessions, members, friends_sessions, logs, acknowledged>>

LEMMA QuietStep ==
  ASSUME IInv, DataKept, TypeOK', NEW t \in Thread, OthersKept(t),
         BusyThread(t)', Making(t)', pc'[t] # "add_members"
  PROVE  IInv'
<1>1. EntriesKept
  BY DEF DataKept, EntriesKept, Entry
<1>2. \A s \in Thread \ {t} : BusyThread(s)' /\ Making(s)'
  BY <1>1, OthersStay DEF DataKept, logs
<1>3. MakersDistinct'
  BY DEF IInv, MakersDistinct, OthersKept
<1>4. (MembersOfSessions /\ MessagesOfMembers /\ EntriesRight /\ AcknowledgedKept)'
  BY DEF IInv, DataKept, logs, MembersOfSessions, MessagesOfMembers, EntriesRight,
         AcknowledgedKept, Entry, In
<1> QED
  BY <1>2, <1>3, <1>4 DEF IInv

(* A handler that has ended holds nothing.                                  *)
LEMMA Ended ==
  ASSUME IInv, NEW t \in Thread, End(t)
  PROVE  /\ pc' \in [Thread -> Labels]
         /\ op' \in [Thread -> Operations \cup {NoOperation}]
         /\ session_id' \in [Thread -> Session \cup {NoSession}]
         /\ OthersKept(t)
         /\ pc'[t] = "idle"
         /\ BusyThread(t)' /\ Making(t)'
BY DEF End, IInv, TypeOK, Labels, OthersKept, BusyThread, Making, SendLabels

LEMMA EndStep ==
  ASSUME IInv, NEW t \in Thread, End(t), DataKept, user_tables' \subseteq User,
         answer' \in Answers \cup {NoAnswer}, disturbed' \subseteq SUBSET User,
         begun' \in Nat
  PROVE  IInv'
<1>1. TypeOK'
  BY Ended DEF IInv, TypeOK, DataKept, logs
<1> QED
  BY <1>1, Ended, QuietStep

(* A handler that goes on to a step at which it needs no more than before.  *)
LEMMA GotoStep ==
  ASSUME IInv, NEW t \in Thread, NEW label \in Labels, Goto(t, label),
         UNCHANGED session_id, DataKept, user_tables' \subseteq User,
         answer' \in Answers \cup {NoAnswer}, UNCHANGED <<disturbed, begun>>,
         pc[t] # "idle", label \notin MakingLabels,
         label \in SendLabels => op[t].kind = "send",
         label = "read" => op[t].kind = "query" /\ OwnSession(t) # NoSession
  PROVE  IInv'
<1>1. pc'[t] = label /\ op'[t] = op[t] /\ session_id'[t] = session_id[t]
  BY DEF Goto, IInv, TypeOK
<1>2. OthersKept(t)
  BY DEF OthersKept, Goto, IInv, TypeOK
<1>3. TypeOK'
  BY DEF IInv, TypeOK, DataKept, logs, Goto
<1>4. BusyThread(t)'
  BY <1>1 DEF BusyThread, IInv, OwnSession, Entry, Self, Peer, DataKept
<1>5. Making(t)'
  BY <1>1 DEF Making, MakingLabels
<1> QED
  BY <1>1, <1>2, <1>3, <1>4, <1>5, QuietStep DEF MakingLabels

-----------------------------------------------------------------------------
(* The steps that change no data of the invariant *)

LEMMA InitHolds == Init => IInv
<1> SUFFICES ASSUME Init PROVE IInv
  OBVIOUS
<1> USE DEF Init
<1>1. TypeOK
  BY DEF TypeOK, Labels
<1>2. \A t \in Thread : BusyThread(t) /\ Making(t)
  BY DEF BusyThread, Making, SendLabels
<1>3. MakersDistinct /\ MembersOfSessions /\ MessagesOfMembers
  BY DEF MakersDistinct, MembersOfSessions, MessagesOfMembers
<1>4. EntriesRight /\ AcknowledgedKept
  BY DEF EntriesRight, AcknowledgedKept, Entry
<1> QED
  BY <1>1, <1>2, <1>3, <1>4 DEF IInv

(* A new request, of either kind.                                           *)
LEMMA StartStep ==
  ASSUME IInv, NEW t \in Thread, NEW operation \in Operations,
         Start(t, operation), operation.kind = "send" => operation.self # operation.peer,
         disturbed' \subseteq SUBSET User
  PROVE  IInv'
<1>1. pc'[t] = "open_own" /\ op'[t] = operation
  BY DEF Start, IInv, TypeOK
<1>2. OthersKept(t)
  BY DEF OthersKept, Start, IInv, TypeOK
<1>3. DataKept
  BY DEF Start, DataKept, tables, logs
<1>4. TypeOK'
  BY DEF IInv, TypeOK, Start, tables, logs, Labels
<1>5. BusyThread(t)'
  BY <1>1 DEF BusyThread, SendLabels, Self, Peer
<1>6. Making(t)'
  BY <1>1 DEF Making
<1> QED
  BY <1>1, <1>2, <1>3, <1>4, <1>5, <1>6, QuietStep

(* What a busy thread's request is.                                         *)
LEMMA Request ==
  ASSUME IInv, NEW t \in Thread, pc[t] # "idle"
  PROVE  /\ op[t] \in Operations
         /\ Self(t) \in User /\ Peer(t) \in User
         /\ op[t].kind \in {"send", "query"}
         /\ op[t].kind = "query" => op[t].range \in Ranges
         /\ op[t].kind = "send" => op[t].number \in Nat
BY DEF IInv, BusyThread, Operations, Self, Peer

LEMMA OpenTablesStep ==
  ASSUME IInv, NEW t \in Thread, OpenTables(t), answer' = NoAnswer
  PROVE  IInv'
<1> USE DEF SendLabels, Labels, MakingLabels, tables, logs, history, DataKept
<1>1. AfterOpenOwn(t) \in {"open_theirs", "look"}
       /\ (AfterOpenOwn(t) = "open_theirs" => op[t].kind = "send")
  BY DEF AfterOpenOwn
<1>2. user_tables \subseteq User /\ disturbed \subseteq SUBSET User /\ begun \in Nat
  BY DEF IInv, TypeOK
<1>3. pc[t] \in {"open_theirs", "create_theirs"} => op[t].kind = "send"
  BY DEF IInv, BusyThread
<1>4. CASE Open(t, "open_own", Self(t), "create_own", AfterOpenOwn(t))
  <2>1. PICK label \in {"create_own", "open_theirs", "look"} :
          Goto(t, label) /\ (label = "open_theirs" => op[t].kind = "send")
    BY <1>1, <1>4 DEF Open
  <2> QED
    BY <1>2, <1>4, <2>1, GotoStep DEF Open
<1>5. CASE Create(t, "create_own", Self(t), AfterOpenOwn(t))
  <2>1. user_tables' \subseteq User
    BY <1>2, <1>5, Request DEF Create
  <2>2. CASE Self(t) \notin user_tables
    <3>1. PICK label \in {"open_theirs", "look"} :
            Goto(t, label) /\ (label = "open_theirs" => op[t].kind = "send")
      BY <1>1, <1>5, <2>2 DEF Create, Proceed
    <3> QED
      BY <1>2, <1>5, <2>1, <2>2, <3>1, GotoStep DEF Create, Proceed
  <2>3. CASE Self(t) \in user_tables
    BY <1>2, <1>5, <2>1, <2>3, EndStep DEF Create, Proceed
  <2> QED
    BY <2>2, <2>3
<1>6. CASE Open(t, "open_theirs", Peer(t), "create_theirs", "look")
  <2>1. PICK label \in {"create_theirs", "look"} : Goto(t, label)
    BY <1>6 DEF Open
  <2> QED
    BY <1>2, <1>3, <1>6, <2>1, GotoStep DEF Open
<1>7. CASE Create(t, "create_theirs", Peer(t), "look")
  <2>1. user_tables' \subseteq User
    BY <1>2, <1>7, Request DEF Create
  <2>2. CASE Peer(t) \notin user_tables
    BY <1>2, <1>7, <2>1, <2>2, GotoStep DEF Create, Proceed
  <2>3. CASE Peer(t) \in user_tables
    BY <1>2, <1>7, <2>1, <2>3, EndStep DEF Create, Proceed
  <2> QED
    BY <2>2, <2>3
<1> QED
  BY <1>4, <1>5, <1>6, <1>7 DEF OpenTables

LEMMA FindSessionStep ==
  ASSUME IInv, NEW t \in Thread, FindSession(t), answer' = NoAnswer
  PROVE  IInv'
<1> USE DEF SendLabels, Labels, MakingLabels, tables, logs, history, DataKept
<1>1. user_tables \subseteq User /\ disturbed \subseteq SUBSET User /\ begun \in Nat
  BY DEF IInv, TypeOK
<1>2. PICK label \in {"create", "use"} : Goto(t, label)
  BY DEF FindSession
<1> QED
  BY <1>1, <1>2, GotoStep DEF FindSession

LEMMA LookForMessagesStep ==
  ASSUME IInv, NEW t \in Thread, LookForMessages(t), answer' = NoAnswer
  PROVE  IInv'
<1> USE DEF SendLabels, Labels, MakingLabels, tables, logs, history, DataKept
<1>1. user_tables \subseteq User /\ disturbed \subseteq SUBSET User /\ begun \in Nat
  BY DEF IInv, TypeOK
<1>2. CASE Entry(Self(t), Peer(t)) # NoSession
  BY <1>1, <1>2, GotoStep DEF LookForMessages, Proceed, OwnSession
<1>3. CASE Entry(Self(t), Peer(t)) = NoSession
  BY <1>1, <1>3, EndStep DEF LookForMessages, Proceed
<1> QED
  BY <1>2, <1>3

LEMMA ReadMessagesStep ==
  ASSUME IInv, NEW t \in Thread, ReadMessages(t)
  PROVE  IInv'
<1> USE DEF tables, logs, history
<1> DEFINE list == messages[OwnSession(t)]
           range == op[t].range
<1>1. op[t].kind = "query" /\ OwnSession(t) # NoSession
  BY DEF ReadMessages, IInv, BusyThread
<1>2. Self(t) \in User /\ Peer(t) \in User /\ range \in Ranges
  BY <1>1, Request DEF ReadMessages
<1>3. OwnSession(t) \in Session
  BY <1>1, <1>2 DEF OwnSession, Entry, IInv, TypeOK
<1>4. list \in Seq(Messages)
  BY <1>3 DEF IInv, TypeOK
<1>5. range[1] \in Int /\ range[2] \in Int
  BY <1>2, RangesAssumption
<1>6. GetMessages(list, range) \in Seq(Messages)
  <2> HIDE DEF list, range
  <2> DEFINE a == range[1]
             b == range[2]
             n == Len(list)
  <2>1. n \in Int
    BY <1>4
  <2>2. /\ Page(list, n + 1 + b - a, a) \in Seq(Messages)
        /\ Page(list, b - a + 1, a) \in Seq(Messages)
        /\ Page(list, b - a + 1, n + a) \in Seq(Messages)
    <3> HIDE DEF a, b, n
    <3>1. /\ n + 1 + b - a \in Int /\ a \in Int
          /\ b - a + 1 \in Int /\ n + a \in Int
      BY <1>5, <2>1 DEF a, b
    <3> QED
      BY <1>4, <3>1, PageType
  <2>3. \/ GetMessages(list, range) = Page(list, n + 1 + b - a, a)
        \/ GetMessages(list, range) = Page(list, b - a + 1, a)
        \/ GetMessages(list, range) = Page(list, b - a + 1, n + a)
    <3>1. CASE a >= 0 /\ b < 0
      BY <1>5, <3>1 DEF GetMessages
    <3>2. CASE a >= 0 /\ b >= 0
      BY <1>5, <3>2 DEF GetMessages
    <3>3. CASE a < 0
      BY <1>5, <3>3 DEF GetMessages
    <3> QED
      BY <1>5, <3>1, <3>2, <3>3
  <2> QED
    BY <2>2, <2>3
<1>7. answer' \in Answers
  BY <1>2, <1>4, <1>6 DEF ReadMessages, Answers
<1> QED
  BY <1>7, EndStep DEF ReadMessages, DataKept, IInv, TypeOK

LEMMA CutShortType ==
  ASSUME IInv, NEW T \in SUBSET Thread, CutShort(T)
  PROVE  disturbed' \subseteq SUBSET User
<1>1. \A t \in T : Sending(t) => PairOf(t) \subseteq User
  BY Request DEF Sending, PairOf
<1> QED
  BY <1>1 DEF CutShort, IInv, TypeOK

LEMMA BusyStep ==
  ASSUME IInv, NEW t \in Thread, Busy(t), answer' = NoAnswer
  PROVE  IInv'
<1>1. disturbed' \subseteq SUBSET User
  BY CutShortType DEF Busy
<1> QED
  BY <1>1, EndStep DEF Busy, tables, logs, DataKept, IInv, TypeOK

LEMMA CrashStep ==
  ASSUME IInv, Crash, answer' = NoAnswer
  PROVE  IInv'
<1> USE DEF tables, logs
<1>1. disturbed' \subseteq SUBSET User
  BY CutShortType DEF Crash
<1>2. TypeOK'
  BY <1>1 DEF Crash, IInv, TypeOK, Labels
<1>3. \A t \in Thread : BusyThread(t)' /\ Making(t)'
  BY DEF Crash, BusyThread, Making, SendLabels
<1>4. MakersDistinct'
  BY DEF Crash, MakersDistinct
<1>5. (MembersOfSessions /\ MessagesOfMembers /\ EntriesRight /\ AcknowledgedKept)'
  BY DEF Crash, IInv, MembersOfSessions, MessagesOfMembers, EntriesRight,
         AcknowledgedKept, Entry, In
<1> QED
  BY <1>2, <1>3, <1>4, <1>5 DEF IInv

-----------------------------------------------------------------------------
(* The steps that change the tables *)

(* What is left to show when a handler has changed a table.                 *)
LEMMA TableStep ==
  ASSUME IInv, TypeOK', NEW t \in Thread, OthersKept(t), EntriesKept,
         sessions \subseteq sessions', message_tables \subseteq message_tables',
         \A s \in Thread \ {t} :
           pc[s] \in MakingLabels => members'[session_id[s]] = members[session_id[s]],
         BusyThread(t)', Making(t)', pc'[t] # "add_members",
         (MembersOfSessions /\ MessagesOfMembers /\ EntriesRight /\ AcknowledgedKept)'
  PROVE  IInv'
<1>1. \A s \in Thread \ {t} : BusyThread(s)' /\ Making(s)'
  BY OthersStay
<1>2. MakersDistinct'
  BY DEF IInv, MakersDistinct, OthersKept
<1> QED
  BY <1>1, <1>2 DEF IInv

(* A step that leaves the rows and the messages, or adds to them, keeps     *)
(* what has been acknowledged.                                              *)
LEMMA StillKept ==
  ASSUME IInv, EntriesKept, message_tables \subseteq message_tables',
         UNCHANGED <<messages, acknowledged>>
  PROVE  AcknowledgedKept'
<1> SUFFICES ASSUME NEW m \in acknowledged
             PROVE  /\ Entry(m.from, m.to)' \in message_tables'
                    /\ In(m, messages[Entry(m.from, m.to)])'
  BY DEF AcknowledgedKept
<1>1. Entry(m.from, m.to) \in message_tables /\ In(m, messages[Entry(m.from, m.to)])
  BY DEF IInv, AcknowledgedKept
<1>2. m.from \in User /\ m.to \in User /\ Entry(m.from, m.to) # NoSession
  BY <1>1, SessionAssumption DEF IInv, TypeOK, Messages
<1>3. Entry(m.from, m.to)' = Entry(m.from, m.to)
  BY <1>2 DEF EntriesKept
<1> QED
  BY <1>1, <1>3 DEF In

LEMMA CreateSessionStep ==
  ASSUME IInv, NEW t \in Thread, CreateSession(t), answer' = NoAnswer
  PROVE  IInv'
<1> USE DEF logs, history
<1>1. PICK s \in Session \ sessions :
        sessions' = sessions \cup {s} /\ session_id' = [session_id EXCEPT ![t] = s]
  BY DEF CreateSession
<1>2. /\ pc'[t] = "add_members" /\ op' = op /\ session_id'[t] = s
      /\ pc[t] = "create"
  BY <1>1 DEF CreateSession, Goto, IInv, TypeOK
<1>3. TypeOK'
  BY <1>1 DEF CreateSession, Goto, IInv, TypeOK, Labels
<1>4. OthersKept(t)
  BY <1>1 DEF CreateSession, Goto, OthersKept, IInv, TypeOK
<1>5. EntriesKept
  BY DEF CreateSession, EntriesKept, Entry
<1>6. \A r \in Thread \ {t} : BusyThread(r)' /\ Making(r)'
  BY <1>1, <1>4, <1>5, OthersStay DEF CreateSession
<1>7. BusyThread(t)'
  BY <1>2 DEF IInv, BusyThread, SendLabels, Self, Peer
<1>8. Making(t)'
  BY <1>1, <1>2 DEF CreateSession, Making, IInv, MembersOfSessions
<1>9. \A r \in Thread \ {t} : pc'[r] = "add_members" => session_id'[r] # s
  BY <1>1, <1>4 DEF IInv, Making, OthersKept
<1>10. MakersDistinct'
  BY <1>2, <1>4, <1>9 DEF IInv, MakersDistinct, OthersKept
<1>11. (MembersOfSessions /\ MessagesOfMembers)'
  BY <1>1 DEF CreateSession, IInv, MembersOfSessions, MessagesOfMembers
<1>12. EntriesRight'
  BY <1>1 DEF CreateSession, IInv, EntriesRight, Entry
<1>13. AcknowledgedKept'
  BY <1>5, StillKept DEF CreateSession
<1> QED
  BY <1>3, <1>6, <1>7, <1>8, <1>10, <1>11, <1>12, <1>13 DEF IInv

(* The session gets its members before anybody can find it.                 *)
LEMMA AddMembersStep ==
  ASSUME IInv, NEW t \in Thread, AddMembers(t), answer' = NoAnswer
  PROVE  IInv'
<1> USE DEF logs, history
<1> DEFINE s == session_id[t]
<1>1. /\ pc[t] = "add_members" /\ pc'[t] = "add_own" /\ op' = op
      /\ session_id' = session_id
  BY DEF AddMembers, Goto, IInv, TypeOK
<1>2. s \in sessions /\ s \in Session /\ members[s] = {}
  BY <1>1 DEF IInv, Making, TypeOK
<1>3. Self(t) \in User /\ Peer(t) \in User
  BY <1>1, Request
<1>4. /\ members'[s] = PairOf(t)
      /\ \A r \in Session \ {s} : members'[r] = members[r]
  BY <1>2 DEF AddMembers, IInv, TypeOK
<1>5. TypeOK'
  BY <1>3 DEF AddMembers, Goto, PairOf, IInv, TypeOK, Labels
<1>6. OthersKept(t)
  BY DEF AddMembers, Goto, OthersKept, IInv, TypeOK
<1>7. EntriesKept
  BY DEF AddMembers, EntriesKept, Entry
<1>8. \A r \in Thread \ {t} :
        pc[r] \in MakingLabels => members'[session_id[r]] = members[session_id[r]]
  <2> SUFFICES ASSUME NEW r \in Thread \ {t}, pc[r] \in MakingLabels
               PROVE  session_id[r] \in Session \ {s}
    BY <1>4
  <2>1. session_id[r] \in Session
    BY DEF IInv, Making, TypeOK, MakingLabels
  <2>2. CASE pc[r] = "add_members"
    BY <1>1, <2>1, <2>2 DEF IInv, MakersDistinct
  <2>3. CASE pc[r] # "add_members"
    BY <1>2, <2>1, <2>3 DEF IInv, Making, PairOf, MakingLabels
  <2> QED
    BY <2>2, <2>3
<1>9. BusyThread(t)'
  BY <1>1 DEF IInv, BusyThread, SendLabels, Self, Peer
<1>10. Making(t)'
  BY <1>1, <1>2, <1>4 DEF AddMembers, Making, PairOf, Self, Peer
<1>11. MembersOfSessions'
  BY <1>2, <1>4 DEF AddMembers, IInv, MembersOfSessions
<1>12. MessagesOfMembers'
  <2>1. \A i \in 1..Len(messages[s]) : FALSE
    BY <1>2 DEF IInv, MessagesOfMembers
  <2> QED
    BY <1>2, <1>4, <2>1 DEF AddMembers, IInv, MessagesOfMembers
<1>13. EntriesRight'
  <2> SUFFICES ASSUME NEW u \in User, NEW v \in User, Entry(u, v) # NoSession
               PROVE  members'[Entry(u, v)] = {u, v}
    BY DEF AddMembers, IInv, EntriesRight, Entry
  <2>1. Entry(u, v) \in Session /\ members[Entry(u, v)] = {u, v}
    BY DEF IInv, EntriesRight, TypeOK
  <2> QED
    BY <1>2, <1>4, <2>1
<1>14. AcknowledgedKept'
  BY <1>7, StillKept DEF AddMembers
<1> QED
  BY <1>1, <1>5, <1>6, <1>7, <1>8, <1>9, <1>10, <1>11, <1>12, <1>13, <1>14, TableStep
     DEF AddMembers

(* A row that refers to a session with the right two members.               *)
LEMMA EntryStep ==
  ASSUME IInv, NEW t \in Thread, NEW u \in User, NEW v \in User,
         NEW next \in {"add_theirs", "use"},
         pc[t] \in {"add_own", "add_theirs"}, {u, v} = PairOf(t),
         AddFriendSession(t, u, v, next), answer' = NoAnswer,
         UNCHANGED <<sessions, members, user_tables, logs, history, begun>>
  PROVE  IInv'
<1> USE DEF logs, history
<1> DEFINE s == session_id[t]
<1>1. op[t].kind = "send" /\ s \in sessions /\ s \in Session /\ members[s] = {u, v}
  BY DEF IInv, BusyThread, SendLabels, Making, TypeOK
<1>2. CASE Entry(u, v) # NoSession
  <2>1. End(t) /\ UNCHANGED friends_sessions
    BY <1>2 DEF AddFriendSession, Proceed
  <2> QED
    BY <2>1, EndStep DEF DataKept, IInv, TypeOK
<1>3. CASE Entry(u, v) = NoSession
  <2>1. /\ friends_sessions' = [friends_sessions EXCEPT ![u][v] = s]
        /\ Goto(t, next) /\ UNCHANGED session_id
    BY <1>3 DEF AddFriendSession, Proceed
  <2>2. \A x, y \in User :
          Entry(x, y)' = IF x = u /\ y = v THEN s ELSE Entry(x, y)
    BY <2>1 DEF Entry, IInv, TypeOK
  <2>3. TypeOK'
    BY <1>1, <2>1 DEF Goto, IInv, TypeOK, Labels
  <2>4. OthersKept(t)
    BY <2>1 DEF Goto, OthersKept, IInv, TypeOK
  <2>5. EntriesKept
    BY <1>3, <2>2 DEF EntriesKept
  <2>6. pc'[t] = next /\ op' = op
    BY <2>1 DEF Goto, IInv, TypeOK
  <2>7. BusyThread(t)'
    BY <1>1, <2>6 DEF IInv, BusyThread, Self, Peer
  <2>8. Making(t)'
    BY <1>1, <2>1, <2>6 DEF Making, PairOf, Self, Peer
  <2>9. (MembersOfSessions /\ MessagesOfMembers)'
    BY DEF IInv, MembersOfSessions, MessagesOfMembers
  <2>10. EntriesRight'
    BY <1>1, <2>2 DEF IInv, EntriesRight
  <2>11. AcknowledgedKept'
    BY <2>5, StillKept
  <2> QED
    BY <2>3, <2>4, <2>5, <2>6, <2>7, <2>8, <2>9, <2>10, <2>11, TableStep
<1> QED
  BY <1>2, <1>3

LEMMA AddEntriesStep ==
  ASSUME IInv, NEW t \in Thread, AddOwnSession(t) \/ AddFriendsSession(t),
         answer' = NoAnswer
  PROVE  IInv'
<1>1. pc[t] \in {"add_own", "add_theirs"}
  BY DEF AddOwnSession, AddFriendsSession
<1>2. Self(t) \in User /\ Peer(t) \in User
  BY <1>1, Request
<1>3. {Self(t), Peer(t)} = PairOf(t) /\ {Peer(t), Self(t)} = PairOf(t)
  BY DEF PairOf
<1> QED
  BY <1>1, <1>2, <1>3, EntryStep DEF AddOwnSession, AddFriendsSession

(* The session a handler finds is one of the two friends.                   *)
LEMMA UseSessionStep ==
  ASSUME IInv, NEW t \in Thread, UseSession(t), answer' = NoAnswer
  PROVE  IInv'
<1> USE DEF tables, logs, history
<1>1. /\ pc[t] = "use" /\ pc'[t] = "make_log" /\ op' = op
      /\ session_id'[t] = OwnSession(t) /\ OwnSession(t) \in sessions
  BY DEF UseSession, Goto, IInv, TypeOK
<1>2. Self(t) \in User /\ Peer(t) \in User
  BY <1>1, Request
<1>3. TypeOK'
  BY <1>1 DEF UseSession, Goto, IInv, TypeOK, Labels
<1>4. OthersKept(t)
  BY DEF UseSession, Goto, OthersKept, IInv, TypeOK
<1>5. BusyThread(t)'
  BY <1>1 DEF IInv, BusyThread, SendLabels, Self, Peer
<1>6. OwnSession(t) # NoSession
  BY <1>1, SessionAssumption DEF IInv, TypeOK
<1>7. members[OwnSession(t)] = PairOf(t)
  BY <1>2, <1>6 DEF IInv, EntriesRight, OwnSession, PairOf
<1>8. Making(t)'
  BY <1>1, <1>7 DEF UseSession, Making, PairOf, Self, Peer, OwnSession, Entry
<1> QED
  BY <1>1, <1>3, <1>4, <1>5, <1>8, QuietStep DEF UseSession, DataKept

LEMMA MakeMessageTableStep ==
  ASSUME IInv, NEW t \in Thread, MakeMessageTable(t), answer' = NoAnswer
  PROVE  IInv'
<1> USE DEF tables, history
<1>1. /\ pc[t] = "make_log" /\ pc'[t] = "add_message" /\ op' = op
      /\ session_id' = session_id
  BY DEF MakeMessageTable, Goto, IInv, TypeOK
<1>2. /\ session_id[t] \in sessions /\ members[session_id[t]] = PairOf(t)
      /\ session_id[t] = OwnSession(t)
  BY <1>1 DEF IInv, Making
<1>3. TypeOK'
  BY <1>2 DEF MakeMessageTable, Goto, IInv, TypeOK, Labels
<1>4. OthersKept(t)
  BY DEF MakeMessageTable, Goto, OthersKept, IInv, TypeOK
<1>5. EntriesKept
  BY DEF MakeMessageTable, EntriesKept, Entry
<1>6. BusyThread(t)'
  BY <1>1 DEF IInv, BusyThread, SendLabels, Self, Peer
<1>7. Making(t)'
  BY <1>1, <1>2 DEF MakeMessageTable, Making, PairOf, Self, Peer, OwnSession, Entry
<1>8. (MembersOfSessions /\ MessagesOfMembers /\ EntriesRight)'
  BY DEF MakeMessageTable, IInv, MembersOfSessions, MessagesOfMembers, EntriesRight,
         Entry
<1>9. AcknowledgedKept'
  BY <1>5, StillKept DEF MakeMessageTable
<1> QED
  BY <1>1, <1>3, <1>4, <1>5, <1>6, <1>7, <1>8, <1>9, TableStep DEF MakeMessageTable

(* The message goes to the session of its sender's row.                     *)
LEMMA AddMessageStep ==
  ASSUME IInv, NEW t \in Thread, AddMessage(t), answer' = NoAnswer
  PROVE  IInv'
<1> USE DEF tables, history
<1> DEFINE s == session_id[t]
           m == Message(t)
<1>1. /\ pc[t] = "add_message" /\ op[t].kind = "send"
      /\ s \in sessions /\ s \in Session /\ members[s] = PairOf(t)
      /\ s = OwnSession(t) /\ s \in message_tables
  BY DEF AddMessage, IInv, BusyThread, SendLabels, Making, TypeOK
<1>2. Self(t) \in User /\ Peer(t) \in User /\ op[t].number \in Nat
  BY <1>1, Request
<1>3. /\ m \in Messages /\ m.from = Self(t) /\ m.to = Peer(t)
      /\ {m.from, m.to} = PairOf(t)
  BY <1>2 DEF Message, Messages, PairOf
<1> HIDE DEF m
<1>4. /\ messages' = [messages EXCEPT ![s] = Append(messages[s], m)]
      /\ acknowledged' = acknowledged \cup {m}
  BY DEF AddMessage, m
<1>5. messages[s] \in Seq(Messages)
  BY <1>1 DEF IInv, TypeOK
<1>6. /\ messages'[s] = Append(messages[s], m)
      /\ \A r \in Session \ {s} : messages'[r] = messages[r]
  BY <1>1, <1>4 DEF IInv, TypeOK
<1>7. /\ Len(Append(messages[s], m)) = Len(messages[s]) + 1
      /\ Len(messages[s]) \in Nat
      /\ Append(messages[s], m)[Len(messages[s]) + 1] = m
      /\ \A i \in 1..Len(messages[s]) : Append(messages[s], m)[i] = messages[s][i]
  BY <1>3, <1>5
<1>8. TypeOK'
  <2>1. messages' \in [Session -> Seq(Messages)]
    <3>1. Append(messages[s], m) \in Seq(Messages)
      BY <1>3, <1>5
    <3> QED
      BY <1>4, <3>1 DEF IInv, TypeOK
  <2> QED
    BY <1>3, <1>4, <2>1, Ended DEF AddMessage, IInv, TypeOK
<1>9. /\ OthersKept(t) /\ pc'[t] = "idle" /\ BusyThread(t)' /\ Making(t)'
  BY Ended DEF AddMessage
<1>10. EntriesKept
  BY DEF AddMessage, EntriesKept, Entry
<1>11. (MembersOfSessions /\ EntriesRight)'
  BY DEF AddMessage, IInv, MembersOfSessions, EntriesRight, Entry
<1>12. MessagesOfMembers'
  <2> SUFFICES ASSUME NEW r \in Session, NEW i \in 1..Len(messages'[r])
               PROVE  {messages'[r][i].from, messages'[r][i].to} = members[r]
    BY DEF AddMessage, MessagesOfMembers
  <2>1. CASE r # s
    BY <1>6, <2>1 DEF IInv, MessagesOfMembers
  <2>2. CASE r = s /\ i = Len(messages[s]) + 1
    BY <1>1, <1>3, <1>6, <1>7, <2>2
  <2>3. CASE r = s /\ i # Len(messages[s]) + 1
    <3>1. i \in 1..Len(messages[s])
      BY <1>6, <1>7, <2>3
    <3> QED
      BY <1>1, <1>6, <1>7, <2>3, <3>1 DEF IInv, MessagesOfMembers
  <2> QED
    BY <2>1, <2>2, <2>3
<1>13. AcknowledgedKept'
  <2> SUFFICES ASSUME NEW x \in acknowledged'
               PROVE  /\ Entry(x.from, x.to) \in message_tables
                      /\ \E i \in 1..Len(messages'[Entry(x.from, x.to)]) :
                           messages'[Entry(x.from, x.to)][i] = x
    BY DEF AddMessage, AcknowledgedKept, Entry, In
  <2>1. CASE x = m
    <3>1. Entry(x.from, x.to) = s
      BY <1>1, <1>3, <2>1 DEF OwnSession
    <3>2. Len(messages[s]) + 1 \in 1..Len(messages'[s])
      BY <1>6, <1>7
    <3> QED
      BY <1>1, <1>6, <1>7, <2>1, <3>1, <3>2
  <2>2. CASE x \in acknowledged
    <3> DEFINE r == Entry(x.from, x.to)
    <3>1. r \in message_tables /\ r \in Session /\ In(x, messages[r])
      BY <2>2 DEF IInv, AcknowledgedKept, TypeOK
    <3>2. CASE r # s
      BY <1>6, <3>1, <3>2 DEF In
    <3>3. CASE r = s
      <4>1. PICK i \in 1..Len(messages[s]) : messages[s][i] = x
        BY <3>1, <3>3 DEF In
      <4>2. i \in 1..Len(messages'[s]) /\ messages'[s][i] = x
        BY <1>6, <1>7, <4>1
      <4> QED
        BY <3>1, <3>3, <4>2
    <3> QED
      BY <3>2, <3>3
  <2> QED
    BY <1>4, <2>1, <2>2
<1> QED
  BY <1>8, <1>9, <1>10, <1>11, <1>12, <1>13, TableStep DEF AddMessage

-----------------------------------------------------------------------------
(* Every step *)

LEMMA SendStep ==
  ASSUME IInv, NEW t \in Thread, NEW u \in User, NEW v \in User, Send(t, u, v)
  PROVE  IInv'
<1> DEFINE operation == [kind |-> "send", self |-> u, peer |-> v, number |-> begun]
<1>1. operation \in Operations /\ operation.self # operation.peer
  BY DEF Send, Operations, IInv, TypeOK
<1>2. disturbed' \subseteq SUBSET User
  BY DEF Send, IInv, TypeOK
<1>3. Start(t, operation)
  BY DEF Send
<1> HIDE DEF operation
<1> QED
  BY <1>1, <1>2, <1>3, StartStep

LEMMA QueryStep ==
  ASSUME IInv, NEW t \in Thread, NEW u \in User, NEW v \in User, NEW r \in Ranges,
         Query(t, u, v, r)
  PROVE  IInv'
<1> DEFINE operation == [kind |-> "query", self |-> u, peer |-> v, range |-> r]
<1>1. operation \in Operations /\ operation.kind # "send"
  BY DEF Operations
<1>2. disturbed' \subseteq SUBSET User
  BY DEF Query, IInv, TypeOK
<1>3. Start(t, operation)
  BY DEF Query
<1> HIDE DEF operation
<1> QED
  BY <1>1, <1>2, <1>3, StartStep

LEMMA StepHolds == IInv /\ [Next]_vars => IInv'
<1> SUFFICES ASSUME IInv, [Next]_vars PROVE IInv'
  OBVIOUS
<1>1. CASE \E t \in Thread : \E u, v \in User :
             Send(t, u, v) \/ \E r \in Ranges : Query(t, u, v, r)
  BY <1>1, SendStep, QueryStep
<1>2. ASSUME NEW t \in Thread, Handler(t), answer' = NoAnswer PROVE IInv'
  BY <1>2, OpenTablesStep, FindSessionStep, CreateSessionStep, AddMembersStep,
     AddEntriesStep, UseSessionStep, MakeMessageTableStep, AddMessageStep,
     LookForMessagesStep, BusyStep DEF Handler
<1>3. CASE \E t \in Thread : ReadMessages(t)
  BY <1>3, ReadMessagesStep
<1>4. CASE Crash /\ answer' = NoAnswer
  BY <1>4, CrashStep
<1>5. CASE UNCHANGED vars
  BY <1>5 DEF vars, tables, logs, handlers, history, IInv, TypeOK, BusyThread, Making,
     MakersDistinct, MembersOfSessions, MessagesOfMembers, EntriesRight,
     AcknowledgedKept, Entry, In, OwnSession, PairOf, Self, Peer
<1> QED
  BY <1>1, <1>2, <1>3, <1>4, <1>5 DEF Next

THEOREM Invariant == Spec => []IInv
BY InitHolds, StepHolds, PTL DEF Spec

(* Every variable has its type in every state.                              *)
THEOREM TypeCorrect == Spec => []TypeOK
<1>1. IInv => TypeOK
  BY DEF IInv
<1> QED
  BY <1>1, Invariant, PTL

(* No interleaving, busy database or crash puts a message into a session    *)
(* that anybody but its sender and its receiver can read.                   *)
THEOREM Private == Spec => []SessionsArePrivate
<1>1. IInv => SessionsArePrivate
  <2> SUFFICES ASSUME IInv, NEW u \in User, NEW v \in User, Entry(u, v) # NoSession
               PROVE  /\ Entry(u, v) \in sessions
                      /\ members[Entry(u, v)] = {u, v}
                      /\ \A i \in 1..Len(messages[Entry(u, v)]) :
                           {messages[Entry(u, v)][i].from, messages[Entry(u, v)][i].to}
                             = {u, v}
    BY DEF SessionsArePrivate
  <2>1. Entry(u, v) \in Session
    BY DEF IInv, EntriesRight, TypeOK
  <2>2. Entry(u, v) \in sessions /\ members[Entry(u, v)] = {u, v}
    BY DEF IInv, EntriesRight
  <2> QED
    BY <2>1, <2>2 DEF IInv, MessagesOfMembers
<1> QED
  BY <1>1, Invariant, PTL

(* A message that has been acknowledged is never lost to its sender.        *)
THEOREM Kept == Spec => []AcknowledgedKept
<1>1. IInv => AcknowledgedKept
  BY DEF IInv
<1> QED
  BY <1>1, Invariant, PTL

(* Every answer to 203 holds the messages that its range designates.        *)
THEOREM RangesRight == Spec => []RangeAnswered
<1>1. Init => RangeAnswered
  BY DEF Init, RangeAnswered
<1>2. IInv /\ RangeAnswered /\ [Next]_vars => RangeAnswered'
  <2> SUFFICES ASSUME IInv, RangeAnswered, [Next]_vars PROVE RangeAnswered'
    OBVIOUS
  <2>1. CASE answer' = answer \/ answer' = NoAnswer
    BY <2>1 DEF RangeAnswered
  <2>2. ASSUME NEW t \in Thread, ReadMessages(t) PROVE RangeAnswered'
    <3> DEFINE list == messages[OwnSession(t)]
               range == op[t].range
               a == range[1]
               b == range[2]
    <3>1. op[t].kind = "query" /\ OwnSession(t) # NoSession /\ pc[t] # "idle"
      BY <2>2 DEF ReadMessages, IInv, BusyThread
    <3>2. range \in Ranges /\ OwnSession(t) \in Session
      BY <3>1, Request DEF OwnSession, Entry, IInv, TypeOK
    <3>3. list \in Seq(Messages)
      BY <3>2 DEF IInv, TypeOK
    <3>4. a \in Int /\ b \in Int /\ range = <<a, b>>
      BY <3>2, RangesAssumption
    <3>5. /\ answer'.log = list /\ answer'.range = range
          /\ answer'.list = GetMessages(list, range)
          /\ (answer'.ok => ~Refused(range))
      BY <2>2 DEF ReadMessages
    <3> HIDE DEF list, range, a, b
    <3>6. /\ 0 <= Position(a, Len(list))
          /\ Position(a, Len(list)) <= Position(b, Len(list)) + 1
          /\ ~Refused(range)
          => GetMessages(list, range) = Slice(list, range)
      BY <3>3, <3>4, RangesDesignate
    <3> QED
      BY <3>5, <3>6 DEF RangeAnswered, a, b
  <2> QED
    BY <2>1, <2>2 DEF Next, vars, Send, Query, Start
<1> QED
  BY <1>1, <1>2, Invariant, PTL DEF Spec

-----------------------------------------------------------------------------
(* One session for two friends *)

(* A step of thread t that begins no request keeps the invariant of pairs   *)
(* if it changes no rows but those of its pair, leaves t where its phase    *)
(* says, and ends t only with the two rows equal or the pair disturbed.     *)
LEMMA PairStep ==
  ASSUME IInv, PairInv, NEW t \in Thread, OthersKept(t),
         disturbed \subseteq disturbed',
         \A u, v \in User :
           Entry(u, v)' = Entry(u, v) \/ (Sending(t) /\ {u, v} = PairOf(t)),
         Sending(t)' => Sending(t) /\ op'[t] = op[t],
         Sending(t)' /\ PairOf(t) \notin disturbed' => Phase(t)',
         Sending(t) /\ ~Sending(t)' /\ PairOf(t) \notin disturbed' =>
           \A u, v \in User : {u, v} = PairOf(t) => Entry(u, v)' = Entry(v, u)'
  PROVE  PairInv'
<1>1. \A s \in Thread \ {t} :
        /\ Sending(s)' = Sending(s) /\ PairOf(s)' = PairOf(s)
        /\ Self(s)' = Self(s) /\ Peer(s)' = Peer(s)
  BY DEF OthersKept, Sending, PairOf, Self, Peer
<1>2. Sending(t)' => /\ Sending(t) /\ PairOf(t)' = PairOf(t)
                     /\ Self(t)' = Self(t) /\ Peer(t)' = Peer(t)
  BY DEF PairOf, Self, Peer
<1>3. \A s \in Thread : Sending(s)' => Sending(s) /\ PairOf(s)' = PairOf(s)
  BY <1>1, <1>2
<1>4. SoleSender'
  BY <1>3 DEF PairInv, SoleSender
<1>5. ASSUME NEW s \in Thread, Sending(s)', PairOf(s)' \notin disturbed'
      PROVE  Phase(s)'
  <2>1. CASE s = t
    BY <1>2, <1>5, <2>1
  <2>2. CASE s # t
    <3>1. Sending(s) /\ PairOf(s) \notin disturbed /\ Phase(s)
      BY <1>3, <1>5 DEF PairInv, Undisturbed
    <3>2. ~(Sending(t) /\ PairOf(s) = PairOf(t))
      BY <2>2, <3>1 DEF PairInv, SoleSender
    <3>3. Self(s) \in User /\ Peer(s) \in User
      BY <3>1, Request DEF Sending
    <3>4. /\ Entry(Self(s), Peer(s))' = Entry(Self(s), Peer(s))
          /\ Entry(Peer(s), Self(s))' = Entry(Peer(s), Self(s))
      BY <1>1, <2>2, <3>2, <3>3 DEF PairOf
    <3>5. pc'[s] = pc[s] /\ session_id'[s] = session_id[s]
      BY <2>2 DEF OthersKept
    <3> QED
      BY <3>1, <3>4, <3>5 DEF Phase
  <2> QED
    BY <2>1, <2>2
<1>6. Undisturbed'
  BY <1>5 DEF Undisturbed
<1>7. OneSession'
  <2> SUFFICES ASSUME NEW u \in User, NEW v \in User, {u, v} \notin disturbed',
                      ~ \E s \in Thread : Sending(s)' /\ PairOf(s)' = {u, v}
               PROVE  Entry(u, v)' = Entry(v, u)'
    BY DEF OneSession
  <2>1. CASE Sending(t) /\ PairOf(t) = {u, v}
    <3>1. ~Sending(t)'
      BY <1>2, <2>1
    <3> QED
      BY <2>1, <3>1
  <2>2. CASE ~(Sending(t) /\ PairOf(t) = {u, v})
    <3>1. Entry(u, v)' = Entry(u, v) /\ Entry(v, u)' = Entry(v, u)
      BY <2>2
    <3>2. ~ \E s \in Thread : Sending(s) /\ PairOf(s) = {u, v}
      BY <1>1, <2>2
    <3> QED
      BY <3>1, <3>2 DEF PairInv, OneSession
  <2> QED
    BY <2>1, <2>2
<1> QED
  BY <1>4, <1>6, <1>7 DEF PairInv

(* A handler that goes on and leaves the rows alone.                        *)
LEMMA PairGoto ==
  ASSUME IInv, PairInv, NEW t \in Thread, NEW label \in Labels \ {"idle"},
         Goto(t, label), pc[t] # "idle",
         \A s \in Thread \ {t} : session_id'[s] = session_id[s],
         UNCHANGED <<friends_sessions, disturbed>>,
         Sending(t) /\ Phase(t) => Phase(t)'
  PROVE  PairInv'
<1>1. pc'[t] = label /\ op' = op
  BY DEF Goto, IInv, TypeOK
<1>2. OthersKept(t)
  BY DEF OthersKept, Goto, IInv, TypeOK
<1>3. Sending(t)' = Sending(t)
  BY <1>1 DEF Sending
<1>4. Sending(t) /\ PairOf(t) \notin disturbed => Phase(t)
  BY DEF PairInv, Undisturbed
<1>5. \A u, v \in User : Entry(u, v)' = Entry(u, v)
  BY DEF Entry
<1> QED
  BY <1>1, <1>2, <1>3, <1>4, <1>5, PairStep

(* A handler that ends and leaves the rows alone.                           *)
LEMMA PairEnd ==
  ASSUME IInv, PairInv, NEW t \in Thread, End(t), pc[t] # "idle",
         disturbed \subseteq disturbed', UNCHANGED friends_sessions,
         \/ pc[t] \notin WithoutEntries \cup {"add_theirs"}
         \/ Sending(t) => PairOf(t) \in disturbed'
  PROVE  PairInv'
<1>1. OthersKept(t) /\ ~Sending(t)'
  BY Ended DEF Sending
<1>2. \A u, v \in User : Entry(u, v)' = Entry(u, v)
  BY DEF Entry
<1>3. Sending(t) /\ PairOf(t) \notin disturbed' =>
        \A u, v \in User : {u, v} = PairOf(t) => Entry(u, v)' = Entry(v, u)'
  <2> SUFFICES ASSUME Sending(t), PairOf(t) \notin disturbed',
                      NEW u \in User, NEW v \in User, {u, v} = PairOf(t)
               PROVE  Entry(u, v) = Entry(v, u)
    BY <1>2
  <2>1. Phase(t) /\ pc[t] \notin WithoutEntries \cup {"add_theirs"}
    BY DEF PairInv, Undisturbed
  <2>2. Entry(Self(t), Peer(t)) = Entry(Peer(t), Self(t))
    BY <2>1 DEF Phase
  <2>3. (Self(t) = u /\ Peer(t) = v) \/ (Self(t) = v /\ Peer(t) = u)
    BY DEF PairOf
  <2> QED
    BY <2>2, <2>3
<1> QED
  BY <1>1, <1>2, <1>3, PairStep

LEMMA PairOpen ==
  ASSUME IInv, PairInv, NEW t \in Thread, OpenTables(t)
  PROVE  PairInv'
<1> USE DEF Labels, WithoutEntries, history
<1>1. AfterOpenOwn(t) \in {"open_theirs", "look"}
  BY DEF AfterOpenOwn
<1> DEFINE Calm == {"create_own", "open_theirs", "create_theirs", "look"}
<1>2. ASSUME NEW label \in Calm, Goto(t, label), UNCHANGED session_id,
             UNCHANGED <<friends_sessions, disturbed>>,
             pc[t] \in {"open_own", "create_own", "open_theirs", "create_theirs"}
      PROVE  PairInv'
  <2>1. pc'[t] = label /\ op' = op
    BY <1>2 DEF Goto, IInv, TypeOK
  <2>2. Phase(t) => Phase(t)'
    BY <1>2, <2>1 DEF Phase, Entry, Self, Peer
  <2> QED
    BY <1>2, <2>2, PairGoto
<1>3. ASSUME End(t), UNCHANGED <<friends_sessions, disturbed>>,
             pc[t] \in {"open_own", "create_own", "open_theirs", "create_theirs"}
      PROVE  PairInv'
  BY <1>3, PairEnd
<1>4. CASE Open(t, "open_own", Self(t), "create_own", AfterOpenOwn(t))
  <2>1. PICK label \in Calm : Goto(t, label)
    BY <1>1, <1>4 DEF Open
  <2> QED
    BY <1>2, <1>4, <2>1 DEF Open, tables
<1>5. CASE Create(t, "create_own", Self(t), AfterOpenOwn(t))
  BY <1>1, <1>2, <1>3, <1>5 DEF Create, Proceed
<1>6. CASE Open(t, "open_theirs", Peer(t), "create_theirs", "look")
  <2>1. PICK label \in Calm : Goto(t, label)
    BY <1>6 DEF Open
  <2> QED
    BY <1>2, <1>6, <2>1 DEF Open, tables
<1>7. CASE Create(t, "create_theirs", Peer(t), "look")
  BY <1>2, <1>3, <1>7 DEF Create, Proceed
<1> QED
  BY <1>4, <1>5, <1>6, <1>7 DEF OpenTables

(* The steps between the first look and the first row, and those after the  *)
(* second.                                                                  *)
LEMMA PairQuiet ==
  ASSUME IInv, PairInv, NEW t \in Thread,
         FindSession(t) \/ CreateSession(t) \/ AddMembers(t) \/ UseSession(t)
           \/ MakeMessageTable(t)
  PROVE  PairInv'
<1> USE DEF tables, history, Labels, WithoutEntries
<1>1. PICK label \in {"create", "use", "add_members", "add_own", "make_log",
                      "add_message"} :
        /\ Goto(t, label) /\ pc[t] # "idle"
        /\ label \in WithoutEntries =>
             pc[t] \in WithoutEntries
               \/ (Entry(Self(t), Peer(t)) = NoSession /\ pc[t] = "look")
        /\ label \notin WithoutEntries => pc[t] \in {"look", "use", "make_log"}
  BY DEF FindSession, CreateSession, AddMembers, UseSession, MakeMessageTable
<1>2. pc'[t] = label /\ op' = op
  BY <1>1 DEF Goto, IInv, TypeOK
<1>3. UNCHANGED <<friends_sessions, disturbed>>
  BY DEF FindSession, CreateSession, AddMembers, UseSession, MakeMessageTable
<1>4. \A s \in Thread \ {t} : session_id'[s] = session_id[s]
  BY DEF FindSession, CreateSession, AddMembers, UseSession, MakeMessageTable, IInv, TypeOK
<1>5. Phase(t) => Phase(t)'
  BY <1>1, <1>2, <1>3 DEF Phase, Entry, Self, Peer
<1> QED
  BY <1>1, <1>3, <1>4, <1>5, PairGoto

(* The two rows.  A row that is there already means a disturbed pair.       *)
LEMMA PairEntries ==
  ASSUME IInv, PairInv, NEW t \in Thread, AddOwnSession(t) \/ AddFriendsSession(t)
  PROVE  PairInv'
<1> USE DEF history, WithoutEntries
<1>1. PICK u \in User, v \in User, next \in {"add_theirs", "use"} :
        /\ \/ pc[t] = "add_own" /\ u = Self(t) /\ v = Peer(t) /\ next = "add_theirs"
           \/ pc[t] = "add_theirs" /\ u = Peer(t) /\ v = Self(t) /\ next = "use"
        /\ AddFriendSession(t, u, v, next)
  BY Request DEF AddOwnSession, AddFriendsSession
<1>2. UNCHANGED disturbed
  BY DEF AddOwnSession, AddFriendsSession
<1>3. Sending(t) /\ Self(t) # Peer(t) /\ PairOf(t) = {u, v} /\ session_id[t] # NoSession
  BY <1>1, SessionAssumption
     DEF IInv, BusyThread, SendLabels, Sending, PairOf, Making, TypeOK
<1>4. CASE Entry(u, v) # NoSession
  <2>1. PairOf(t) \in disturbed
    BY <1>1, <1>3, <1>4 DEF PairInv, Undisturbed, Phase
  <2> QED
    BY <1>1, <1>2, <1>4, <2>1, PairEnd DEF AddFriendSession, Proceed
<1>5. CASE Entry(u, v) = NoSession
  <2>1. /\ friends_sessions' = [friends_sessions EXCEPT ![u][v] = session_id[t]]
        /\ Goto(t, next) /\ UNCHANGED session_id
    BY <1>1, <1>5 DEF AddFriendSession, Proceed
  <2>2. \A x, y \in User :
          Entry(x, y)' = IF x = u /\ y = v THEN session_id[t] ELSE Entry(x, y)
    BY <2>1 DEF Entry, IInv, TypeOK
  <2>3. pc'[t] = next /\ op' = op /\ OthersKept(t)
    BY <2>1 DEF Goto, OthersKept, IInv, TypeOK
  <2>4. Sending(t)' /\ Self(t)' = Self(t) /\ Peer(t)' = Peer(t)
    BY <1>3, <2>3 DEF Sending, Self, Peer
  <2>5. PairOf(t) \notin disturbed => Phase(t)
    BY <1>3 DEF PairInv, Undisturbed
  <2>6. Phase(t) => Phase(t)'
    <3>1. /\ Entry(Self(t), Peer(t))' = friends_sessions'[Self(t)][Peer(t)]
          /\ Entry(Peer(t), Self(t))' = friends_sessions'[Peer(t)][Self(t)]
      BY <2>4 DEF Entry
    <3>2. /\ friends_sessions'[u][v] = session_id[t]
          /\ friends_sessions'[v][u] = Entry(v, u)
      BY <1>1, <1>3, <2>2 DEF Entry
    <3> QED
      BY <1>1, <2>1, <2>3, <3>1, <3>2 DEF Phase
  <2>7. \A x, y \in User : Entry(x, y)' = Entry(x, y) \/ {x, y} = PairOf(t)
    BY <1>3, <2>2
  <2> QED
    BY <1>2, <1>3, <2>3, <2>4, <2>5, <2>6, <2>7, PairStep
<1> QED
  BY <1>4, <1>5

LEMMA PairEnds ==
  ASSUME IInv, PairInv, NEW t \in Thread,
         LookForMessages(t) \/ ReadMessages(t) \/ AddMessage(t) \/ Busy(t)
  PROVE  PairInv'
<1> USE DEF tables, history, WithoutEntries, Labels
<1>1. CASE LookForMessages(t)
  <2>1. CASE Entry(Self(t), Peer(t)) # NoSession
    <3>1. pc'[t] = "read" /\ op' = op
      BY <1>1, <2>1 DEF LookForMessages, Proceed, Goto, IInv, TypeOK
    <3>2. Phase(t) => Phase(t)'
      BY <1>1, <3>1 DEF LookForMessages, Phase, Entry, Self, Peer
    <3> QED
      BY <1>1, <2>1, <3>2, PairGoto DEF LookForMessages, Proceed
  <2>2. CASE Entry(Self(t), Peer(t)) = NoSession
    BY <1>1, <2>2, PairEnd DEF LookForMessages, Proceed
  <2> QED
    BY <2>1, <2>2
<1>2. CASE ReadMessages(t)
  BY <1>2, PairEnd DEF ReadMessages
<1>3. CASE AddMessage(t)
  BY <1>3, PairEnd DEF AddMessage
<1>4. CASE Busy(t)
  BY <1>4, PairEnd DEF Busy, CutShort
<1> QED
  BY <1>1, <1>2, <1>3, <1>4

(* A request that begins while another 201 is handled for the two disturbs  *)
(* them; otherwise they have one session or none.                           *)
LEMMA PairSend ==
  ASSUME IInv, PairInv, NEW t \in Thread, NEW u \in User, NEW v \in User, Send(t, u, v)
  PROVE  PairInv'
<1> USE DEF tables
<1>1. /\ pc[t] = "idle" /\ pc'[t] = "open_own" /\ op'[t].kind = "send"
      /\ op'[t].self = u /\ op'[t].peer = v
      /\ UNCHANGED <<friends_sessions, session_id>>
  BY DEF Send, Start, IInv, TypeOK
<1>2. \A s \in Thread \ {t} : pc'[s] = pc[s] /\ op'[s] = op[s]
  BY DEF Send, Start, IInv, TypeOK
<1>3. \A s \in Thread \ {t} :
        /\ Sending(s)' = Sending(s) /\ PairOf(s)' = PairOf(s)
        /\ Self(s)' = Self(s) /\ Peer(s)' = Peer(s)
  BY <1>2 DEF Sending, PairOf, Self, Peer
<1>4. /\ Sending(t)' /\ ~Sending(t) /\ Self(t)' = u /\ Peer(t)' = v
      /\ PairOf(t)' = {u, v}
  BY <1>1 DEF Sending, PairOf, Self, Peer
<1>5. /\ disturbed \subseteq disturbed'
      /\ \A s \in Thread : Sending(s) /\ PairOf(s) = {u, v} => {u, v} \in disturbed'
  BY DEF Send
<1>6. \A x, y \in User : Entry(x, y)' = Entry(x, y)
  BY <1>1 DEF Entry
<1>7. SoleSender'
  <2> SUFFICES ASSUME NEW r \in Thread, NEW s \in Thread, Sending(r)', Sending(s)',
                      r # s, PairOf(r)' = PairOf(s)'
               PROVE  PairOf(s)' \in disturbed'
    BY DEF SoleSender
  <2>1. CASE r = t
    BY <1>3, <1>4, <1>5, <2>1
  <2>2. CASE s = t
    BY <1>3, <1>4, <1>5, <2>2
  <2>3. CASE r # t /\ s # t
    BY <1>3, <1>5, <2>3 DEF PairInv, SoleSender
  <2> QED
    BY <2>1, <2>2, <2>3
<1>8. Undisturbed'
  <2> SUFFICES ASSUME NEW s \in Thread, Sending(s)', PairOf(s)' \notin disturbed'
               PROVE  Phase(s)'
    BY DEF Undisturbed
  <2>1. CASE s = t
    <3>1. Entry(u, v) = Entry(v, u)
      BY <1>4, <1>5, <2>1 DEF PairInv, OneSession
    <3>2. friends_sessions'[u][v] = friends_sessions'[v][u]
      BY <1>1, <3>1 DEF Entry
    <3> QED
      BY <1>1, <1>4, <2>1, <3>2 DEF Phase, WithoutEntries, Entry
  <2>2. CASE s # t
    <3>1. Sending(s) /\ PairOf(s) \notin disturbed /\ Phase(s)
      BY <1>3, <1>5, <2>2 DEF PairInv, Undisturbed
    <3> QED
      BY <1>1, <1>2, <2>2, <3>1 DEF Phase, Entry, Self, Peer
  <2> QED
    BY <2>1, <2>2
<1>9. OneSession'
  BY <1>3, <1>4, <1>5, <1>6 DEF PairInv, OneSession
<1> QED
  BY <1>7, <1>8, <1>9 DEF PairInv

LEMMA PairCrash ==
  ASSUME IInv, PairInv, Crash
  PROVE  PairInv'
<1>1. \A t \in Thread : ~Sending(t)'
  BY DEF Crash, Sending
<1>2. /\ disturbed \subseteq disturbed'
      /\ \A t \in Thread : Sending(t) => PairOf(t) \in disturbed'
      /\ UNCHANGED friends_sessions
  BY DEF Crash, CutShort, tables
<1>3. SoleSender' /\ Undisturbed'
  BY <1>1 DEF SoleSender, Undisturbed
<1>4. OneSession'
  <2>1. \A u, v \in User : Entry(u, v)' = Entry(u, v)
    BY <1>2 DEF Entry
  <2> QED
    BY <1>2, <2>1 DEF PairInv, OneSession
<1> QED
  BY <1>3, <1>4 DEF PairInv

(* A query, or a step that changes nothing, is no request 201.              *)
LEMMA PairQuery ==
  ASSUME IInv, PairInv, NEW t \in Thread, NEW u \in User, NEW v \in User, NEW r \in Ranges,
         Query(t, u, v, r)
  PROVE  PairInv'
<1>1. ~Sending(t) /\ ~Sending(t)' /\ UNCHANGED <<friends_sessions, disturbed>>
  BY DEF Query, Start, Sending, tables, IInv, TypeOK
<1>2. OthersKept(t)
  BY DEF Query, Start, OthersKept, IInv, TypeOK
<1>3. \A x, y \in User : Entry(x, y)' = Entry(x, y)
  BY <1>1 DEF Entry
<1> QED
  BY <1>1, <1>2, <1>3, PairStep

(* Two friends come to have two sessions, or one of them none, only when    *)
(* two requests 201 of theirs have overlapped, or one has been cut short.   *)
THEOREM SameSession == Spec => []OneSession
<1>1. Init => PairInv
  BY DEF Init, PairInv, SoleSender, Undisturbed, OneSession, Sending, Entry
<1>2. IInv /\ PairInv /\ [Next]_vars => PairInv'
  <2> SUFFICES ASSUME IInv, PairInv, [Next]_vars PROVE PairInv'
    OBVIOUS
  <2>1. ASSUME NEW t \in Thread, NEW u \in User, NEW v \in User,
               Send(t, u, v) \/ \E r \in Ranges : Query(t, u, v, r)
        PROVE  PairInv'
    BY <2>1, PairSend, PairQuery
  <2>2. ASSUME NEW t \in Thread, Handler(t) PROVE PairInv'
    BY <2>2, PairOpen, PairQuiet, PairEntries, PairEnds DEF Handler
  <2>3. ASSUME NEW t \in Thread, ReadMessages(t) PROVE PairInv'
    BY <2>3, PairEnds
  <2>4. CASE Crash
    BY <2>4, PairCrash
  <2>5. CASE UNCHANGED vars
    BY <2>5 DEF vars, tables, handlers, history, PairInv, SoleSender, Undisturbed,
       OneSession, Sending, PairOf, Self, Peer, Entry, Phase
  <2> QED
    BY <2>1, <2>2, <2>3, <2>4, <2>5 DEF Next
<1>3. PairInv => OneSession
  BY DEF PairInv
<1> QED
  BY <1>1, <1>2, <1>3, Invariant, PTL DEF Spec
=============================================================================
