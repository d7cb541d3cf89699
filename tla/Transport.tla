------------------------------ MODULE Transport ------------------------------
(***************************************************************************)
(* Packets on one connection.  SafeNetwork (safe_network.cpp) frames them: *)
(* a header of four bytes with the size, then the body.  The server reads  *)
(* one request at a time (module Server shows that), deals with it and     *)
(* answers it through SendingAsync (sending_async.cpp); other threads push *)
(* packets to the same connection, and a queue of SendingAsync, which has  *)
(* a MessageQueue and a thread of its own, may send some too.              *)
(*                                                                         *)
(* The network delivers what the client writes in pieces of any size, and  *)
(* recv (TCPConnection, Network.cpp) takes what is there, up to the length *)
(* it is given.  Bytes are counted; to the client a header and a body are  *)
(* sent, each by one call.                                                 *)
(***************************************************************************)
EXTENDS Integers, SequencesExt

CONSTANTS
  HeaderSize,    \* 4
  MaxPack,       \* 1024 * 1024
  Size,          \* the sizes of the packets that the client sends
  Pusher,        \* threads that push to the connection
  Task, Queue,   \* the task of the connection; the thread of the queue
  Nothing,       \* nothing was sent yet
  MaxRequests,   \* bounds the packets that the client sends
  MaxPushes,     \* bounds the packets of each pusher
  MaxQueued      \* bounds the packets of the queue

ASSUME SizeAssumption == HeaderSize \in Nat \ {0} /\ MaxPack \in Nat /\ Size \subseteq Nat
ASSUME SenderAssumption == Task # Queue /\ {Task, Queue} \cap Pusher = {}

Sender == Pusher \cup {Task, Queue}

ASSUME NothingAssumption ==
  Nothing \notin [from : Sender, number : Nat, part : {"header", "body"}]
ASSUME CountAssumption == {MaxRequests, MaxPushes, MaxQueued} \subseteq Nat

VARIABLES
  sent,        \* the requests: their size, and where they end in the stream
  arrived,     \* bytes of them that have arrived
  consumed,    \* bytes that recv has taken
  phase,       \* where the server is with the connection
  need,        \* need_size
  reads,       \* requests read
  last,        \* what was sent to the client last
  frame,       \* sender -> the number of the packet it sends, or sent last
  middle,      \* the senders between a header and its body
  waiting,     \* the packets in the queue
  submitted,   \* how many were ever put there
  thread,      \* the thread of the queue: see ThreadLabels
  too_large,   \* the packets of the queue that are over max_pack_size
  whole,       \* history: those of which the header and the body were sent
  gone,        \* the client hung up
  header_cut,  \* history: the header of this request was read in pieces
  body_cut,    \* history: its body was
  pipelined,   \* history: a request was sent before the last one was answered
  overlapped   \* history: a header was sent between another and its body

reading == <<arrived, consumed, phase, need, reads>>
sending == <<last, frame, middle>>
queueing == <<waiting, submitted, thread, too_large, whole>>
cuts == <<header_cut, body_cut>>
tr_vars == <<sent, arrived, consumed, phase, need, reads, last, frame, middle, waiting,
             submitted, thread, too_large, whole, gone, header_cut, body_cut,
             pipelined, overlapped>>

TRInit ==
  /\ sent = <<>> /\ arrived = 0 /\ consumed = 0
  /\ phase = "wait" /\ need = 0 /\ reads = 0
  /\ last = Nothing /\ frame = [s \in Sender |-> 0] /\ middle = {}
  /\ waiting = <<>> /\ submitted = 0 /\ thread = "none"
  /\ too_large = {} /\ whole = {}
  /\ gone = FALSE
  /\ header_cut = FALSE /\ body_cut = FALSE
  /\ pipelined = FALSE /\ overlapped = FALSE

(* Where the n-th request ends in the stream of the client.                *)
End(n) == IF n = 0 THEN 0 ELSE sent[n].end

Least(m, n) == IF m < n THEN m ELSE n
-----------------------------------------------------------------------------
(* The client and the network *)

Request(size) ==
  /\ ~gone /\ Len(sent) < MaxRequests
  /\ sent' = Append(sent, [size |-> size, end |-> End(Len(sent)) + HeaderSize + size])
  /\ pipelined' = (pipelined \/ reads < Len(sent) \/ phase # "wait")
  /\ UNCHANGED <<reading, sending, queueing, gone, cuts, overlapped>>

Arrive ==
  /\ \E n \in arrived + 1 .. End(Len(sent)) : arrived' = n
  /\ UNCHANGED <<sent, consumed, phase, need, reads, sending, queueing, gone, cuts,
                 pipelined, overlapped>>

ClientLeaves ==
  /\ ~gone
  /\ gone' = TRUE
  /\ UNCHANGED <<sent, reading, sending, queueing, cuts, pipelined, overlapped>>

-----------------------------------------------------------------------------
(* SafeNetwork::Recv *)

At(label) == phase = label

Begin ==
  /\ At("wait") /\ arrived > consumed
  /\ phase' = "header"
  /\ need' = HeaderSize
  /\ header_cut' = FALSE /\ body_cut' = FALSE
  /\ UNCHANGED <<sent, arrived, consumed, reads, sending, queueing, gone, pipelined,
                 overlapped>>

(* recv is asked for a whole field each time, also when a part of it is    *)
(* there.  What is too much is copied behind the field, and need_size,     *)
(* negative now, does not come back to 0: the loop reads on, over whatever *)
(* lies behind.                                                            *)
Received(field) == Least(field, arrived - consumed)

ReadHeader ==
  /\ At("header") /\ arrived > consumed
  /\ consumed' = consumed + Received(HeaderSize)
  /\ LET left == need - Received(HeaderSize)
         size == sent[reads + 1].size
     IN \/ /\ left > 0
           /\ need' = left
           /\ UNCHANGED phase
        \/ /\ left = 0
           /\ need' = size
           /\ phase' = IF size \in 1 .. MaxPack THEN "body" ELSE "closed"
        \/ /\ left < 0
           /\ need' = left
           /\ phase' = "overrun"
  /\ header_cut' = (header_cut \/ phase' = "header")
  /\ UNCHANGED <<sent, arrived, reads, sending, queueing, gone, body_cut, pipelined,
                 overlapped>>

(* Mutant: the body is asked for with the size of a full buffer. *)
ReadBody_Whole ==
  /\ At("body") /\ arrived > consumed
  /\ consumed' = consumed + Received(MaxPack)
  /\ need' = need - Received(MaxPack)
  /\ phase' = IF need' > 0 THEN "body" ELSE IF need' = 0 THEN "deal" ELSE "overrun"
  /\ reads' = IF need' = 0 THEN reads + 1 ELSE reads
  /\ body_cut' = (body_cut \/ need' > 0)
  /\ UNCHANGED <<sent, arrived, sending, queueing, gone, header_cut, pipelined, overlapped>>

ReadBody ==
  /\ At("body") /\ arrived > consumed
  /\ LET size == sent[reads + 1].size
     IN /\ consumed' = consumed + Received(size)
        /\ need' = need - Received(size)
  /\ phase' = IF need' > 0 THEN "body" ELSE IF need' = 0 THEN "deal" ELSE "overrun"
  /\ reads' = IF need' = 0 THEN reads + 1 ELSE reads
  /\ body_cut' = (body_cut \/ need' > 0)
  /\ UNCHANGED <<sent, arrived, sending, queueing, gone, header_cut, pipelined, overlapped>>

(* recv returns 0: the exception closes the connection.                    *)
ReadFails ==
  /\ phase \in {"wait", "header", "body"} /\ gone /\ arrived = consumed
  /\ phase' = "closed"
  /\ UNCHANGED <<sent, arrived, consumed, need, reads, sending, queueing, gone, cuts,
                 pipelined, overlapped>>

-----------------------------------------------------------------------------
(* SafeNetwork::Send: two calls of send *)

Piece(s, n, part) == [from |-> s, number |-> n, part |-> part]

SendHeader(s, n) ==
  /\ last' = Piece(s, n, "header")
  /\ frame' = [frame EXCEPT ![s] = n]
  /\ overlapped' = (overlapped \/ middle # {})
  /\ middle' = middle \cup {s}

SendBody(s) ==
  /\ last' = Piece(s, frame[s], "body")
  /\ middle' = middle \ {s}
  /\ UNCHANGED <<frame, overlapped>>

(* Either may fail when the client hung up.                                *)
HeaderFails(s, n) ==
  /\ gone
  /\ frame' = [frame EXCEPT ![s] = n]
  /\ UNCHANGED <<last, middle, overlapped>>

BodyFails(s) ==
  /\ gone
  /\ middle' = middle \ {s}
  /\ UNCHANGED <<last, frame, overlapped>>

(* Nothing is sent of a packet that is too large: what Send throws goes no  *)
(* further than SendingPack::Send, and the client stays.                   *)
LeftOut(s, n) ==
  /\ frame' = [frame EXCEPT ![s] = n]
  /\ UNCHANGED <<last, middle, overlapped>>

(* The answer to a request, SendingAsync::Send without a queue.            *)
Answer ==
  /\ At("deal")
  /\ \/ SendHeader(Task, reads) /\ phase' = "answer"
     \/ HeaderFails(Task, reads) /\ phase' = "wait"
     \/ LeftOut(Task, reads) /\ phase' = "wait"
  /\ UNCHANGED <<sent, arrived, consumed, need, reads, queueing, gone, cuts, pipelined>>

Answered ==
  /\ At("answer")
  /\ SendBody(Task) \/ BodyFails(Task)
  /\ phase' = "wait"
  /\ UNCHANGED <<sent, arrived, consumed, need, reads, queueing, gone, cuts, pipelined>>

(* Of a message to the user that is online on this connection.             *)
Push(p) ==
  /\ p \notin middle /\ frame[p] < MaxPushes
  /\ \/ SendHeader(p, frame[p] + 1) \/ HeaderFails(p, frame[p] + 1)
     \/ LeftOut(p, frame[p] + 1)
  /\ UNCHANGED <<sent, reading, queueing, gone, cuts, pipelined>>

PushBody(p) ==
  /\ p \in middle
  /\ SendBody(p) \/ BodyFails(p)
  /\ UNCHANGED <<sent, reading, queueing, gone, cuts, pipelined>>

-----------------------------------------------------------------------------
(* SendingAsync::Send with the name of a queue *)

(* A queue that is not there is made, with a thread.                       *)
Submit ==
  /\ submitted < MaxQueued
  /\ submitted' = submitted + 1
  /\ waiting' = Append(waiting, submitted + 1)
  /\ too_large' \in {too_large, too_large \cup {submitted + 1}}
  /\ thread' = IF thread = "none" THEN "starting" ELSE thread
  /\ UNCHANGED <<sent, reading, sending, whole, gone, cuts, pipelined, overlapped>>

ThreadLabels == {"none", "starting", "ready", "holding", "sending"}

ThreadStarts ==
  /\ thread = "starting"
  /\ thread' = "ready"
  /\ UNCHANGED <<sent, reading, sending, waiting, submitted, too_large, whole, gone, cuts,
                 pipelined, overlapped>>

(* Mutant: the packet that came last is taken. *)
ThreadTakes_Last ==
  /\ thread = "ready" /\ waiting # <<>>
  /\ frame' = [frame EXCEPT ![Queue] = Last(waiting)]
  /\ waiting' = Front(waiting)
  /\ thread' = "holding"
  /\ UNCHANGED <<sent, reading, last, middle, submitted, too_large, whole, gone, cuts,
                 pipelined, overlapped>>

(* GetItem(0), under the mutex; the packet is sent without it.             *)
ThreadTakes ==
  /\ thread = "ready" /\ waiting # <<>>
  /\ frame' = [frame EXCEPT ![Queue] = Head(waiting)]
  /\ waiting' = Tail(waiting)
  /\ thread' = "holding"
  /\ UNCHANGED <<sent, reading, last, middle, submitted, too_large, whole, gone, cuts,
                 pipelined, overlapped>>

ThreadSends ==
  /\ thread = "holding"
  /\ \/ /\ frame[Queue] \notin too_large
        /\ \/ SendHeader(Queue, frame[Queue]) /\ thread' = "sending"
           \/ HeaderFails(Queue, frame[Queue]) /\ thread' = "ready"
     \/ /\ frame[Queue] \in too_large
        /\ LeftOut(Queue, frame[Queue]) /\ thread' = "ready"
  /\ UNCHANGED <<sent, reading, waiting, submitted, too_large, whole, gone, cuts, pipelined>>

ThreadSent ==
  /\ thread = "sending"
  /\ \/ SendBody(Queue) /\ whole' = whole \cup {frame[Queue]}
     \/ BodyFails(Queue) /\ UNCHANGED whole
  /\ thread' = "ready"
  /\ UNCHANGED <<sent, reading, waiting, submitted, too_large, gone, cuts, pipelined>>

(* Mutant: the queue is given up without a look at what it holds. *)
ThreadEnds_Early ==
  /\ thread = "ready"
  /\ thread' = "none"
  /\ UNCHANGED <<sent, reading, sending, waiting, submitted, too_large, whole, gone, cuts,
                 pipelined, overlapped>>

(* GetItem(0) finds nothing: still under the mutex, the queue is erased.   *)
ThreadEnds ==
  /\ thread = "ready" /\ waiting = <<>>
  /\ thread' = "none"
  /\ UNCHANGED <<sent, reading, sending, waiting, submitted, too_large, whole, gone, cuts,
                 pipelined, overlapped>>

-----------------------------------------------------------------------------
Client == (\E size \in Size : Request(size)) \/ Arrive \/ ClientLeaves
Serve == Begin \/ ReadHeader \/ ReadBody \/ ReadFails \/ Answer \/ Answered
QueueThread == ThreadStarts \/ ThreadTakes \/ ThreadSends \/ ThreadSent \/ ThreadEnds

TRNext ==
  \/ Client \/ Serve \/ Submit \/ QueueThread
  \/ \E p \in Pusher : Push(p) \/ PushBody(p)

TRSpec == TRInit /\ [][TRNext]_tr_vars

(* The thread of the queue goes on when it can.                            *)
TRFairSpec == TRSpec /\ WF_tr_vars(QueueThread)

-----------------------------------------------------------------------------
(* Properties *)

TRTypeOK ==
  /\ sent \in Seq([size : Size, end : Nat])
  /\ arrived \in Nat /\ consumed \in 0 .. arrived
  /\ phase \in {"wait", "header", "body", "deal", "answer", "closed", "overrun"}
  /\ need \in Int /\ reads \in 0 .. Len(sent)
  /\ last \in [from : Sender, number : Nat, part : {"header", "body"}] \cup {Nothing}
  /\ frame \in [Sender -> Nat] /\ middle \subseteq Sender
  /\ waiting \in Seq(Nat) /\ submitted \in Nat /\ thread \in ThreadLabels
  /\ too_large \subseteq Nat /\ whole \subseteq Nat
  /\ {gone, header_cut, body_cut, pipelined, overlapped} \subseteq BOOLEAN

(* The server reads the requests as the client framed them: between two of *)
(* them it has read to the end of one, and it runs over the end of a field *)
(* only when the header came in pieces, or when the body did and the       *)
(* client did not wait for the answer to an earlier request.               *)
FramesInStep ==
  /\ phase \in {"wait", "deal", "answer"} => consumed = End(reads)
  /\ phase = "overrun" => header_cut \/ (body_cut /\ pipelined)

InMiddle == last # Nothing /\ last.part = "header"

(* The client can tell the packets apart: what follows a header is its     *)
(* body, and a body follows its own header, unless two threads sent at     *)
(* once or the client hung up; and the packets of a sender come in order.  *)
OutgoingIntact ==
  [][/\ (last' # last /\ ~gone /\ ~overlapped') =>
          last'.part = (IF InMiddle THEN "body" ELSE "header")
     /\ (last' # last /\ InMiddle /\ ~gone /\ ~overlapped') =>
          last' = [last EXCEPT !.part = "body"]
     /\ \A s \in Sender : frame'[s] >= frame[s]]_tr_vars

(* Of a packet that was put into the queue the header and the body are      *)
(* sent, also when the thread of the queue was about to end, unless the     *)
(* client hung up or the packet is too large to be sent at all.             *)
QueuedSent ==
  \A n \in 1 .. MaxQueued :
    submitted >= n ~> (gone \/ n \in whole \/ n \in too_large)
-----------------------------------------------------------------------------
(* The inductive invariant of the sending side, for OutgoingIntact          *)

Counts ==
  /\ frame \in [Sender -> Nat] /\ middle \subseteq Sender
  /\ reads \in Nat /\ submitted \in Nat /\ waiting \in Seq(Nat)

(* The task and the thread of the queue send when they are where they send. *)
MiddleByPhase ==
  /\ Task \in middle <=> phase = "answer"
  /\ Queue \in middle <=> thread = "sending"

(* Between a header and its body nothing else was sent.                     *)
HeaderLast ==
  ~gone /\ ~overlapped =>
    /\ middle = {} => ~InMiddle
    /\ \A s \in middle : last = Piece(s, frame[s], "header")

(* The task answers the last request it read; the queue is numbered through *)
(* and what the thread took came before what is waiting.                    *)
NumbersAhead ==
  /\ frame[Task] <= reads
  /\ frame[Queue] + Len(waiting) <= submitted
  /\ \A i \in 1 .. Len(waiting) : waiting[i] = submitted - Len(waiting) + i

SendingInv == Counts /\ MiddleByPhase /\ HeaderLast /\ NumbersAhead
-----------------------------------------------------------------------------
(* The inductive invariant of the receiving side, for FramesInStep          *)

Stream ==
  /\ sent \in Seq([size : Size, end : Nat])
  /\ \A n \in 1 .. Len(sent) : End(n) = End(n - 1) + HeaderSize + sent[n].size
  /\ arrived \in 0 .. End(Len(sent)) /\ consumed \in 0 .. arrived
  /\ reads \in 0 .. Len(sent)

(* Between two requests the server is at the end of one.  In a header or a  *)
(* body it is as far from its end as need_size says; when that is less than *)
(* the whole, the field came in pieces.                                     *)
AtBoundary == phase \in {"wait", "deal", "answer"} => consumed = End(reads)

InHeader ==
  phase = "header" =>
    /\ reads < Len(sent) /\ need \in 1 .. HeaderSize
    /\ consumed = End(reads) + HeaderSize - need
    /\ need < HeaderSize => header_cut

InBody ==
  phase = "body" =>
    /\ reads < Len(sent) /\ need \in 1 .. sent[reads + 1].size
    /\ consumed = End(reads + 1) - need
    /\ need < sent[reads + 1].size => body_cut

(* With two requests that were not read, the client did not wait.           *)
Ahead == Len(sent) >= reads + 2 => pipelined

Overrun == phase = "overrun" => header_cut \/ (body_cut /\ pipelined)

FrameInv ==
  /\ Stream /\ AtBoundary /\ InHeader /\ InBody /\ Ahead /\ Overrun
  /\ {header_cut, body_cut, pipelined} \subseteq BOOLEAN
=============================================================================
