---------------------------- MODULE AudioStream ----------------------------
(***************************************************************************)
(* The streaming protocol of lab5: the client (audio_client.c) asks for a  *)
(* file and repeats the request every 500 ms until a packet arrives; the   *)
(* parent server (audio_server.c) forks a child for every request; a child *)
(* sends the file block by block, sleeps for its packet interval after     *)
(* each, and reads one feedback packet if there is one; after the file it  *)
(* sends empty packets, the first of which ends the client's stream.       *)
(*                                                                         *)
(* There are no sequence numbers.  A block is its number in the file, and  *)
(* a feedback packet the number of the packet it answers, in the order in  *)
(* which the client received them.  What the client does with a block, and *)
(* after the end of the stream, is module AudioQueue.                      *)
(***************************************************************************)
EXTENDS Integers, Sequences

CONSTANTS
  Children,     \* the server processes the parent may fork
  NumBlocks,    \* blocks of the file
  EofTries,     \* EOF_TRIES
  MaxRequests,  \* bound on the requests the client sends
  Budget        \* bound on the faults of each kind

FaultKinds == {"loss", "dup", "overtake", "early", "error"}

ASSUME StreamAssumption ==
  /\ NumBlocks \in Nat
  /\ EofTries \in Nat \ {0}
  /\ MaxRequests \in Nat
  /\ Budget \in [FaultKinds -> Nat]

VARIABLES
  client,       \* "start", "receive" (timer running), "stream", "ended", "failed"
  received,     \* the packets received, oldest first
  sent,         \* requests the client has sent
  requests,     \* requests on their way to the parent
  child,        \* child[c]: "free", "send", "sleep", "done" or "failed"
  next,         \* next[c]: blocks of the file c has sent
  interval,     \* interval[c]: the feedback c's packet interval is from; 0: lambda
  data,         \* data[c]: packets on their way from c to the client; 0: empty
  feedback,     \* feedback[c]: feedback on its way to c's socket
  faults        \* faults that have happened, by kind

clientVars == <<client, received, sent>>
childVars  == <<child, next, interval>>
netVars    == <<requests, data, feedback>>
vars       == <<clientVars, childVars, netVars, faults>>

-----------------------------------------------------------------------------
(* Faults and the network. *)

CanFault(kind) == faults[kind] < Budget[kind]

Fault(kind) == faults' = [faults EXCEPT ![kind] = @ + 1]

Without(q, i) == SubSeq(q, 1, i - 1) \o SubSeq(q, i + 1, Len(q))

(* The i-th packet of c arrives; it overtakes those before it, and the network *)
(* may keep a duplicate of it.                                                 *)
Arrive(c, i) ==
  \/ i = 1 /\ data' = [data EXCEPT ![c] = Tail(@)] /\ UNCHANGED faults
  \/ /\ i > 1 /\ CanFault("overtake") /\ Fault("overtake")
     /\ data' = [data EXCEPT ![c] = Without(@, i)]
  \/ i = 1 /\ CanFault("dup") /\ Fault("dup") /\ UNCHANGED data

(* A process that ended has no socket. *)
Listening(c) == child[c] \in {"send", "sleep"}

ClientListens == client \in {"receive", "stream"}

(* Packets c sends; nobody gets those to a client that has ended. *)
Transmit(c, ps) == data' = [data EXCEPT ![c] = IF ClientListens THEN @ \o ps ELSE @]

(* Nothing is under way to the client and no child will send anything. *)
Quiet ==
  /\ requests = 0
  /\ \A c \in Children : data[c] = <<>> /\ ~Listening(c)

-----------------------------------------------------------------------------
Init ==
  /\ client = "start" /\ received = <<>> /\ sent = 0 /\ requests = 0
  /\ child = [c \in Children |-> "free"]
  /\ next = [c \in Children |-> 0]
  /\ interval = [c \in Children |-> 0]
  /\ data = [c \in Children |-> <<>>]
  /\ feedback = [c \in Children |-> <<>>]
  /\ faults = [k \in FaultKinds |-> 0]

-----------------------------------------------------------------------------
(* The client. *)

SendRequest ==
  /\ sent < MaxRequests
  /\ sent' = sent + 1
  /\ requests' = requests + 1
  /\ client' = "receive"
  /\ UNCHANGED <<received, childVars, data, feedback>>

RequestFile == client = "start" /\ SendRequest /\ UNCHANGED faults

(* SIGALRM interrupts recvfrom before the first packet: ask again. *)
RequestTimeout ==
  /\ client = "receive"
  /\ SendRequest
  /\ \/ Quiet /\ UNCHANGED faults
     \/ CanFault("early") /\ Fault("early")

(* Variant for mutation: feedback goes to whoever sent the first packet. *)
ReplyToFirst(c) ==
  LET to == IF received = <<>> THEN c ELSE received[1].child IN
  feedback' = [feedback EXCEPT ![to] =
                 IF Listening(to) THEN Append(@, Len(received) + 1) ELSE @]

(* send_feedback: to the socket the packet came from. *)
Reply(c) ==
  feedback' = [feedback EXCEPT ![c] =
                 IF Listening(c) THEN Append(@, Len(received) + 1) ELSE @]

(* A block: the first one replaces the request timer by the playback timer. *)
ReceiveBlock(c, i) ==
  /\ data[c][i] # 0
  /\ Arrive(c, i)
  /\ received' = Append(received, [child |-> c, block |-> data[c][i]])
  /\ client' = "stream"
  /\ Reply(c)
  /\ UNCHANGED <<sent, childVars, requests>>

(* An empty packet, from whichever child: the stream is over, and what is     *)
(* still under way will not be read.                                          *)
ReceiveEof(c, i) ==
  /\ data[c][i] = 0
  /\ \/ i = 1 /\ UNCHANGED faults
     \/ i > 1 /\ CanFault("overtake") /\ Fault("overtake")
  /\ client' = "ended"
  /\ data' = [d \in Children |-> <<>>]
  /\ UNCHANGED <<received, sent, childVars, requests, feedback>>

ReceivePacket ==
  /\ ClientListens
  /\ \E c \in Children : \E i \in DOMAIN data[c] :
       ReceiveBlock(c, i) \/ ReceiveEof(c, i)

(* recvfrom, setitimer, sendto or the audio device fails: the client exits. *)
ClientFails ==
  /\ ClientListens
  /\ CanFault("error") /\ Fault("error")
  /\ client' = "failed"
  /\ data' = [d \in Children |-> <<>>]
  /\ UNCHANGED <<received, sent, childVars, requests, feedback>>

-----------------------------------------------------------------------------
(* The parent server. *)

ReceiveRequest(c) ==
  /\ requests > 0 /\ child[c] = "free"
  /\ requests' = requests - 1
  /\ child' = [child EXCEPT ![c] = "send"]
  /\ UNCHANGED <<clientVars, next, interval, data, feedback, faults>>

(* recvfrom or fork fails: the parent goes on to the next request. *)
RequestFails ==
  /\ requests > 0
  /\ CanFault("error") /\ Fault("error")
  /\ requests' = requests - 1
  /\ UNCHANGED <<clientVars, childVars, data, feedback>>

-----------------------------------------------------------------------------
(* The children: send_file, receive_feedback, send_eof. *)

(* Variant for mutation: the block read is sent again after every sleep. *)
SendBlockAgain(c) ==
  /\ child[c] = "send" /\ next[c] < NumBlocks
  /\ \E b \in {next[c], next[c] + 1} \ {0} :
       Transmit(c, <<b>>) /\ next' = [next EXCEPT ![c] = b]
  /\ child' = [child EXCEPT ![c] = "sleep"]
  /\ UNCHANGED <<clientVars, interval, requests, feedback, faults>>

(* Variant for mutation: the end of the file goes unnoticed. *)
SendBlockPastEnd(c) ==
  /\ child[c] = "send" /\ next[c] <= NumBlocks
  /\ Transmit(c, <<next[c] + 1>>)
  /\ next' = [next EXCEPT ![c] = @ + 1]
  /\ child' = [child EXCEPT ![c] = "sleep"]
  /\ UNCHANGED <<clientVars, interval, requests, feedback, faults>>

SendBlock(c) ==
  /\ child[c] = "send" /\ next[c] < NumBlocks
  /\ Transmit(c, <<next[c] + 1>>)
  /\ next' = [next EXCEPT ![c] = @ + 1]
  /\ child' = [child EXCEPT ![c] = "sleep"]
  /\ UNCHANGED <<clientVars, interval, requests, feedback, faults>>

(* After the sleep: the oldest feedback in the socket, if one has arrived. *)
PollFeedback(c) ==
  /\ child[c] = "sleep"
  /\ child' = [child EXCEPT ![c] = "send"]
  /\ \/ UNCHANGED <<interval, feedback>>
     \/ /\ feedback[c] # <<>>
        /\ interval' = [interval EXCEPT ![c] = Head(feedback[c])]
        /\ feedback' = [feedback EXCEPT ![c] = Tail(@)]
  /\ UNCHANGED <<clientVars, next, requests, data, faults>>

(* Variant for mutation: the file is taken to end a block early. *)
AtEndEarly(c) == next[c] + 1 >= NumBlocks

AtEnd(c) == next[c] = NumBlocks

(* Variant for mutation: one empty packet is enough. *)
OneEof == <<0>>

Eofs == [k \in 1 .. EofTries |-> 0]

SendEof(c) ==
  /\ child[c] = "send" /\ AtEnd(c)
  /\ Transmit(c, Eofs)
  /\ child' = [child EXCEPT ![c] = "done"]
  /\ feedback' = [feedback EXCEPT ![c] = <<>>]
  /\ UNCHANGED <<clientVars, next, interval, requests, faults>>

(* A call of the child fails, send_eof's possibly after some empty packets:   *)
(* the child exits, and its parent never knows.                               *)
ChildFails(c) ==
  /\ Listening(c)
  /\ CanFault("error") /\ Fault("error")
  /\ \/ UNCHANGED data
     \/ /\ child[c] = "send" /\ AtEnd(c)
        /\ \E n \in 1 .. EofTries - 1 : Transmit(c, SubSeq(Eofs, 1, n))
  /\ child' = [child EXCEPT ![c] = "failed"]
  /\ feedback' = [feedback EXCEPT ![c] = <<>>]
  /\ UNCHANGED <<clientVars, next, interval, requests>>

-----------------------------------------------------------------------------
(* The network loses a datagram of any kind. *)

Lose ==
  /\ CanFault("loss") /\ Fault("loss")
  /\ \/ requests > 0 /\ requests' = requests - 1 /\ UNCHANGED <<data, feedback>>
     \/ \E c \in Children : \E i \in DOMAIN data[c] :
          data' = [data EXCEPT ![c] = Without(@, i)] /\ UNCHANGED <<requests, feedback>>
     \/ \E c \in Children : \E i \in DOMAIN feedback[c] :
          feedback' = [feedback EXCEPT ![c] = Without(@, i)] /\ UNCHANGED <<requests, data>>
  /\ UNCHANGED <<clientVars, childVars>>

-----------------------------------------------------------------------------
Next ==
  \/ RequestFile \/ RequestTimeout \/ ReceivePacket \/ ClientFails
  \/ RequestFails
  \/ \E c \in Children :
       \/ ReceiveRequest(c)
       \/ SendBlock(c) \/ PollFeedback(c) \/ SendEof(c) \/ ChildFails(c)
  \/ Lose

Spec == Init /\ [][Next]_vars

(***************************************************************************)
(* Every process keeps running, a datagram not lost arrives, and the       *)
(* request timer, which is periodic, expires while nothing arrives.        *)
(***************************************************************************)
FairSpec ==
  /\ Spec
  /\ WF_vars(RequestFile) /\ WF_vars(RequestTimeout) /\ WF_vars(ReceivePacket)
  /\ \A c \in Children :
       /\ WF_vars(ReceiveRequest(c)) /\ WF_vars(SendBlock(c))
       /\ WF_vars(PollFeedback(c))   /\ WF_vars(SendEof(c))

-----------------------------------------------------------------------------
(* Types; next stays inside the file. *)
TypeOK ==
  /\ client \in {"start", "receive", "stream", "ended", "failed"}
  /\ received \in Seq([child : Children, block : 1 .. NumBlocks])
  /\ sent \in Nat /\ requests \in Nat
  /\ child \in [Children -> {"free", "send", "sleep", "done", "failed"}]
  /\ next \in [Children -> 0 .. NumBlocks]
  /\ interval \in [Children -> Nat]
  /\ data \in [Children -> Seq(0 .. NumBlocks)]
  /\ feedback \in [Children -> Seq(Nat)]
  /\ faults \in [FaultKinds -> Nat]

(***************************************************************************)
(* The packets of one child are received in the order of the file, each at *)
(* most once, as long as the network keeps their order, whatever else is   *)
(* lost and however many children send at the same time.                   *)
(***************************************************************************)
SenderOrder ==
  faults["dup"] = 0 /\ faults["overtake"] = 0 =>
    \A i, j \in DOMAIN received :
      i < j /\ received[i].child = received[j].child
        => received[i].block < received[j].block

(***************************************************************************)
(* The empty packet that ends the stream may come from either of two       *)
(* children.  If nothing was lost or overtaken, the whole file has arrived *)
(* from one of them by then.                                               *)
(***************************************************************************)
SomeoneComplete ==
  client = "ended" /\ faults["loss"] = 0 /\ faults["overtake"] = 0 =>
    \E c \in Children : \A b \in 1 .. NumBlocks :
      \E i \in DOMAIN received : received[i] = [child |-> c, block |-> b]

(***************************************************************************)
(* A child's packet interval is its own: with two children sending to one  *)
(* client, feedback on the packets of one never paces the other.           *)
(***************************************************************************)
OwnFeedback ==
  \A c \in Children :
    interval[c] # 0 =>
      interval[c] \in DOMAIN received /\ received[interval[c]].child = c

(***************************************************************************)
(* If fewer datagrams are lost than empty packets are sent, the stream     *)
(* ends, unless a call fails.                                              *)
(***************************************************************************)
StreamEnds == <>(client = "ended" \/ faults["error"] > 0)
=============================================================================
