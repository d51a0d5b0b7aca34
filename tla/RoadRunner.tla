----------------------------- MODULE RoadRunner -----------------------------
(***************************************************************************)
(* The roadrunner reliable file transfer over UDP of lab4: one client      *)
(* (rrunnerc, roadrunner_client.c), the parent server that forks a child   *)
(* for every request it receives (rrunners.c), and the children, each of   *)
(* which pushes the whole file window by window (roadrunner_server.c).     *)
(*                                                                         *)
(* A block of the file is named by its window, its position in the window  *)
(* and its length; its bytes are abstracted.  One action is what a process *)
(* does between two blocking calls.                                        *)
(***************************************************************************)
EXTENDS Integers, Sequences, FiniteSets

CONSTANTS
  Children,     \* the server processes the parent may fork
  WindowSize,   \* config->windowsize
  BlockSize,    \* config->blocksize, in abstract units
  NumWindows,   \* windows the server cuts the file in; 1 for an empty file
  LastCount,    \* blocks of the last window; 0 only for an empty file
  LastLen,      \* length of the last block of the file
  NumEofAcks,   \* NUM_EOF_ACKS
  MaxRequests,  \* bound on the requests the client sends
  Overtaking,   \* may a packet arrive after one of the same child's later window?
  Budget        \* bound on the faults of each kind

FaultKinds == {"loss", "dup", "early", "error"}

ASSUME ConfigAssumption ==
  /\ WindowSize \in 1..64
  /\ BlockSize \in Nat \ {0}
  /\ NumWindows \in Nat \ {0}
  /\ LastCount \in 0..WindowSize
  /\ LastCount = 0 => NumWindows = 1
  /\ LastLen \in 1..BlockSize
  /\ NumEofAcks \in Nat \ {0}
  /\ MaxRequests \in Nat
  /\ Overtaking \in BOOLEAN
  /\ Budget \in [FaultKinds -> Nat]

VARIABLES
  client,       \* where the client is: "start", "receive", "done" or "failed"
  armed,        \* is the client's 500 ms request timer running?
  clientSeq,    \* initial_sequence_number of the window the client collects
  lastNum,      \* last_num: the sequence number that closes that window
  isEof,        \* *is_eof: has a packet of that window announced the end of file?
  slots,        \* the blocks received for it, by position in the window
  file,         \* the windows appended to the client's file
  sent,         \* requests the client has sent
  requests,     \* requests on their way to the parent server
  net,          \* data packets on their way to the client
  acks,         \* acks[c]: acknowledgements on their way to child c's open socket
  child,        \* child[c]: "free", "send", "wait", "done" or "failed"
  window,       \* window[c]: index in the file of the window c is sending
  serverSeq,    \* serverSeq[c]: initial_sequence_number of c
  confirmed,    \* confirmed[c]: windows of which c got the ack (history variable)
  faults        \* faults that have happened, by kind

clientVars == <<client, armed, clientSeq, lastNum, isEof, slots, file, sent>>
childVars  == <<child, window, serverSeq, confirmed>>
netVars    == <<requests, net, acks>>
vars       == <<clientVars, netVars, childVars, faults>>

-----------------------------------------------------------------------------
(* The source file.  Window w of the server is Source[w + 1]. *)

IsLast(w) == w = NumWindows - 1

WindowCount(w) == IF IsLast(w) THEN LastCount ELSE WindowSize

BlockLen(w, i) == IF IsLast(w) /\ i = LastCount - 1 THEN LastLen ELSE BlockSize

SourceWindow(w) ==
  [i \in 0 .. WindowCount(w) - 1 |-> [win |-> w, pos |-> i, len |-> BlockLen(w, i)]]

Source == [k \in 1 .. NumWindows |-> SourceWindow(k - 1)]

(* Bytes of payload on the wire: the last block carries a dummy byte when full. *)
WireLen(w, i) ==
  IF IsLast(w) /\ i = LastCount - 1 /\ LastLen = BlockSize
  THEN BlockSize + 1
  ELSE BlockLen(w, i)

(* Variants for mutation: the sequence space does not wrap, or is one window. *)
NextSeqUnwrapped(seq) == seq + WindowSize

NextSeqOneWindow(seq) == (seq + WindowSize) % WindowSize

(* The sequence number of the next window; the space is twice the window. *)
NextSeq(seq) == (seq + WindowSize) % (2 * WindowSize)

(* The ack a child waits for: the last number it sent, in 8 bits, where  *)
(* minus one is plus 255; so 255 itself when it sent nothing.            *)
ExpectedAck(c) == (serverSeq[c] + WindowCount(window[c]) + 255) % 256

(* send_file drops the result of send_window for every window it sends from *)
(* inside its loop; only the last call, or the last two, are checked.       *)
FailureIgnored(w) ==
  IF LastCount < WindowSize \/ LastLen < BlockSize
  THEN w < NumWindows - 2
  ELSE w < NumWindows - 1

-----------------------------------------------------------------------------
(* Faults and the network. *)

CanFault(kind) == faults[kind] < Budget[kind]

Fault(kind) == faults' = [faults EXCEPT ![kind] = @ + 1]

(* A packet that arrives is gone from the network unless the network keeps a *)
(* duplicate, and unless Overtaking so are the older windows of its sender.  *)
AfterArrival(p, again) ==
  {q \in net : /\ q # p \/ again
               /\ Overtaking \/ q.child # p.child \/ q.win >= p.win}

Arrive(again) ==
  IF again THEN CanFault("dup") /\ Fault("dup") ELSE UNCHANGED faults

(* Acks go to the socket the packet came from; a closed one swallows them. *)
Reply(p, num, copies) ==
  acks' = IF p.cur
          THEN [acks EXCEPT ![p.child] =
                  @ \cup {[num |-> num, copy |-> k] : k \in 1 .. copies}]
          ELSE acks

(* A child closes its socket: what is in flight to it is lost, and what came *)
(* from it can no longer be answered.                                        *)
NetClosed(c) == {[p EXCEPT !.cur = p.cur /\ p.child # c] : p \in net}

AcksClosed(c) == [acks EXCEPT ![c] = {}]

(* A packet reaches a client that still has its socket open. *)
Transmit(ps) == IF client = "receive" THEN net \cup ps ELSE net

-----------------------------------------------------------------------------
Init ==
  /\ client = "start" /\ armed = FALSE
  /\ clientSeq = 0 /\ lastNum = WindowSize - 1 /\ isEof = FALSE
  /\ slots = <<>> /\ file = <<>>
  /\ sent = 0 /\ requests = 0 /\ net = {}
  /\ acks = [c \in Children |-> {}]
  /\ child = [c \in Children |-> "free"]
  /\ window = [c \in Children |-> 0]
  /\ serverSeq = [c \in Children |-> 0]
  /\ confirmed = [c \in Children |-> 0]
  /\ faults = [k \in FaultKinds |-> 0]

-----------------------------------------------------------------------------
(* The client: rrunnerc and roadrunner_client.c. *)

SendRequest ==
  /\ sent < MaxRequests
  /\ sent' = sent + 1
  /\ requests' = requests + 1
  /\ armed' = TRUE
  /\ UNCHANGED <<lastNum, isEof, slots, file, net, acks, childVars>>

(* The file does not exist yet: ask for it and start the request timer. *)
RequestFile ==
  /\ client = "start"
  /\ client' = "receive"
  /\ SendRequest
  /\ UNCHANGED <<clientSeq, faults>>

(* SIGALRM interrupts recvfrom: run() asks again and starts from sequence    *)
(* number 0.  Nothing was received yet, or the timer would be off, so lastNum *)
(* and slots still have their first values.                                  *)
RequestTimeout ==
  /\ client = "receive" /\ armed
  /\ clientSeq' = 0
  /\ SendRequest
  /\ \/ requests = 0 /\ net = {} /\ UNCHANGED faults
     \/ CanFault("early") /\ Fault("early")
  /\ UNCHANGED client

(* What the client holds once p is stored. *)
Held(p) ==
  LET i == p.num - clientSeq IN
  [j \in DOMAIN slots \cup {i} |->
     IF j = i THEN [win |-> p.win, pos |-> p.pos, len |-> p.len] ELSE slots[j]]

Announces(p) == p.wire # BlockSize

ClosingNum(p) == IF Announces(p) THEN p.num ELSE lastNum

Completes(p) == \A i \in 0 .. ClosingNum(p) - clientSeq : i \in DOMAIN Held(p)

InWindow(p) == p.num >= clientSeq /\ p.num < clientSeq + WindowSize

PreviousAck(p) ==
  IF p.num < clientSeq THEN clientSeq - 1 ELSE clientSeq + 2 * WindowSize - 1

(* append_window_to_file writes every block at full length but the last, which *)
(* it writes with the length of the packet received just now.                  *)
Appended(p) ==
  LET last == ClosingNum(p) - clientSeq IN
  [i \in 0 .. last |->
     [Held(p)[i] EXCEPT !.len = IF i = last THEN p.len ELSE BlockSize]]

(* Variant for mutation: the last window is acknowledged like any other. *)
OneAck(eof) == 1

AckCopies(eof) == IF eof THEN NumEofAcks ELSE 1

(* A packet of another window: repeat the ack of the previous one. *)
ReceiveStale(p, again) ==
  /\ ~InWindow(p)
  /\ net' = AfterArrival(p, again)
  /\ Arrive(again)
  /\ Reply(p, PreviousAck(p), 1)
  /\ armed' = FALSE
  /\ UNCHANGED <<client, clientSeq, lastNum, isEof, slots, file, sent, requests, childVars>>

(* Variant for mutation: every packet stored is acknowledged. *)
StoreAndAckBlock(p, again) ==
  /\ InWindow(p) /\ ~Completes(p)
  /\ net' = AfterArrival(p, again)
  /\ Arrive(again)
  /\ Reply(p, p.num, 1)
  /\ slots' = Held(p)
  /\ lastNum' = ClosingNum(p)
  /\ isEof' = (isEof \/ Announces(p))
  /\ armed' = FALSE
  /\ UNCHANGED <<client, clientSeq, file, sent, requests, childVars>>

(* A packet of this window that does not complete it. *)
StoreBlock(p, again) ==
  /\ InWindow(p) /\ ~Completes(p)
  /\ net' = AfterArrival(p, again)
  /\ Arrive(again)
  /\ slots' = Held(p)
  /\ lastNum' = ClosingNum(p)
  /\ isEof' = (isEof \/ Announces(p))
  /\ armed' = FALSE
  /\ UNCHANGED <<client, clientSeq, file, sent, requests, acks, childVars>>

(* The packet completes the window: write it, acknowledge it, go on to the   *)
(* next one, or exit if the end of the file was announced.                   *)
CompleteWindow(p, again) ==
  /\ InWindow(p) /\ Completes(p)
  /\ file' = Append(file, Appended(p))
  /\ Arrive(again)
  /\ armed' = FALSE
  /\ \/ /\ isEof \/ Announces(p)
        /\ Reply(p, ClosingNum(p), AckCopies(TRUE))
        /\ client' = "done"
        /\ net' = {}
        /\ isEof' = TRUE
        /\ lastNum' = ClosingNum(p)
        /\ slots' = Held(p)
        /\ UNCHANGED clientSeq
     \/ /\ ~(isEof \/ Announces(p))
        /\ Reply(p, ClosingNum(p), AckCopies(FALSE))
        /\ net' = AfterArrival(p, again)
        /\ clientSeq' = NextSeq(clientSeq)
        /\ lastNum' = NextSeq(clientSeq) + WindowSize - 1
        /\ slots' = <<>>
        /\ UNCHANGED <<client, isEof>>
  /\ UNCHANGED <<sent, requests, childVars>>

(* fopen, fwrite or sendto fails: the client exits, having written none of a  *)
(* complete window, part of it, or all of it and sent some of the acks.       *)
ClientFails(p) ==
  /\ CanFault("error") /\ Fault("error")
  /\ client' = "failed" /\ armed' = FALSE /\ net' = {}
  /\ \/ /\ ~InWindow(p) \/ Completes(p)
        /\ UNCHANGED <<file, acks>>
     \/ /\ InWindow(p) /\ Completes(p)
        /\ \E n \in 1 .. ClosingNum(p) - clientSeq :
             file' = Append(file, [i \in 0 .. n - 1 |-> Appended(p)[i]])
        /\ UNCHANGED acks
     \/ /\ InWindow(p) /\ Completes(p)
        /\ file' = Append(file, Appended(p))
        /\ \E n \in 0 .. AckCopies(isEof \/ Announces(p)) - 1 :
             Reply(p, ClosingNum(p), n)
  /\ UNCHANGED <<clientSeq, lastNum, isEof, slots, sent, requests, childVars>>

ReceivePacket ==
  /\ client = "receive"
  /\ \E p \in net, again \in BOOLEAN :
       \/ ReceiveStale(p, again)
       \/ StoreBlock(p, again)
       \/ CompleteWindow(p, again)

ReceiveFails == client = "receive" /\ \E p \in net : ClientFails(p)

-----------------------------------------------------------------------------
(* The parent server: every request that arrives forks a child. *)

ReceiveRequest(c) ==
  /\ requests > 0
  /\ child[c] = "free"
  /\ requests' = requests - 1
  /\ child' = [child EXCEPT ![c] = "send"]
  /\ UNCHANGED <<clientVars, net, acks, window, serverSeq, confirmed, faults>>

-----------------------------------------------------------------------------
(* The children: send_file, send_window, receive_ack_and_cancel_timeout. *)

Packet(c, i) ==
  [child |-> c, win |-> window[c], pos |-> i, num |-> serverSeq[c] + i,
   len |-> BlockLen(window[c], i), wire |-> WireLen(window[c], i), cur |-> TRUE]

(* One attempt: a new socket, every packet of the window, the ack timer. *)
SendWindow(c) ==
  /\ child[c] = "send"
  /\ net' = Transmit({Packet(c, i) : i \in 0 .. WindowCount(window[c]) - 1})
  /\ child' = [child EXCEPT ![c] = "wait"]
  /\ UNCHANGED <<clientVars, requests, acks, window, serverSeq, confirmed, faults>>

(* socket(), sendto() or recvfrom() fails after n packets: the child exits,   *)
(* or, for a window sent from inside the loop of send_file, goes on to the    *)
(* next window with the old sequence number.                                  *)
SendFails(c) ==
  /\ child[c] = "send"
  /\ CanFault("error") /\ Fault("error")
  /\ \E n \in 0 .. WindowCount(window[c]) :
       net' = Transmit({[Packet(c, i) EXCEPT !.cur = FALSE] : i \in 0 .. n - 1})
  /\ \/ /\ FailureIgnored(window[c])
        /\ window' = [window EXCEPT ![c] = @ + 1]
        /\ UNCHANGED child
     \/ /\ ~FailureIgnored(window[c])
        /\ child' = [child EXCEPT ![c] = "failed"]
        /\ UNCHANGED window
  /\ UNCHANGED <<clientVars, requests, acks, serverSeq, confirmed>>

(* Variant for mutation: the handler is installed with SA_RESTART, so that    *)
(* recvfrom goes on waiting.                                                  *)
AckTimeoutRestarts(c) == child[c] = "wait" /\ UNCHANGED vars

(* SIGALRM interrupts recvfrom: close the socket and send the window again.   *)
(* Without the fault "early" the timeout exceeds the round trip time.         *)
AckTimeout(c) ==
  /\ child[c] = "wait"
  /\ \/ /\ acks[c] = {} /\ \A p \in net : p.child # c \/ ~p.cur
        /\ UNCHANGED faults
     \/ CanFault("early") /\ Fault("early")
  /\ child' = [child EXCEPT ![c] = "send"]
  /\ net' = NetClosed(c)
  /\ acks' = AcksClosed(c)
  /\ UNCHANGED <<clientVars, requests, window, serverSeq, confirmed>>

(* The expected ack: close the socket; after the last window the child exits. *)
AcceptAck(c, a) ==
  /\ a.num = ExpectedAck(c)
  /\ confirmed' = [confirmed EXCEPT ![c] = @ + 1]
  /\ serverSeq' = [serverSeq EXCEPT ![c] = NextSeq(@)]
  /\ net' = NetClosed(c)
  /\ acks' = AcksClosed(c)
  /\ IF IsLast(window[c])
     THEN child' = [child EXCEPT ![c] = "done"] /\ UNCHANGED window
     ELSE /\ child' = [child EXCEPT ![c] = "send"]
          /\ window' = [window EXCEPT ![c] = @ + 1]

(* Any other ack is read and forgotten. *)
IgnoreAck(c, a) ==
  /\ a.num # ExpectedAck(c)
  /\ acks' = [acks EXCEPT ![c] = @ \ {a}]
  /\ UNCHANGED <<net, childVars>>

ReceiveAck(c) ==
  /\ child[c] = "wait"
  /\ \E a \in acks[c] : AcceptAck(c, a) \/ IgnoreAck(c, a)
  /\ UNCHANGED <<clientVars, requests, faults>>

-----------------------------------------------------------------------------
(* The network loses a datagram of any kind. *)

Lose ==
  /\ CanFault("loss") /\ Fault("loss")
  /\ \/ requests > 0 /\ requests' = requests - 1 /\ UNCHANGED <<net, acks>>
     \/ \E p \in net : net' = net \ {p} /\ UNCHANGED <<requests, acks>>
     \/ \E c \in Children : \E a \in acks[c] :
          acks' = [acks EXCEPT ![c] = @ \ {a}] /\ UNCHANGED <<requests, net>>
  /\ UNCHANGED <<clientVars, childVars>>

-----------------------------------------------------------------------------
Next ==
  \/ RequestFile
  \/ RequestTimeout
  \/ ReceivePacket
  \/ ReceiveFails
  \/ \E c \in Children :
       \/ ReceiveRequest(c)
       \/ SendWindow(c)
       \/ SendFails(c)
       \/ AckTimeout(c)
       \/ ReceiveAck(c)
  \/ Lose

Spec == Init /\ [][Next]_vars

(***************************************************************************)
(* Every process keeps running, every datagram not lost arrives, every     *)
(* timer expires.  Nothing forces a fault, and the number of faults is     *)
(* bounded.                                                                *)
(***************************************************************************)
Fairness ==
  /\ WF_vars(RequestFile) /\ WF_vars(RequestTimeout) /\ WF_vars(ReceivePacket)
  /\ \A c \in Children :
       /\ WF_vars(ReceiveRequest(c)) /\ WF_vars(SendWindow(c))
       /\ WF_vars(AckTimeout(c))     /\ WF_vars(ReceiveAck(c))

FairSpec == Spec /\ Fairness

-----------------------------------------------------------------------------
(* Types. *)

SeqNum == 0 .. 2 * WindowSize - 1

Block == [win : 0 .. NumWindows - 1, pos : 0 .. WindowSize - 1, len : 1 .. BlockSize]

PacketType ==
  [child : Children, win : 0 .. NumWindows - 1, pos : 0 .. WindowSize - 1,
   num : SeqNum, len : 1 .. BlockSize, wire : 1 .. BlockSize + 1, cur : BOOLEAN]

Ack == [num : SeqNum, copy : 1 .. NumEofAcks]

(***************************************************************************)
(* Type invariant.  The sequence numbers of both ends stay in the 2W space *)
(* (and so in the byte that carries them), and the client's buffer holds   *)
(* blocks at positions of the window only: received_sequence_numbers[] and *)
(* window_data[] of roadrunner_client.c are never indexed outside.         *)
(***************************************************************************)
TypeOK ==
  /\ client \in {"start", "receive", "done", "failed"}
  /\ armed \in BOOLEAN /\ isEof \in BOOLEAN
  /\ clientSeq \in {0, WindowSize}
  /\ lastNum \in clientSeq .. clientSeq + WindowSize - 1
  /\ DOMAIN slots \subseteq 0 .. WindowSize - 1
  /\ \A i \in DOMAIN slots : slots[i] \in Block
  /\ file \in Seq(UNION {[0 .. n -> Block] : n \in 0 .. WindowSize - 1})
  /\ sent \in Nat /\ requests \in Nat
  /\ net \subseteq PacketType
  /\ acks \in [Children -> SUBSET Ack]
  /\ child \in [Children -> {"free", "send", "wait", "done", "failed"}]
  /\ window \in [Children -> 0 .. NumWindows - 1]
  /\ serverSeq \in [Children -> {0, WindowSize}]
  /\ confirmed \in [Children -> Nat]
  /\ faults \in [FaultKinds -> Nat]

-----------------------------------------------------------------------------
(* Safety, whatever the network does and however many children were forked. *)

(***************************************************************************)
(* A child never counts a window as received that the client has not       *)
(* written to its file: however packets are lost, duplicated and overtaken, *)
(* however late acks arrive and however many children serve the request,   *)
(* an ack accepted by receive_ack_and_cancel_timeout stands for a window   *)
(* appended by append_window_to_file.                                      *)
(***************************************************************************)
NoRunAhead == \A c \in Children : confirmed[c] <= Len(file)

(***************************************************************************)
(* What a sequence space of twice the window guarantees by itself: a block *)
(* lands at its own position in a window, and, as long as no send failed,  *)
(* in a window an even number of windows away from its own.                *)
(***************************************************************************)
ParityKept ==
  \A k \in DOMAIN file : \A i \in DOMAIN file[k] :
    /\ file[k][i].pos = i
    /\ faults["error"] = 0 => file[k][i].win % 2 = (k - 1) % 2

(***************************************************************************)
(* The file the client writes is, at any time, the beginning of the file   *)
(* of the server: the reliability rrunner promises.                        *)
(***************************************************************************)
FileIntact ==
  \A k \in DOMAIN file : k <= NumWindows /\ file[k] = Source[k]

(***************************************************************************)
(* The same without the lengths: the blocks of every window are those of   *)
(* the source, each written once and in order.                             *)
(***************************************************************************)
BlocksInOrder ==
  \A k \in DOMAIN file :
    /\ k <= NumWindows
    /\ DOMAIN file[k] = DOMAIN Source[k]
    /\ \A i \in DOMAIN file[k] : file[k][i].win = k - 1 /\ file[k][i].pos = i

-----------------------------------------------------------------------------
(* Transfers in which the parent forks once. *)

TheChild == CHOOSE c \in Children : TRUE

FT == INSTANCE FileTransfer WITH written <- file, confirmed <- confirmed[TheChild]

(***************************************************************************)
(* The transfer implements FileTransfer: windows are written one at a      *)
(* time, each after the server learnt of the one before it, and as long as *)
(* faults are bounded the whole file is written.                           *)
(***************************************************************************)
TransferImplemented == FT!FairSpec

(***************************************************************************)
(* Client and child both come to their end: the client always, the child   *)
(* if fewer datagrams are lost than the client sends final acks and no     *)
(* timeout is premature.  An early timeout closes the socket the final     *)
(* acks are sent to, and the client does not answer any more.              *)
(***************************************************************************)
BothTerminate ==
  <>(/\ client = "done"
     /\ (\A c \in Children : child[c] = "done") \/ faults["early"] > 0)
=============================================================================
