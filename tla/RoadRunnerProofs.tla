-------------------------- MODULE RoadRunnerProofs --------------------------
(***************************************************************************)
(* Proofs about RoadRunner for every value of its constants: the sequence   *)
(* numbers and arrays, no child runs ahead of the client, every block at   *)
(* its own place; and of a transfer that one child serves, that what the   *)
(* client writes is the file of the server and that the transfer           *)
(* implements FileTransfer.                                                *)
(***************************************************************************)
EXTENDS RoadRunner, TLAPS

-----------------------------------------------------------------------------
(* Arithmetic of the sequence numbers. *)

(* The sequence number of the first packet of the n-th window. *)
Parity(n) == IF n % 2 = 0 THEN 0 ELSE WindowSize

(* The sequence number space wraps after two windows (roadrunner_client.c:157, *)
(* roadrunner_server.c:97).                                                    *)
LEMMA NextSeqWraps == NextSeq(0) = WindowSize /\ NextSeq(WindowSize) = 0
  BY ConfigAssumption DEF ConfigAssumption, NextSeq

(* Windows two apart share their numbers, neighbours do not. *)
LEMMA NextSeqParity ==
  ASSUME NEW n \in Nat PROVE NextSeq(Parity(n)) = Parity(n + 1)
  <1>1. n % 2 = 0 => (n + 1) % 2 = 1
    OBVIOUS
  <1>2. n % 2 # 0 => (n + 1) % 2 = 0
    OBVIOUS
  <1> QED
    BY <1>1, <1>2, NextSeqWraps DEF Parity

LEMMA SeqFacts ==
  /\ WindowSize \in Nat /\ WindowSize >= 1 /\ WindowSize <= 64
  /\ NumWindows \in Nat /\ NumWindows >= 1
  BY ConfigAssumption DEF ConfigAssumption

-----------------------------------------------------------------------------
(* The inductive invariant behind NoRunAhead. *)

(* Before the first packet, and after every request, the client is fresh. *)
FreshInv ==
  client = "start" \/ armed =>
    file = <<>> /\ clientSeq = 0 /\ isEof = FALSE /\ lastNum = WindowSize - 1
    /\ DOMAIN slots = {}

(* Both ends number the window they work on by its parity. *)
SeqInv ==
  /\ client \in {"start", "receive"} => clientSeq = Parity(Len(file))
  /\ \A c \in Children : serverSeq[c] = Parity(confirmed[c])

(* A child confirms at most the windows it has left behind. *)
ProgressInv ==
  \A c \in Children : child[c] # "done" => confirmed[c] <= window[c]

(* A packet that can still be answered has the numbers of its child's window. *)
PacketInv ==
  \A p \in net : p.cur => p.num = serverSeq[p.child] + p.pos

(* An ack for the window its child is sending stands for a written window. *)
AckInv ==
  \A c \in Children : \A a \in acks[c] :
    serverSeq[c] <= a.num /\ a.num < serverSeq[c] + WindowSize
      => confirmed[c] < Len(file)

IInv == TypeOK /\ FreshInv /\ SeqInv /\ ProgressInv /\ PacketInv /\ AckInv /\ NoRunAhead

-----------------------------------------------------------------------------
(* What the operators of the client return. *)

WindowData == UNION {[0 .. n -> Block] : n \in 0 .. WindowSize - 1}

LEMMA PacketFacts ==
  ASSUME TypeOK, NEW p \in net
  PROVE  /\ p \in PacketType /\ p.child \in Children /\ p.cur \in BOOLEAN
         /\ [win |-> p.win, pos |-> p.pos, len |-> p.len] \in Block
  BY DEF TypeOK, PacketType, Block

LEMMA NumFacts ==
  ASSUME TypeOK, NEW p \in net
  PROVE  /\ p.num \in Int /\ 0 <= p.num /\ p.num < 2 * WindowSize
         /\ p.pos \in Int /\ 0 <= p.pos /\ p.pos < WindowSize
         /\ p.wire \in Int /\ lastNum \in Int
         /\ clientSeq = 0 \/ clientSeq = WindowSize
         /\ clientSeq <= lastNum /\ lastNum < clientSeq + WindowSize
  BY SeqFacts DEF TypeOK, PacketType, SeqNum

LEMMA HeldFacts ==
  ASSUME TypeOK, NEW p \in net, InWindow(p)
  PROVE  /\ DOMAIN Held(p) \subseteq 0 .. WindowSize - 1
         /\ \A i \in DOMAIN Held(p) : Held(p)[i] \in Block
         /\ ClosingNum(p) \in clientSeq .. clientSeq + WindowSize - 1
  <1>1. p.num - clientSeq \in 0 .. WindowSize - 1
    BY NumFacts, SeqFacts DEF InWindow
  <1>2. DOMAIN slots \subseteq 0 .. WindowSize - 1 /\ \A i \in DOMAIN slots : slots[i] \in Block
    BY DEF TypeOK
  <1>3. DOMAIN Held(p) = DOMAIN slots \cup {p.num - clientSeq}
    BY DEF Held
  <1>4. \A i \in DOMAIN Held(p) :
          Held(p)[i] = IF i = p.num - clientSeq
                       THEN [win |-> p.win, pos |-> p.pos, len |-> p.len] ELSE slots[i]
    BY DEF Held
  <1>5. ClosingNum(p) \in clientSeq .. clientSeq + WindowSize - 1
    BY NumFacts, SeqFacts DEF InWindow, ClosingNum
  <1> QED
    BY <1>1, <1>2, <1>3, <1>4, <1>5, PacketFacts

(* Whatever is appended is a window's worth of blocks, all of it or a part. *)
LEMMA AppendedFacts ==
  ASSUME TypeOK, NEW p \in net, InWindow(p), Completes(p)
  PROVE  /\ Appended(p) \in WindowData
         /\ \A n \in 1 .. ClosingNum(p) - clientSeq :
              [i \in 0 .. n - 1 |-> Appended(p)[i]] \in WindowData
         /\ \A i \in DOMAIN Appended(p) :
              /\ i \in DOMAIN Held(p)
              /\ Appended(p)[i].win = Held(p)[i].win
              /\ Appended(p)[i].pos = Held(p)[i].pos
  <1> DEFINE last == ClosingNum(p) - clientSeq
  <1>1. last \in 0 .. WindowSize - 1
    <2>1. ClosingNum(p) \in clientSeq .. clientSeq + WindowSize - 1
      BY HeldFacts
    <2> QED
      BY <2>1, NumFacts, SeqFacts
  <1>2. \A i \in 0 .. last : i \in DOMAIN Held(p) /\ Held(p)[i] \in Block
    BY HeldFacts DEF Completes
  <1>3. BlockSize \in 1 .. BlockSize /\ p.len \in 1 .. BlockSize
    <2>1. BlockSize \in 1 .. BlockSize
      BY ConfigAssumption DEF ConfigAssumption
    <2>2. p.len \in 1 .. BlockSize
      BY PacketFacts DEF PacketType
    <2> QED
      BY <2>1, <2>2
  <1>4. DOMAIN Appended(p) = 0 .. last
    BY DEF Appended
  <1>5. ASSUME NEW i \in 0 .. last
        PROVE  /\ Appended(p)[i] = [Held(p)[i] EXCEPT !.len = IF i = last THEN p.len ELSE BlockSize]
               /\ Appended(p)[i] \in Block
               /\ Appended(p)[i].win = Held(p)[i].win
               /\ Appended(p)[i].pos = Held(p)[i].pos
    <2>1. Appended(p)[i] = [Held(p)[i] EXCEPT !.len = IF i = last THEN p.len ELSE BlockSize]
      BY DEF Appended
    <2>2. Held(p)[i] \in Block
      BY <1>2
    <2> HIDE DEF last
    <2> QED
      BY <1>3, <2>1, <2>2 DEF Block
  <1>6. Appended(p) \in [0 .. last -> Block]
    <2>1. Appended(p) = [i \in 0 .. last |-> Appended(p)[i]]
      BY DEF Appended
    <2> QED
      BY <1>5, <2>1
  <1>7. ASSUME NEW n \in 1 .. last
        PROVE  [i \in 0 .. n - 1 |-> Appended(p)[i]] \in WindowData
    <2>1. [i \in 0 .. n - 1 |-> Appended(p)[i]] \in [0 .. n - 1 -> Block]
      <3>1. ASSUME NEW i \in 0 .. n - 1 PROVE i \in 0 .. last
        BY <1>1
      <3>2. ASSUME NEW i \in 0 .. n - 1 PROVE Appended(p)[i] \in Block
        BY <1>5, <3>1
      <3> QED
        BY <3>2
    <2>2. n - 1 \in 0 .. WindowSize - 1
      BY <1>1, SeqFacts
    <2> QED
      BY <2>1, <2>2 DEF WindowData
  <1> QED
    BY <1>1, <1>2, <1>4, <1>5, <1>6, <1>7 DEF WindowData

(* The client only ever acknowledges numbers of the sequence space. *)
LEMMA AckFacts ==
  ASSUME TypeOK, NEW p \in net
  PROVE  /\ ~InWindow(p) => PreviousAck(p) \in SeqNum
         /\ InWindow(p) => ClosingNum(p) \in SeqNum
  <1>1. ASSUME NEW x \in clientSeq .. clientSeq + WindowSize - 1
        PROVE  x \in SeqNum
    BY NumFacts, SeqFacts DEF SeqNum
  <1>2. ASSUME ~InWindow(p) PROVE PreviousAck(p) \in SeqNum
    <2>1. clientSeq = 0 \/ clientSeq = WindowSize
      BY NumFacts
    <2>2. CASE clientSeq = 0
      <3>1. p.num >= clientSeq + WindowSize
        BY <1>2, NumFacts, <2>2, SeqFacts DEF InWindow
      <3>2. PreviousAck(p) = 2 * WindowSize - 1
        BY NumFacts, <2>2, <3>1, SeqFacts DEF PreviousAck
      <3> QED
        BY <3>2, SeqFacts DEF SeqNum
    <2>3. CASE clientSeq = WindowSize
      <3>1. p.num < clientSeq
        BY <1>2, NumFacts, <2>3, SeqFacts DEF InWindow
      <3>2. PreviousAck(p) = WindowSize - 1
        BY NumFacts, <2>3, <3>1, SeqFacts DEF PreviousAck
      <3> QED
        BY <3>2, SeqFacts DEF SeqNum
    <2> QED
      BY <2>1, <2>2, <2>3
  <1>3. ASSUME InWindow(p) PROVE ClosingNum(p) \in SeqNum
    <2>1. ClosingNum(p) \in clientSeq .. clientSeq + WindowSize - 1
      BY <1>3, HeldFacts
    <2> QED
      BY <1>1, <2>1
  <1> QED
    BY <1>2, <1>3

LEMMA ReplyFacts ==
  ASSUME TypeOK, NEW p \in net, NEW num \in SeqNum, NEW copies \in 0 .. NumEofAcks,
         Reply(p, num, copies)
  PROVE  /\ acks' \in [Children -> SUBSET Ack]
         /\ \A c \in Children : \A a \in acks'[c] :
              a \in acks[c] \/ (p.cur /\ c = p.child /\ a.num = num)
  <1>1. {[num |-> num, copy |-> k] : k \in 1 .. copies} \subseteq Ack
    BY ConfigAssumption DEF ConfigAssumption, Ack
  <1>2. p.child \in Children /\ acks \in [Children -> SUBSET Ack]
    BY PacketFacts DEF TypeOK
  <1>3. CASE p.cur
    BY <1>1, <1>2, <1>3 DEF Reply
  <1>4. CASE ~p.cur
    BY <1>2, <1>4 DEF Reply
  <1> QED
    BY <1>3, <1>4

LEMMA ArriveFacts ==
  ASSUME TypeOK, NEW again \in BOOLEAN, Arrive(again)
  PROVE  faults' \in [FaultKinds -> Nat]
  BY DEF TypeOK, Arrive, Fault, FaultKinds

LEMMA AfterArrivalFacts ==
  ASSUME NEW p, NEW again PROVE AfterArrival(p, again) \subseteq net
  BY DEF AfterArrival

-----------------------------------------------------------------------------
(* The invariant holds initially, and every action keeps it. *)

LEMMA TypeFacts ==
  ASSUME TypeOK
  PROVE  /\ file \in Seq(WindowData) /\ Len(file) \in Nat
         /\ \A c \in Children : confirmed[c] \in Nat /\ window[c] \in Nat
  BY SeqFacts DEF TypeOK, WindowData

LEMMA InitIInv == Init => IInv
  <1> SUFFICES ASSUME Init PROVE IInv
    OBVIOUS
  <1> USE DEF Init
  <1>1. TypeOK
    <2>1. file \in Seq(UNION {[0 .. n -> Block] : n \in 0 .. WindowSize - 1})
      OBVIOUS
    <2>2. DOMAIN slots = {}
      OBVIOUS
    <2>3. lastNum \in clientSeq .. clientSeq + WindowSize - 1
      BY SeqFacts
    <2>4. window \in [Children -> 0 .. NumWindows - 1]
      BY SeqFacts
    <2> QED
      BY <2>1, <2>2, <2>3, <2>4 DEF TypeOK
  <1>2. FreshInv
    BY DEF FreshInv
  <1>3. SeqInv
    BY DEF SeqInv, Parity
  <1>4. ProgressInv /\ PacketInv /\ AckInv /\ NoRunAhead
    BY DEF ProgressInv, PacketInv, AckInv, NoRunAhead
  <1> QED
    BY <1>1, <1>2, <1>3, <1>4 DEF IInv

LEMMA RequestStep ==
  ASSUME IInv, RequestFile \/ RequestTimeout
  PROVE  IInv'
  <1>1. FreshInv /\ (client = "start" \/ armed)
    BY DEF IInv, RequestFile, RequestTimeout
  <1>2. file = <<>> /\ clientSeq = 0 /\ lastNum = WindowSize - 1 /\ DOMAIN slots = {}
    BY <1>1 DEF FreshInv
  <1>3. /\ clientSeq' = 0 /\ client' = "receive" /\ armed' = TRUE
        /\ UNCHANGED <<lastNum, isEof, slots, file, net, acks, childVars>>
        /\ sent' = sent + 1 /\ requests' = requests + 1
        /\ faults' = faults \/ Fault("early")
    BY <1>2 DEF RequestFile, RequestTimeout, SendRequest
  <1>4. TypeOK'
    BY <1>2, <1>3 DEF IInv, TypeOK, childVars, Fault, FaultKinds
  <1>5. FreshInv'
    BY <1>1, <1>2, <1>3 DEF FreshInv
  <1>6. SeqInv'
    BY <1>2, <1>3 DEF IInv, SeqInv, Parity, childVars
  <1>7. (ProgressInv /\ PacketInv /\ AckInv /\ NoRunAhead)'
    BY <1>3 DEF IInv, ProgressInv, PacketInv, AckInv, NoRunAhead, childVars
  <1> QED
    BY <1>4, <1>5, <1>6, <1>7 DEF IInv

LEMMA StaleStep ==
  ASSUME IInv, client = "receive", NEW p \in net, NEW again \in BOOLEAN,
         ReceiveStale(p, again)
  PROVE  IInv'
  <1> USE DEF IInv
  <1>1. /\ net' \subseteq net /\ faults' \in [FaultKinds -> Nat] /\ armed' = FALSE
        /\ UNCHANGED <<client, clientSeq, lastNum, isEof, slots, file, sent, requests, childVars>>
    BY AfterArrivalFacts, ArriveFacts DEF ReceiveStale
  <1>2. /\ acks' \in [Children -> SUBSET Ack]
        /\ \A c \in Children : \A a \in acks'[c] :
             a \in acks[c] \/ (p.cur /\ c = p.child)
    BY ReplyFacts, AckFacts, ConfigAssumption DEF ReceiveStale, ConfigAssumption
  <1>3. TypeOK'
    BY <1>1, <1>2 DEF TypeOK, childVars
  <1>4. (FreshInv /\ SeqInv /\ ProgressInv /\ PacketInv /\ NoRunAhead)'
    BY <1>1 DEF FreshInv, SeqInv, ProgressInv, PacketInv, NoRunAhead, childVars
  <1>5. p.cur => confirmed[p.child] < Len(file)
    <2> SUFFICES ASSUME p.cur PROVE confirmed[p.child] < Len(file)
      OBVIOUS
    <2>1. p.child \in Children /\ p.num = serverSeq[p.child] + p.pos
      BY PacketFacts DEF PacketInv
    <2>2. serverSeq[p.child] # clientSeq
      BY <2>1, NumFacts, SeqFacts DEF ReceiveStale, InWindow
    <2>3. confirmed[p.child] # Len(file)
      BY <2>1, <2>2 DEF SeqInv
    <2> QED
      BY <2>1, <2>3, TypeFacts DEF NoRunAhead
  <1>6. AckInv'
    BY <1>1, <1>2, <1>5 DEF AckInv, childVars
  <1> QED
    BY <1>3, <1>4, <1>6

LEMMA StoreStep ==
  ASSUME IInv, client = "receive", NEW p \in net, NEW again \in BOOLEAN,
         StoreBlock(p, again)
  PROVE  IInv'
  <1> USE DEF IInv
  <1>1. /\ net' \subseteq net /\ faults' \in [FaultKinds -> Nat] /\ armed' = FALSE
        /\ isEof' \in BOOLEAN /\ slots' = Held(p) /\ lastNum' = ClosingNum(p)
        /\ UNCHANGED <<client, clientSeq, file, sent, requests, acks, childVars>>
    BY AfterArrivalFacts, ArriveFacts DEF StoreBlock, TypeOK, Announces
  <1>2. InWindow(p)
    BY DEF StoreBlock
  <1>3. TypeOK'
    BY <1>1, <1>2, HeldFacts DEF TypeOK, childVars
  <1>4. (FreshInv /\ SeqInv /\ ProgressInv /\ PacketInv /\ AckInv /\ NoRunAhead)'
    BY <1>1 DEF FreshInv, SeqInv, ProgressInv, PacketInv, AckInv, NoRunAhead, childVars
  <1> QED
    BY <1>3, <1>4

LEMMA AppendFacts ==
  ASSUME TypeOK, NEW d \in WindowData
  PROVE  /\ Append(file, d) \in Seq(WindowData)
         /\ Len(Append(file, d)) = Len(file) + 1
  BY TypeFacts

LEMMA CompleteStep ==
  ASSUME IInv, client = "receive", NEW p \in net, NEW again \in BOOLEAN,
         CompleteWindow(p, again)
  PROVE  IInv'
  <1> USE DEF IInv
  <1> DEFINE eof == isEof \/ Announces(p)
  <1>1. InWindow(p) /\ Completes(p)
    BY DEF CompleteWindow
  <1>2. file' = Append(file, Appended(p)) /\ file' \in Seq(WindowData) /\ Len(file') = Len(file) + 1
    BY <1>1, AppendedFacts, AppendFacts DEF CompleteWindow
  <1>3. /\ faults' \in [FaultKinds -> Nat] /\ armed' = FALSE /\ net' \subseteq net
        /\ UNCHANGED <<sent, requests, childVars>>
    BY AfterArrivalFacts, ArriveFacts DEF CompleteWindow
  <1>4. /\ acks' \in [Children -> SUBSET Ack]
        /\ \A c \in Children : \A a \in acks'[c] :
             a \in acks[c] \/ (p.cur /\ c = p.child)
    <2>1. ClosingNum(p) \in SeqNum
      BY <1>1, AckFacts
    <2>2. \E n \in 0 .. NumEofAcks : Reply(p, ClosingNum(p), n)
      BY ConfigAssumption DEF ConfigAssumption, CompleteWindow, AckCopies
    <2> QED
      BY <2>1, <2>2, ReplyFacts
  <1>5. (ProgressInv /\ PacketInv /\ AckInv /\ NoRunAhead)'
    <2>1. (ProgressInv /\ PacketInv)'
      BY <1>3 DEF ProgressInv, PacketInv, childVars
    <2>2. \A c \in Children : confirmed'[c] < Len(file')
      BY <1>2, <1>3, TypeFacts DEF NoRunAhead, childVars
    <2>3. AckInv'
      BY <2>2 DEF AckInv
    <2>4. NoRunAhead'
      BY <1>2, <1>3, <2>2, TypeFacts DEF NoRunAhead, childVars
    <2> QED
      BY <2>1, <2>3, <2>4
  <1>6. CASE eof
    <2>1. /\ client' = "done" /\ isEof' = TRUE /\ lastNum' = ClosingNum(p)
          /\ slots' = Held(p) /\ clientSeq' = clientSeq
      BY <1>6 DEF CompleteWindow
    <2>2. TypeOK'
      BY <1>1, <1>2, <1>3, <1>4, <2>1, HeldFacts DEF TypeOK, childVars, WindowData
    <2>3. FreshInv' /\ SeqInv'
      BY <1>3, <2>1 DEF FreshInv, SeqInv, childVars
    <2> QED
      BY <1>5, <2>2, <2>3
  <1>7. CASE ~eof
    <2>1. /\ client' = client /\ isEof' = isEof /\ slots' = <<>>
          /\ clientSeq' = NextSeq(clientSeq)
          /\ lastNum' = NextSeq(clientSeq) + WindowSize - 1
      BY <1>7 DEF CompleteWindow
    <2>2. clientSeq' \in {0, WindowSize} /\ lastNum' \in clientSeq' .. clientSeq' + WindowSize - 1
      BY <2>1, NextSeqWraps, NumFacts, SeqFacts
    <2>3. TypeOK'
      <3>1. DOMAIN slots' = {}
        BY <2>1
      <3> QED
        BY <1>2, <1>3, <1>4, <2>1, <2>2, <3>1 DEF TypeOK, childVars, WindowData
    <2>4. clientSeq' = Parity(Len(file'))
      BY <1>2, <2>1, NextSeqParity, TypeFacts DEF SeqInv
    <2>5. FreshInv' /\ SeqInv'
      BY <1>3, <2>1, <2>4 DEF FreshInv, SeqInv, childVars
    <2> QED
      BY <1>5, <2>3, <2>5
  <1> QED
    BY <1>6, <1>7

LEMMA ClientFailsStep ==
  ASSUME IInv, client = "receive", NEW p \in net, ClientFails(p)
  PROVE  IInv'
  <1> USE DEF IInv
  <1>1. /\ client' = "failed" /\ armed' = FALSE /\ net' = {}
        /\ UNCHANGED <<clientSeq, lastNum, isEof, slots, sent, requests, childVars>>
        /\ faults' \in [FaultKinds -> Nat]
    BY DEF ClientFails, Fault, TypeOK, FaultKinds
  <1>2. FreshInv' /\ SeqInv' /\ ProgressInv' /\ PacketInv'
    BY <1>1 DEF FreshInv, SeqInv, ProgressInv, PacketInv, childVars
  <1>3. CASE UNCHANGED <<file, acks>>
    <2>1. TypeOK'
      BY <1>1, <1>3 DEF TypeOK, childVars
    <2>2. AckInv' /\ NoRunAhead'
      BY <1>1, <1>3 DEF AckInv, NoRunAhead, childVars
    <2> QED
      BY <1>2, <2>1, <2>2
  <1>4. ASSUME NEW d \in WindowData, file' = Append(file, d),
               acks' \in [Children -> SUBSET Ack]
        PROVE  IInv'
    <2>1. file' \in Seq(WindowData) /\ Len(file') = Len(file) + 1
      BY <1>4, AppendFacts
    <2>2. TypeOK'
      BY <1>1, <1>4, <2>1 DEF TypeOK, childVars, WindowData
    <2>3. \A c \in Children : confirmed'[c] < Len(file') /\ confirmed'[c] <= Len(file')
      BY <1>1, <2>1, TypeFacts DEF NoRunAhead, childVars
    <2>4. AckInv' /\ NoRunAhead'
      BY <2>3 DEF AckInv, NoRunAhead
    <2> QED
      BY <1>2, <2>2, <2>4
  <1>5. CASE /\ InWindow(p) /\ Completes(p)
             /\ \E n \in 1 .. ClosingNum(p) - clientSeq :
                  file' = Append(file, [i \in 0 .. n - 1 |-> Appended(p)[i]])
             /\ UNCHANGED acks
    <2>1. acks' \in [Children -> SUBSET Ack]
      BY <1>5 DEF TypeOK
    <2> QED
      BY <1>4, <1>5, <2>1, AppendedFacts
  <1>6. CASE /\ InWindow(p) /\ Completes(p)
             /\ file' = Append(file, Appended(p))
             /\ \E n \in 0 .. AckCopies(isEof \/ Announces(p)) - 1 :
                  Reply(p, ClosingNum(p), n)
    <2>1. ClosingNum(p) \in SeqNum
      BY <1>6, AckFacts
    <2>2. AckCopies(isEof \/ Announces(p)) \in 1 .. NumEofAcks
      BY ConfigAssumption DEF ConfigAssumption, AckCopies
    <2>3. \E n \in 0 .. NumEofAcks : Reply(p, ClosingNum(p), n)
      BY <1>6, <2>2, ConfigAssumption DEF ConfigAssumption
    <2>4. acks' \in [Children -> SUBSET Ack]
      BY <2>1, <2>3, ReplyFacts
    <2> QED
      BY <1>4, <1>6, <2>4, AppendedFacts
  <1> QED
    BY <1>3, <1>5, <1>6 DEF ClientFails

LEMMA ForkStep ==
  ASSUME IInv, NEW c \in Children, ReceiveRequest(c)
  PROVE  IInv'
  <1> USE DEF IInv, ReceiveRequest, clientVars
  <1>1. TypeOK'
    BY DEF TypeOK
  <1>2. (FreshInv /\ SeqInv /\ ProgressInv /\ PacketInv /\ AckInv /\ NoRunAhead)'
    BY DEF TypeOK, FreshInv, SeqInv, ProgressInv, PacketInv, AckInv, NoRunAhead
  <1> QED
    BY <1>1, <1>2

LEMMA NewPacketFacts ==
  ASSUME TypeOK, NEW c \in Children, NEW i \in 0 .. WindowCount(window[c]) - 1
  PROVE  /\ Packet(c, i) \in PacketType
         /\ [Packet(c, i) EXCEPT !.cur = FALSE] \in PacketType
         /\ Packet(c, i).num = serverSeq[Packet(c, i).child] + Packet(c, i).pos
         /\ [Packet(c, i) EXCEPT !.cur = FALSE].cur = FALSE
  <1>1. WindowCount(window[c]) <= WindowSize /\ WindowCount(window[c]) \in Nat
    BY ConfigAssumption DEF ConfigAssumption, WindowCount
  <1>2. i \in 0 .. WindowSize - 1 /\ i \in Int
    BY <1>1, SeqFacts
  <1>3. serverSeq[c] = 0 \/ serverSeq[c] = WindowSize
    BY DEF TypeOK
  <1>4. serverSeq[c] + i \in SeqNum
    BY <1>2, <1>3, SeqFacts DEF SeqNum
  <1>5. BlockLen(window[c], i) \in 1 .. BlockSize /\ WireLen(window[c], i) \in 1 .. BlockSize + 1
    BY ConfigAssumption DEF ConfigAssumption, BlockLen, WireLen
  <1>6. window[c] \in 0 .. NumWindows - 1
    BY DEF TypeOK
  <1> QED
    BY <1>2, <1>4, <1>5, <1>6 DEF Packet, PacketType

LEMMA SendStep ==
  ASSUME IInv, NEW c \in Children, SendWindow(c)
  PROVE  IInv'
  <1> USE DEF IInv
  <1>1. /\ child' = [child EXCEPT ![c] = "wait"] /\ child[c] = "send"
        /\ UNCHANGED <<clientVars, requests, acks, window, serverSeq, confirmed, faults>>
    BY DEF SendWindow
  <1>2. \A p \in net' : p \in net \/ \E i \in 0 .. WindowCount(window[c]) - 1 : p = Packet(c, i)
    BY DEF SendWindow, Transmit
  <1>3. net' \subseteq PacketType
    <2>1. \A p \in net : p \in PacketType
      BY PacketFacts
    <2>2. \A i \in 0 .. WindowCount(window[c]) - 1 : Packet(c, i) \in PacketType
      BY NewPacketFacts
    <2> QED
      BY <1>2, <2>1, <2>2
  <1>4. TypeOK'
    BY <1>1, <1>3 DEF TypeOK, clientVars
  <1>5. PacketInv'
    <2>1. \A i \in 0 .. WindowCount(window[c]) - 1 :
            Packet(c, i).num = serverSeq[Packet(c, i).child] + Packet(c, i).pos
      BY NewPacketFacts
    <2>2. \A p \in net' : p.cur => p.num = serverSeq[p.child] + p.pos
      BY <1>2, <2>1 DEF PacketInv
    <2> QED
      BY <1>1, <2>2 DEF PacketInv
  <1>6. (FreshInv /\ SeqInv /\ ProgressInv /\ AckInv /\ NoRunAhead)'
    BY <1>1 DEF TypeOK, FreshInv, SeqInv, ProgressInv, AckInv, NoRunAhead, clientVars
  <1> QED
    BY <1>4, <1>5, <1>6

LEMMA SendFailsStep ==
  ASSUME IInv, NEW c \in Children, SendFails(c)
  PROVE  IInv'
  <1> USE DEF IInv
  <1>1. /\ child[c] = "send" /\ UNCHANGED <<clientVars, requests, acks, serverSeq, confirmed>>
        /\ faults' \in [FaultKinds -> Nat]
    BY DEF SendFails, Fault, TypeOK, FaultKinds
  <1>2. \A p \in net' : p \in net \/ \E i \in 0 .. WindowCount(window[c]) - 1 :
                                       p = [Packet(c, i) EXCEPT !.cur = FALSE]
    <2>1. PICK n \in 0 .. WindowCount(window[c]) :
            net' = Transmit({[Packet(c, i) EXCEPT !.cur = FALSE] : i \in 0 .. n - 1})
      BY DEF SendFails
    <2>2. WindowCount(window[c]) \in Nat
      BY ConfigAssumption DEF ConfigAssumption, WindowCount
    <2>3. 0 .. n - 1 \subseteq 0 .. WindowCount(window[c]) - 1
      BY <2>2
    <2> QED
      BY <2>1, <2>3 DEF Transmit
  <1>3. net' \subseteq PacketType
    <2>1. \A p \in net : p \in PacketType
      BY PacketFacts
    <2>2. \A i \in 0 .. WindowCount(window[c]) - 1 : [Packet(c, i) EXCEPT !.cur = FALSE] \in PacketType
      BY NewPacketFacts
    <2> QED
      BY <1>2, <2>1, <2>2
  <1>4. PacketInv'
    <2>1. \A i \in 0 .. WindowCount(window[c]) - 1 : ~[Packet(c, i) EXCEPT !.cur = FALSE].cur
      BY NewPacketFacts
    <2>2. \A p \in net' : p.cur => p.num = serverSeq[p.child] + p.pos
      BY <1>2, <2>1 DEF PacketInv
    <2> QED
      BY <1>1, <2>2 DEF PacketInv
  <1>5. (FreshInv /\ SeqInv /\ AckInv /\ NoRunAhead)'
    BY <1>1 DEF FreshInv, SeqInv, AckInv, NoRunAhead, clientVars
  <1>6. CASE FailureIgnored(window[c]) /\ window' = [window EXCEPT ![c] = @ + 1] /\ UNCHANGED child
    <2>1. window[c] + 1 \in 0 .. NumWindows - 1
      BY <1>6, SeqFacts DEF TypeOK, FailureIgnored
    <2>2. TypeOK'
      BY <1>1, <1>3, <1>6, <2>1 DEF TypeOK, clientVars
    <2>3. ProgressInv'
      BY <1>1, <1>6, TypeFacts DEF ProgressInv, TypeOK
    <2> QED
      BY <1>4, <1>5, <2>2, <2>3
  <1>7. CASE child' = [child EXCEPT ![c] = "failed"] /\ UNCHANGED window
    <2>1. TypeOK'
      BY <1>1, <1>3, <1>7 DEF TypeOK, clientVars
    <2>2. ProgressInv'
      BY <1>1, <1>7 DEF ProgressInv, TypeOK
    <2> QED
      BY <1>4, <1>5, <2>1, <2>2
  <1> QED
    BY <1>6, <1>7 DEF SendFails

LEMMA ClosedFacts ==
  ASSUME TypeOK, NEW c \in Children
  PROVE  /\ NetClosed(c) \subseteq PacketType
         /\ \A q \in NetClosed(c) : q.cur =>
              q.child # c /\ \E p \in net : p.cur /\ p.child = q.child
                                             /\ p.pos = q.pos /\ p.num = q.num
         /\ AcksClosed(c) \in [Children -> SUBSET Ack]
         /\ AcksClosed(c)[c] = {}
         /\ \A d \in Children : d # c => AcksClosed(c)[d] = acks[d]
  <1>1. ASSUME NEW p \in net
        PROVE  LET q == [p EXCEPT !.cur = p.cur /\ p.child # c] IN
                 /\ q \in PacketType /\ q.child = p.child /\ q.pos = p.pos /\ q.num = p.num
                 /\ q.cur <=> p.cur /\ p.child # c
    BY PacketFacts DEF PacketType
  <1>2. AcksClosed(c) \in [Children -> SUBSET Ack] /\ AcksClosed(c)[c] = {}
        /\ \A d \in Children : d # c => AcksClosed(c)[d] = acks[d]
    BY DEF AcksClosed, TypeOK
  <1>3. ASSUME NEW q \in NetClosed(c)
        PROVE  /\ q \in PacketType
               /\ q.cur => q.child # c /\ \E p \in net : p.cur /\ p.child = q.child
                                               /\ p.pos = q.pos /\ p.num = q.num
    <2>1. PICK p \in net : q = [p EXCEPT !.cur = p.cur /\ p.child # c]
      BY DEF NetClosed
    <2>2. /\ q \in PacketType /\ q.child = p.child /\ q.pos = p.pos /\ q.num = p.num
          /\ q.cur <=> p.cur /\ p.child # c
      BY <1>1, <2>1
    <2> QED
      BY <2>2
  <1> QED
    BY <1>2, <1>3

LEMMA TimeoutStep ==
  ASSUME IInv, NEW c \in Children, AckTimeout(c)
  PROVE  IInv'
  <1> USE DEF IInv
  <1>1. /\ child' = [child EXCEPT ![c] = "send"] /\ child[c] = "wait"
        /\ net' = NetClosed(c) /\ acks' = AcksClosed(c)
        /\ faults' \in [FaultKinds -> Nat]
        /\ UNCHANGED <<clientVars, requests, window, serverSeq, confirmed>>
    BY DEF AckTimeout, Fault, TypeOK, FaultKinds
  <1>2. TypeOK'
    BY <1>1, ClosedFacts DEF TypeOK, clientVars
  <1>3. PacketInv'
    BY <1>1, ClosedFacts DEF PacketInv
  <1>4. AckInv'
    BY <1>1, ClosedFacts DEF AckInv, clientVars
  <1>5. (FreshInv /\ SeqInv /\ ProgressInv /\ NoRunAhead)'
    BY <1>1 DEF TypeOK, FreshInv, SeqInv, ProgressInv, NoRunAhead, clientVars
  <1> QED
    BY <1>2, <1>3, <1>4, <1>5

(* The ack a child expects is one of its window's own numbers. *)
LEMMA ExpectedFacts ==
  ASSUME IInv, NEW c \in Children, child[c] = "wait", NEW a \in acks[c],
         a.num = ExpectedAck(c)
  PROVE  confirmed[c] < Len(file)
  <1> USE DEF IInv
  <1>1. a.num \in Int /\ 0 <= a.num /\ a.num < 128
    BY SeqFacts DEF TypeOK, Ack, SeqNum
  <1>2. serverSeq[c] = 0 \/ serverSeq[c] = WindowSize
    BY DEF TypeOK
  <1>3. WindowCount(window[c]) \in 0 .. WindowSize
    BY ConfigAssumption DEF ConfigAssumption, WindowCount
  <1>4. CASE WindowCount(window[c]) = 0
    <2>1. NumWindows = 1
      BY <1>4, SeqFacts, ConfigAssumption DEF ConfigAssumption, WindowCount
    <2>2. window[c] = 0
      BY <2>1 DEF TypeOK
    <2>3. confirmed[c] = 0
      BY <2>2, TypeFacts DEF ProgressInv
    <2>4. serverSeq[c] = 0
      BY <2>3 DEF SeqInv, Parity
    <2>5. ExpectedAck(c) = 255
      BY <1>4, <2>4 DEF ExpectedAck
    <2> QED
      BY <1>1, <2>5
  <1>5. CASE WindowCount(window[c]) > 0
    <2>1. ExpectedAck(c) = serverSeq[c] + WindowCount(window[c]) - 1
      BY <1>2, <1>3, <1>5, SeqFacts DEF ExpectedAck
    <2>2. serverSeq[c] <= a.num /\ a.num < serverSeq[c] + WindowSize
      BY <1>2, <1>3, <1>5, <2>1, SeqFacts
    <2> QED
      BY <2>2 DEF AckInv
  <1> QED
    BY <1>3, <1>4, <1>5

LEMMA AcceptStep ==
  ASSUME IInv, NEW c \in Children, child[c] = "wait", NEW a \in acks[c], AcceptAck(c, a),
         UNCHANGED <<clientVars, requests, faults>>
  PROVE  IInv'
  <1> USE DEF IInv
  <1>1. /\ confirmed' = [confirmed EXCEPT ![c] = @ + 1]
        /\ serverSeq' = [serverSeq EXCEPT ![c] = NextSeq(@)]
        /\ net' = NetClosed(c) /\ acks' = AcksClosed(c)
        /\ UNCHANGED <<clientVars, requests, faults>>
    BY DEF AcceptAck
  <1>2. \/ IsLast(window[c]) /\ child' = [child EXCEPT ![c] = "done"] /\ UNCHANGED window
        \/ /\ ~IsLast(window[c]) /\ child' = [child EXCEPT ![c] = "send"]
           /\ window' = [window EXCEPT ![c] = @ + 1]
    BY DEF AcceptAck
  <1>3. confirmed[c] < Len(file)
    BY ExpectedFacts DEF AcceptAck
  <1>4. NextSeq(serverSeq[c]) \in {0, WindowSize}
    BY NextSeqWraps DEF TypeOK
  <1>5. window' \in [Children -> 0 .. NumWindows - 1]
    <2>1. window \in [Children -> 0 .. NumWindows - 1]
      BY DEF TypeOK
    <2>2. ~IsLast(window[c]) => window[c] + 1 \in 0 .. NumWindows - 1
      BY <2>1, SeqFacts DEF IsLast
    <2> QED
      BY <1>2, <2>1, <2>2
  <1>6. TypeOK'
    <2>1. confirmed' \in [Children -> Nat] /\ serverSeq' \in [Children -> {0, WindowSize}]
      BY <1>1, <1>4 DEF TypeOK
    <2>2. child' \in [Children -> {"free", "send", "wait", "done", "failed"}]
      BY <1>2 DEF TypeOK
    <2> QED
      BY <1>1, <1>5, <2>1, <2>2, ClosedFacts DEF TypeOK, clientVars
  <1>7. NoRunAhead'
    BY <1>1, <1>3, TypeFacts DEF NoRunAhead, TypeOK, clientVars
  <1>8. SeqInv'
    <2>1. serverSeq'[c] = Parity(confirmed'[c])
      BY <1>1, NextSeqParity, TypeFacts DEF SeqInv, TypeOK
    <2> QED
      BY <1>1, <2>1 DEF SeqInv, TypeOK, clientVars
  <1>9. ProgressInv'
    BY <1>1, <1>2, TypeFacts DEF ProgressInv, TypeOK
  <1>10. PacketInv'
    <2> SUFFICES ASSUME NEW q \in NetClosed(c), q.cur
                 PROVE  q.num = serverSeq'[q.child] + q.pos
      BY <1>1 DEF PacketInv
    <2>1. PICK p \in net : /\ p.cur /\ p.child = q.child /\ q.child # c
                            /\ p.pos = q.pos /\ p.num = q.num
      BY ClosedFacts
    <2>2. serverSeq'[q.child] = serverSeq[q.child]
      BY <1>1, <2>1, PacketFacts DEF TypeOK
    <2> QED
      BY <2>1, <2>2 DEF PacketInv
  <1>11. AckInv'
    BY <1>1, ClosedFacts DEF AckInv, TypeOK, clientVars
  <1>12. FreshInv'
    BY <1>1 DEF FreshInv, clientVars
  <1> QED
    BY <1>6, <1>7, <1>8, <1>9, <1>10, <1>11, <1>12

LEMMA AckStep ==
  ASSUME IInv, NEW c \in Children, ReceiveAck(c)
  PROVE  IInv'
  <1>1. PICK a \in acks[c] : AcceptAck(c, a) \/ IgnoreAck(c, a)
    BY DEF ReceiveAck
  <1>2. child[c] = "wait" /\ UNCHANGED <<clientVars, requests, faults>>
    BY DEF ReceiveAck
  <1>3. CASE AcceptAck(c, a)
    BY <1>1, <1>2, <1>3, AcceptStep
  <1>4. CASE IgnoreAck(c, a)
    <2>1. acks' = [acks EXCEPT ![c] = @ \ {a}] /\ UNCHANGED <<net, childVars, clientVars, requests, faults>>
      BY <1>2, <1>4 DEF IgnoreAck
    <2>2. TypeOK'
      BY <2>1 DEF IInv, TypeOK, clientVars, childVars
    <2>3. (FreshInv /\ SeqInv /\ ProgressInv /\ PacketInv /\ AckInv /\ NoRunAhead)'
      BY <2>1 DEF IInv, TypeOK, FreshInv, SeqInv, ProgressInv, PacketInv, AckInv, NoRunAhead,
                  clientVars, childVars
    <2> QED
      BY <2>2, <2>3 DEF IInv
  <1> QED
    BY <1>1, <1>3, <1>4

LEMMA LoseStep ==
  ASSUME IInv, Lose
  PROVE  IInv'
  <1> USE DEF IInv
  <1>1. UNCHANGED <<clientVars, childVars>> /\ faults' \in [FaultKinds -> Nat]
    BY DEF Lose, Fault, TypeOK, FaultKinds
  <1>2. /\ net' \subseteq net /\ requests' \in Nat
        /\ acks' \in [Children -> SUBSET Ack] /\ \A c \in Children : acks'[c] \subseteq acks[c]
    <2>1. net \subseteq net /\ requests \in Nat /\ acks \in [Children -> SUBSET Ack]
      BY DEF TypeOK
    <2>2. CASE requests > 0 /\ requests' = requests - 1 /\ UNCHANGED <<net, acks>>
      BY <2>1, <2>2
    <2>3. CASE \E p \in net : net' = net \ {p} /\ UNCHANGED <<requests, acks>>
      BY <2>1, <2>3
    <2>4. CASE \E c \in Children : \E a \in acks[c] :
                 acks' = [acks EXCEPT ![c] = @ \ {a}] /\ UNCHANGED <<requests, net>>
      BY <2>1, <2>4
    <2> QED
      BY <2>2, <2>3, <2>4 DEF Lose
  <1>3. TypeOK'
    BY <1>1, <1>2 DEF TypeOK, clientVars, childVars
  <1>4. (FreshInv /\ SeqInv /\ ProgressInv /\ PacketInv /\ AckInv /\ NoRunAhead)'
    BY <1>1, <1>2 DEF FreshInv, SeqInv, ProgressInv, PacketInv, AckInv, NoRunAhead,
                      clientVars, childVars
  <1> QED
    BY <1>3, <1>4

LEMMA NextIInv == IInv /\ [Next]_vars => IInv'
  <1> SUFFICES ASSUME IInv, [Next]_vars PROVE IInv'
    OBVIOUS
  <1>1. CASE RequestFile \/ RequestTimeout
    BY <1>1, RequestStep
  <1>2. CASE ReceivePacket
    BY <1>2, StaleStep, StoreStep, CompleteStep DEF ReceivePacket
  <1>3. CASE ReceiveFails
    BY <1>3, ClientFailsStep DEF ReceiveFails
  <1>4. ASSUME NEW c \in Children,
               \/ ReceiveRequest(c) \/ SendWindow(c) \/ SendFails(c)
               \/ AckTimeout(c) \/ ReceiveAck(c)
        PROVE  IInv'
    BY <1>4, ForkStep, SendStep, SendFailsStep, TimeoutStep, AckStep
  <1>5. CASE Lose
    BY <1>5, LoseStep
  <1>6. CASE UNCHANGED vars
    BY <1>6 DEF vars, clientVars, netVars, childVars, IInv, TypeOK, FreshInv, SeqInv,
                ProgressInv, PacketInv, AckInv, NoRunAhead
  <1> QED
    BY <1>1, <1>2, <1>3, <1>4, <1>5, <1>6 DEF Next

LEMMA Invariance == Spec => []IInv
  BY InitIInv, NextIInv, PTL DEF Spec

(***************************************************************************)
(* Type correctness: sequence numbers and acks stay in the 2W space, and   *)
(* the client's window arrays are indexed within their bounds.             *)
(***************************************************************************)
THEOREM TypeCorrect == Spec => []TypeOK
  <1>1. IInv => TypeOK
    BY DEF IInv
  <1> QED
    BY <1>1, Invariance, PTL

(***************************************************************************)
(* No child counts a window as received before the client has written it,  *)
(* for any number of children, any window and block size, any file and any *)
(* loss, duplication, reordering or failure.                               *)
(***************************************************************************)
THEOREM ServerNeverRunsAhead == Spec => []NoRunAhead
  <1>1. IInv => NoRunAhead
    BY DEF IInv
  <1> QED
    BY <1>1, Invariance, PTL
-----------------------------------------------------------------------------
(* The inductive invariant behind ParityKept. *)

Faultless == faults["error"] = 0

(* A packet's number tells its position, and the parity of its window as   *)
(* long as no child skipped a window.                                      *)
NumInv ==
  \A p \in net :
    /\ p.num = p.pos \/ p.num = p.pos + WindowSize
    /\ Faultless => p.num = Parity(p.win) + p.pos

(* A block at position i of a window that may become the n-th of the file. *)
Placed(b, i, n) == b.pos = i /\ (Faultless => b.win % 2 = n % 2)

SlotInv ==
  client \in {"start", "receive"} => \A i \in DOMAIN slots : Placed(slots[i], i, Len(file))

(* Without errors a child that is not done has confirmed just the windows  *)
(* it left behind.                                                         *)
NoSkipInv ==
  Faultless => \A c \in Children : child[c] # "done" => confirmed[c] = window[c]

KInv == NumInv /\ SlotInv /\ NoSkipInv /\ ParityKept

(* Errors are never forgotten. *)
LEMMA ErrorsStay ==
  ASSUME TypeOK, [Next]_vars
  PROVE  Faultless' => Faultless
  <1>1. faults \in [FaultKinds -> Nat] /\ "error" \in FaultKinds
    BY DEF TypeOK, FaultKinds
  <1>2. ASSUME NEW k \in FaultKinds, Fault(k) PROVE faults'["error"] >= faults["error"]
    BY <1>1, <1>2 DEF Fault
  <1>3. UNCHANGED faults \/ \E k \in FaultKinds : Fault(k)
    <2> USE DEF FaultKinds
    <2>1. CASE RequestFile \/ RequestTimeout
      BY <2>1 DEF RequestFile, RequestTimeout
    <2>2. CASE ReceivePacket
      BY <2>2 DEF ReceivePacket, ReceiveStale, StoreBlock, CompleteWindow, Arrive
    <2>3. CASE ReceiveFails
      BY <2>3 DEF ReceiveFails, ClientFails
    <2>4. ASSUME NEW c \in Children,
                 \/ ReceiveRequest(c) \/ SendWindow(c) \/ SendFails(c)
                 \/ AckTimeout(c) \/ ReceiveAck(c)
          PROVE  UNCHANGED faults \/ \E k \in FaultKinds : Fault(k)
      BY <2>4 DEF ReceiveRequest, SendWindow, SendFails, AckTimeout, ReceiveAck
    <2>5. CASE Lose
      BY <2>5 DEF Lose
    <2>6. CASE UNCHANGED vars
      BY <2>6 DEF vars
    <2> QED
      BY <2>1, <2>2, <2>3, <2>4, <2>5, <2>6 DEF Next
  <1> QED
    BY <1>1, <1>2, <1>3 DEF Faultless

(* A packet the client stores goes to its own place in the window, and the *)
(* window it is of has the parity of the one the client collects.          *)
LEMMA StoredInPlace ==
  ASSUME IInv, KInv, client = "receive", NEW p \in net, InWindow(p),
         NEW i \in DOMAIN Held(p)
  PROVE  Placed(Held(p)[i], i, Len(file))
  <1>1. /\ p.num = p.pos \/ p.num = p.pos + WindowSize
        /\ Faultless => p.num = Parity(p.win) + p.pos
        /\ clientSeq = Parity(Len(file)) /\ Len(file) \in Nat /\ p.win \in Nat
    <2>1. TypeOK /\ SeqInv /\ NumInv
      BY DEF IInv, KInv
    <2>2. p.win \in Nat
      <3>1. p \in PacketType
        BY <2>1, PacketFacts
      <3> QED
        BY <3>1, SeqFacts DEF PacketType
    <2> QED
      BY <2>1, <2>2, TypeFacts DEF SeqInv, NumInv
  <1>2. p.num - clientSeq = p.pos
    BY <1>1, NumFacts, SeqFacts DEF InWindow, IInv
  <1>3. Faultless => p.win % 2 = Len(file) % 2
    <2> SUFFICES ASSUME Faultless PROVE p.win % 2 = Len(file) % 2
      OBVIOUS
    <2>1. Parity(p.win) = Parity(Len(file))
      BY <1>1, <1>2, NumFacts, SeqFacts DEF IInv, Parity
    <2>2. p.win % 2 = 0 <=> Len(file) % 2 = 0
      BY <2>1, SeqFacts DEF Parity
    <2> QED
      BY <1>1, <2>2
  <1>4. CASE i = p.num - clientSeq
    BY <1>2, <1>3, <1>4 DEF Held, Placed
  <1>5. CASE i # p.num - clientSeq
    <2>1. i \in DOMAIN slots /\ Held(p)[i] = slots[i]
      BY <1>5 DEF Held
    <2> QED
      BY <2>1 DEF KInv, SlotInv
  <1> QED
    BY <1>4, <1>5

LEMMA AppendInPlace ==
  ASSUME TypeOK, KInv, Faultless' => Faultless, NEW d \in WindowData, file' = Append(file, d),
         \A i \in DOMAIN d : Placed(d[i], i, Len(file))
  PROVE  ParityKept'
  <1>1. /\ DOMAIN file = 1 .. Len(file) /\ DOMAIN file' = 1 .. Len(file) + 1 /\ Len(file) \in Nat
        /\ file'[Len(file) + 1] = d /\ \A k \in 1 .. Len(file) : file'[k] = file[k]
    BY TypeFacts
  <1>2. ASSUME NEW k \in DOMAIN file', NEW i \in DOMAIN file'[k]
        PROVE  /\ file'[k][i].pos = i
               /\ Faultless' => file'[k][i].win % 2 = (k - 1) % 2
    <2>1. CASE k \in 1 .. Len(file)
      BY <1>1, <1>2, <2>1 DEF KInv, ParityKept, Faultless
    <2>2. CASE k = Len(file) + 1
      BY <1>1, <1>2, <2>2 DEF Placed
    <2> QED
      BY <1>1, <2>1, <2>2
  <1> QED
    BY <1>2 DEF ParityKept, Faultless

(* The client's steps keep KInv: they take packets from the network only.  *)
LEMMA ClientKeepsPlaces ==
  ASSUME IInv, KInv, Faultless' => Faultless, RequestFile \/ RequestTimeout \/ ReceivePacket \/ ReceiveFails
  PROVE  KInv'
  <1> USE DEF IInv
  <1>1. net' \subseteq net /\ UNCHANGED childVars
    BY AfterArrivalFacts DEF RequestFile, RequestTimeout, SendRequest, ReceivePacket, ReceiveStale,
       StoreBlock, CompleteWindow, ReceiveFails, ClientFails
  <1>2. NumInv' /\ NoSkipInv'
    BY <1>1 DEF KInv, NumInv, NoSkipInv, Faultless, childVars
  <1>3. CASE UNCHANGED <<slots, file>> /\ (client' # "receive" \/ client' = client \/ client = "start")
    <2>1. client' # "start"
      BY DEF RequestFile, RequestTimeout, ReceivePacket, ReceiveStale, StoreBlock, CompleteWindow,
             ReceiveFails, ClientFails
    <2>2. SlotInv'
      BY <1>3, <2>1 DEF KInv, SlotInv, Placed
    <2>3. ParityKept'
      BY <1>3 DEF KInv, ParityKept, Faultless
    <2> QED
      BY <1>2, <2>2, <2>3 DEF KInv
  <1>4. CASE RequestFile \/ RequestTimeout
    BY <1>3, <1>4 DEF RequestFile, RequestTimeout, SendRequest
  <1>5. ASSUME client = "receive", NEW p \in net, NEW again \in BOOLEAN, ReceiveStale(p, again)
        PROVE  KInv'
    BY <1>3, <1>5 DEF ReceiveStale
  <1>6. ASSUME client = "receive", NEW p \in net, NEW again \in BOOLEAN, StoreBlock(p, again)
        PROVE  KInv'
    <2>1. slots' = Held(p) /\ UNCHANGED <<client, file>> /\ InWindow(p)
      BY <1>6 DEF StoreBlock
    <2>2. \A i \in DOMAIN Held(p) : Placed(Held(p)[i], i, Len(file))
      BY <1>6, <2>1, StoredInPlace
    <2>3. SlotInv'
      BY <2>1, <2>2 DEF SlotInv, Placed
    <2>4. ParityKept'
      BY <2>1 DEF KInv, ParityKept, Faultless
    <2> QED
      BY <1>2, <2>3, <2>4 DEF KInv
  <1>7. ASSUME client = "receive", NEW p \in net, InWindow(p), Completes(p)
        PROVE  \A i \in DOMAIN Appended(p) : Placed(Appended(p)[i], i, Len(file))
    BY <1>7, AppendedFacts, StoredInPlace DEF Placed
  <1>8. ASSUME client = "receive", NEW p \in net, NEW again \in BOOLEAN, CompleteWindow(p, again)
        PROVE  KInv'
    <2>1. file' = Append(file, Appended(p)) /\ InWindow(p) /\ Completes(p)
      BY <1>8 DEF CompleteWindow
    <2>2. ParityKept'
      BY <1>7, <1>8, <2>1, AppendedFacts, AppendInPlace
    <2>3. SlotInv'
      <3>1. client' = "done" \/ DOMAIN slots' = {}
        <4>1. client' = "done" \/ slots' = <<>>
          BY <1>8 DEF CompleteWindow
        <4>2. DOMAIN <<>> = {}
          OBVIOUS
        <4> QED
          BY <4>1, <4>2
      <3> QED
        BY <3>1 DEF SlotInv
    <2> QED
      BY <1>2, <2>2, <2>3 DEF KInv
  <1>9. ASSUME client = "receive", NEW p \in net, ClientFails(p)
        PROVE  KInv'
    <2>1. client' = "failed" /\ UNCHANGED slots
      BY <1>9 DEF ClientFails
    <2>2. SlotInv'
      BY <2>1 DEF SlotInv
    <2>3. CASE UNCHANGED file
      BY <1>3, <2>1, <2>3
    <2>4. CASE InWindow(p) /\ Completes(p) /\ file' = Append(file, Appended(p))
      BY <1>2, <1>7, <1>9, <2>2, <2>4, AppendedFacts, AppendInPlace DEF KInv
    <2>5. ASSUME InWindow(p), Completes(p), NEW n \in 1 .. ClosingNum(p) - clientSeq,
                 file' = Append(file, [i \in 0 .. n - 1 |-> Appended(p)[i]])
          PROVE  KInv'
      <3> DEFINE d == [i \in 0 .. n - 1 |-> Appended(p)[i]]
      <3>1. d \in WindowData
        BY <2>5, AppendedFacts
      <3>2. 0 .. n - 1 \subseteq DOMAIN Appended(p)
        <4>1. DOMAIN Appended(p) = 0 .. ClosingNum(p) - clientSeq
          BY DEF Appended
        <4>2. ClosingNum(p) - clientSeq \in Int
          BY <2>5, HeldFacts, NumFacts, SeqFacts
        <4>3. n \in Int /\ n <= ClosingNum(p) - clientSeq
          BY <4>2
        <4> QED
          BY <4>1, <4>2, <4>3
      <3>3. \A i \in DOMAIN d : Placed(d[i], i, Len(file))
        BY <1>7, <1>9, <2>5, <3>2
      <3> HIDE DEF d
      <3>4. ParityKept'
        BY <2>5, <3>1, <3>3, AppendInPlace DEF d
      <3> QED
        BY <1>2, <2>2, <3>4 DEF KInv
    <2> QED
      BY <1>9, <2>3, <2>4, <2>5 DEF ClientFails
  <1> QED
    BY <1>4, <1>5, <1>6, <1>8, <1>9 DEF ReceivePacket, ReceiveFails

(* The packets of a child are new, or those that were there.               *)
LEMMA ChildKeepsPlaces ==
  ASSUME IInv, KInv, Faultless' => Faultless, NEW c \in Children,
         \/ ReceiveRequest(c) \/ SendWindow(c) \/ SendFails(c)
         \/ AckTimeout(c) \/ ReceiveAck(c)
  PROVE  KInv'
  <1> USE DEF IInv
  <1>1. UNCHANGED clientVars
    BY DEF ReceiveRequest, SendWindow, SendFails, AckTimeout, ReceiveAck
  <1>2. SlotInv' /\ ParityKept'
    BY <1>1 DEF KInv, SlotInv, ParityKept, Faultless, Placed, clientVars
  <1>3. NoSkipInv'
    <2> SUFFICES ASSUME Faultless', NEW d \in Children, child'[d] # "done"
                 PROVE  confirmed'[d] = window'[d]
      BY DEF NoSkipInv
    <2>1. Faultless /\ (child[d] # "done" => confirmed[d] = window[d])
      BY DEF KInv, NoSkipInv
    <2>2. CASE ReceiveRequest(c) \/ SendWindow(c) \/ AckTimeout(c)
      BY <2>1, <2>2 DEF ReceiveRequest, SendWindow, AckTimeout, TypeOK
    <2>3. CASE SendFails(c)
      <3>1. Fault("error") /\ faults["error"] = 0
        BY <2>1, <2>3 DEF SendFails, Faultless
      <3>2. faults'["error"] = 1
        BY <3>1 DEF Fault, FaultKinds, TypeOK
      <3> QED
        BY <3>2 DEF Faultless
    <2>4. CASE ReceiveAck(c)
      <3>1. PICK a \in acks[c] : child[c] = "wait" /\ (AcceptAck(c, a) \/ IgnoreAck(c, a))
        BY <2>4 DEF ReceiveAck
      <3>2. CASE AcceptAck(c, a)
        <4>1. /\ confirmed' = [confirmed EXCEPT ![c] = @ + 1]
              /\ \/ child' = [child EXCEPT ![c] = "done"] /\ UNCHANGED window
                 \/ /\ child' = [child EXCEPT ![c] = "send"]
                    /\ window' = [window EXCEPT ![c] = @ + 1]
          BY <3>2 DEF AcceptAck
        <4> QED
          BY <2>1, <3>1, <4>1 DEF TypeOK
      <3>3. CASE IgnoreAck(c, a)
        BY <2>1, <3>3 DEF IgnoreAck, childVars
      <3> QED
        BY <3>1, <3>2, <3>3
    <2> QED
      BY <2>2, <2>3, <2>4
  <1>4. ASSUME NEW i \in 0 .. WindowCount(window[c]) - 1
        PROVE  /\ serverSeq[c] + i = i \/ serverSeq[c] + i = i + WindowSize
               /\ Faultless /\ child[c] = "send" => serverSeq[c] + i = Parity(window[c]) + i
    <2>1. serverSeq[c] = 0 \/ serverSeq[c] = WindowSize
      BY DEF TypeOK
    <2>2. Faultless /\ child[c] = "send" => serverSeq[c] = Parity(window[c])
      BY DEF KInv, NoSkipInv, SeqInv
    <2> QED
      BY <2>1, <2>2, SeqFacts
  <1>5. NumInv'
    <2> SUFFICES ASSUME NEW q \in net'
                 PROVE  /\ q.num = q.pos \/ q.num = q.pos + WindowSize
                        /\ Faultless' => q.num = Parity(q.win) + q.pos
      BY DEF NumInv
    <2>1. \/ \E p \in net : q.num = p.num /\ q.pos = p.pos /\ q.win = p.win
          \/ \E i \in 0 .. WindowCount(window[c]) - 1 :
               /\ child[c] = "send"
               /\ q.num = serverSeq[c] + i /\ q.pos = i /\ q.win = window[c]
      <3>1. CASE UNCHANGED net
        BY <3>1
      <3>2. CASE SendWindow(c)
        <4>1. q \in net \/ \E i \in 0 .. WindowCount(window[c]) - 1 : q = Packet(c, i)
          BY <3>2 DEF SendWindow, Transmit
        <4> QED
          BY <3>2, <4>1 DEF SendWindow, Packet
      <3>3. CASE SendFails(c)
        <4>1. PICK n \in 0 .. WindowCount(window[c]) :
                net' = Transmit({[Packet(c, i) EXCEPT !.cur = FALSE] : i \in 0 .. n - 1})
          BY <3>3 DEF SendFails
        <4>2. WindowCount(window[c]) \in Nat
          BY ConfigAssumption DEF ConfigAssumption, WindowCount
        <4>3. 0 .. n - 1 \subseteq 0 .. WindowCount(window[c]) - 1
          BY <4>2
        <4>4. \/ q \in net
              \/ \E i \in 0 .. WindowCount(window[c]) - 1 : q = [Packet(c, i) EXCEPT !.cur = FALSE]
          BY <4>1, <4>3 DEF Transmit
        <4> QED
          BY <3>3, <4>4 DEF SendFails, Packet
      <3>4. CASE net' = NetClosed(c)
        <4>1. PICK p \in net : q = [p EXCEPT !.cur = p.cur /\ p.child # c]
          BY <3>4 DEF NetClosed
        <4>2. q.num = p.num /\ q.pos = p.pos /\ q.win = p.win
          BY <4>1, PacketFacts DEF PacketType
        <4> QED
          BY <4>2
      <3> QED
        BY <3>1, <3>2, <3>3, <3>4 DEF ReceiveRequest, AckTimeout, ReceiveAck, AcceptAck, IgnoreAck
    <2> QED
      BY <1>4, <2>1 DEF KInv, NumInv
  <1> QED
    BY <1>2, <1>3, <1>5 DEF KInv

LEMMA NextKInv == IInv /\ KInv /\ [Next]_vars => KInv'
  <1> SUFFICES ASSUME IInv, KInv, [Next]_vars PROVE KInv'
    OBVIOUS
  <1>1. Faultless' => Faultless
    BY ErrorsStay DEF IInv
  <1>2. CASE RequestFile \/ RequestTimeout \/ ReceivePacket \/ ReceiveFails
    BY <1>1, <1>2, ClientKeepsPlaces
  <1>3. ASSUME NEW c \in Children,
               \/ ReceiveRequest(c) \/ SendWindow(c) \/ SendFails(c)
               \/ AckTimeout(c) \/ ReceiveAck(c)
        PROVE  KInv'
    BY <1>1, <1>3, ChildKeepsPlaces
  <1>4. CASE Lose
    <2>1. net' \subseteq net /\ UNCHANGED <<clientVars, childVars>>
      BY <1>4 DEF Lose
    <2> QED
      BY <1>1, <2>1 DEF KInv, NumInv, SlotInv, NoSkipInv, ParityKept, Faultless, Placed,
                        clientVars, childVars
  <1>5. CASE UNCHANGED vars
    BY <1>5 DEF vars, clientVars, netVars, childVars, KInv, NumInv, SlotInv, NoSkipInv, ParityKept,
                Faultless, Placed
  <1> QED
    BY <1>2, <1>3, <1>4, <1>5 DEF Next

(***************************************************************************)
(* Every block the client writes stands at its own position of a window,   *)
(* and in one an even number of windows away from its own unless an error   *)
(* made a child skip a window: this is all the sequence space guarantees,   *)
(* and it does so for any number of children and any order of arrival.     *)
(***************************************************************************)
THEOREM BlocksInPlace == Spec => []ParityKept
  <1>1. Init => KInv
    BY DEF Init, KInv, NumInv, SlotInv, NoSkipInv, ParityKept
  <1>2. KInv => ParityKept
    BY DEF KInv
  <1> QED
    BY <1>1, <1>2, Invariance, NextKInv, PTL DEF Spec
-----------------------------------------------------------------------------
(***************************************************************************)
(* The conditions under which the protocol keeps its promise: the parent   *)
(* forks once, packets of one window are not delivered after packets of a  *)
(* later one (within a window anything goes), and no process fails.        *)
(***************************************************************************)
OneTransfer ==
  /\ \E c \in Children : Children = {c}
  /\ Overtaking = FALSE
  /\ Budget["error"] = 0

(* The last window is written with the right lengths: its last block is full *)
(* or its only one.                                                          *)
Exact == LastLen = BlockSize \/ LastCount <= 1

-----------------------------------------------------------------------------
(* The inductive invariant. *)

NoErrors == faults["error"] = 0 /\ client # "failed"

(* The client is at the window of the child, or one ahead. *)
LagInv ==
  \A c \in Children :
    /\ confirmed[c] = IF child[c] = "done" THEN NumWindows ELSE window[c]
    /\ Len(file) <= confirmed[c] + 1

(* In flight are blocks of the client's window or of the one before it. *)
FlightInv ==
  \A p \in net :
    /\ p.num = Parity(p.win) + p.pos
    /\ p.pos < WindowCount(p.win)
    /\ p.len = BlockLen(p.win, p.pos) /\ p.wire = WireLen(p.win, p.pos)
    /\ p.win <= window[p.child]
    /\ Len(file) <= p.win + 1

(* The client's buffer holds blocks of its window, each at its place, and it  *)
(* knows of the end of the file exactly when it holds the last block.         *)
BufferInv ==
  client \in {"start", "receive"} =>
    /\ Len(file) < NumWindows
    /\ \A i \in DOMAIN slots :
         i < WindowCount(Len(file)) /\ slots[i].win = Len(file) /\ slots[i].pos = i
    /\ isEof => IsLast(Len(file)) /\ lastNum = clientSeq + LastCount - 1
    /\ ~isEof => lastNum = clientSeq + WindowSize - 1
    /\ IsLast(Len(file)) /\ LastCount - 1 \in DOMAIN slots => isEof

(* Window k of the file is window k - 1 of the source. *)
Faithful(k, d) ==
  /\ k <= NumWindows
  /\ DOMAIN d = 0 .. WindowCount(k - 1) - 1
  /\ \A i \in DOMAIN d :
       /\ d[i].win = k - 1 /\ d[i].pos = i
       /\ Exact => d[i].len = BlockLen(k - 1, i)

FileInv == \A k \in DOMAIN file : Faithful(k, file[k])

JInv == IInv /\ NoErrors /\ LagInv /\ FlightInv /\ BufferInv /\ FileInv

-----------------------------------------------------------------------------
(* Facts about the source file and about what is in flight. *)

LEMMA OneChild ==
  ASSUME OneTransfer
  PROVE  TheChild \in Children /\ \A c \in Children : c = TheChild
  BY DEF OneTransfer, TheChild

LEMMA CountFacts ==
  ASSUME NEW w \in Nat
  PROVE  /\ WindowCount(w) \in Nat /\ WindowCount(w) <= WindowSize
         /\ IsLast(w) => WindowCount(w) = LastCount
         /\ ~IsLast(w) => WindowCount(w) = WindowSize
  BY ConfigAssumption DEF ConfigAssumption, WindowCount

(* Only the last packet of the file has another size on the wire than a block. *)
LEMMA WireFacts ==
  ASSUME NEW w \in Nat, NEW i \in Nat
  PROVE  WireLen(w, i) # BlockSize <=> IsLast(w) /\ i = LastCount - 1
  <1>1. LastLen \in Int /\ BlockSize \in Int /\ LastLen <= BlockSize
    BY ConfigAssumption DEF ConfigAssumption
  <1>2. CASE IsLast(w) /\ i = LastCount - 1
    <2>1. CASE LastLen = BlockSize
      BY <1>1, <1>2, <2>1 DEF WireLen
    <2>2. CASE LastLen # BlockSize
      BY <1>2, <2>2 DEF WireLen, BlockLen
    <2> QED
      BY <2>1, <2>2
  <1>3. CASE ~(IsLast(w) /\ i = LastCount - 1)
    BY <1>3 DEF WireLen, BlockLen
  <1> QED
    BY <1>2, <1>3

(* Two neighbouring windows have disjoint halves of the sequence space. *)
LEMMA ParityFacts ==
  ASSUME NEW n \in Nat
  PROVE  /\ Parity(n) \in {0, WindowSize} /\ Parity(n + 1) \in {0, WindowSize}
         /\ Parity(n) # Parity(n + 1)
  <1>1. n % 2 = 0 => (n + 1) % 2 = 1
    OBVIOUS
  <1>2. n % 2 # 0 => (n + 1) % 2 = 0
    OBVIOUS
  <1> QED
    BY <1>1, <1>2, SeqFacts DEF Parity

(* A packet that reaches a receiving client is of its window or of the one  *)
(* before, and it is in the client's window exactly when it is of the first *)
(* kind, at its own position.                                               *)
LEMMA FlightFacts ==
  ASSUME OneTransfer, JInv, client = "receive", NEW p \in net
  PROVE  /\ p.win \in Nat /\ p.pos \in Nat
         /\ p.win = Len(file) \/ p.win + 1 = Len(file)
         /\ InWindow(p) => p.win = Len(file) /\ p.num = clientSeq + p.pos
  <1>1. /\ p.child \in Children /\ p.win \in Nat /\ p.pos \in Nat
        /\ p.win <= NumWindows - 1 /\ p.pos < WindowSize
    BY SeqFacts DEF JInv, IInv, TypeOK, PacketType
  <1>2. /\ p.num = Parity(p.win) + p.pos /\ p.win <= window[p.child] /\ Len(file) <= p.win + 1
    BY DEF JInv, FlightInv
  <1>3. Len(file) \in Nat /\ confirmed[p.child] \in Nat /\ window[p.child] \in Nat
    BY <1>1, TypeFacts DEF JInv, IInv
  <1>4. p.win <= Len(file)
    <2>1. confirmed[p.child] <= Len(file)
      BY <1>1 DEF JInv, IInv, NoRunAhead
    <2>2. confirmed[p.child] = IF child[p.child] = "done" THEN NumWindows ELSE window[p.child]
      BY <1>1 DEF JInv, LagInv
    <2> QED
      BY <1>1, <1>2, <1>3, <2>1, <2>2, SeqFacts
  <1>5. p.win = Len(file) \/ p.win + 1 = Len(file)
    BY <1>1, <1>2, <1>3, <1>4
  <1>6. clientSeq = Parity(Len(file))
    BY DEF JInv, IInv, SeqInv
  <1>7. ASSUME InWindow(p) PROVE p.win = Len(file)
    <2>1. SUFFICES ASSUME p.win + 1 = Len(file) PROVE FALSE
      BY <1>5
    <2>2. /\ Parity(p.win) \in {0, WindowSize} /\ clientSeq \in {0, WindowSize}
          /\ Parity(p.win) # clientSeq
      BY <1>1, <1>6, <2>1, ParityFacts
    <2> QED
      BY <1>1, <1>2, <1>7, <2>2, SeqFacts DEF InWindow
  <1> QED
    BY <1>1, <1>2, <1>5, <1>6, <1>7

(* What the packet just stored does to the client's idea of the window. *)
LEMMA StoredFacts ==
  ASSUME OneTransfer, JInv, client = "receive", NEW p \in net, InWindow(p)
  PROVE  /\ Len(file) < NumWindows /\ p.pos < WindowCount(Len(file))
         /\ p.len = BlockLen(Len(file), p.pos)
         /\ DOMAIN Held(p) = DOMAIN slots \cup {p.pos}
         /\ \A i \in DOMAIN Held(p) :
              i < WindowCount(Len(file)) /\ Held(p)[i].win = Len(file) /\ Held(p)[i].pos = i
         /\ isEof \/ Announces(p) =>
              IsLast(Len(file)) /\ ClosingNum(p) = clientSeq + LastCount - 1
         /\ ~(isEof \/ Announces(p)) => ClosingNum(p) = clientSeq + WindowSize - 1
         /\ IsLast(Len(file)) /\ LastCount - 1 \in DOMAIN Held(p) => isEof \/ Announces(p)
  <1>1. /\ p.win \in Nat /\ p.pos \in Nat /\ p.win = Len(file)
        /\ p.num = clientSeq + p.pos /\ clientSeq \in Nat
    BY FlightFacts, NumFacts, SeqFacts DEF JInv, IInv
  <1>2. /\ Len(file) < NumWindows
        /\ \A i \in DOMAIN slots :
             i < WindowCount(Len(file)) /\ slots[i].win = Len(file) /\ slots[i].pos = i
        /\ isEof => IsLast(Len(file)) /\ lastNum = clientSeq + LastCount - 1
        /\ ~isEof => lastNum = clientSeq + WindowSize - 1
        /\ IsLast(Len(file)) /\ LastCount - 1 \in DOMAIN slots => isEof
    BY DEF JInv, BufferInv
  <1>3. /\ p.pos < WindowCount(Len(file)) /\ p.len = BlockLen(Len(file), p.pos)
        /\ p.wire = WireLen(Len(file), p.pos)
    BY <1>1 DEF JInv, FlightInv
  <1>4. Announces(p) <=> IsLast(Len(file)) /\ p.pos = LastCount - 1
    BY <1>1, <1>3, WireFacts DEF Announces
  <1>5. p.num - clientSeq = p.pos
    BY <1>1
  <1>6. /\ DOMAIN Held(p) = DOMAIN slots \cup {p.pos}
        /\ \A i \in DOMAIN Held(p) :
             Held(p)[i] = IF i = p.pos
                          THEN [win |-> p.win, pos |-> p.pos, len |-> p.len] ELSE slots[i]
    BY <1>5 DEF Held
  <1>7. \A i \in DOMAIN Held(p) :
          i < WindowCount(Len(file)) /\ Held(p)[i].win = Len(file) /\ Held(p)[i].pos = i
    BY <1>1, <1>2, <1>3, <1>6
  <1>8. isEof \/ Announces(p) =>
          IsLast(Len(file)) /\ ClosingNum(p) = clientSeq + LastCount - 1
    <2>1. CASE Announces(p)
      <3>1. LastCount \in Int
        BY ConfigAssumption DEF ConfigAssumption
      <3> QED
        BY <1>1, <1>4, <2>1, <3>1 DEF ClosingNum
    <2>2. CASE ~Announces(p)
      BY <1>2, <2>2 DEF ClosingNum
    <2> QED
      BY <2>1, <2>2
  <1>9. ~(isEof \/ Announces(p)) => ClosingNum(p) = clientSeq + WindowSize - 1
    BY <1>2 DEF ClosingNum
  <1>10. IsLast(Len(file)) /\ LastCount - 1 \in DOMAIN Held(p) => isEof \/ Announces(p)
    BY <1>2, <1>4, <1>6
  <1> QED
    BY <1>2, <1>3, <1>6, <1>7, <1>8, <1>9, <1>10

(* What the client appends is the window of the source it has come to. *)
LEMMA AppendedFaithful ==
  ASSUME OneTransfer, JInv, client = "receive", NEW p \in net, InWindow(p), Completes(p)
  PROVE  /\ Faithful(Len(file) + 1, Appended(p))
         /\ ~(isEof \/ Announces(p)) => ~IsLast(Len(file))
  <1> DEFINE last == ClosingNum(p) - clientSeq
  <1> DEFINE w == Len(file)
  <1>1. /\ w \in Nat /\ clientSeq \in Nat /\ p.pos \in Nat
        /\ LastCount \in Nat /\ LastLen \in Nat /\ BlockSize \in Nat
    BY TypeFacts, FlightFacts, NumFacts, SeqFacts, ConfigAssumption
       DEF ConfigAssumption, JInv, IInv
  <1>2. WindowCount(w) \in Nat /\ WindowCount(w) <= WindowSize
    BY <1>1, CountFacts
  <1>3. \A i \in 0 .. last : i \in DOMAIN Held(p)
    BY DEF Completes
  <1>4. /\ w < NumWindows /\ p.pos < WindowCount(w) /\ p.len = BlockLen(w, p.pos)
        /\ \A i \in DOMAIN Held(p) :
             i < WindowCount(w) /\ Held(p)[i].win = w /\ Held(p)[i].pos = i
    BY StoredFacts
  <1>5. ASSUME ~(isEof \/ Announces(p))
        PROVE  last = WindowSize - 1 /\ WindowCount(w) = WindowSize /\ ~IsLast(w)
    <2>1. last = WindowSize - 1
      <3>1. ClosingNum(p) = clientSeq + WindowSize - 1
        BY <1>5, StoredFacts
      <3> QED
        BY <1>1, <3>1, SeqFacts
    <2>2. WindowSize - 1 \in DOMAIN Held(p)
      BY <1>3, <2>1, SeqFacts
    <2>3. WindowCount(w) = WindowSize
      BY <1>2, <1>4, <2>2, SeqFacts
    <2>4. ASSUME IsLast(w) PROVE FALSE
      <3>1. WindowCount(w) = LastCount
        BY <1>1, <2>4, CountFacts
      <3>2. LastCount - 1 \in DOMAIN Held(p)
        BY <2>2, <2>3, <3>1
      <3> QED
        BY <1>5, <2>4, <3>2, StoredFacts
    <2> QED
      BY <2>1, <2>3, <2>4
  <1>6. ASSUME isEof \/ Announces(p)
        PROVE  last = LastCount - 1 /\ WindowCount(w) = LastCount /\ IsLast(w)
    <2>1. IsLast(w) /\ ClosingNum(p) = clientSeq + LastCount - 1
      BY <1>6, StoredFacts
    <2> QED
      BY <1>1, <2>1, CountFacts
  <1>7. last = WindowCount(w) - 1
    BY <1>5, <1>6
  <1>8. DOMAIN Appended(p) = 0 .. WindowCount((w + 1) - 1) - 1
    BY <1>1, <1>7 DEF Appended
  <1>9. ASSUME NEW i \in 0 .. last
        PROVE  Appended(p)[i].win = w /\ Appended(p)[i].pos = i
    <2>1. i \in DOMAIN Appended(p)
      BY <1>9 DEF Appended
    <2>2. /\ i \in DOMAIN Held(p)
          /\ Appended(p)[i].win = Held(p)[i].win /\ Appended(p)[i].pos = Held(p)[i].pos
      BY <2>1, AppendedFacts DEF JInv, IInv
    <2> QED
      BY <1>4, <2>2
  <1>10. ASSUME NEW i \in 0 .. last
         PROVE  Appended(p)[i].len = IF i = last THEN p.len ELSE BlockSize
    <2>1. Held(p)[i] \in Block
      BY <1>3, HeldFacts DEF JInv, IInv
    <2>2. Appended(p)[i] = [Held(p)[i] EXCEPT !.len = IF i = last THEN p.len ELSE BlockSize]
      BY DEF Appended
    <2> HIDE DEF last
    <2> QED
      BY <2>1, <2>2 DEF Block
  <1>11. ASSUME Exact, NEW i \in 0 .. last
         PROVE  Appended(p)[i].len = BlockLen(w, i)
    <2>1. CASE isEof \/ Announces(p)
      <3>1. p.len = LastLen \/ (p.len = BlockSize /\ p.pos # LastCount - 1)
        BY <1>4, <1>6, <2>1 DEF BlockLen
      <3>2. p.len = LastLen
        BY <1>1, <1>4, <1>6, <1>11, <2>1, <3>1 DEF Exact
      <3>3. CASE i = last
        BY <1>6, <1>10, <2>1, <3>2, <3>3 DEF BlockLen
      <3>4. CASE i # last
        BY <1>6, <1>10, <2>1, <3>4 DEF BlockLen
      <3> QED
        BY <3>3, <3>4
    <2>2. CASE ~(isEof \/ Announces(p))
      <3>1. p.len = BlockSize /\ BlockLen(w, i) = BlockSize
        BY <1>4, <1>5, <2>2 DEF BlockLen
      <3> QED
        BY <1>10, <3>1
    <2> QED
      BY <2>1, <2>2
  <1>12. DOMAIN Appended(p) = 0 .. last /\ (w + 1) - 1 = w /\ w + 1 <= NumWindows
    BY <1>1, <1>4, SeqFacts DEF Appended
  <1> QED
    BY <1>5, <1>8, <1>9, <1>11, <1>12 DEF Faithful

-----------------------------------------------------------------------------
(* The invariant holds initially, and every action keeps it. *)

LEMMA InitJInv == OneTransfer /\ Init => JInv
  <1> SUFFICES ASSUME OneTransfer, Init PROVE JInv
    OBVIOUS
  <1>1. IInv
    BY InitIInv
  <1>2. NoErrors /\ FlightInv
    BY DEF Init, NoErrors, FlightInv, FaultKinds
  <1>3. Len(file) = 0 /\ DOMAIN slots = {} /\ DOMAIN file = {}
    BY DEF Init
  <1>4. LagInv
    BY <1>3 DEF Init, LagInv
  <1>5. BufferInv
    BY <1>3, SeqFacts DEF Init, BufferInv
  <1>6. FileInv
    BY <1>3 DEF FileInv
  <1> QED
    BY <1>1, <1>2, <1>4, <1>5, <1>6 DEF JInv

LEMMA NoErrorFacts ==
  ASSUME OneTransfer, JInv
  PROVE  /\ ~CanFault("error")
         /\ \A k \in FaultKinds \ {"error"} : Fault(k) => faults'["error"] = 0
  <1>1. faults \in [FaultKinds -> Nat] /\ faults["error"] = 0
    BY DEF JInv, IInv, TypeOK, NoErrors
  <1> QED
    BY <1>1 DEF OneTransfer, CanFault, Fault, FaultKinds

LEMMA JRequestStep ==
  ASSUME OneTransfer, JInv, RequestFile \/ RequestTimeout
  PROVE  JInv'
  <1>1. IInv'
    BY RequestStep DEF JInv
  <1>2. FreshInv /\ (client = "start" \/ armed)
    BY DEF JInv, IInv, RequestFile, RequestTimeout
  <1>3. /\ clientSeq' = clientSeq /\ client \in {"start", "receive"} /\ client' = "receive"
        /\ UNCHANGED <<lastNum, isEof, slots, file, net, acks, childVars>>
        /\ faults' = faults \/ Fault("early")
    BY <1>2 DEF FreshInv, RequestFile, RequestTimeout, SendRequest
  <1>4. NoErrors'
    BY <1>3, NoErrorFacts DEF JInv, NoErrors, FaultKinds
  <1>5. (LagInv /\ FlightInv /\ FileInv)'
    BY <1>3 DEF JInv, LagInv, FlightInv, FileInv, childVars
  <1>6. BufferInv'
    BY <1>3 DEF JInv, BufferInv
  <1> QED
    BY <1>1, <1>4, <1>5, <1>6 DEF JInv

LEMMA JStaleStep ==
  ASSUME OneTransfer, JInv, client = "receive", NEW p \in net, NEW again \in BOOLEAN,
         ReceiveStale(p, again)
  PROVE  JInv'
  <1>1. IInv'
    BY StaleStep DEF JInv
  <1>2. /\ net' \subseteq net /\ (faults' = faults \/ Fault("dup"))
        /\ UNCHANGED <<client, clientSeq, lastNum, isEof, slots, file, childVars>>
    BY AfterArrivalFacts DEF ReceiveStale, Arrive
  <1>3. NoErrors'
    BY <1>2, NoErrorFacts DEF JInv, NoErrors, FaultKinds
  <1>4. (LagInv /\ FlightInv /\ BufferInv /\ FileInv)'
    BY <1>2 DEF JInv, LagInv, FlightInv, BufferInv, FileInv, childVars
  <1> QED
    BY <1>1, <1>3, <1>4 DEF JInv

LEMMA JStoreStep ==
  ASSUME OneTransfer, JInv, client = "receive", NEW p \in net, NEW again \in BOOLEAN,
         StoreBlock(p, again)
  PROVE  JInv'
  <1>1. IInv'
    BY StoreStep DEF JInv
  <1>2. /\ net' \subseteq net /\ (faults' = faults \/ Fault("dup"))
        /\ slots' = Held(p) /\ lastNum' = ClosingNum(p)
        /\ isEof' = (isEof \/ Announces(p))
        /\ UNCHANGED <<client, clientSeq, file, childVars>>
    BY AfterArrivalFacts DEF StoreBlock, Arrive
  <1>3. InWindow(p)
    BY DEF StoreBlock
  <1>4. NoErrors'
    BY <1>2, NoErrorFacts DEF JInv, NoErrors, FaultKinds
  <1>5. (LagInv /\ FlightInv /\ FileInv)'
    BY <1>2 DEF JInv, LagInv, FlightInv, FileInv, childVars
  <1>6. BufferInv'
    <2>1. /\ Len(file) < NumWindows
          /\ \A i \in DOMAIN Held(p) :
               i < WindowCount(Len(file)) /\ Held(p)[i].win = Len(file) /\ Held(p)[i].pos = i
      BY <1>3, StoredFacts
    <2>2. /\ isEof \/ Announces(p) =>
               IsLast(Len(file)) /\ ClosingNum(p) = clientSeq + LastCount - 1
          /\ ~(isEof \/ Announces(p)) => ClosingNum(p) = clientSeq + WindowSize - 1
      BY <1>3, StoredFacts
    <2>3. IsLast(Len(file)) /\ LastCount - 1 \in DOMAIN Held(p) => isEof \/ Announces(p)
      BY <1>3, StoredFacts
    <2> QED
      BY <1>2, <2>1, <2>2, <2>3 DEF BufferInv
  <1> QED
    BY <1>1, <1>4, <1>5, <1>6 DEF JInv

(* Completing a window: the child is at that very window. *)
LEMMA CompleteFacts ==
  ASSUME OneTransfer, JInv, client = "receive", NEW p \in net, NEW again \in BOOLEAN,
         CompleteWindow(p, again)
  PROVE  /\ \A c \in Children : confirmed[c] = Len(file)
         /\ p.win = Len(file) /\ Len(file) < NumWindows
         /\ file' = Append(file, Appended(p)) /\ Faithful(Len(file) + 1, Appended(p))
         /\ UNCHANGED childVars
  <1>1. InWindow(p) /\ Completes(p) /\ file' = Append(file, Appended(p)) /\ UNCHANGED childVars
    BY DEF CompleteWindow
  <1>2. p.win = Len(file) /\ Len(file) < NumWindows
    BY <1>1, FlightFacts, StoredFacts
  <1>3. Faithful(Len(file) + 1, Appended(p))
    BY <1>1, AppendedFaithful
  <1>4. \A c \in Children : confirmed[c] = Len(file)
    <2> SUFFICES ASSUME NEW c \in Children PROVE confirmed[c] = Len(file)
      OBVIOUS
    <2>1. p.child \in Children
      BY PacketFacts DEF JInv, IInv
    <2>2. p.child = c
      BY <2>1, OneChild
    <2>3. p.win <= window[c]
      BY <2>2 DEF JInv, FlightInv
    <2>4. confirmed[c] = IF child[c] = "done" THEN NumWindows ELSE window[c]
      BY DEF JInv, LagInv
    <2>5. confirmed[c] <= Len(file)
      BY DEF JInv, IInv, NoRunAhead
    <2>6. Len(file) \in Nat /\ window[c] \in Nat /\ confirmed[c] \in Nat
      BY TypeFacts DEF JInv, IInv
    <2> QED
      BY <1>2, <2>3, <2>4, <2>5, <2>6, SeqFacts
  <1> QED
    BY <1>1, <1>2, <1>3, <1>4

LEMMA JCompleteStep ==
  ASSUME OneTransfer, JInv, client = "receive", NEW p \in net, NEW again \in BOOLEAN,
         CompleteWindow(p, again)
  PROVE  JInv'
  <1>1. IInv'
    BY CompleteStep DEF JInv
  <1>2. file \in Seq(WindowData) /\ Len(file) \in Nat
    BY TypeFacts DEF JInv, IInv
  <1>3. file' = Append(file, Appended(p)) /\ UNCHANGED childVars
    BY DEF CompleteWindow
  <1>4. Len(file') = Len(file) + 1
    BY <1>2, <1>3
  <1>5. NoErrors'
    <2>1. faults' = faults \/ Fault("dup")
      BY DEF CompleteWindow, Arrive
    <2>2. client' = "done" \/ client' = client
      BY DEF CompleteWindow
    <2> QED
      BY <2>1, <2>2, NoErrorFacts DEF JInv, NoErrors, FaultKinds
  <1>6. LagInv'
    <2>1. \A c \in Children : confirmed[c] = Len(file)
      BY CompleteFacts
    <2>2. \A c \in Children : confirmed'[c] = IF child'[c] = "done" THEN NumWindows ELSE window'[c]
      BY <1>3 DEF JInv, LagInv, childVars
    <2>3. \A c \in Children : Len(file') <= confirmed'[c] + 1
      BY <1>2, <1>3, <1>4, <2>1 DEF childVars
    <2> QED
      BY <2>2, <2>3 DEF LagInv
  <1>7. FlightInv'
    <2>1. net' = {} \/ net' = AfterArrival(p, again)
      BY DEF CompleteWindow
    <2>2. \A q \in net' : q \in net /\ q.win >= p.win
      <3>1. SUFFICES ASSUME NEW q \in AfterArrival(p, again) PROVE q \in net /\ q.win >= p.win
        BY <2>1
      <3>2. q \in net /\ (q.child # p.child \/ q.win >= p.win)
        BY <3>1 DEF AfterArrival, OneTransfer
      <3>3. q.child = p.child
        <4>1. q.child \in Children /\ p.child \in Children
          BY <3>2, PacketFacts DEF JInv, IInv
        <4> QED
          BY <4>1, OneChild
      <3> QED
        BY <3>2, <3>3
    <2>3. p.win = Len(file)
      BY CompleteFacts
    <2>4. \A q \in net' : Len(file') <= q.win + 1
      <3> SUFFICES ASSUME NEW q \in net' PROVE Len(file') <= q.win + 1
        OBVIOUS
      <3>1. q.win \in Nat /\ q.win >= Len(file)
        BY <2>2, <2>3, FlightFacts
      <3> QED
        BY <1>2, <1>4, <3>1
    <2>5. \A q \in net' :
            /\ q.num = Parity(q.win) + q.pos
            /\ q.pos < WindowCount(q.win)
            /\ q.len = BlockLen(q.win, q.pos) /\ q.wire = WireLen(q.win, q.pos)
            /\ q.win <= window'[q.child]
      BY <1>3, <2>2 DEF JInv, FlightInv, childVars
    <2> QED
      BY <2>4, <2>5 DEF FlightInv
  <1>8. BufferInv'
    <2>1. CASE isEof \/ Announces(p)
      <3>1. client' = "done"
        BY <2>1 DEF CompleteWindow
      <3> QED
        BY <3>1 DEF BufferInv
    <2>2. CASE ~(isEof \/ Announces(p))
      <3>1. /\ clientSeq' = NextSeq(clientSeq) /\ lastNum' = clientSeq' + WindowSize - 1
            /\ slots' = <<>> /\ isEof' = isEof /\ ~isEof
        BY <2>2 DEF CompleteWindow
      <3>2. ~IsLast(Len(file)) /\ Len(file) < NumWindows
        BY <2>2, CompleteFacts, AppendedFaithful DEF CompleteWindow
      <3>3. Len(file') < NumWindows
        BY <1>2, <1>4, <3>2, SeqFacts DEF IsLast
      <3>4. DOMAIN slots' = {}
        BY <3>1
      <3> QED
        BY <3>1, <3>3, <3>4 DEF BufferInv
    <2> QED
      BY <2>1, <2>2
  <1>9. FileInv'
    <2>1. Faithful(Len(file) + 1, Appended(p))
      BY CompleteFacts
    <2>2. ASSUME NEW k \in DOMAIN file' PROVE Faithful(k, file'[k])
      <3>1. CASE k = Len(file) + 1
        BY <1>2, <1>3, <2>1, <3>1
      <3>2. CASE k # Len(file) + 1
        <4>1. k \in DOMAIN file /\ file'[k] = file[k]
          BY <1>2, <1>3, <3>2
        <4> QED
          BY <4>1 DEF JInv, FileInv
      <3> QED
        BY <3>1, <3>2
    <2> QED
      BY <2>2 DEF FileInv
  <1> QED
    BY <1>1, <1>5, <1>6, <1>7, <1>8, <1>9 DEF JInv

LEMMA JForkStep ==
  ASSUME OneTransfer, JInv, NEW c \in Children, ReceiveRequest(c)
  PROVE  JInv'
  <1>1. IInv'
    BY ForkStep DEF JInv
  <1>2. /\ child[c] = "free" /\ child' = [child EXCEPT ![c] = "send"]
        /\ UNCHANGED <<clientVars, net, window, confirmed, faults>>
    BY DEF ReceiveRequest
  <1>3. (NoErrors /\ FlightInv /\ BufferInv /\ FileInv)'
    BY <1>2 DEF JInv, NoErrors, FlightInv, BufferInv, FileInv, clientVars
  <1>4. LagInv'
    BY <1>2 DEF JInv, IInv, TypeOK, LagInv, clientVars
  <1> QED
    BY <1>1, <1>3, <1>4 DEF JInv

(* A child that has not ended sends the window it has come to. *)
LEMMA LagFacts ==
  ASSUME JInv, NEW c \in Children, child[c] # "done"
  PROVE  /\ confirmed[c] = window[c] /\ serverSeq[c] = Parity(window[c])
         /\ Len(file) <= window[c] + 1 /\ window[c] \in Nat
  <1>1. confirmed[c] = window[c] /\ Len(file) <= confirmed[c] + 1
    BY DEF JInv, LagInv
  <1>2. serverSeq[c] = Parity(confirmed[c])
    BY DEF JInv, IInv, SeqInv
  <1> QED
    BY <1>1, <1>2, TypeFacts DEF JInv, IInv

LEMMA JSendStep ==
  ASSUME OneTransfer, JInv, NEW c \in Children, SendWindow(c)
  PROVE  JInv'
  <1>1. IInv'
    BY SendStep DEF JInv
  <1>2. /\ child[c] = "send" /\ child' = [child EXCEPT ![c] = "wait"]
        /\ UNCHANGED <<clientVars, window, confirmed, faults>>
    BY DEF SendWindow
  <1>3. (NoErrors /\ BufferInv /\ FileInv)'
    BY <1>2 DEF JInv, NoErrors, BufferInv, FileInv, clientVars
  <1>4. LagInv'
    BY <1>2 DEF JInv, IInv, TypeOK, LagInv, clientVars
  <1>5. \A p \in net' : p \in net \/ \E i \in 0 .. WindowCount(window[c]) - 1 : p = Packet(c, i)
    BY DEF SendWindow, Transmit
  <1>6. ASSUME NEW i \in 0 .. WindowCount(window[c]) - 1
        PROVE  LET p == Packet(c, i) IN
                 /\ p.num = Parity(p.win) + p.pos
                 /\ p.pos < WindowCount(p.win)
                 /\ p.len = BlockLen(p.win, p.pos) /\ p.wire = WireLen(p.win, p.pos)
                 /\ p.win <= window[p.child]
                 /\ Len(file) <= p.win + 1
    <2>1. /\ serverSeq[c] = Parity(window[c]) /\ Len(file) <= window[c] + 1 /\ window[c] \in Nat
      BY <1>2, LagFacts
    <2>2. i < WindowCount(window[c])
      <3>1. WindowCount(window[c]) \in Nat
        BY <2>1, CountFacts
      <3> QED
        BY <3>1
    <2> QED
      BY <2>1, <2>2 DEF Packet
  <1>7. FlightInv'
    BY <1>2, <1>5, <1>6 DEF JInv, FlightInv, clientVars
  <1> QED
    BY <1>1, <1>3, <1>4, <1>7 DEF JInv

(* Closing its socket changes no packet but for who answers it. *)
LEMMA FlightClosed ==
  ASSUME JInv, NEW c \in Children, NEW q \in NetClosed(c)
  PROVE  \E p \in net :
           /\ p.child = q.child /\ p.win = q.win /\ p.pos = q.pos
           /\ p.num = q.num /\ p.len = q.len /\ p.wire = q.wire
  <1>1. PICK p \in net : q = [p EXCEPT !.cur = p.cur /\ p.child # c]
    BY DEF NetClosed
  <1>2. p \in PacketType
    BY PacketFacts DEF JInv, IInv
  <1> QED
    BY <1>1, <1>2 DEF PacketType

LEMMA JTimeoutStep ==
  ASSUME OneTransfer, JInv, NEW c \in Children, AckTimeout(c)
  PROVE  JInv'
  <1>1. IInv'
    BY TimeoutStep DEF JInv
  <1>2. /\ child[c] = "wait" /\ child' = [child EXCEPT ![c] = "send"]
        /\ net' = NetClosed(c) /\ (faults' = faults \/ Fault("early"))
        /\ UNCHANGED <<clientVars, window, confirmed>>
    BY DEF AckTimeout
  <1>3. (NoErrors /\ BufferInv /\ FileInv)'
    BY <1>2, NoErrorFacts DEF JInv, NoErrors, BufferInv, FileInv, clientVars, FaultKinds
  <1>4. LagInv'
    BY <1>2 DEF JInv, IInv, TypeOK, LagInv, clientVars
  <1>5. FlightInv'
    BY <1>2, FlightClosed DEF JInv, FlightInv, clientVars
  <1> QED
    BY <1>1, <1>3, <1>4, <1>5 DEF JInv

LEMMA JAcceptStep ==
  ASSUME OneTransfer, JInv, NEW c \in Children, child[c] = "wait", NEW a \in acks[c],
         AcceptAck(c, a), UNCHANGED <<clientVars, requests, faults>>
  PROVE  JInv'
  <1>1. IInv'
    BY AcceptStep DEF JInv
  <1>2. /\ confirmed' = [confirmed EXCEPT ![c] = @ + 1] /\ net' = NetClosed(c)
        /\ UNCHANGED <<clientVars, faults>>
    BY DEF AcceptAck
  <1>3. \/ IsLast(window[c]) /\ child' = [child EXCEPT ![c] = "done"] /\ UNCHANGED window
        \/ /\ ~IsLast(window[c]) /\ child' = [child EXCEPT ![c] = "send"]
           /\ window' = [window EXCEPT ![c] = @ + 1]
    BY DEF AcceptAck
  <1>4. (NoErrors /\ BufferInv /\ FileInv)'
    BY <1>2 DEF JInv, NoErrors, BufferInv, FileInv, clientVars
  <1>5. confirmed[c] = window[c] /\ window[c] \in Nat /\ Len(file) <= window[c] + 1
    BY LagFacts
  <1>6. /\ child \in [Children -> {"free", "send", "wait", "done", "failed"}]
        /\ window \in [Children -> 0 .. NumWindows - 1] /\ confirmed \in [Children -> Nat]
    BY DEF JInv, IInv, TypeOK
  <1>7. Len(file) \in Nat
    BY TypeFacts DEF JInv, IInv
  <1>8. confirmed'[c] = window[c] + 1 /\ Len(file') <= confirmed'[c] + 1
    BY <1>2, <1>5, <1>6, <1>7 DEF clientVars
  <1>9. confirmed'[c] = IF child'[c] = "done" THEN NumWindows ELSE window'[c]
    <2>1. CASE IsLast(window[c]) /\ child' = [child EXCEPT ![c] = "done"]
      BY <1>5, <1>6, <1>8, <2>1, SeqFacts DEF IsLast
    <2>2. CASE child' = [child EXCEPT ![c] = "send"] /\ window' = [window EXCEPT ![c] = @ + 1]
      BY <1>6, <1>8, <2>2
    <2> QED
      BY <1>3, <2>1, <2>2
  <1>10. LagInv'
    <2>1. \A d \in Children : d = c
      BY OneChild
    <2> QED
      BY <1>8, <1>9, <2>1 DEF LagInv
  <1>11. FlightInv'
    <2>1. \A d \in Children : window'[d] >= window[d]
      BY <1>3, <1>6
    <2> SUFFICES ASSUME NEW q \in NetClosed(c)
                 PROVE  /\ q.num = Parity(q.win) + q.pos
                        /\ q.pos < WindowCount(q.win)
                        /\ q.len = BlockLen(q.win, q.pos) /\ q.wire = WireLen(q.win, q.pos)
                        /\ q.win <= window'[q.child]
                        /\ Len(file) <= q.win + 1
      BY <1>2 DEF FlightInv, clientVars
    <2>2. PICK p \in net :
            /\ p.child = q.child /\ p.win = q.win /\ p.pos = q.pos
            /\ p.num = q.num /\ p.len = q.len /\ p.wire = q.wire
      BY FlightClosed
    <2>3. p.child \in Children /\ p.win \in Nat
      <3>1. p \in PacketType
        BY PacketFacts DEF JInv, IInv
      <3> QED
        BY <3>1, SeqFacts DEF PacketType
    <2>4. window'[p.child] \in Nat /\ window[p.child] \in Nat
      BY <1>1, <2>3 DEF JInv, IInv, TypeOK
    <2>5. p.win <= window[p.child]
      BY DEF JInv, FlightInv
    <2>6. q.win <= window'[q.child]
      BY <2>1, <2>2, <2>3, <2>4, <2>5
    <2> QED
      BY <2>2, <2>6 DEF JInv, FlightInv
  <1> QED
    BY <1>1, <1>4, <1>10, <1>11 DEF JInv

LEMMA JAckStep ==
  ASSUME OneTransfer, JInv, NEW c \in Children, ReceiveAck(c)
  PROVE  JInv'
  <1>1. PICK a \in acks[c] : AcceptAck(c, a) \/ IgnoreAck(c, a)
    BY DEF ReceiveAck
  <1>2. child[c] = "wait" /\ UNCHANGED <<clientVars, requests, faults>>
    BY DEF ReceiveAck
  <1>3. CASE AcceptAck(c, a)
    BY <1>2, <1>3, JAcceptStep
  <1>4. CASE IgnoreAck(c, a)
    <2>1. IInv'
      BY AckStep DEF JInv
    <2>2. UNCHANGED <<net, childVars, clientVars, faults>>
      BY <1>2, <1>4 DEF IgnoreAck
    <2> QED
      BY <2>1, <2>2 DEF JInv, NoErrors, LagInv, FlightInv, BufferInv, FileInv,
                        clientVars, childVars
  <1> QED
    BY <1>1, <1>3, <1>4

LEMMA JLoseStep ==
  ASSUME OneTransfer, JInv, Lose
  PROVE  JInv'
  <1>1. IInv'
    BY LoseStep DEF JInv
  <1>2. UNCHANGED <<clientVars, childVars>> /\ Fault("loss") /\ net' \subseteq net
    BY DEF Lose
  <1>3. NoErrors'
    BY <1>2, NoErrorFacts DEF JInv, NoErrors, clientVars, FaultKinds
  <1>4. (LagInv /\ FlightInv /\ BufferInv /\ FileInv)'
    BY <1>2 DEF JInv, LagInv, FlightInv, BufferInv, FileInv, clientVars, childVars
  <1> QED
    BY <1>1, <1>3, <1>4 DEF JInv

(* No process fails. *)
LEMMA NoFailure ==
  ASSUME OneTransfer, JInv
  PROVE  ~ReceiveFails /\ \A c \in Children : ~SendFails(c)
  BY NoErrorFacts DEF ReceiveFails, ClientFails, SendFails

LEMMA NextJInv == OneTransfer /\ JInv /\ [Next]_vars => JInv'
  <1> SUFFICES ASSUME OneTransfer, JInv, [Next]_vars PROVE JInv'
    OBVIOUS
  <1>1. CASE RequestFile \/ RequestTimeout
    BY <1>1, JRequestStep
  <1>2. CASE ReceivePacket
    BY <1>2, JStaleStep, JStoreStep, JCompleteStep DEF ReceivePacket
  <1>3. ASSUME NEW c \in Children,
               ReceiveRequest(c) \/ SendWindow(c) \/ AckTimeout(c) \/ ReceiveAck(c)
        PROVE  JInv'
    BY <1>3, JForkStep, JSendStep, JTimeoutStep, JAckStep
  <1>4. CASE Lose
    BY <1>4, JLoseStep
  <1>5. CASE UNCHANGED vars
    <2>1. IInv'
      BY <1>5, NextIInv DEF JInv
    <2> QED
      BY <1>5, <2>1 DEF vars, clientVars, netVars, childVars, JInv, NoErrors, LagInv,
                        FlightInv, BufferInv, FileInv
  <1> QED
    BY <1>1, <1>2, <1>3, <1>4, <1>5, NoFailure DEF Next

(***************************************************************************)
(* What the conditions of OneTransfer are enough for: every block of the   *)
(* source is written once, in its own place and in order.                  *)
(***************************************************************************)
THEOREM OrderKept ==
  ASSUME OneTransfer
  PROVE  Spec => []BlocksInOrder
  <1>1. JInv => BlocksInOrder
    <2> SUFFICES ASSUME JInv, NEW k \in DOMAIN file
                 PROVE  /\ k <= NumWindows
                        /\ DOMAIN file[k] = DOMAIN Source[k]
                        /\ \A i \in DOMAIN file[k] :
                             file[k][i].win = k - 1 /\ file[k][i].pos = i
      BY DEF BlocksInOrder
    <2>1. Faithful(k, file[k])
      BY DEF JInv, FileInv
    <2>2. k \in 1 .. NumWindows
      BY <2>1, TypeFacts, SeqFacts DEF JInv, IInv, Faithful
    <2>3. DOMAIN Source[k] = 0 .. WindowCount(k - 1) - 1
      BY <2>2 DEF Source, SourceWindow
    <2> QED
      BY <2>1, <2>3 DEF Faithful
  <1> QED
    BY <1>1, InitJInv, NextJInv, PTL DEF Spec

(* When the lengths are right too, a faithful window is that of the source. *)
LEMMA FaithfulFacts ==
  ASSUME Exact, NEW k \in Nat \ {0}, NEW d \in WindowData, Faithful(k, d)
  PROVE  k <= NumWindows /\ d = Source[k]
  <1>1. k \in 1 .. NumWindows
    BY SeqFacts DEF Faithful
  <1>2. Source[k] = SourceWindow(k - 1)
    BY <1>1 DEF Source
  <1>3. PICK n \in 0 .. WindowSize - 1 : d \in [0 .. n -> Block]
    BY DEF WindowData
  <1>4. ASSUME NEW i \in DOMAIN d
        PROVE  d[i] = [win |-> k - 1, pos |-> i, len |-> BlockLen(k - 1, i)]
    <2>1. d[i] \in Block
      BY <1>3
    <2>2. d[i].win = k - 1 /\ d[i].pos = i /\ d[i].len = BlockLen(k - 1, i)
      BY DEF Faithful
    <2> QED
      BY <2>1, <2>2 DEF Block
  <1>5. DOMAIN d = 0 .. WindowCount(k - 1) - 1
    BY DEF Faithful
  <1>6. d = [i \in DOMAIN d |-> d[i]]
    BY <1>3
  <1>7. d = SourceWindow(k - 1)
    BY <1>4, <1>5, <1>6 DEF SourceWindow
  <1> QED
    BY <1>1, <1>2, <1>7

LEMMA Intact ==
  ASSUME Exact, JInv
  PROVE  FileIntact
  <1> SUFFICES ASSUME NEW k \in DOMAIN file
               PROVE  k <= NumWindows /\ file[k] = Source[k]
    BY DEF FileIntact
  <1>1. Faithful(k, file[k])
    BY DEF JInv, FileInv
  <1>2. k \in Nat \ {0} /\ file[k] \in WindowData
    BY TypeFacts DEF JInv, IInv
  <1> QED
    BY <1>1, <1>2, FaithfulFacts

(***************************************************************************)
(* The file the client writes is at any time the beginning of the server's *)
(* file, whatever the network loses, repeats, reorders within a window or  *)
(* delays, if one child serves the request and no process fails; and if    *)
(* the last block of the file is full or alone in its window, because      *)
(* append_window_to_file gives the last block of a window the length of    *)
(* the packet received last.                                               *)
(***************************************************************************)
THEOREM FileStaysIntact ==
  ASSUME OneTransfer, Exact
  PROVE  Spec => []FileIntact
  BY Intact, InitJInv, NextJInv, PTL DEF Spec

-----------------------------------------------------------------------------
(* The transfer implements FileTransfer. *)

LEMMA InitImplements ==
  ASSUME OneTransfer, Init
  PROVE  FT!Init
  BY OneChild DEF Init, FT!Init

LEMMA DeliverImplements ==
  ASSUME OneTransfer, Exact, JInv, client = "receive", NEW p \in net,
         NEW again \in BOOLEAN, CompleteWindow(p, again)
  PROVE  FT!Deliver
  <1>1. /\ confirmed[TheChild] = Len(file) /\ Len(file) < NumWindows
        /\ file' = Append(file, Appended(p)) /\ UNCHANGED childVars
    BY CompleteFacts, OneChild
  <1>2. Appended(p) \in WindowData
    BY AppendedFacts DEF CompleteWindow, JInv, IInv
  <1>3. Faithful(Len(file) + 1, Appended(p))
    BY CompleteFacts
  <1>4. Len(file) + 1 \in Nat \ {0}
    BY TypeFacts DEF JInv, IInv
  <1>5. Appended(p) = Source[Len(file) + 1]
    BY <1>2, <1>3, <1>4, FaithfulFacts
  <1>6. Len(Source) = NumWindows
    BY SeqFacts DEF Source
  <1> QED
    BY <1>1, <1>5, <1>6 DEF FT!Deliver, childVars

LEMMA ConfirmImplements ==
  ASSUME OneTransfer, JInv, NEW c \in Children, ReceiveAck(c)
  PROVE  FT!Confirm \/ UNCHANGED FT!ftVars
  <1>1. PICK a \in acks[c] : AcceptAck(c, a) \/ IgnoreAck(c, a)
    BY DEF ReceiveAck
  <1>2. child[c] = "wait" /\ UNCHANGED <<clientVars, requests, faults>> /\ c = TheChild
    BY OneChild DEF ReceiveAck
  <1>3. CASE AcceptAck(c, a)
    <2>1. confirmed[c] < Len(file)
      BY <1>2, <1>3, ExpectedFacts DEF AcceptAck, JInv
    <2>2. confirmed'[c] = confirmed[c] + 1
      BY <1>3 DEF AcceptAck, JInv, IInv, TypeOK
    <2> QED
      BY <1>2, <2>1, <2>2 DEF FT!Confirm, clientVars
  <1>4. CASE IgnoreAck(c, a)
    BY <1>2, <1>4 DEF IgnoreAck, FT!ftVars, clientVars, childVars
  <1> QED
    BY <1>1, <1>3, <1>4

LEMMA NextImplements ==
  ASSUME OneTransfer, Exact, JInv, [Next]_vars
  PROVE  [FT!Next]_(FT!ftVars)
  <1>1. CASE RequestFile \/ RequestTimeout
    BY <1>1 DEF RequestFile, RequestTimeout, SendRequest, FT!ftVars, childVars
  <1>2. ASSUME client = "receive", NEW p \in net, NEW again \in BOOLEAN,
               ReceiveStale(p, again) \/ StoreBlock(p, again) \/ CompleteWindow(p, again)
        PROVE  [FT!Next]_(FT!ftVars)
    <2>1. CASE ReceiveStale(p, again) \/ StoreBlock(p, again)
      BY <2>1 DEF ReceiveStale, StoreBlock, FT!ftVars, childVars
    <2>2. CASE CompleteWindow(p, again)
      BY <1>2, <2>2, DeliverImplements DEF FT!Next
    <2> QED
      BY <1>2, <2>1, <2>2
  <1>3. ASSUME NEW c \in Children, ReceiveRequest(c) \/ SendWindow(c) \/ AckTimeout(c)
        PROVE  [FT!Next]_(FT!ftVars)
    BY <1>3 DEF ReceiveRequest, SendWindow, AckTimeout, FT!ftVars, clientVars
  <1>4. ASSUME NEW c \in Children, ReceiveAck(c)
        PROVE  [FT!Next]_(FT!ftVars)
    BY <1>4, ConfirmImplements DEF FT!Next
  <1>5. CASE Lose
    BY <1>5 DEF Lose, FT!ftVars, clientVars, childVars
  <1>6. CASE UNCHANGED vars
    BY <1>6 DEF vars, FT!ftVars, clientVars, childVars
  <1> QED
    BY <1>1, <1>2, <1>3, <1>4, <1>5, <1>6, NoFailure DEF Next, ReceivePacket

(***************************************************************************)
(* Every step of a transfer is a step of FileTransfer or leaves the file   *)
(* and the confirmations alone: windows are written one at a time, each    *)
(* once and after the server learnt of the one before.                     *)
(***************************************************************************)
THEOREM Implementation ==
  ASSUME OneTransfer, Exact
  PROVE  Spec => FT!Spec
  <1>1. Init => FT!Init
    BY InitImplements
  <1>2. JInv /\ [Next]_vars => [FT!Next]_(FT!ftVars)
    BY NextImplements
  <1> QED
    BY <1>1, <1>2, InitJInv, NextJInv, PTL DEF Spec, FT!Spec
=============================================================================
