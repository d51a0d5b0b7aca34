------------------------- MODULE AudioStreamProofs -------------------------
(***************************************************************************)
(* Proofs about AudioStream for any number of children, blocks, empty      *)
(* packets, requests and faults.                                           *)
(***************************************************************************)
EXTENDS AudioStream, SequenceTheorems, TLAPS

-----------------------------------------------------------------------------
(* The inductive invariant. *)

(* No child runs before the first request. *)
StartInv ==
  client = "start" => requests = 0 /\ \A c \in Children : child[c] = "free"

(* Feedback, read or on its way, answers a packet of the child it is for. *)
FeedbackInv ==
  \A c \in Children : \A k \in DOMAIN feedback[c] :
    feedback[c][k] \in DOMAIN received /\ received[feedback[c][k]].child = c

(* What is under way from a child comes after what was received from it. *)
Ordered == faults["dup"] = 0 /\ faults["overtake"] = 0

OrderInv ==
  Ordered => \A c \in Children :
    /\ \A i \in DOMAIN received : received[i].child = c =>
         /\ received[i].block <= next[c]
         /\ \A k \in DOMAIN data[c] : data[c][k] # 0 => received[i].block < data[c][k]
    /\ \A k \in DOMAIN data[c] :
         /\ data[c][k] <= next[c]
         /\ \A l \in DOMAIN data[c] : k < l /\ data[c][l] # 0 => data[c][k] < data[c][l]

(* What a child sent is received or under way, and its empty packets are last. *)
Kept == faults["loss"] = 0 /\ faults["overtake"] = 0

Got(c, b) == \E i \in DOMAIN received : received[i] = [child |-> c, block |-> b]

Coming(c, b) == \E k \in DOMAIN data[c] : data[c][k] = b

CompleteInv ==
  Kept =>
    /\ client \notin {"ended", "failed"} =>
         \A c \in Children : \A b \in 1 .. next[c] : Got(c, b) \/ Coming(c, b)
    /\ \A c \in Children : \A k \in DOMAIN data[c] : data[c][k] = 0 =>
         /\ next[c] = NumBlocks
         /\ \A l \in DOMAIN data[c] : k < l => data[c][l] = 0

IInv ==
  /\ TypeOK /\ StartInv /\ FeedbackInv /\ OwnFeedback
  /\ OrderInv /\ SenderOrder /\ CompleteInv /\ SomeoneComplete

-----------------------------------------------------------------------------
(* What the operators of the network do. *)

Reception == [child : Children, block : 1 .. NumBlocks]

LEMMA TypeFacts ==
  ASSUME TypeOK
  PROVE  /\ received \in Seq(Reception) /\ Len(received) \in Nat
         /\ DOMAIN received = 1 .. Len(received)
         /\ \A c \in Children :
              /\ data[c] \in Seq(0 .. NumBlocks) /\ Len(data[c]) \in Nat
              /\ DOMAIN data[c] = 1 .. Len(data[c])
              /\ feedback[c] \in Seq(Nat) /\ Len(feedback[c]) \in Nat
              /\ DOMAIN feedback[c] = 1 .. Len(feedback[c])
              /\ next[c] \in Nat /\ next[c] <= NumBlocks
         /\ NumBlocks \in Nat /\ EofTries \in Nat /\ EofTries > 0
  BY StreamAssumption DEF StreamAssumption, TypeOK, Reception

LEMMA WithoutFacts ==
  ASSUME NEW S, NEW q \in Seq(S), NEW i \in DOMAIN q
  PROVE  /\ Without(q, i) \in Seq(S)
         /\ DOMAIN Without(q, i) = 1 .. Len(q) - 1
         /\ \A k \in 1 .. Len(q) - 1 :
              Without(q, i)[k] = IF k < i THEN q[k] ELSE q[k + 1]
  <1> DEFINE s == SubSeq(q, 1, i - 1)
             t == SubSeq(q, i + 1, Len(q))
  <1>1. i \in 1 .. Len(q) /\ Len(q) \in Nat
    OBVIOUS
  <1>2. s \in Seq(S) /\ Len(s) = i - 1 /\ \A k \in 1 .. i - 1 : s[k] = q[k]
    BY <1>1
  <1>3. t \in Seq(S) /\ Len(t) = Len(q) - i
        /\ \A k \in 1 .. Len(q) - i : t[k] = q[k + i]
    BY <1>1
  <1> HIDE DEF s, t
  <1>4. /\ s \o t \in Seq(S) /\ Len(s \o t) = Len(s) + Len(t)
        /\ \A k \in 1 .. Len(s) + Len(t) :
             (s \o t)[k] = IF k <= Len(s) THEN s[k] ELSE t[k - Len(s)]
    BY <1>2, <1>3, ConcatProperties
  <1>5. Len(s) + Len(t) = Len(q) - 1
    BY <1>1, <1>2, <1>3
  <1>6. ASSUME NEW k \in 1 .. Len(q) - 1
        PROVE  (s \o t)[k] = IF k < i THEN q[k] ELSE q[k + 1]
    <2>1. (s \o t)[k] = IF k <= i - 1 THEN s[k] ELSE t[k - (i - 1)]
      BY <1>2, <1>4, <1>5, <1>6
    <2>2. CASE k < i
      BY <1>1, <1>2, <1>6, <2>1, <2>2
    <2>3. CASE ~(k < i)
      <3>1. k - (i - 1) \in 1 .. Len(q) - i /\ k - (i - 1) + i = k + 1
        BY <1>1, <1>6, <2>3
      <3> QED
        BY <1>1, <1>3, <1>6, <2>1, <2>3, <3>1
    <2> QED
      BY <2>2, <2>3
  <1>7. DOMAIN (s \o t) = 1 .. Len(q) - 1
    BY <1>4, <1>5, LenProperties
  <1>8. Without(q, i) = s \o t
    BY DEF Without, s, t
  <1> QED
    BY <1>4, <1>6, <1>7, <1>8

(* What is left of a sequence keeps its order. *)
LEMMA WithoutOrder ==
  ASSUME NEW S, NEW q \in Seq(S), NEW i \in DOMAIN q
  PROVE  /\ \A k \in DOMAIN Without(q, i) : \E k1 \in DOMAIN q : Without(q, i)[k] = q[k1]
         /\ \A k, l \in DOMAIN Without(q, i) : k < l =>
              \E k1, l1 \in DOMAIN q :
                Without(q, i)[k] = q[k1] /\ Without(q, i)[l] = q[l1] /\ k1 < l1
  <1> DEFINE r == Without(q, i)
             From(k) == IF k < i THEN k ELSE k + 1
  <1>1. /\ DOMAIN r = 1 .. Len(q) - 1 /\ DOMAIN q = 1 .. Len(q) /\ Len(q) \in Nat
        /\ \A k \in 1 .. Len(q) - 1 : r[k] = IF k < i THEN q[k] ELSE q[k + 1]
    <2>1. DOMAIN q = 1 .. Len(q) /\ Len(q) \in Nat
      OBVIOUS
    <2>2. /\ DOMAIN r = 1 .. Len(q) - 1
          /\ \A k \in 1 .. Len(q) - 1 : r[k] = IF k < i THEN q[k] ELSE q[k + 1]
      BY WithoutFacts
    <2> QED
      BY <2>1, <2>2
  <1> HIDE DEF r
  <1>2. ASSUME NEW k \in DOMAIN r
        PROVE  From(k) \in DOMAIN q /\ r[k] = q[From(k)]
    <2>1. k \in 1 .. Len(q) - 1 /\ From(k) \in 1 .. Len(q)
      BY <1>1, <1>2
    <2> QED
      BY <1>1, <2>1
  <1>3. ASSUME NEW k \in DOMAIN r, NEW l \in DOMAIN r, k < l
        PROVE  From(k) < From(l)
    BY <1>1, <1>3
  <1> HIDE DEF From
  <1>4. ASSUME NEW k \in DOMAIN r
        PROVE  \E k1 \in DOMAIN q : r[k] = q[k1]
    BY <1>2, <1>4
  <1>5. ASSUME NEW k \in DOMAIN r, NEW l \in DOMAIN r, k < l
        PROVE  \E k1, l1 \in DOMAIN q : r[k] = q[k1] /\ r[l] = q[l1] /\ k1 < l1
    BY <1>2, <1>3, <1>5
  <1> QED
    BY <1>4, <1>5 DEF r

LEMMA FaultFacts ==
  ASSUME TypeOK, NEW kind \in FaultKinds, Fault(kind)
  PROVE  /\ faults' \in [FaultKinds -> Nat]
         /\ faults'[kind] # 0
         /\ \A k \in FaultKinds : k # kind => faults'[k] = faults[k]
  BY DEF TypeOK, Fault

LEMMA TailFacts ==
  ASSUME TypeOK, NEW c \in Children, 1 \in DOMAIN data[c]
  PROVE  /\ Tail(data[c]) \in Seq(0 .. NumBlocks)
         /\ DOMAIN Tail(data[c]) = 1 .. Len(data[c]) - 1
         /\ \A k \in 1 .. Len(data[c]) - 1 : Tail(data[c])[k] = data[c][k + 1]
  <1> DEFINE q == data[c]
  <1>1. q \in Seq(0 .. NumBlocks) /\ Len(q) \in Nat /\ Len(q) >= 1
    BY TypeFacts
  <1> HIDE DEF q
  <1>2. q # <<>>
    BY <1>1
  <1>3. /\ Tail(q) \in Seq(0 .. NumBlocks) /\ Len(Tail(q)) = Len(q) - 1
        /\ \A k \in 1 .. Len(Tail(q)) : Tail(q)[k] = q[k + 1]
    BY <1>1, <1>2, HeadTailProperties
  <1>4. DOMAIN Tail(q) = 1 .. Len(q) - 1
    BY <1>3, LenProperties
  <1> QED
    BY <1>3, <1>4 DEF q

LEMMA ArriveFacts ==
  ASSUME TypeOK, NEW c \in Children, NEW i \in DOMAIN data[c], Arrive(c, i)
  PROVE  /\ data' \in [Children -> Seq(0 .. NumBlocks)]
         /\ faults' \in [FaultKinds -> Nat]
         /\ \A d \in Children : d # c => data'[d] = data[d]
         /\ Ordered' => Ordered /\ i = 1 /\ data'[c] = Tail(data[c])
         /\ Kept' => Kept /\ i = 1 /\ (data'[c] = Tail(data[c]) \/ data'[c] = data[c])
  <1>1. CASE i = 1 /\ data' = [data EXCEPT ![c] = Tail(@)] /\ UNCHANGED faults
    <2>1. Tail(data[c]) \in Seq(0 .. NumBlocks)
      BY <1>1, TailFacts
    <2>2. data'[c] = Tail(data[c])
      BY <1>1 DEF TypeOK
    <2>3. data' \in [Children -> Seq(0 .. NumBlocks)]
          /\ \A d \in Children : d # c => data'[d] = data[d]
      BY <1>1, <2>1 DEF TypeOK
    <2>4. faults' = faults /\ faults \in [FaultKinds -> Nat]
      BY <1>1 DEF TypeOK
    <2> QED
      BY <1>1, <2>2, <2>3, <2>4 DEF Ordered, Kept
  <1>2. CASE /\ CanFault("overtake") /\ Fault("overtake")
             /\ data' = [data EXCEPT ![c] = Without(@, i)]
    <2>1. Without(data[c], i) \in Seq(0 .. NumBlocks)
      BY TypeFacts, WithoutFacts
    <2>2. faults' \in [FaultKinds -> Nat] /\ faults'["overtake"] # 0
      BY <1>2, FaultFacts DEF FaultKinds
    <2> QED
      BY <1>2, <2>1, <2>2 DEF TypeOK, Ordered, Kept
  <1>3. CASE i = 1 /\ CanFault("dup") /\ Fault("dup") /\ UNCHANGED data
    <2>1. /\ faults' \in [FaultKinds -> Nat] /\ faults'["dup"] # 0
          /\ faults'["loss"] = faults["loss"]
          /\ faults'["overtake"] = faults["overtake"]
      BY <1>3, FaultFacts DEF FaultKinds
    <2> QED
      BY <1>3, <2>1 DEF TypeOK, Ordered, Kept
  <1> QED
    BY <1>1, <1>2, <1>3 DEF Arrive

LEMMA TransmitFacts ==
  ASSUME TypeOK, NEW c \in Children, NEW ps \in Seq(0 .. NumBlocks), Transmit(c, ps)
  PROVE  /\ data' \in [Children -> Seq(0 .. NumBlocks)]
         /\ \A d \in Children : d # c => data'[d] = data[d]
         /\ ~ClientListens => data'[c] = data[c]
         /\ ClientListens =>
              /\ DOMAIN data'[c] = 1 .. Len(data[c]) + Len(ps)
              /\ \A k \in 1 .. Len(data[c]) : data'[c][k] = data[c][k]
              /\ \A k \in 1 .. Len(ps) : data'[c][Len(data[c]) + k] = ps[k]
  <1> DEFINE q == data[c] \o ps
  <1>1. q \in Seq(0 .. NumBlocks) /\ Len(q) = Len(data[c]) + Len(ps)
    BY TypeFacts, ConcatProperties
  <1>2. \A k \in 1 .. Len(data[c]) : q[k] = data[c][k]
    BY TypeFacts, ConcatProperties, LenProperties
  <1>3. \A k \in 1 .. Len(ps) : q[Len(data[c]) + k] = ps[k]
    BY TypeFacts, ConcatProperties, LenProperties
  <1>4. DOMAIN q = 1 .. Len(q)
    BY <1>1, LenProperties
  <1>5. data' = [data EXCEPT ![c] = IF ClientListens THEN q ELSE @]
    BY DEF Transmit
  <1> HIDE DEF q
  <1>6. data'[c] = IF ClientListens THEN q ELSE data[c]
    BY <1>5 DEF TypeOK
  <1>7. data' \in [Children -> Seq(0 .. NumBlocks)] /\ \A d \in Children : d # c => data'[d] = data[d]
    BY <1>1, <1>5 DEF TypeOK
  <1> QED
    BY <1>1, <1>2, <1>3, <1>4, <1>6, <1>7

LEMMA HarmlessFault ==
  ASSUME TypeOK, NEW kind \in {"early", "error"}, Fault(kind)
  PROVE  /\ faults' \in [FaultKinds -> Nat]
         /\ Ordered' => Ordered
         /\ Kept' => Kept
  BY FaultFacts DEF FaultKinds, Ordered, Kept

-----------------------------------------------------------------------------
(* The invariant holds initially and is preserved by every action. *)

LEMMA InitIInv == Init => IInv
  <1> SUFFICES ASSUME Init PROVE IInv
    OBVIOUS
  <1>1. DOMAIN received = {} /\ \A c \in Children : DOMAIN data[c] = {} /\ DOMAIN feedback[c] = {}
    BY DEF Init
  <1>2. TypeOK
    BY StreamAssumption DEF Init, TypeOK, StreamAssumption
  <1>3. StartInv /\ FeedbackInv /\ OwnFeedback
    BY <1>1 DEF Init, StartInv, FeedbackInv, OwnFeedback
  <1>4. OrderInv /\ SenderOrder
    BY <1>1 DEF OrderInv, SenderOrder
  <1>5. ASSUME NEW c \in Children PROVE 1 .. next[c] = {}
    <2>1. next[c] = 0
      BY DEF Init
    <2>2. 1 .. 0 = {}
      OBVIOUS
    <2> QED
      BY <2>1, <2>2
  <1>6. CompleteInv /\ SomeoneComplete
    BY <1>1, <1>5 DEF Init, CompleteInv, SomeoneComplete
  <1> QED
    BY <1>2, <1>3, <1>4, <1>6 DEF IInv

(* Steps that neither send nor receive a packet. *)
LEMMA SameStream ==
  ASSUME IInv, Ordered' => Ordered, Kept' => Kept,
         UNCHANGED <<received, next, data>>,
         client \in {"ended", "failed"} => client' \in {"ended", "failed"},
         client' = "ended" => client = "ended"
  PROVE  OrderInv' /\ SenderOrder' /\ CompleteInv' /\ SomeoneComplete'
  <1>1. OrderInv'
    BY DEF IInv, OrderInv
  <1>2. SenderOrder'
    BY DEF IInv, SenderOrder, Ordered
  <1>3. CompleteInv'
    BY DEF IInv, CompleteInv, Got, Coming
  <1>4. SomeoneComplete'
    BY DEF IInv, SomeoneComplete, Kept
  <1> QED
    BY <1>1, <1>2, <1>3, <1>4

LEMMA RequestStep ==
  ASSUME IInv, RequestFile \/ RequestTimeout
  PROVE  IInv'
  <1>1. SendRequest /\ client \in {"start", "receive"}
    BY DEF RequestFile, RequestTimeout
  <1>2. faults' \in [FaultKinds -> Nat] /\ (Ordered' => Ordered) /\ (Kept' => Kept)
    <2>1. CASE UNCHANGED faults
      BY <2>1 DEF IInv, TypeOK, Ordered, Kept
    <2>2. CASE Fault("early")
      BY <2>2, HarmlessFault DEF IInv
    <2> QED
      BY <2>1, <2>2 DEF RequestFile, RequestTimeout
  <1>3. TypeOK'
    BY <1>1, <1>2 DEF IInv, TypeOK, SendRequest, childVars
  <1>4. StartInv' /\ FeedbackInv' /\ OwnFeedback'
    BY <1>1 DEF IInv, StartInv, FeedbackInv, OwnFeedback, SendRequest, childVars
  <1>5. OrderInv' /\ SenderOrder' /\ CompleteInv' /\ SomeoneComplete'
    BY <1>1, <1>2, SameStream DEF SendRequest, childVars
  <1> QED
    BY <1>3, <1>4, <1>5 DEF IInv

LEMMA RequestFailsStep ==
  ASSUME IInv, RequestFails
  PROVE  IInv'
  <1>1. faults' \in [FaultKinds -> Nat] /\ (Ordered' => Ordered) /\ (Kept' => Kept)
    BY HarmlessFault DEF IInv, RequestFails
  <1>2. TypeOK'
    BY <1>1 DEF IInv, TypeOK, RequestFails, clientVars, childVars
  <1>3. StartInv' /\ FeedbackInv' /\ OwnFeedback'
    BY DEF IInv, TypeOK, StartInv, FeedbackInv, OwnFeedback, RequestFails,
           clientVars, childVars
  <1>4. OrderInv' /\ SenderOrder' /\ CompleteInv' /\ SomeoneComplete'
    BY <1>1, SameStream DEF RequestFails, clientVars, childVars
  <1> QED
    BY <1>2, <1>3, <1>4 DEF IInv

(* A fork, and a child's step that sends nothing. *)
LEMMA ServerStep ==
  ASSUME IInv, NEW c \in Children, ReceiveRequest(c) \/ PollFeedback(c)
  PROVE  IInv'
  <1>1. CASE ReceiveRequest(c)
    <2>1. TypeOK'
      BY <1>1 DEF IInv, TypeOK, ReceiveRequest, clientVars
    <2>2. StartInv' /\ FeedbackInv' /\ OwnFeedback'
      BY <1>1 DEF IInv, TypeOK, StartInv, FeedbackInv, OwnFeedback, ReceiveRequest, clientVars
    <2>3. OrderInv' /\ SenderOrder' /\ CompleteInv' /\ SomeoneComplete'
      BY <1>1, SameStream DEF ReceiveRequest, clientVars, Ordered, Kept
    <2> QED
      BY <2>1, <2>2, <2>3 DEF IInv
  <1>2. CASE PollFeedback(c)
    <2>1. OrderInv' /\ SenderOrder' /\ CompleteInv' /\ SomeoneComplete'
      BY <1>2, SameStream DEF PollFeedback, clientVars, Ordered, Kept
    <2>2. StartInv'
      BY <1>2 DEF IInv, TypeOK, StartInv, PollFeedback, clientVars
    <2>3. CASE UNCHANGED <<interval, feedback>>
      <3>1. TypeOK'
        BY <1>2, <2>3 DEF IInv, TypeOK, PollFeedback, clientVars
      <3>2. FeedbackInv' /\ OwnFeedback'
        BY <1>2, <2>3 DEF IInv, FeedbackInv, OwnFeedback, PollFeedback, clientVars
      <3> QED
        BY <2>1, <2>2, <3>1, <3>2 DEF IInv
    <2>4. CASE /\ feedback[c] # <<>>
               /\ interval' = [interval EXCEPT ![c] = Head(feedback[c])]
               /\ feedback' = [feedback EXCEPT ![c] = Tail(@)]
      <3> DEFINE q == feedback[c]
      <3>1. /\ q \in Seq(Nat) /\ q # <<>> /\ Len(q) \in Nat /\ Len(q) > 0
            /\ DOMAIN q = 1 .. Len(q)
        BY <2>4, TypeFacts, EmptySeq DEF IInv
      <3>2. /\ Tail(q) \in Seq(Nat) /\ Head(q) \in Nat /\ Head(q) = q[1]
            /\ DOMAIN Tail(q) = 1 .. Len(q) - 1
            /\ \A k \in 1 .. Len(q) - 1 : Tail(q)[k] = q[k + 1]
        BY <3>1, HeadTailProperties, LenProperties
      <3>3. interval' = [interval EXCEPT ![c] = Head(q)] /\ feedback' = [feedback EXCEPT ![c] = Tail(q)]
        BY <2>4
      <3>4. \A k \in DOMAIN q : q[k] \in DOMAIN received /\ received[q[k]].child = c
        BY DEF IInv, FeedbackInv
      <3> HIDE DEF q
      <3>5. TypeOK'
        BY <1>2, <3>2, <3>3 DEF IInv, TypeOK, PollFeedback, clientVars
      <3>6. interval'[c] = Head(q) /\ feedback'[c] = Tail(q)
            /\ \A d \in Children : d # c => interval'[d] = interval[d] /\ feedback'[d] = feedback[d]
        BY <3>3 DEF IInv, TypeOK
      <3>7. received' = received
        BY <1>2 DEF PollFeedback, clientVars
      <3>8. OwnFeedback'
        BY <3>1, <3>2, <3>4, <3>6, <3>7 DEF IInv, OwnFeedback
      <3>9. ASSUME NEW d \in Children, NEW k \in DOMAIN feedback'[d]
            PROVE  feedback'[d][k] \in DOMAIN received' /\ received'[feedback'[d][k]].child = d
        <4>1. CASE d = c
          <5>1. k \in 1 .. Len(q) - 1 /\ feedback'[d][k] = q[k + 1]
            BY <3>2, <3>6, <3>9, <4>1
          <5>2. k + 1 \in DOMAIN q
            BY <3>1, <5>1
          <5> QED
            BY <3>4, <3>7, <4>1, <5>1, <5>2
        <4>2. CASE d # c
          BY <3>6, <3>7, <3>9, <4>2 DEF IInv, FeedbackInv
        <4> QED
          BY <4>1, <4>2
      <3> QED
        BY <2>1, <2>2, <3>5, <3>8, <3>9 DEF IInv, FeedbackInv
    <2> QED
      BY <1>2, <2>3, <2>4 DEF PollFeedback
  <1> QED
    BY <1>1, <1>2

(* What the client knows of the packets of c before it receives the next one. *)
LEMMA ReceiveFacts ==
  ASSUME IInv, NEW c \in Children, NEW i \in DOMAIN data[c], ReceiveBlock(c, i)
  PROVE  /\ received' \in Seq(Reception)
         /\ DOMAIN received' = 1 .. Len(received) + 1
         /\ \A j \in DOMAIN received : j \in DOMAIN received' /\ received'[j] = received[j]
         /\ Len(received) + 1 \in DOMAIN received'
         /\ received'[Len(received) + 1] = [child |-> c, block |-> data[c][i]]
         /\ data[c][i] \in 1 .. NumBlocks
  <1> DEFINE r == [child |-> c, block |-> data[c][i]]
  <1>1. data[c][i] \in 1 .. NumBlocks
    <2>1. data[c] \in Seq(0 .. NumBlocks) /\ i \in 1 .. Len(data[c]) /\ data[c][i] # 0
      BY TypeFacts DEF IInv, ReceiveBlock
    <2>2. data[c][i] \in 0 .. NumBlocks
      BY <2>1, ElementOfSeq
    <2> QED
      BY <2>1, <2>2, TypeFacts DEF IInv
  <1>2. r \in Reception
    BY <1>1 DEF Reception
  <1>3. received' = Append(received, r) /\ received \in Seq(Reception)
    BY TypeFacts DEF IInv, ReceiveBlock
  <1> HIDE DEF r
  <1>4. /\ received' \in Seq(Reception)
        /\ DOMAIN received' = 1 .. Len(received) + 1
        /\ \A j \in 1 .. Len(received) : received'[j] = received[j]
        /\ received'[Len(received) + 1] = r
    BY <1>2, <1>3
  <1>5. Len(received) \in Nat /\ DOMAIN received = 1 .. Len(received)
    BY TypeFacts DEF IInv
  <1>6. \A j \in DOMAIN received : j \in DOMAIN received' /\ received'[j] = received[j]
    BY <1>4, <1>5
  <1>7. Len(received) + 1 \in DOMAIN received'
    BY <1>4, <1>5
  <1> QED
    BY <1>1, <1>4, <1>6, <1>7 DEF r

LEMMA ReceiveTypes ==
  ASSUME IInv, NEW c \in Children, NEW i \in DOMAIN data[c], ReceiveBlock(c, i)
  PROVE  TypeOK' /\ StartInv' /\ FeedbackInv' /\ OwnFeedback'
  <1> DEFINE n == Len(received) + 1
             q == feedback[c]
  <1>1. n \in Nat /\ q \in Seq(Nat) /\ DOMAIN q = 1 .. Len(q) /\ Len(q) \in Nat
    BY TypeFacts DEF IInv
  <1>2. /\ Append(q, n) \in Seq(Nat) /\ DOMAIN Append(q, n) = 1 .. Len(q) + 1
        /\ \A k \in 1 .. Len(q) : Append(q, n)[k] = q[k]
        /\ Append(q, n)[Len(q) + 1] = n
    BY <1>1
  <1>3. feedback' = [feedback EXCEPT ![c] = IF Listening(c) THEN Append(q, n) ELSE q]
    BY DEF ReceiveBlock, Reply
  <1>4. feedback \in [Children -> Seq(Nat)]
    BY DEF IInv, TypeOK
  <1>5. DOMAIN received = 1 .. Len(received) /\ n \in DOMAIN received' /\ received'[n].child = c
        /\ \A j \in DOMAIN received : j \in DOMAIN received' /\ received'[j] = received[j]
    <2>1. DOMAIN received = 1 .. Len(received)
      BY TypeFacts DEF IInv
    <2>2. n \in DOMAIN received' /\ received'[n] = [child |-> c, block |-> data[c][i]]
      BY ReceiveFacts
    <2>3. \A j \in DOMAIN received : j \in DOMAIN received' /\ received'[j] = received[j]
      BY ReceiveFacts
    <2> QED
      BY <2>1, <2>2, <2>3
  <1>6. \A k \in DOMAIN q : q[k] \in DOMAIN received /\ received[q[k]].child = c
    BY DEF IInv, FeedbackInv
  <1> HIDE DEF n, q
  <1>7. feedback'[c] \in {q, Append(q, n)}
        /\ \A d \in Children : d # c => feedback'[d] = feedback[d]
    BY <1>3, <1>4
  <1>8. feedback' \in [Children -> Seq(Nat)]
    BY <1>1, <1>2, <1>3, <1>4
  <1>9. TypeOK'
    BY <1>8, ReceiveFacts, ArriveFacts
       DEF IInv, TypeOK, Reception, ReceiveBlock, childVars
  <1>10. ASSUME NEW d \in Children, NEW k \in DOMAIN feedback'[d]
         PROVE  feedback'[d][k] \in DOMAIN received' /\ received'[feedback'[d][k]].child = d
    <2>1. CASE d # c
      BY <1>5, <1>7, <1>10, <2>1 DEF IInv, FeedbackInv
    <2>2. CASE d = c /\ feedback'[d] = q
      BY <1>5, <1>6, <1>10, <2>2
    <2>3. CASE d = c /\ feedback'[d] = Append(q, n)
      <3>1. k \in 1 .. Len(q) \/ k = Len(q) + 1
        BY <1>1, <1>2, <1>10, <2>3
      <3> QED
        BY <1>1, <1>2, <1>5, <1>6, <2>3, <3>1
    <2> QED
      BY <1>7, <2>1, <2>2, <2>3
  <1>11. OwnFeedback'
    BY <1>5 DEF IInv, OwnFeedback, ReceiveBlock, childVars
  <1>12. StartInv'
    BY DEF StartInv, ReceiveBlock
  <1> QED
    BY <1>9, <1>10, <1>11, <1>12 DEF FeedbackInv

LEMMA ReceiveOrder ==
  ASSUME IInv, NEW c \in Children, NEW i \in DOMAIN data[c], ReceiveBlock(c, i)
  PROVE  OrderInv' /\ SenderOrder'
  <1> DEFINE n == Len(received) + 1
             b == data[c][1]
  <1> SUFFICES ASSUME Ordered' PROVE OrderInv' /\ SenderOrder'
    BY DEF OrderInv, SenderOrder, Ordered
  <1>1. /\ Ordered /\ i = 1 /\ data'[c] = Tail(data[c])
        /\ \A d \in Children : d # c => data'[d] = data[d]
    BY ArriveFacts DEF IInv, ReceiveBlock
  <1>2. next' = next
    BY DEF ReceiveBlock, childVars
  <1>3. /\ 1 \in DOMAIN data[c] /\ DOMAIN data[c] = 1 .. Len(data[c]) /\ Len(data[c]) \in Nat
        /\ DOMAIN data'[c] = 1 .. Len(data[c]) - 1
        /\ \A k \in 1 .. Len(data[c]) - 1 : data'[c][k] = data[c][k + 1]
    BY <1>1, TypeFacts, TailFacts DEF IInv
  <1>4. /\ DOMAIN received' = 1 .. n /\ n \in Nat
        /\ \A j \in 1 .. n - 1 : j \in DOMAIN received /\ received'[j] = received[j]
        /\ received'[n] = [child |-> c, block |-> b] /\ b # 0
    <2>1. DOMAIN received = 1 .. n - 1 /\ n \in Nat
      BY TypeFacts DEF IInv
    <2>2. DOMAIN received' = 1 .. n /\ received'[n] = [child |-> c, block |-> b] /\ b # 0
      BY <1>1, ReceiveFacts, TypeFacts DEF IInv
    <2>3. \A j \in DOMAIN received : received'[j] = received[j]
      BY ReceiveFacts
    <2> QED
      BY <2>1, <2>2, <2>3
  <1>5. \A d \in Children :
          /\ \A j \in DOMAIN received : received[j].child = d =>
               /\ received[j].block <= next[d]
               /\ \A k \in DOMAIN data[d] : data[d][k] # 0 => received[j].block < data[d][k]
          /\ \A k \in DOMAIN data[d] :
               /\ data[d][k] <= next[d]
               /\ \A l \in DOMAIN data[d] : k < l /\ data[d][l] # 0 => data[d][k] < data[d][l]
    BY <1>1 DEF IInv, OrderInv
  <1> HIDE DEF n, b
  <1>6. ASSUME NEW k \in DOMAIN data'[c]
        PROVE  k + 1 \in DOMAIN data[c] /\ 1 < k + 1 /\ data'[c][k] = data[c][k + 1]
    BY <1>3, <1>6
  <1>7. ASSUME NEW d \in Children, NEW j \in DOMAIN received', received'[j].child = d
        PROVE  /\ received'[j].block <= next[d]
               /\ \A k \in DOMAIN data'[d] : data'[d][k] # 0 => received'[j].block < data'[d][k]
    <2>1. CASE j # n
      <3>1. j \in DOMAIN received /\ received'[j] = received[j]
        BY <1>4, <1>7, <2>1
      <3>2. CASE d = c
        BY <1>5, <1>6, <1>7, <3>1, <3>2
      <3>3. CASE d # c
        BY <1>1, <1>5, <1>7, <3>1, <3>3
      <3> QED
        BY <3>2, <3>3
    <2>2. CASE j = n
      <3>1. d = c /\ received'[j].block = data[c][1]
        BY <1>4, <1>7, <2>2 DEF b
      <3> QED
        BY <1>3, <1>5, <1>6, <3>1
    <2> QED
      BY <2>1, <2>2
  <1>8. ASSUME NEW d \in Children, NEW k \in DOMAIN data'[d]
        PROVE  /\ data'[d][k] <= next[d]
               /\ \A l \in DOMAIN data'[d] : k < l /\ data'[d][l] # 0 => data'[d][k] < data'[d][l]
    <2>1. CASE d # c
      BY <1>1, <1>5, <1>8, <2>1
    <2>2. CASE d = c
      <3>1. k + 1 \in DOMAIN data[c] /\ data'[c][k] = data[c][k + 1] /\ k \in Int
        BY <1>3, <1>8, <2>2
      <3>2. ASSUME NEW l \in DOMAIN data'[c], k < l, data'[c][l] # 0
            PROVE  data'[c][k] < data'[c][l]
        <4>1. l + 1 \in DOMAIN data[c] /\ data'[c][l] = data[c][l + 1] /\ k + 1 < l + 1
          BY <1>3, <3>1, <3>2
        <4> QED
          BY <1>5, <3>1, <3>2, <4>1
      <3> QED
        BY <1>5, <2>2, <3>1, <3>2
    <2> QED
      BY <2>1, <2>2
  <1>9. OrderInv'
    BY <1>2, <1>7, <1>8 DEF OrderInv
  <1>10. ASSUME NEW j \in DOMAIN received', NEW l \in DOMAIN received', j < l,
                received'[j].child = received'[l].child
         PROVE  received'[j].block < received'[l].block
    <2>1. j \in DOMAIN received /\ received'[j] = received[j]
      BY <1>4, <1>10
    <2>2. CASE l # n
      <3>1. l \in DOMAIN received /\ received'[l] = received[l]
        BY <1>4, <1>10, <2>2
      <3> QED
        BY <1>1, <1>10, <2>1, <3>1 DEF IInv, SenderOrder, Ordered
    <2>3. CASE l = n
      <3>1. received[j].child = c /\ received'[l].block = data[c][1] /\ data[c][1] # 0
        BY <1>4, <1>10, <2>1, <2>3 DEF b
      <3> QED
        BY <1>3, <1>5, <2>1, <3>1
    <2> QED
      BY <2>2, <2>3
  <1> QED
    BY <1>9, <1>10 DEF SenderOrder

LEMMA ReceiveComplete ==
  ASSUME IInv, NEW c \in Children, NEW i \in DOMAIN data[c], ReceiveBlock(c, i), ClientListens
  PROVE  CompleteInv' /\ SomeoneComplete'
  <1> SUFFICES ASSUME Kept' PROVE CompleteInv' /\ SomeoneComplete'
    BY DEF CompleteInv, SomeoneComplete, Kept
  <1>1. /\ Kept /\ i = 1 /\ (data'[c] = Tail(data[c]) \/ data'[c] = data[c])
        /\ \A d \in Children : d # c => data'[d] = data[d]
    BY ArriveFacts DEF IInv, ReceiveBlock
  <1>2. next' = next /\ client \notin {"ended", "failed"} /\ client' = "stream"
    BY DEF ReceiveBlock, childVars, ClientListens
  <1>3. /\ 1 \in DOMAIN data[c] /\ DOMAIN data[c] = 1 .. Len(data[c]) /\ Len(data[c]) \in Nat
        /\ DOMAIN Tail(data[c]) = 1 .. Len(data[c]) - 1
        /\ \A k \in 1 .. Len(data[c]) - 1 : Tail(data[c])[k] = data[c][k + 1]
    BY <1>1, TypeFacts, TailFacts DEF IInv
  <1>4. /\ \A d \in Children, b \in Nat : Got(d, b) => Got(d, b)'
        /\ \E j \in DOMAIN received' : received'[j] = [child |-> c, block |-> data[c][1]]
    <2>1. \A j \in DOMAIN received : j \in DOMAIN received' /\ received'[j] = received[j]
      BY ReceiveFacts
    <2>2. Len(received) + 1 \in DOMAIN received'
          /\ received'[Len(received) + 1] = [child |-> c, block |-> data[c][1]]
      BY <1>1, ReceiveFacts
    <2>3. ASSUME NEW d \in Children, NEW b \in Nat, Got(d, b) PROVE Got(d, b)'
      BY <2>1, <2>3 DEF Got
    <2> QED
      BY <2>2, <2>3
  <1>5. ASSUME NEW d \in Children, NEW b \in 1 .. next[d]
        PROVE  Got(d, b)' \/ Coming(d, b)'
    <2>1. Got(d, b) \/ Coming(d, b)
      BY <1>1, <1>2, <1>5 DEF IInv, CompleteInv
    <2>2. CASE Got(d, b)
      BY <1>4, <2>2
    <2>3. CASE Coming(d, b) /\ data'[d] = data[d]
      BY <2>3 DEF Coming
    <2>4. CASE Coming(d, b) /\ d = c /\ data'[c] = Tail(data[c])
      <3>1. PICK k \in DOMAIN data[c] : data[c][k] = b
        BY <2>4 DEF Coming
      <3>2. CASE k = 1
        BY <1>4, <2>4, <3>1, <3>2 DEF Got
      <3>3. CASE k # 1
        <4>1. k - 1 \in DOMAIN data'[c] /\ data'[c][k - 1] = b
          BY <1>3, <2>4, <3>1, <3>3
        <4> QED
          BY <2>4, <4>1 DEF Coming
      <3> QED
        BY <3>2, <3>3
    <2> QED
      BY <1>1, <2>1, <2>2, <2>3, <2>4
  <1>6. ASSUME NEW d \in Children, NEW k \in DOMAIN data'[d], data'[d][k] = 0
        PROVE  next[d] = NumBlocks /\ \A l \in DOMAIN data'[d] : k < l => data'[d][l] = 0
    <2>1. \A e \in Children : \A k1 \in DOMAIN data[e] : data[e][k1] = 0 =>
            next[e] = NumBlocks /\ \A l \in DOMAIN data[e] : k1 < l => data[e][l] = 0
      BY <1>1 DEF IInv, CompleteInv
    <2>2. CASE data'[d] = data[d]
      BY <1>6, <2>1, <2>2
    <2>3. CASE d = c /\ data'[c] = Tail(data[c])
      <3>1. k + 1 \in DOMAIN data[c] /\ data[c][k + 1] = 0 /\ k \in Int
        BY <1>3, <1>6, <2>3
      <3>2. \A l \in DOMAIN data'[c] : l + 1 \in DOMAIN data[c] /\ data'[c][l] = data[c][l + 1] /\ l \in Int
        BY <1>3, <2>3
      <3>3. ASSUME NEW l \in DOMAIN data'[c], k < l PROVE data'[c][l] = 0
        <4>1. k + 1 < l + 1
          BY <3>1, <3>2, <3>3
        <4> QED
          BY <2>1, <3>1, <3>2, <4>1
      <3> QED
        BY <2>1, <2>3, <3>1, <3>3
    <2> QED
      BY <1>1, <2>2, <2>3
  <1> QED
    BY <1>2, <1>5, <1>6 DEF CompleteInv, SomeoneComplete

(* The stream is over: nothing is under way any more. *)
LEMMA EofStep ==
  ASSUME IInv, NEW c \in Children, NEW i \in DOMAIN data[c], ReceiveEof(c, i), ClientListens
  PROVE  IInv'
  <1>1. /\ faults' \in [FaultKinds -> Nat] /\ (Ordered' => Ordered) /\ (Kept' => Kept /\ i = 1)
    <2>1. CASE i = 1 /\ UNCHANGED faults
      BY <2>1 DEF IInv, TypeOK, Ordered, Kept
    <2>2. CASE Fault("overtake")
      <3>1. faults' \in [FaultKinds -> Nat] /\ faults'["overtake"] # 0
        BY <2>2, FaultFacts DEF IInv, FaultKinds
      <3> QED
        BY <3>1 DEF Ordered, Kept
    <2> QED
      BY <2>1, <2>2 DEF ReceiveEof
  <1>2. \A d \in Children : data'[d] = <<>> /\ DOMAIN data'[d] = {}
    BY DEF ReceiveEof
  <1>3. TypeOK'
    <2>1. data' \in [Children -> Seq(0 .. NumBlocks)]
      BY DEF ReceiveEof
    <2> QED
      BY <1>1, <2>1 DEF IInv, TypeOK, ReceiveEof, childVars
  <1>4. StartInv' /\ FeedbackInv' /\ OwnFeedback'
    BY DEF IInv, StartInv, FeedbackInv, OwnFeedback, ReceiveEof, childVars
  <1>5. OrderInv' /\ SenderOrder'
    BY <1>1, <1>2 DEF IInv, OrderInv, SenderOrder, Ordered, ReceiveEof, childVars
  <1>6. CompleteInv'
    BY <1>2 DEF CompleteInv, ReceiveEof
  <1>7. SomeoneComplete'
    <2> SUFFICES ASSUME Kept'
        PROVE  \A b \in 1 .. NumBlocks :
                 \E j \in DOMAIN received : received[j] = [child |-> c, block |-> b]
      BY DEF SomeoneComplete, Kept, ReceiveEof
    <2>1. Kept /\ i = 1 /\ data[c][1] = 0 /\ DOMAIN data[c] = 1 .. Len(data[c]) /\ Len(data[c]) \in Nat
      BY <1>1, TypeFacts DEF IInv, ReceiveEof
    <2>2. next[c] = NumBlocks /\ \A l \in DOMAIN data[c] : 1 < l => data[c][l] = 0
      BY <2>1 DEF IInv, CompleteInv
    <2>3. \A l \in DOMAIN data[c] : data[c][l] = 0
      BY <2>1, <2>2
    <2>4. ASSUME NEW b \in 1 .. NumBlocks PROVE Got(c, b)
      <3>1. Got(c, b) \/ Coming(c, b)
        BY <2>1, <2>2, <2>4 DEF IInv, CompleteInv, ClientListens
      <3>2. ~Coming(c, b)
        BY <2>3, <2>4, TypeFacts DEF Coming, IInv
      <3> QED
        BY <3>1, <3>2
    <2> QED
      BY <2>4 DEF Got
  <1> QED
    BY <1>3, <1>4, <1>5, <1>6, <1>7 DEF IInv

LEMMA ClientFailsStep ==
  ASSUME IInv, ClientFails
  PROVE  IInv'
  <1>1. /\ faults' \in [FaultKinds -> Nat] /\ (Ordered' => Ordered) /\ (Kept' => Kept)
    BY HarmlessFault DEF IInv, ClientFails
  <1>2. data' \in [Children -> Seq(0 .. NumBlocks)] /\ \A d \in Children : DOMAIN data'[d] = {}
    BY DEF ClientFails
  <1>3. TypeOK'
    BY <1>1, <1>2 DEF IInv, TypeOK, ClientFails, childVars
  <1>4. StartInv' /\ FeedbackInv' /\ OwnFeedback'
    BY DEF IInv, StartInv, FeedbackInv, OwnFeedback, ClientFails, childVars
  <1>5. OrderInv' /\ SenderOrder'
    BY <1>1, <1>2 DEF IInv, OrderInv, SenderOrder, Ordered, ClientFails, childVars
  <1>6. CompleteInv' /\ SomeoneComplete'
    BY <1>2 DEF CompleteInv, SomeoneComplete, ClientFails
  <1> QED
    BY <1>3, <1>4, <1>5, <1>6 DEF IInv

(* A child that runs: the client has asked, and listens unless it has ended. *)
LEMMA RunningFacts ==
  ASSUME IInv, NEW c \in Children, Listening(c)
  PROVE  client # "start" /\ (~ClientListens => client \in {"ended", "failed"})
  BY DEF IInv, TypeOK, StartInv, Listening, ClientListens

LEMMA SendStep ==
  ASSUME IInv, NEW c \in Children, SendBlock(c)
  PROVE  IInv'
  <1> DEFINE b == next[c] + 1
             m == Len(data[c])
  <1>1. /\ b \in 1 .. NumBlocks /\ m \in Nat /\ DOMAIN data[c] = 1 .. m
        /\ next[c] \in Nat /\ NumBlocks \in Nat /\ next[c] < NumBlocks
    BY TypeFacts DEF IInv, SendBlock
  <1>2. /\ next' = [next EXCEPT ![c] = b] /\ next \in [Children -> 0 .. NumBlocks]
        /\ UNCHANGED <<client, received, sent, interval, requests, feedback, faults>>
        /\ child' = [child EXCEPT ![c] = "sleep"] /\ client # "start"
    BY RunningFacts DEF SendBlock, clientVars, IInv, TypeOK, Listening
  <1>3. next'[c] = b /\ \A d \in Children : d # c => next'[d] = next[d]
    BY <1>2
  <1>4. <<b>> \in Seq(0 .. NumBlocks) /\ Len(<<b>>) = 1 /\ <<b>>[1] = b
    BY <1>1
  <1>5. Transmit(c, <<b>>)
    BY DEF SendBlock
  <1>6. /\ data' \in [Children -> Seq(0 .. NumBlocks)]
        /\ \A d \in Children : d # c => data'[d] = data[d]
        /\ ~ClientListens => data'[c] = data[c]
        /\ ClientListens => /\ DOMAIN data'[c] = 1 .. m + 1
                            /\ \A k \in 1 .. m : data'[c][k] = data[c][k]
                            /\ data'[c][m + 1] = b
    <2> DEFINE ps == <<b>>
    <2>1. ps \in Seq(0 .. NumBlocks) /\ Len(ps) = 1 /\ ps[1] = b /\ Transmit(c, ps)
      BY <1>4, <1>5
    <2> HIDE DEF ps
    <2>2. /\ data' \in [Children -> Seq(0 .. NumBlocks)]
          /\ \A d \in Children : d # c => data'[d] = data[d]
          /\ ~ClientListens => data'[c] = data[c]
          /\ ClientListens =>
               /\ DOMAIN data'[c] = 1 .. m + Len(ps)
               /\ \A k \in 1 .. m : data'[c][k] = data[c][k]
               /\ \A k \in 1 .. Len(ps) : data'[c][m + k] = ps[k]
      BY <2>1, TransmitFacts DEF IInv
    <2> QED
      BY <2>1, <2>2
  <1>7. ~ClientListens => client \in {"ended", "failed"}
    BY RunningFacts DEF SendBlock, Listening
  <1> HIDE DEF b, m
  <1>8. TypeOK'
    <2>1. next' \in [Children -> 0 .. NumBlocks]
      BY <1>1, <1>2
    <2> QED
      BY <1>2, <1>6, <2>1 DEF IInv, TypeOK
  <1>9. StartInv' /\ FeedbackInv' /\ OwnFeedback'
    BY <1>2 DEF IInv, StartInv, FeedbackInv, OwnFeedback
  <1>10. SenderOrder' /\ SomeoneComplete'
    BY <1>2 DEF IInv, SenderOrder, SomeoneComplete
  <1>11. b = next[c] + 1
    BY DEF b
  <1>12. \A k \in DOMAIN data'[c] :
           \/ k \in DOMAIN data[c] /\ data'[c][k] = data[c][k]
           \/ k = m + 1 /\ data'[c][k] = b /\ \A l \in DOMAIN data'[c] : l <= k
    <2>1. CASE ~ClientListens
      BY <1>6, <2>1
    <2>2. CASE ClientListens
      <3>1. /\ DOMAIN data'[c] = 1 .. m + 1
            /\ \A k \in 1 .. m : data'[c][k] = data[c][k]
            /\ data'[c][m + 1] = b
        BY <1>6, <2>2
      <3>2. m \in Nat /\ DOMAIN data[c] = 1 .. m
        BY <1>1
      <3>3. \A l \in DOMAIN data'[c] : l <= m + 1
        BY <3>1, <3>2
      <3>4. ASSUME NEW k \in DOMAIN data'[c], k # m + 1
            PROVE  k \in 1 .. m
        BY <3>1, <3>2, <3>4
      <3> QED
        BY <3>1, <3>2, <3>3, <3>4
    <2> QED
      BY <2>1, <2>2
  <1>13. \A k \in DOMAIN data[c] : data[c][k] \in 0 .. NumBlocks /\ k \in Int /\ k < m + 1
    <2>1. data[c] \in Seq(0 .. NumBlocks) /\ DOMAIN data[c] = 1 .. Len(data[c])
      BY TypeFacts DEF IInv
    <2> QED
      BY <1>1, <2>1, ElementOfSeq
  <1>14. OrderInv'
    <2> SUFFICES ASSUME Ordered' PROVE OrderInv'
      BY DEF OrderInv
    <2>1. \A d \in Children :
            /\ \A j \in DOMAIN received : received[j].child = d =>
                 /\ received[j].block <= next[d]
                 /\ \A k \in DOMAIN data[d] : data[d][k] # 0 => received[j].block < data[d][k]
            /\ \A k \in DOMAIN data[d] :
                 /\ data[d][k] <= next[d]
                 /\ \A l \in DOMAIN data[d] : k < l /\ data[d][l] # 0 => data[d][k] < data[d][l]
      BY <1>2 DEF IInv, OrderInv, Ordered
    <2>2. \A j \in DOMAIN received : received[j].block \in Nat
      <3>1. received \in Seq(Reception) /\ DOMAIN received = 1 .. Len(received)
        BY TypeFacts DEF IInv
      <3>2. \A j \in DOMAIN received : received[j] \in Reception
        BY <3>1, ElementOfSeq
      <3> QED
        BY <1>1, <3>2 DEF Reception
    <2>3. ASSUME NEW d \in Children, NEW j \in DOMAIN received, received[j].child = d
          PROVE  /\ received[j].block <= next'[d]
                 /\ \A k \in DOMAIN data'[d] : data'[d][k] # 0 => received[j].block < data'[d][k]
      <3>1. CASE d # c
        BY <1>3, <1>6, <2>1, <2>3, <3>1
      <3>2. CASE d = c
        <4>1. received[j].block <= next[c]
          BY <2>1, <2>3, <3>2
        <4>2. ASSUME NEW k \in DOMAIN data'[c], data'[c][k] # 0
              PROVE  received[j].block < data'[c][k]
          BY <1>1, <1>11, <1>12, <2>1, <2>2, <2>3, <3>2, <4>1, <4>2
        <4> QED
          BY <1>1, <1>3, <1>11, <2>2, <3>2, <4>1, <4>2
      <3> QED
        BY <3>1, <3>2
    <2>4. ASSUME NEW d \in Children, NEW k \in DOMAIN data'[d]
          PROVE  /\ data'[d][k] <= next'[d]
                 /\ \A l \in DOMAIN data'[d] : k < l /\ data'[d][l] # 0 => data'[d][k] < data'[d][l]
      <3>1. CASE d # c
        BY <1>3, <1>6, <2>1, <2>4, <3>1
      <3>2. CASE d = c
        <4>1. data'[c][k] <= b
          BY <1>1, <1>11, <1>12, <1>13, <2>1, <2>4, <3>2
        <4>2. ASSUME NEW l \in DOMAIN data'[c], k < l, data'[c][l] # 0
              PROVE  data'[c][k] < data'[c][l]
          <5>1. k \in DOMAIN data[c] /\ data'[c][k] = data[c][k]
            <6>1. l \in Int /\ k \in Int
              BY <1>1, <1>12, <1>13, <2>4, <3>2
            <6> QED
              BY <1>12, <2>4, <3>2, <4>2, <6>1
          <5>2. CASE l \in DOMAIN data[c] /\ data'[c][l] = data[c][l]
            BY <2>1, <4>2, <5>1, <5>2
          <5>3. CASE data'[c][l] = b
            BY <1>1, <1>11, <1>13, <2>1, <5>1, <5>3
          <5> QED
            BY <1>12, <5>2, <5>3
        <4> QED
          BY <1>3, <3>2, <4>1, <4>2
      <3> QED
        BY <3>1, <3>2
    <2> QED
      BY <1>2, <2>3, <2>4 DEF OrderInv
  <1>15. CompleteInv'
    <2> SUFFICES ASSUME Kept' PROVE CompleteInv'
      BY DEF CompleteInv
    <2>1. /\ client \notin {"ended", "failed"} =>
               \A d \in Children : \A e \in 1 .. next[d] : Got(d, e) \/ Coming(d, e)
          /\ \A d \in Children : \A k \in DOMAIN data[d] : data[d][k] = 0 =>
               next[d] = NumBlocks /\ \A l \in DOMAIN data[d] : k < l => data[d][l] = 0
      BY <1>2 DEF IInv, CompleteInv, Kept
    <2>2. \A k \in DOMAIN data'[c] : data'[c][k] # 0
      <3>1. \A k \in DOMAIN data[c] : data[c][k] # 0
        BY <1>1, <2>1
      <3> QED
        BY <1>1, <1>12, <3>1
    <2>3. ASSUME client \notin {"ended", "failed"},
                 NEW d \in Children, NEW e \in 1 .. next'[d]
          PROVE  Got(d, e)' \/ Coming(d, e)'
      <3>1. /\ DOMAIN data'[c] = 1 .. m + 1
            /\ \A k \in 1 .. m : data'[c][k] = data[c][k]
            /\ data'[c][m + 1] = b
        BY <1>6, <1>7, <2>3
      <3>2. CASE d # c
        BY <1>2, <1>3, <1>6, <2>1, <2>3, <3>2 DEF Got, Coming
      <3>3. CASE d = c /\ e = b
        <4>1. m + 1 \in DOMAIN data'[c]
          BY <1>1, <3>1
        <4> QED
          BY <3>1, <3>3, <4>1 DEF Coming
      <3>4. CASE d = c /\ e # b
        <4>1. e \in 1 .. next[c]
          BY <1>1, <1>3, <1>11, <2>3, <3>4
        <4>2. Got(c, e) \/ Coming(c, e)
          BY <2>1, <2>3, <4>1
        <4>3. CASE Got(c, e)
          BY <1>2, <3>4, <4>3 DEF Got
        <4>4. CASE Coming(c, e)
          <5>1. PICK k \in DOMAIN data[c] : data[c][k] = e
            BY <4>4 DEF Coming
          <5>2. k \in DOMAIN data'[c] /\ data'[c][k] = e
            BY <1>1, <3>1, <5>1
          <5> QED
            BY <3>4, <5>2 DEF Coming
        <4> QED
          BY <4>2, <4>3, <4>4
      <3> QED
        BY <3>2, <3>3, <3>4
    <2>4. ASSUME NEW d \in Children, NEW k \in DOMAIN data'[d], data'[d][k] = 0
          PROVE  next'[d] = NumBlocks /\ \A l \in DOMAIN data'[d] : k < l => data'[d][l] = 0
      <3>1. d # c
        BY <2>2, <2>4
      <3> QED
        BY <1>3, <1>6, <2>1, <2>4, <3>1
    <2> QED
      BY <1>2, <2>3, <2>4 DEF CompleteInv
  <1> QED
    BY <1>8, <1>9, <1>10, <1>14, <1>15 DEF IInv

(* Empty packets behind the whole file disturb neither order nor completeness. *)
LEMMA EofsStep ==
  ASSUME IInv, NEW c \in Children, Listening(c), AtEnd(c),
         NEW ps \in Seq(0 .. NumBlocks), \A k \in 1 .. Len(ps) : ps[k] = 0,
         Transmit(c, ps), UNCHANGED <<client, received, next>>,
         Ordered' => Ordered, Kept' => Kept
  PROVE  /\ data' \in [Children -> Seq(0 .. NumBlocks)]
         /\ OrderInv' /\ SenderOrder' /\ CompleteInv' /\ SomeoneComplete'
  <1> DEFINE m == Len(data[c])
  <1>1. /\ m \in Nat /\ DOMAIN data[c] = 1 .. m /\ next[c] = NumBlocks /\ NumBlocks \in Nat
        /\ Len(ps) \in Nat
    BY TypeFacts DEF IInv, AtEnd
  <1>2. /\ data' \in [Children -> Seq(0 .. NumBlocks)]
        /\ \A d \in Children : d # c => data'[d] = data[d]
        /\ ~ClientListens => data'[c] = data[c]
        /\ ClientListens => /\ DOMAIN data'[c] = 1 .. m + Len(ps)
                            /\ \A k \in 1 .. m : data'[c][k] = data[c][k]
                            /\ \A k \in 1 .. Len(ps) : data'[c][m + k] = ps[k]
    BY TransmitFacts DEF IInv
  <1>3. ~ClientListens => client \in {"ended", "failed"}
    BY RunningFacts
  <1> HIDE DEF m
  <1>4. ASSUME NEW k \in DOMAIN data'[c]
        PROVE  /\ k \in Int
               /\ \/ k \in DOMAIN data[c] /\ data'[c][k] = data[c][k]
                  \/ k > m /\ data'[c][k] = 0
    <2>1. CASE ~ClientListens
      BY <1>1, <1>2, <1>4, <2>1
    <2>2. CASE ClientListens
      <3>1. k \in 1 .. m + Len(ps)
        BY <1>2, <1>4, <2>2
      <3>2. CASE k \in 1 .. m
        BY <1>1, <1>2, <2>2, <3>2
      <3>3. CASE k > m
        <4>1. k - m \in 1 .. Len(ps) /\ m + (k - m) = k /\ k \in Int
          BY <1>1, <3>1, <3>3
        <4>2. data'[c][m + (k - m)] = ps[k - m]
          BY <1>2, <2>2, <4>1
        <4> QED
          BY <3>3, <4>1, <4>2
      <3> QED
        BY <1>1, <3>1, <3>2, <3>3
    <2> QED
      BY <2>1, <2>2
  <1>5. OrderInv'
    <2> SUFFICES ASSUME Ordered' PROVE OrderInv'
      BY DEF OrderInv
    <2>1. \A d \in Children :
            /\ \A j \in DOMAIN received : received[j].child = d =>
                 /\ received[j].block <= next[d]
                 /\ \A k \in DOMAIN data[d] : data[d][k] # 0 => received[j].block < data[d][k]
            /\ \A k \in DOMAIN data[d] :
                 /\ data[d][k] <= next[d]
                 /\ \A l \in DOMAIN data[d] : k < l /\ data[d][l] # 0 => data[d][k] < data[d][l]
      BY DEF IInv, OrderInv
    <2>2. ASSUME NEW d \in Children, NEW j \in DOMAIN received, received[j].child = d
          PROVE  /\ received[j].block <= next[d]
                 /\ \A k \in DOMAIN data'[d] : data'[d][k] # 0 => received[j].block < data'[d][k]
      <3>1. CASE d # c
        BY <1>2, <2>1, <2>2, <3>1
      <3>2. CASE d = c
        BY <1>4, <2>1, <2>2, <3>2
      <3> QED
        BY <3>1, <3>2
    <2>3. ASSUME NEW d \in Children, NEW k \in DOMAIN data'[d]
          PROVE  /\ data'[d][k] <= next[d]
                 /\ \A l \in DOMAIN data'[d] : k < l /\ data'[d][l] # 0 => data'[d][k] < data'[d][l]
      <3>1. CASE d # c
        BY <1>2, <2>1, <2>3, <3>1
      <3>2. CASE d = c
        <4>1. data'[c][k] <= next[c]
          BY <1>1, <1>4, <2>1, <2>3, <3>2
        <4>2. ASSUME NEW l \in DOMAIN data'[c], k < l, data'[c][l] # 0
              PROVE  data'[c][k] < data'[c][l]
          <5>1. l \in DOMAIN data[c] /\ data'[c][l] = data[c][l] /\ l <= m
            BY <1>1, <1>4, <4>2
          <5>2. k \in DOMAIN data[c] /\ data'[c][k] = data[c][k]
            BY <1>1, <1>4, <2>3, <3>2, <4>2, <5>1
          <5> QED
            BY <2>1, <4>2, <5>1, <5>2
        <4> QED
          BY <3>2, <4>1, <4>2
      <3> QED
        BY <3>1, <3>2
    <2> QED
      BY <2>2, <2>3 DEF OrderInv
  <1>6. SenderOrder' /\ SomeoneComplete'
    BY DEF IInv, SenderOrder, SomeoneComplete, Ordered, Kept
  <1>7. CompleteInv'
    <2> SUFFICES ASSUME Kept' PROVE CompleteInv'
      BY DEF CompleteInv
    <2>1. /\ client \notin {"ended", "failed"} =>
               \A d \in Children : \A e \in 1 .. next[d] : Got(d, e) \/ Coming(d, e)
          /\ \A d \in Children : \A k \in DOMAIN data[d] : data[d][k] = 0 =>
               next[d] = NumBlocks /\ \A l \in DOMAIN data[d] : k < l => data[d][l] = 0
      BY DEF IInv, CompleteInv
    <2>2. ASSUME client \notin {"ended", "failed"}, NEW d \in Children, NEW e \in 1 .. next[d]
          PROVE  Got(d, e)' \/ Coming(d, e)'
      <3>1. Got(d, e) \/ Coming(d, e)
        BY <2>1, <2>2
      <3>2. CASE Got(d, e)
        BY <3>2 DEF Got
      <3>3. CASE Coming(d, e) /\ d # c
        BY <1>2, <3>3 DEF Coming
      <3>4. CASE Coming(d, e) /\ d = c
        <4>1. PICK k \in DOMAIN data[c] : data[c][k] = e
          BY <3>4 DEF Coming
        <4>2. k \in DOMAIN data'[c] /\ data'[c][k] = e
          BY <1>1, <1>2, <1>3, <2>2, <4>1
        <4> QED
          BY <3>4, <4>2 DEF Coming
      <3> QED
        BY <3>1, <3>2, <3>3, <3>4
    <2>3. ASSUME NEW d \in Children, NEW k \in DOMAIN data'[d], data'[d][k] = 0
          PROVE  next[d] = NumBlocks /\ \A l \in DOMAIN data'[d] : k < l => data'[d][l] = 0
      <3>1. CASE d # c
        <4>1. data'[d] = data[d]
          BY <1>2, <3>1
        <4>2. k \in DOMAIN data[d] /\ data[d][k] = 0
          BY <2>3, <4>1
        <4>3. next[d] = NumBlocks /\ \A l \in DOMAIN data[d] : k < l => data[d][l] = 0
          BY <2>1, <4>2
        <4> QED
          BY <4>1, <4>3
      <3>2. CASE d = c
        <4>1. ASSUME NEW l \in DOMAIN data'[c], k < l PROVE data'[c][l] = 0
          <5>1. CASE k \in DOMAIN data[c] /\ data'[c][k] = data[c][k]
            BY <1>4, <2>1, <2>3, <3>2, <4>1, <5>1
          <5>2. CASE k > m
            BY <1>1, <1>4, <3>2, <4>1, <5>2
          <5> QED
            BY <1>4, <2>3, <3>2, <5>1, <5>2
        <4> QED
          BY <1>1, <3>2, <4>1
      <3> QED
        BY <3>1, <3>2
    <2> QED
      BY <2>2, <2>3 DEF CompleteInv
  <1> QED
    BY <1>2, <1>5, <1>6, <1>7

LEMMA EofsFacts ==
  /\ Eofs \in Seq(0 .. NumBlocks) /\ \A k \in 1 .. Len(Eofs) : Eofs[k] = 0
  /\ \A n \in 1 .. EofTries - 1 :
       /\ SubSeq(Eofs, 1, n) \in Seq(0 .. NumBlocks)
       /\ \A k \in 1 .. Len(SubSeq(Eofs, 1, n)) : SubSeq(Eofs, 1, n)[k] = 0
  <1>1. EofTries \in Nat /\ NumBlocks \in Nat
    BY StreamAssumption DEF StreamAssumption
  <1>2. /\ Eofs \in [1 .. EofTries -> 0 .. NumBlocks]
        /\ \A k \in 1 .. EofTries : Eofs[k] = 0
    BY <1>1 DEF Eofs
  <1>3. Eofs \in Seq(0 .. NumBlocks) /\ Len(Eofs) = EofTries
    BY <1>1, <1>2
  <1>4. ASSUME NEW n \in 1 .. EofTries - 1
        PROVE  /\ SubSeq(Eofs, 1, n) \in Seq(0 .. NumBlocks)
               /\ \A k \in 1 .. Len(SubSeq(Eofs, 1, n)) : SubSeq(Eofs, 1, n)[k] = 0
    <2>1. n \in Int /\ \A k \in 1 .. n : Eofs[k] \in 0 .. NumBlocks /\ Eofs[k] = 0
      BY <1>1, <1>2
    <2>2. /\ SubSeq(Eofs, 1, n) \in Seq(0 .. NumBlocks)
          /\ Len(SubSeq(Eofs, 1, n)) = n
          /\ \A k \in 1 .. n : SubSeq(Eofs, 1, n)[k] = Eofs[k]
      BY <1>1, <2>1, SubSeqProperties
    <2> QED
      BY <2>1, <2>2
  <1> QED
    BY <1>2, <1>3, <1>4

(* A child that closes its socket. *)
LEMMA EndStep ==
  ASSUME IInv, NEW c \in Children, SendEof(c) \/ ChildFails(c)
  PROVE  IInv'
  <1>1. /\ Listening(c) /\ client # "start"
        /\ child' \in [Children -> {"free", "send", "sleep", "done", "failed"}]
        /\ feedback' = [feedback EXCEPT ![c] = <<>>]
        /\ UNCHANGED <<client, received, sent, next, interval, requests>>
    BY RunningFacts DEF SendEof, ChildFails, Listening, clientVars, IInv, TypeOK
  <1>2. /\ faults' \in [FaultKinds -> Nat] /\ (Ordered' => Ordered) /\ (Kept' => Kept)
    <2>1. CASE SendEof(c)
      BY <2>1 DEF SendEof, IInv, TypeOK, Ordered, Kept
    <2>2. CASE ChildFails(c)
      BY <2>2, HarmlessFault DEF IInv, ChildFails
    <2> QED
      BY <2>1, <2>2
  <1>3. /\ data' \in [Children -> Seq(0 .. NumBlocks)]
        /\ OrderInv' /\ SenderOrder' /\ CompleteInv' /\ SomeoneComplete'
    <2>1. CASE UNCHANGED data
      <3>1. data' \in [Children -> Seq(0 .. NumBlocks)]
        BY <2>1 DEF IInv, TypeOK
      <3> QED
        BY <1>1, <1>2, <2>1, <3>1, SameStream
    <2>2. CASE AtEnd(c) /\ Transmit(c, Eofs)
      BY <1>1, <1>2, <2>2, EofsStep, EofsFacts
    <2>3. ASSUME AtEnd(c), NEW n \in 1 .. EofTries - 1, Transmit(c, SubSeq(Eofs, 1, n))
          PROVE  /\ data' \in [Children -> Seq(0 .. NumBlocks)]
                 /\ OrderInv' /\ SenderOrder' /\ CompleteInv' /\ SomeoneComplete'
      <3> DEFINE ps == SubSeq(Eofs, 1, n)
      <3>1. /\ ps \in Seq(0 .. NumBlocks) /\ \A k \in 1 .. Len(ps) : ps[k] = 0
            /\ Transmit(c, ps)
        BY <2>3, EofsFacts
      <3> HIDE DEF ps
      <3> QED
        BY <1>1, <1>2, <2>3, <3>1, EofsStep
    <2> QED
      BY <2>1, <2>2, <2>3 DEF SendEof, ChildFails
  <1>4. feedback' \in [Children -> Seq(Nat)]
        /\ \A d \in Children : DOMAIN feedback'[d] = {} \/ feedback'[d] = feedback[d]
    BY <1>1 DEF IInv, TypeOK
  <1>5. TypeOK'
    BY <1>1, <1>2, <1>3, <1>4 DEF IInv, TypeOK
  <1>6. StartInv' /\ FeedbackInv' /\ OwnFeedback'
    BY <1>1, <1>4 DEF IInv, StartInv, FeedbackInv, OwnFeedback
  <1> QED
    BY <1>3, <1>5, <1>6 DEF IInv

(* A loss takes a packet out of a queue and leaves the rest in order. *)
LEMMA LoseStep ==
  ASSUME IInv, Lose
  PROVE  IInv'
  <1>1. faults' \in [FaultKinds -> Nat] /\ (Ordered' => Ordered) /\ ~Kept'
    BY FaultFacts DEF IInv, Lose, FaultKinds, Ordered, Kept
  <1>2. UNCHANGED <<client, received, sent, child, next, interval>>
    BY DEF Lose, clientVars, childVars
  <1>3. SenderOrder' /\ CompleteInv' /\ SomeoneComplete'
    <2>1. SenderOrder'
      BY <1>1, <1>2 DEF IInv, SenderOrder, Ordered
    <2>2. faults'["loss"] # 0
      BY FaultFacts DEF IInv, Lose, FaultKinds
    <2> QED
      BY <1>1, <2>1, <2>2 DEF CompleteInv, SomeoneComplete
  <1>4. OwnFeedback'
    BY <1>2 DEF IInv, OwnFeedback
  <1>5. CASE requests > 0 /\ requests' = requests - 1 /\ UNCHANGED <<data, feedback>>
    <2>1. TypeOK' /\ StartInv' /\ FeedbackInv'
      BY <1>1, <1>2, <1>5 DEF IInv, TypeOK, StartInv, FeedbackInv
    <2>2. OrderInv'
      BY <1>1, <1>2, <1>5 DEF IInv, OrderInv
    <2> QED
      BY <1>3, <1>4, <2>1, <2>2 DEF IInv
  <1>6. ASSUME NEW c \in Children, NEW i \in DOMAIN data[c],
               data' = [data EXCEPT ![c] = Without(@, i)], UNCHANGED <<requests, feedback>>
        PROVE  IInv'
    <2> DEFINE q == data[c]
               r == Without(q, i)
    <2>1. q \in Seq(0 .. NumBlocks) /\ i \in DOMAIN q /\ DOMAIN q = 1 .. Len(q) /\ Len(q) \in Nat
      BY <1>6, TypeFacts DEF IInv
    <2>2. /\ r \in Seq(0 .. NumBlocks) /\ DOMAIN r = 1 .. Len(q) - 1
          /\ \A k \in 1 .. Len(q) - 1 : r[k] = IF k < i THEN q[k] ELSE q[k + 1]
      BY <2>1, WithoutFacts
    <2>3. data'[c] = r /\ (\A d \in Children : d # c => data'[d] = data[d])
          /\ data' \in [Children -> Seq(0 .. NumBlocks)]
      BY <1>6, <2>2 DEF IInv, TypeOK
    <2>4. \A k, l \in DOMAIN r : k < l =>
            \E k1, l1 \in DOMAIN q : r[k] = q[k1] /\ r[l] = q[l1] /\ k1 < l1
      BY <2>1, WithoutOrder
    <2>5. \A k \in DOMAIN r : \E k1 \in DOMAIN q : r[k] = q[k1]
      BY <2>1, WithoutOrder
    <2>6. TypeOK' /\ StartInv' /\ FeedbackInv'
      BY <1>1, <1>2, <1>6, <2>3 DEF IInv, TypeOK, StartInv, FeedbackInv
    <2>7. ASSUME Ordered', NEW d \in Children
          PROVE  /\ \A j \in DOMAIN received : received[j].child = d =>
                      /\ received[j].block <= next[d]
                      /\ \A k \in DOMAIN data'[d] :
                           data'[d][k] # 0 => received[j].block < data'[d][k]
                 /\ \A k \in DOMAIN data'[d] :
                      /\ data'[d][k] <= next[d]
                      /\ \A l \in DOMAIN data'[d] :
                           k < l /\ data'[d][l] # 0 => data'[d][k] < data'[d][l]
      <3>1. /\ \A j \in DOMAIN received : received[j].child = d =>
                 /\ received[j].block <= next[d]
                 /\ \A k \in DOMAIN data[d] : data[d][k] # 0 => received[j].block < data[d][k]
            /\ \A k \in DOMAIN data[d] :
                 /\ data[d][k] <= next[d]
                 /\ \A l \in DOMAIN data[d] : k < l /\ data[d][l] # 0 => data[d][k] < data[d][l]
        BY <1>1, <2>7 DEF IInv, OrderInv
      <3>2. CASE d # c
        BY <2>3, <3>1, <3>2
      <3>3. CASE d = c
        <4> HIDE DEF r
        <4> QED
          BY <2>3, <2>4, <2>5, <3>1, <3>3
      <3> QED
        BY <3>2, <3>3
    <2>8. OrderInv'
      BY <1>2, <2>7 DEF OrderInv
    <2> QED
      BY <1>3, <1>4, <2>6, <2>8 DEF IInv
  <1>7. ASSUME NEW c \in Children, NEW i \in DOMAIN feedback[c],
               feedback' = [feedback EXCEPT ![c] = Without(@, i)], UNCHANGED <<requests, data>>
        PROVE  IInv'
    <2> DEFINE q == feedback[c]
               r == Without(q, i)
    <2>1. q \in Seq(Nat) /\ i \in DOMAIN q /\ DOMAIN q = 1 .. Len(q) /\ Len(q) \in Nat
      BY <1>7, TypeFacts DEF IInv
    <2>2. /\ r \in Seq(Nat) /\ DOMAIN r = 1 .. Len(q) - 1
          /\ \A k \in 1 .. Len(q) - 1 : r[k] = IF k < i THEN q[k] ELSE q[k + 1]
      BY <2>1, WithoutFacts
    <2>3. feedback'[c] = r /\ (\A d \in Children : d # c => feedback'[d] = feedback[d])
          /\ feedback' \in [Children -> Seq(Nat)]
      BY <1>7, <2>2 DEF IInv, TypeOK
    <2>4. \A k \in DOMAIN r : \E k1 \in DOMAIN q : r[k] = q[k1]
      BY <2>1, WithoutOrder
    <2>5. TypeOK' /\ StartInv'
      BY <1>1, <1>2, <1>7, <2>3 DEF IInv, TypeOK, StartInv
    <2>6. ASSUME NEW d \in Children, NEW k \in DOMAIN feedback'[d]
          PROVE  feedback'[d][k] \in DOMAIN received /\ received[feedback'[d][k]].child = d
      <3>1. PICK k1 \in DOMAIN feedback[d] : feedback'[d][k] = feedback[d][k1]
        <4> HIDE DEF r
        <4> QED
          BY <2>3, <2>4, <2>6
      <3> QED
        BY <3>1 DEF IInv, FeedbackInv
    <2>7. OrderInv'
      BY <1>1, <1>2, <1>7 DEF IInv, OrderInv
    <2> QED
      BY <1>2, <1>3, <1>4, <2>5, <2>6, <2>7 DEF IInv, FeedbackInv
  <1> QED
    BY <1>5, <1>6, <1>7 DEF Lose

LEMMA NextIInv == IInv /\ [Next]_vars => IInv'
  <1> SUFFICES ASSUME IInv, [Next]_vars PROVE IInv'
    OBVIOUS
  <1>1. CASE RequestFile \/ RequestTimeout
    BY <1>1, RequestStep
  <1>2. CASE ReceivePacket
    <2>1. ClientListens
      BY <1>2 DEF ReceivePacket
    <2>2. ASSUME NEW c \in Children, NEW i \in DOMAIN data[c], ReceiveBlock(c, i)
          PROVE  IInv'
      BY <2>1, <2>2, ReceiveTypes, ReceiveOrder, ReceiveComplete DEF IInv
    <2>3. ASSUME NEW c \in Children, NEW i \in DOMAIN data[c], ReceiveEof(c, i)
          PROVE  IInv'
      BY <2>1, <2>3, EofStep
    <2> QED
      BY <1>2, <2>2, <2>3 DEF ReceivePacket
  <1>3. CASE ClientFails
    BY <1>3, ClientFailsStep
  <1>4. CASE RequestFails
    BY <1>4, RequestFailsStep
  <1>5. ASSUME NEW c \in Children, ReceiveRequest(c) \/ PollFeedback(c) PROVE IInv'
    BY <1>5, ServerStep
  <1>6. ASSUME NEW c \in Children, SendBlock(c) PROVE IInv'
    BY <1>6, SendStep
  <1>7. ASSUME NEW c \in Children, SendEof(c) \/ ChildFails(c) PROVE IInv'
    BY <1>7, EndStep
  <1>8. CASE Lose
    BY <1>8, LoseStep
  <1>9. CASE UNCHANGED vars
    BY <1>9, SameStream DEF IInv, TypeOK, StartInv, FeedbackInv, OwnFeedback, Ordered, Kept,
                  vars, clientVars, childVars, netVars
  <1> QED
    BY <1>1, <1>2, <1>3, <1>4, <1>5, <1>6, <1>7, <1>8, <1>9 DEF Next

LEMMA StreamInvariance == Spec => []IInv
  BY InitIInv, NextIInv, PTL DEF Spec

-----------------------------------------------------------------------------
(***************************************************************************)
(* A child never sends beyond the end of its file, and what is received    *)
(* are blocks of it (the types of every variable).                         *)
(***************************************************************************)
THEOREM StreamTypeCorrect == Spec => []TypeOK
  <1>1. IInv => TypeOK
    BY DEF IInv
  <1> QED
    BY <1>1, StreamInvariance, PTL

(***************************************************************************)
(* Over a network that keeps the order of packets, the packets of each     *)
(* child of audio_server.c are received in the order of the file.          *)
(***************************************************************************)
THEOREM StreamOrdered == Spec => []SenderOrder
  <1>1. IInv => SenderOrder
    BY DEF IInv
  <1> QED
    BY <1>1, StreamInvariance, PTL

(***************************************************************************)
(* Whichever child's empty packet ends the stream: if nothing was lost or  *)
(* overtaken, the client holds the whole file from one child.              *)
(***************************************************************************)
THEOREM StreamComplete == Spec => []SomeoneComplete
  <1>1. IInv => SomeoneComplete
    BY DEF IInv
  <1> QED
    BY <1>1, StreamInvariance, PTL

(***************************************************************************)
(* No child is paced by the feedback on another child's packets.           *)
(***************************************************************************)
THEOREM FeedbackIsOwn == Spec => []OwnFeedback
  <1>1. IInv => OwnFeedback
    BY DEF IInv
  <1> QED
    BY <1>1, StreamInvariance, PTL
=============================================================================
