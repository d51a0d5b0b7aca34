-------------------------- MODULE AudioClientProofs --------------------------
(***************************************************************************)
(* Proofs about the two parts of lab5's audio client: its playback queue,  *)
(* for every length of the queue, every frame and every packet size, and   *)
(* its congestion control, for every parameter file.                       *)
(***************************************************************************)
EXTENDS AudioQueue, CongestionControl, TLAPS


-----------------------------------------------------------------------------
(* Arithmetic of the circular queue. *)

LEMMA WrapFacts ==
  ASSUME NEW i \in Nat, i < 2 * Length
  PROVE  Wrap(i) = IF i < Length THEN i ELSE i - Length
  <1>1. Length \in Nat /\ Length > 0
    BY QueueAssumption DEF QueueAssumption
  <1>2. CASE i < Length
    <2>1. i % Length = i
      BY <1>1, <1>2
    <2> QED
      BY <1>2, <2>1 DEF Wrap
  <1>3. CASE i >= Length
    <2>1. PICK j \in 0 .. Length - 1 : i = j + Length
      BY <1>1, <1>3
    <2>2. (j + Length) % Length = j
      BY <1>1
    <2> QED
      BY <1>1, <1>3, <2>1, <2>2 DEF Wrap
  <1> QED
    BY <1>1, <1>2, <1>3

LEMMA ConstFacts ==
  /\ Length \in Nat /\ Length > 0 /\ Frame \in Nat /\ Frame > 0
  /\ BlockSize \in Nat /\ MaxBytes \in Nat
  BY QueueAssumption DEF QueueAssumption

(* The load bytes from tail on end just before head. *)
LEMMA LoadFacts ==
  ASSUME TypeOK
  PROVE  /\ Load \in Nat /\ Load <= Length - 1
         /\ Wrap(tail + Load) = head
         /\ \A i \in 1 .. Load :
              Wrap(tail + i - 1) \in 0 .. Length - 1 /\ Wrap(tail + i - 1) # head
  <1>1. head \in 0 .. Length - 1 /\ tail \in 0 .. Length - 1
    BY DEF TypeOK
  <1>2. Load \in Nat /\ Load <= Length - 1
    BY <1>1, ConstFacts DEF Load
  <1>3. Wrap(tail + Load) = head
    <2>1. tail + Load \in Nat /\ tail + Load < 2 * Length
      BY <1>1, <1>2, ConstFacts
    <2> QED
      BY <1>1, <2>1, WrapFacts, ConstFacts DEF Load
  <1>4. ASSUME NEW i \in 1 .. Load
        PROVE  Wrap(tail + i - 1) \in 0 .. Length - 1 /\ Wrap(tail + i - 1) # head
    <2>1. tail + i - 1 \in Nat /\ tail + i - 1 < 2 * Length
      BY <1>1, <1>2, ConstFacts
    <2> QED
      BY <1>1, <2>1, WrapFacts, ConstFacts DEF Load
  <1> QED
    BY <1>2, <1>3, <1>4

(* The n-th byte from the new read pointer on is the (Frame + n)-th from the old. *)
LEMMA ShiftFacts ==
  ASSUME NEW t \in 0 .. Length - 1, NEW u \in 0 .. Length - 1, NEW n \in Nat,
         n >= 1, Frame + n <= Length - 1,
         u = IF t + Frame < Length THEN t + Frame ELSE t + Frame - Length
  PROVE  Wrap(u + n - 1) = Wrap(t + (Frame + n) - 1)
  <1>1. u + n - 1 \in Nat /\ u + n - 1 < 2 * Length
    BY ConstFacts
  <1>2. t + (Frame + n) - 1 \in Nat /\ t + (Frame + n) - 1 < 2 * Length
    BY ConstFacts
  <1>3. Wrap(u + n - 1) = IF u + n - 1 < Length THEN u + n - 1 ELSE u + n - 1 - Length
    BY <1>1, WrapFacts, ConstFacts
  <1>4. Wrap(t + (Frame + n) - 1) = IF t + (Frame + n) - 1 < Length
                                    THEN t + (Frame + n) - 1
                                    ELSE t + (Frame + n) - 1 - Length
    BY <1>2, WrapFacts, ConstFacts
  <1> QED
    BY <1>3, <1>4, ConstFacts

(* Taking a frame shortens the queue by it and keeps the order of the rest. *)
LEMMA TakeFacts ==
  ASSUME TypeOK, FrameReady, TakeFrame
  PROVE  /\ tail' \in 0 .. Length - 1 /\ head' = head /\ Load' = Load - Frame
         /\ head >= tail => head' >= tail'
         /\ \A i \in 1 .. Load' : Wrap(tail' + i - 1) = Wrap(tail + (Frame + i) - 1)
  <1>1. /\ head \in 0 .. Length - 1 /\ tail \in 0 .. Length - 1
        /\ Load \in Nat /\ Load <= Length - 1 /\ Frame <= Load /\ head' = head
    BY LoadFacts, ConstFacts DEF TypeOK, FrameReady, TakeFrame
  <1>2. tail' = IF tail + Frame < Length THEN tail + Frame ELSE tail + Frame - Length
    <2>1. tail + Frame \in Nat /\ tail + Frame < 2 * Length
      BY <1>1, ConstFacts
    <2> QED
      BY <1>1, <2>1, WrapFacts, ConstFacts DEF TakeFrame
  <1>3. tail' \in 0 .. Length - 1
    BY <1>1, <1>2, ConstFacts
  <1>4. Load' = Load - Frame /\ (head >= tail => head' >= tail')
    BY <1>1, <1>2, ConstFacts DEF Load
  <1>5. ASSUME NEW i \in 1 .. Load'
        PROVE  Wrap(tail' + i - 1) = Wrap(tail + (Frame + i) - 1)
    <2>1. i \in Nat /\ i >= 1 /\ Frame + i <= Length - 1
      BY <1>1, <1>4, ConstFacts
    <2> QED
      BY <1>1, <1>2, <1>3, <2>1, ShiftFacts
  <1> QED
    BY <1>1, <1>3, <1>4, <1>5

(* Advancing head lengthens a queue that is not full by one byte at its end. *)
LEMMA AdvanceFacts ==
  ASSUME TypeOK, Load + 1 <= Length - 1, head' = Wrap(head + 1), tail' = tail
  PROVE  head' \in 0 .. Length - 1 /\ Load' = Load + 1
  <1>1. head \in 0 .. Length - 1 /\ tail \in 0 .. Length - 1
    BY DEF TypeOK
  <1>2. head' = IF head + 1 < Length THEN head + 1 ELSE head + 1 - Length
    <2>1. head + 1 \in Nat /\ head + 1 < 2 * Length
      BY <1>1, ConstFacts
    <2> QED
      BY <1>1, <2>1, WrapFacts, ConstFacts
  <1> QED
    BY <1>1, <1>2, ConstFacts DEF Load

-----------------------------------------------------------------------------
(* The inductive invariant. *)

(* Main has found room for what is left of the packet; the handler can only  *)
(* make more.                                                                *)
RoomInv ==
  /\ pc \in {"compare", "decide", "check", "store", "advance"} => pending >= 1
  /\ pc \in {"check", "store", "advance"} => Load + pending <= Length - 1

(* A comparison that did not find the pointers wrapped stays true: the handler *)
(* does not take tail past head.                                               *)
CompareInv == pc \in {"decide", "report"} /\ ~wrapped => head >= tail

(* The queue holds the bytes that follow the last one played. *)
OrderInv ==
  /\ written = Len(played) + Load
  /\ \A i \in 1 .. Load : data[Wrap(tail + i - 1)] = Len(played) + i
  /\ pc = "advance" => data[head] = written + 1

QInv == TypeOK /\ RoomInv /\ CompareInv /\ OrderInv

LEMMA InitQInv == Init => QInv
  <1> SUFFICES ASSUME Init PROVE QInv
    OBVIOUS
  <1> USE DEF Init
  <1>1. Load = 0
    BY DEF Load
  <1>2. TypeOK
    <2>1. data \in [0 .. Length - 1 -> Nat] /\ played \in Seq(Nat)
      OBVIOUS
    <2>2. head \in 0 .. Length - 1 /\ tail \in 0 .. Length - 1 /\ pending \in 0 .. BlockSize
      BY ConstFacts
    <2> QED
      BY <2>1, <2>2 DEF TypeOK
  <1>3. RoomInv /\ CompareInv
    BY DEF RoomInv, CompareInv
  <1>4. OrderInv
    BY <1>1 DEF OrderInv
  <1> QED
    BY <1>2, <1>3, <1>4 DEF QInv

(* What main reads is the true load, or more by the length of the array. *)
LEMMA ReadFacts ==
  ASSUME QInv, pc \in {"decide", "report"}
  PROVE  LoadRead \in Nat /\ LoadRead >= Load
  BY ConstFacts DEF QInv, TypeOK, CompareInv, LoadRead, Load

LEMMA NotFull ==
  ASSUME QInv, pc = "check"
  PROVE  ~Full
  <1>1. Load + 1 <= Length - 1 /\ head \in 0 .. Length - 1 /\ tail \in 0 .. Length - 1
    BY LoadFacts, ConstFacts DEF QInv, RoomInv, TypeOK
  <1>2. Wrap(head + 1) = IF head + 1 < Length THEN head + 1 ELSE head + 1 - Length
    <2>1. head + 1 \in Nat /\ head + 1 < 2 * Length
      BY <1>1, ConstFacts
    <2> QED
      BY <1>1, <2>1, WrapFacts, ConstFacts
  <1> QED
    BY <1>1, <1>2, ConstFacts DEF Full, Load

-----------------------------------------------------------------------------
(* Every action keeps the invariant. *)

(* The actions that leave the queue, what was written and what was played. *)
LEMMA QuietStep ==
  ASSUME QInv,
         \/ ReceivePacket \/ ComparePointers \/ AcceptPacket \/ DropPacket
         \/ CheckRoom \/ CompareForFeedback \/ ReportLoad \/ ReceiveEof
         \/ FinishDrain \/ CallFails \/ DeviceFails
  PROVE  QInv'
  <1>1. UNCHANGED <<queueVars, written, played>>
    BY DEF ReceivePacket, ComparePointers, AcceptPacket, DropPacket, CheckRoom,
           CompareForFeedback, ReportLoad, ReceiveEof, FinishDrain, CallFails, DeviceFails
  <1>2. Load' = Load
    BY <1>1 DEF Load, queueVars
  <1>3. pc' # "advance"
    BY DEF ReceivePacket, ComparePointers, AcceptPacket, DropPacket, CheckRoom,
           CompareForFeedback, ReportLoad, ReceiveEof, FinishDrain, CallFails, DeviceFails
  <1>4. OrderInv'
    BY <1>1, <1>2, <1>3 DEF QInv, OrderInv, queueVars
  <1>5. CASE ReceivePacket
    <2>1. PICK n \in 1 .. BlockSize : received' = received + n /\ pending' = n
      BY <1>5 DEF ReceivePacket
    <2>2. TypeOK'
      BY <1>1, <1>5, <2>1, LoadFacts, ConstFacts DEF QInv, TypeOK, ReceivePacket, queueVars
    <2>3. RoomInv' /\ CompareInv'
      BY <1>5, <2>1, ConstFacts DEF ReceivePacket, RoomInv, CompareInv
    <2> QED
      BY <1>4, <2>2, <2>3 DEF QInv
  <1>6. CASE ComparePointers \/ CompareForFeedback
    <2>1. wrapped' \in BOOLEAN /\ (wrapped' <=> head < tail)
      <3>1. wrapped' = (head < tail)
        BY <1>6 DEF ComparePointers, CompareForFeedback
      <3>2. (head < tail) \in BOOLEAN
        BY DEF QInv, TypeOK
      <3> QED
        BY <3>1, <3>2
    <2>2. /\ UNCHANGED <<pending, callLoad, streaming, head, tail, data, received, written, played>>
          /\ \/ pc = "compare" /\ pc' = "decide"
             \/ pc = "feedback" /\ pc' = "report"
      BY <1>6 DEF ComparePointers, CompareForFeedback, queueVars
    <2>3. TypeOK'
      BY <2>1, <2>2 DEF QInv, TypeOK
    <2>4. RoomInv'
      BY <1>2, <2>2 DEF QInv, RoomInv
    <2>5. CompareInv'
      BY <2>1, <2>2 DEF QInv, TypeOK, CompareInv
    <2> QED
      BY <1>4, <2>3, <2>4, <2>5 DEF QInv
  <1>7. CASE AcceptPacket
    <2>1. TypeOK' /\ CompareInv'
      BY <1>1, <1>7 DEF QInv, TypeOK, CompareInv, AcceptPacket, queueVars
    <2>2. Load + pending <= Length - 1
      <3>1. LoadRead \in Nat /\ LoadRead >= Load /\ Load \in Nat /\ pending \in Nat
        BY <1>7, ReadFacts, LoadFacts, ConstFacts DEF AcceptPacket, QInv, TypeOK
      <3> QED
        BY <1>7, <3>1, ConstFacts DEF AcceptPacket, RoomForPacket
    <2>3. RoomInv'
      BY <1>2, <1>7, <2>2 DEF QInv, RoomInv, AcceptPacket
    <2> QED
      BY <1>4, <2>1, <2>3 DEF QInv
  <1>8. CASE CheckRoom
    <2>1. pc' = "store" /\ pending' = pending
      BY <1>8, NotFull DEF CheckRoom
    <2>2. TypeOK' /\ CompareInv'
      BY <1>1, <1>8, <2>1 DEF QInv, TypeOK, CompareInv, CheckRoom, queueVars
    <2>3. RoomInv'
      BY <1>2, <1>8, <2>1 DEF QInv, RoomInv, CheckRoom
    <2> QED
      BY <1>4, <2>2, <2>3 DEF QInv
  <1>9. CASE DropPacket \/ ReportLoad \/ ReceiveEof \/ FinishDrain \/ CallFails \/ DeviceFails
    <2>1. TypeOK'
      <3>1. CASE DropPacket
        BY <1>1, <3>1, ConstFacts DEF QInv, TypeOK, DropPacket, queueVars
      <3>2. CASE ReportLoad
        BY <1>1, <3>2 DEF QInv, TypeOK, ReportLoad, queueVars
      <3>3. CASE ReceiveEof \/ FinishDrain \/ CallFails \/ DeviceFails
        BY <1>1, <3>3 DEF QInv, TypeOK, ReceiveEof, FinishDrain, CallFails, DeviceFails, queueVars
      <3> QED
        BY <1>9, <3>1, <3>2, <3>3
    <2>2. RoomInv' /\ CompareInv'
      BY <1>9 DEF RoomInv, CompareInv, DropPacket, ReportLoad, ReceiveEof, FinishDrain, CallFails, DeviceFails
    <2> QED
      BY <1>4, <2>1, <2>2 DEF QInv
  <1> QED
    BY <1>5, <1>6, <1>7, <1>8, <1>9

LEMMA StoreStep ==
  ASSUME QInv, StoreByte
  PROVE  QInv'
  <1>1. /\ pc = "store" /\ pc' = "advance" /\ data' = [data EXCEPT ![head] = written + 1]
        /\ UNCHANGED <<pending, wrapped, callLoad, streaming, head, tail, received, written, played>>
    BY DEF StoreByte
  <1>2. Load' = Load /\ head \in 0 .. Length - 1 /\ data \in [0 .. Length - 1 -> Nat]
    BY <1>1 DEF Load, QInv, TypeOK
  <1>3. TypeOK'
    BY <1>1, <1>2 DEF QInv, TypeOK
  <1>4. RoomInv' /\ CompareInv'
    BY <1>1, <1>2 DEF QInv, RoomInv, CompareInv
  <1>5. OrderInv'
    <2>1. data'[head] = written + 1
      BY <1>1, <1>2
    <2>2. ASSUME NEW i \in 1 .. Load
          PROVE  data'[Wrap(tail + i - 1)] = Len(played) + i
      <3>1. Wrap(tail + i - 1) \in 0 .. Length - 1 /\ Wrap(tail + i - 1) # head
        BY LoadFacts DEF QInv
      <3>2. data[Wrap(tail + i - 1)] = Len(played) + i
        BY DEF QInv, OrderInv
      <3> QED
        BY <1>1, <1>2, <3>1, <3>2
    <2>3. written = Len(played) + Load
      BY DEF QInv, OrderInv
    <2> QED
      BY <1>1, <1>2, <2>1, <2>2, <2>3 DEF OrderInv, Wrap
  <1> QED
    BY <1>3, <1>4, <1>5 DEF QInv

LEMMA AdvanceStep ==
  ASSUME QInv, AdvanceHead
  PROVE  QInv'
  <1>1. /\ pc = "advance" /\ head' = Wrap(head + 1) /\ written' = written + 1
        /\ pending' = pending - 1 /\ pc' = IF pending = 1 THEN "feedback" ELSE "check"
        /\ UNCHANGED <<wrapped, callLoad, streaming, tail, data, received, played>>
    BY DEF AdvanceHead
  <1>2. /\ pending \in 1 .. BlockSize /\ Load + pending <= Length - 1
        /\ Load \in Nat /\ Load <= Length - 1
    BY <1>1, LoadFacts, ConstFacts DEF QInv, TypeOK, RoomInv
  <1>3. head' \in 0 .. Length - 1 /\ Load' = Load + 1
    BY <1>1, <1>2, AdvanceFacts, ConstFacts DEF QInv
  <1>4. TypeOK'
    BY <1>1, <1>2, <1>3, ConstFacts DEF QInv, TypeOK
  <1>5. RoomInv' /\ CompareInv'
    BY <1>1, <1>2, <1>3, ConstFacts DEF RoomInv, CompareInv
  <1>6. OrderInv'
    <2>1. /\ written = Len(played) + Load /\ data[head] = written + 1
          /\ \A i \in 1 .. Load : data[Wrap(tail + i - 1)] = Len(played) + i
      BY <1>1 DEF QInv, OrderInv
    <2>2. Len(played) \in Nat /\ tail \in Nat
      BY DEF QInv, TypeOK
    <2>3. Wrap(tail + (Load + 1) - 1) = head
      <3>1. tail + (Load + 1) - 1 = tail + Load
        BY <1>2, <2>2
      <3> QED
        BY <3>1, LoadFacts DEF QInv
    <2>4. ASSUME NEW i \in 1 .. Load + 1
          PROVE  data[Wrap(tail + i - 1)] = Len(played) + i
      <3>1. CASE i = Load + 1
        BY <1>2, <2>1, <2>2, <2>3, <3>1
      <3>2. CASE i # Load + 1
        <4>1. i \in 1 .. Load
          BY <1>2, <3>2
        <4> QED
          BY <2>1, <4>1
      <3> QED
        BY <3>1, <3>2
    <2>5. written' = Len(played') + Load'
      BY <1>1, <1>2, <1>3, <2>1, <2>2
    <2> QED
      BY <1>1, <1>3, <2>4, <2>5 DEF OrderInv, Wrap
  <1> QED
    BY <1>4, <1>5, <1>6 DEF QInv

LEMMA TakeStep ==
  ASSUME QInv, FrameReady, TakeFrame,
         UNCHANGED <<pc, pending, wrapped, callLoad, streaming, received, written>>
  PROVE  QInv'
  <1>1. /\ tail' \in 0 .. Length - 1 /\ head' = head /\ Load' = Load - Frame
        /\ head >= tail => head' >= tail'
    BY TakeFacts DEF QInv
  <1>2. \A i \in 1 .. Load' : Wrap(tail' + i - 1) = Wrap(tail + (Frame + i) - 1)
    BY TakeFacts DEF QInv
  <1>3. Load \in Nat /\ Frame <= Load
    BY LoadFacts, ConstFacts DEF QInv, FrameReady
  <1>4. Contents \in Seq(Nat) /\ Len(Contents) = Load
    <2>1. \A i \in 1 .. Load : data[Wrap(tail + i - 1)] \in Nat
      BY LoadFacts DEF QInv, TypeOK
    <2> QED
      BY <1>3, <2>1 DEF Contents
  <1>5. SubSeq(Contents, 1, Frame) \in Seq(Nat) /\ Len(SubSeq(Contents, 1, Frame)) = Frame
    BY <1>3, <1>4, ConstFacts
  <1>6. played \in Seq(Nat) /\ played' = played \o SubSeq(Contents, 1, Frame)
    BY DEF QInv, TypeOK, TakeFrame
  <1>7. played' \in Seq(Nat) /\ Len(played') = Len(played) + Frame
    BY <1>5, <1>6
  <1>8. TypeOK'
    BY <1>1, <1>7 DEF QInv, TypeOK, TakeFrame
  <1>9. RoomInv' /\ CompareInv'
    BY <1>1, <1>3, ConstFacts DEF QInv, TypeOK, RoomInv, CompareInv
  <1>10. OrderInv'
    <2>1. /\ written = Len(played) + Load
          /\ \A i \in 1 .. Load : data[Wrap(tail + i - 1)] = Len(played) + i
          /\ pc = "advance" => data[head] = written + 1
          /\ data' = data
      BY DEF QInv, OrderInv, TakeFrame
    <2>2. Len(played) \in Nat
      BY <1>6
    <2>3. ASSUME NEW i \in 1 .. Load'
          PROVE  data[Wrap(tail' + i - 1)] = Len(played') + i
      <3>1. Frame + i \in 1 .. Load
        BY <1>1, <1>3, ConstFacts
      <3>2. data[Wrap(tail + (Frame + i) - 1)] = Len(played) + (Frame + i)
        BY <2>1, <3>1
      <3>3. data[Wrap(tail' + i - 1)] = Len(played) + (Frame + i)
        BY <1>2, <3>2
      <3> QED
        BY <1>7, <2>2, <3>1, <3>3, ConstFacts
    <2>4. written' = Len(played') + Load'
      BY <1>1, <1>3, <1>7, <2>1, <2>2, ConstFacts
    <2>5. pc' = "advance" => data'[head'] = written' + 1
      BY <1>1, <2>1
    <2> QED
      BY <2>1, <2>3, <2>4, <2>5 DEF OrderInv, Wrap
  <1> QED
    BY <1>8, <1>9, <1>10 DEF QInv

LEMMA NextQInv == QInv /\ [Next]_vars => QInv'
  <1> SUFFICES ASSUME QInv, [Next]_vars PROVE QInv'
    OBVIOUS
  <1>1. CASE \/ ReceivePacket \/ ComparePointers \/ AcceptPacket \/ DropPacket
             \/ CheckRoom \/ CompareForFeedback \/ ReportLoad \/ ReceiveEof
             \/ FinishDrain \/ CallFails \/ DeviceFails
    BY <1>1, QuietStep
  <1>2. CASE StoreByte
    BY <1>2, StoreStep
  <1>3. CASE AdvanceHead
    BY <1>3, AdvanceStep
  <1>4. CASE DrainFrame
    BY <1>4, TakeStep DEF DrainFrame
  <1>5. CASE PlayFrame
    BY <1>5, TakeStep DEF PlayFrame
  <1>6. CASE UNCHANGED vars
    BY <1>6 DEF vars, queueVars, QInv, TypeOK, RoomInv, CompareInv, OrderInv, Load, Wrap
  <1> QED
    BY <1>1, <1>2, <1>3, <1>4, <1>5, <1>6 DEF Next

(***************************************************************************)
(* A packet is copied into the queue whole or not at all, wherever the     *)
(* signal handler interrupts write_queue.                                  *)
(***************************************************************************)
THEOREM PacketsStayWhole == Spec => []NeverHalfWritten
  <1>1. QInv => NeverHalfWritten
    BY NotFull DEF NeverHalfWritten
  <1> QED
    BY <1>1, InitQInv, NextQInv, PTL DEF Spec

(***************************************************************************)
(* The load main decides on and reports is never below the true one.       *)
(***************************************************************************)
THEOREM LoadIsSafe == Spec => []LoadNeverLow
  <1>1. QInv => LoadNeverLow
    BY ReadFacts DEF LoadNeverLow
  <1> QED
    BY <1>1, InitQInv, NextQInv, PTL DEF Spec

(***************************************************************************)
(* Both pointers index the array, and played is a sequence of bytes.       *)
(***************************************************************************)
THEOREM QueueTypeCorrect == Spec => []TypeOK
  <1>1. QInv => TypeOK
    BY DEF QInv
  <1> QED
    BY <1>1, InitQInv, NextQInv, PTL DEF Spec

-----------------------------------------------------------------------------
(* Why a packet is dropped. *)

(* Until write_queue has decided, the handler can only have made room.      *)
CallInv == pc \in {"compare", "decide"} => Load <= callLoad

LEMMA InitCallInv == Init => CallInv
  BY DEF Init, CallInv

LEMMA NextCallInv == QInv /\ CallInv /\ [Next]_vars => CallInv'
  <1> SUFFICES ASSUME QInv, CallInv, [Next]_vars PROVE CallInv'
    OBVIOUS
  <1>1. Load \in Nat /\ callLoad \in Nat
    BY LoadFacts, ConstFacts DEF QInv, TypeOK
  <1>2. CASE ReceivePacket
    <2>1. Load' = Load /\ callLoad' = Load
      BY <1>2 DEF ReceivePacket, Load, queueVars
    <2> QED
      BY <1>1, <2>1 DEF CallInv
  <1>3. CASE ComparePointers
    <2>1. Load' = Load /\ callLoad' = callLoad /\ pc = "compare"
      BY <1>3 DEF ComparePointers, Load, queueVars
    <2> QED
      BY <2>1 DEF CallInv
  <1>4. CASE DrainFrame \/ PlayFrame
    <2>1. FrameReady /\ TakeFrame /\ callLoad' = callLoad /\ pc' = pc
      BY <1>4 DEF DrainFrame, PlayFrame
    <2>2. Load' = Load - Frame
      BY <2>1, TakeFacts DEF QInv
    <2> QED
      BY <1>1, <2>1, <2>2, ConstFacts DEF CallInv
  <1>5. CASE \/ AcceptPacket \/ DropPacket \/ CheckRoom \/ StoreByte \/ AdvanceHead
             \/ CompareForFeedback \/ ReportLoad \/ ReceiveEof \/ FinishDrain
             \/ CallFails \/ DeviceFails
    <2>1. pc' \notin {"compare", "decide"}
      BY <1>5 DEF AcceptPacket, DropPacket, CheckRoom, StoreByte, AdvanceHead,
         CompareForFeedback, ReportLoad, ReceiveEof, FinishDrain, CallFails, DeviceFails
    <2> QED
      BY <2>1 DEF CallInv
  <1>6. CASE UNCHANGED vars
    BY <1>6 DEF vars, queueVars, CallInv, Load
  <1> QED
    BY <1>2, <1>3, <1>4, <1>5, <1>6 DEF Next

(***************************************************************************)
(* A packet that fitted when write_queue was called is dropped only if the *)
(* handler took the read pointer past the end of the array between the     *)
(* comparison and the subtraction of get_queue_load.                       *)
(***************************************************************************)
THEOREM DropsExplained == Spec => DropExplained
  <1>1. ASSUME QInv, CallInv, DropPacket
        PROVE  callLoad + pending > Length - 1 \/ (wrapped /\ tail <= head)
    <2>1. /\ pc = "decide" /\ ~ (LoadRead + pending <= Length - 1) /\ Load <= callLoad
          /\ head >= tail \/ wrapped
      BY <1>1 DEF DropPacket, RoomForPacket, CallInv, QInv, CompareInv
    <2>2. /\ head \in Nat /\ tail \in Nat /\ pending \in Nat /\ callLoad \in Nat /\ Load \in Nat
          /\ Length \in Nat /\ wrapped \in BOOLEAN
      BY <1>1, LoadFacts, ConstFacts DEF QInv, TypeOK
    <2>3. ASSUME ~ (wrapped /\ tail <= head) PROVE LoadRead = Load
      BY <2>1, <2>2, <2>3 DEF LoadRead, Load
    <2>4. CASE LoadRead = Load
      BY <2>1, <2>2, <2>4
    <2> QED
      BY <2>3, <2>4
  <1>2. QInv /\ CallInv /\ [Next]_vars
          => [DropPacket => callLoad + pending > Length - 1 \/ (wrapped /\ tail <= head)]_vars
    BY <1>1
  <1> QED
    BY <1>2, InitQInv, NextQInv, InitCallInv, NextCallInv, PTL DEF Spec, DropExplained

-----------------------------------------------------------------------------
(* The circular queue implements AudioFifo. *)

(* Contents depends on these alone. *)
LEMMA ContentsFacts ==
  ASSUME QInv
  PROVE  Contents = [i \in 1 .. Load |-> Len(played) + i]
  BY DEF Contents, QInv, OrderInv

LEMMA SameContents ==
  ASSUME QInv, QInv', Load' = Load, played' = played
  PROVE  Contents' = Contents
  <1>1. Contents' = [i \in 1 .. Load' |-> Len(played') + i]
    BY DEF Contents, QInv, OrderInv, Wrap
  <1> QED
    BY <1>1, ContentsFacts

LEMMA PutImplements ==
  ASSUME QInv, AdvanceHead
  PROVE  Fifo!Put
  <1>1. QInv'
    BY AdvanceStep
  <1>2. /\ Load \in Nat /\ Load + 1 <= Length - 1
        /\ head' = Wrap(head + 1) /\ tail' = tail /\ played' = played
    <2>1. head' = Wrap(head + 1) /\ tail' = tail /\ played' = played /\ pc = "advance"
      BY DEF AdvanceHead
    <2>2. TypeOK /\ pending \in Nat /\ pending >= 1 /\ Load + pending <= Length - 1
      BY <2>1, ConstFacts DEF QInv, TypeOK, RoomInv
    <2>3. Load \in Nat
      BY <2>2, LoadFacts
    <2> QED
      BY <2>1, <2>2, <2>3, ConstFacts
  <1>3. Load' = Load + 1
    BY <1>2, AdvanceFacts DEF QInv
  <1>4. Contents = [i \in 1 .. Load |-> Len(played) + i]
    BY ContentsFacts
  <1>5. Contents' = [i \in 1 .. Load + 1 |-> Len(played) + i]
    BY <1>1, <1>2, <1>3 DEF Contents, QInv, OrderInv, Wrap
  <1>6. Len(played) \in Nat
    BY DEF QInv, TypeOK
  <1>7. Contents \in Seq(Nat) /\ Len(Contents) = Load
    BY <1>2, <1>4, <1>6
  <1>8. Contents' = Append(Contents, Len(played) + Len(Contents) + 1)
    BY <1>2, <1>4, <1>5, <1>6, <1>7
  <1> QED
    BY <1>2, <1>7, <1>8, ConstFacts DEF Fifo!Put

LEMMA PlayImplements ==
  ASSUME QInv, FrameReady, TakeFrame,
         UNCHANGED <<pc, pending, wrapped, callLoad, streaming, received, written>>
  PROVE  Fifo!Play
  <1>1. QInv'
    BY TakeStep
  <1>2. Load \in Nat /\ Frame <= Load /\ Load' = Load - Frame
    BY LoadFacts, TakeFacts, ConstFacts DEF QInv, FrameReady
  <1>3. Contents = [i \in 1 .. Load |-> Len(played) + i]
    BY ContentsFacts
  <1>4. played \in Seq(Nat) /\ Len(played) \in Nat /\ played' = played \o SubSeq(Contents, 1, Frame)
    BY DEF QInv, TypeOK, TakeFrame
  <1>5. Contents \in Seq(Nat) /\ Len(Contents) = Load
    BY <1>2, <1>3, <1>4
  <1>6. Len(played') = Len(played) + Frame
    <2>1. SubSeq(Contents, 1, Frame) \in Seq(Nat) /\ Len(SubSeq(Contents, 1, Frame)) = Frame
      BY <1>2, <1>5, ConstFacts
    <2> QED
      BY <1>4, <2>1
  <1>7. Contents' = [i \in 1 .. Load - Frame |-> (Len(played) + Frame) + i]
    BY <1>1, <1>2, <1>6 DEF Contents, QInv, OrderInv, Wrap
  <1>8. SubSeq(Contents, Frame + 1, Load) = [i \in 1 .. Load - Frame |-> (Len(played) + Frame) + i]
    BY <1>2, <1>3, <1>4, <1>5, ConstFacts
  <1> QED
    BY <1>2, <1>4, <1>5, <1>7, <1>8 DEF Fifo!Play

LEMMA NextImplementsFifo ==
  ASSUME QInv, [Next]_vars
  PROVE  [Fifo!Next]_(Fifo!fifoVars)
  <1>1. CASE \/ ReceivePacket \/ ComparePointers \/ AcceptPacket \/ DropPacket
             \/ CheckRoom \/ CompareForFeedback \/ ReportLoad \/ ReceiveEof
             \/ FinishDrain \/ CallFails \/ DeviceFails
    <2>1. UNCHANGED <<queueVars, played>>
      BY <1>1 DEF ReceivePacket, ComparePointers, AcceptPacket, DropPacket, CheckRoom,
                  CompareForFeedback, ReportLoad, ReceiveEof, FinishDrain, CallFails, DeviceFails
    <2> QED
      BY <2>1 DEF queueVars, Contents, Load, Wrap, Fifo!fifoVars
  <1>2. CASE StoreByte
    <2>1. QInv' /\ Load' = Load /\ played' = played
      BY <1>2, StoreStep DEF StoreByte, Load
    <2> QED
      BY <2>1, SameContents DEF Fifo!fifoVars
  <1>3. CASE AdvanceHead
    BY <1>3, PutImplements DEF Fifo!Next
  <1>4. CASE DrainFrame
    BY <1>4, PlayImplements DEF DrainFrame, Fifo!Next
  <1>5. CASE PlayFrame
    BY <1>5, PlayImplements DEF PlayFrame, Fifo!Next
  <1>6. CASE UNCHANGED vars
    BY <1>6 DEF vars, queueVars, Contents, Load, Wrap, Fifo!fifoVars
  <1> QED
    BY <1>1, <1>2, <1>3, <1>4, <1>5, <1>6 DEF Next

(***************************************************************************)
(* The unlocked circular queue is a bounded FIFO: every byte accepted is   *)
(* played at most once and in order, and none is overwritten before.       *)
(***************************************************************************)
THEOREM QueueIsFifo == Spec => FifoImplemented
  <1>1. Init => Fifo!Init
    BY DEF Init, Fifo!Init, Contents, Load
  <1>2. QInv /\ [Next]_vars => [Fifo!Next]_(Fifo!fifoVars)
    BY NextImplementsFifo
  <1> QED
    BY <1>1, <1>2, InitQInv, NextQInv, PTL DEF Spec, FifoImplemented, Fifo!Spec

-----------------------------------------------------------------------------
(* Arithmetic of the integers. *)

LEMMA DivFacts ==
  ASSUME NEW a \in Int, NEW b \in Nat, b > 0
  PROVE  a \div b \in Int /\ (a \div b) * b <= a /\ a < (a \div b) * b + b
  OBVIOUS

LEMMA ProductSign ==
  ASSUME NEW a \in Int, NEW b \in Nat
  PROVE  /\ a * b \in Int /\ b * a = a * b
         /\ a >= 0 => a * b >= 0
         /\ a <= 0 => a * b <= 0
  OBVIOUS

LEMMA ProductOrder ==
  ASSUME NEW a \in Int, NEW b \in Int, NEW c \in Nat, a <= b
  PROVE  a * c <= b * c
  OBVIOUS

LEMMA DivAtLeast ==
  ASSUME NEW a \in Int, NEW b \in Nat, b > 0, NEW c \in Int, c * b <= a
  PROVE  c <= a \div b
  <1>1. PICK d \in Int : d = a \div b
    BY DivFacts
  <1>2. a < d * b + b /\ c * b < (d + 1) * b
    BY <1>1, DivFacts
  <1>3. ASSUME d + 1 <= c PROVE FALSE
    BY <1>2, <1>3, ProductOrder
  <1> QED
    BY <1>1, <1>3

LEMMA DivAtMost ==
  ASSUME NEW a \in Int, NEW b \in Nat, b > 0, NEW c \in Int, a <= c * b
  PROVE  a \div b <= c
  <1>1. PICK d \in Int : d = a \div b
    BY DivFacts
  <1>2. d * b <= c * b
    BY <1>1, DivFacts
  <1>3. ASSUME c + 1 <= d PROVE FALSE
    <2>1. (c + 1) * b <= d * b
      BY <1>3, ProductOrder
    <2> QED
      BY <1>2, <2>1
  <1> QED
    BY <1>1, <1>3

LEMMA DivSign ==
  ASSUME NEW a \in Int, NEW b \in Nat, b > 0
  PROVE  /\ a \div b \in Int
         /\ a >= 0 => a \div b >= 0
         /\ a <= 0 => a \div b <= 0
  <1>1. 0 * b = 0
    OBVIOUS
  <1> QED
    BY <1>1, DivFacts, DivAtLeast, DivAtMost

(* Less is taken less often, and goes the more often into the same. *)
LEMMA DivOrder ==
  ASSUME NEW a \in Nat, NEW b \in Nat, b > 0, NEW c \in Nat, b <= c
  PROVE  a \div c <= a \div b
  <1>1. PICK d \in Int : d = a \div c
    BY DivSign
  <1>2. d >= 0 /\ d * c <= a
    BY <1>1, DivSign, DivFacts
  <1>3. b * d <= c * d
    BY <1>2, ProductOrder
  <1>4. d * b <= a
    BY <1>2, <1>3
  <1> QED
    BY <1>1, <1>4, DivAtLeast

-----------------------------------------------------------------------------
(* The congestion control. *)

LEMMA ControlConsts ==
  /\ Blocksize \in Nat /\ Blocksize > 0 /\ MaxLoad \in Nat /\ Target \in Nat /\ Consumption \in Nat
  /\ EpsilonN \in Nat /\ BetaN \in Nat /\ AlphaN \in Nat /\ K \in Nat /\ K > 0
  /\ StartRates \subseteq 0 .. 1000 /\ MaxFeedback \in Nat /\ Scale \in Nat /\ Scale > 0
  <1>1. Scale \in Nat \ {0} /\ MaxFeedback \in Nat
    BY ScaleAssumption, Zenon DEF ScaleAssumption
  <1> QED
    BY <1>1, SizesAssumption, GainsAssumption, StartAssumption
       DEF SizesAssumption, GainsAssumption, StartAssumption

LEMMA Gains == Epsilon \in Nat /\ Beta \in Nat /\ Alpha \in Nat
  BY ControlConsts DEF Epsilon, Beta, Alpha

(* The first term of an update has the sign of what the queue lacks.        *)
LEMMA ProportionalFacts ==
  ASSUME NEW q \in 0 .. MaxLoad
  PROVE  /\ Proportional(q) \in Int
         /\ q < Target => Proportional(q) >= 0
         /\ q > Target => Proportional(q) <= 0
         /\ q = Target => Proportional(q) = 0
  <1>1. PICK d \in Int : d = OccupancyDiff(q)
    BY ControlConsts DEF OccupancyDiff
  <1>2. (q <= Target => d >= 0) /\ (q >= Target => d <= 0)
    BY <1>1, ControlConsts DEF OccupancyDiff
  <1>3. PICK n \in Int : n = Epsilon * d
    BY <1>1, Gains
  <1>4. (d >= 0 => n >= 0) /\ (d <= 0 => n <= 0)
    BY <1>3, Gains, ProductSign
  <1>5. PICK m \in Int : m = n * Scale
    BY <1>3, ControlConsts
  <1>6. (n >= 0 => m >= 0) /\ (n <= 0 => m <= 0)
    BY <1>5, ControlConsts, ProductSign
  <1>7. Proportional(q) = m \div K
    BY <1>1, <1>3, <1>5 DEF Proportional
  <1>8. m \div K \in Int /\ (m >= 0 => m \div K >= 0) /\ (m <= 0 => m \div K <= 0)
    BY ControlConsts, DivSign
  <1> QED
    BY <1>2, <1>4, <1>6, <1>7, <1>8, ControlConsts

(* The second is against what comes in too fast, and with a moderate beta   *)
(* at most twice that.                                                      *)
LEMMA InfluxFacts ==
  ASSUME rate \in Nat
  PROVE  /\ NetInflux \in Int /\ (Beta * NetInflux) \div K \in Int
         /\ NetInflux >= 0 => (Beta * NetInflux) \div K >= 0
         /\ NetInflux <= 0 => (Beta * NetInflux) \div K <= 0
         /\ Beta <= 2 * K =>
              /\ NetInflux >= 0 => (Beta * NetInflux) \div K <= 2 * NetInflux
              /\ NetInflux <= 0 => (Beta * NetInflux) \div K >= 2 * NetInflux
  <1>1. PICK x \in Int : x = NetInflux
    BY ControlConsts DEF NetInflux
  <1>2. PICK n \in Int : n = Beta * x
    BY Gains
  <1>3. (x >= 0 => n >= 0) /\ (x <= 0 => n <= 0)
    BY <1>2, Gains, ProductSign
  <1>4. n \div K \in Int /\ (n >= 0 => n \div K >= 0) /\ (n <= 0 => n \div K <= 0)
    BY ControlConsts, DivSign
  <1>5. ASSUME Beta <= 2 * K, x >= 0 PROVE n \div K <= 2 * x
    <2>1. Beta * x <= (2 * K) * x
      BY <1>5, Gains, ControlConsts, ProductOrder
    <2>2. (2 * K) * x = (2 * x) * K
      BY ControlConsts
    <2> QED
      BY <1>2, <2>1, <2>2, ControlConsts, DivAtMost
  <1>6. ASSUME Beta <= 2 * K, x <= 0 PROVE n \div K >= 2 * x
    <2>1. PICK y \in Nat : y = -x
      BY <1>6
    <2>2. Beta * y <= (2 * K) * y
      BY <1>6, Gains, ControlConsts, ProductOrder
    <2>3. (2 * K) * y = -((2 * x) * K) /\ Beta * y = -n
      BY <1>2, <2>1, Gains, ControlConsts
    <2>4. (2 * x) * K <= n
      BY <2>2, <2>3, ControlConsts
    <2> QED
      BY <2>4, ControlConsts, DivAtLeast
  <1> QED
    BY <1>1, <1>2, <1>3, <1>4, <1>5, <1>6

(* Method E makes a step of method D smaller. *)
LEMMA DampedFacts ==
  ASSUME NEW v \in Int
  PROVE  /\ (v * K) \div (K + Alpha) \in Int
         /\ v >= 0 => 0 <= (v * K) \div (K + Alpha) /\ (v * K) \div (K + Alpha) <= v
         /\ v <= 0 => v <= (v * K) \div (K + Alpha) /\ (v * K) \div (K + Alpha) <= 0
  <1>1. PICK b \in Nat : b = K + Alpha /\ b > 0
    BY Gains, ControlConsts
  <1>2. PICK n \in Int : n = v * K
    BY ControlConsts
  <1>3. (v >= 0 => n >= 0) /\ (v <= 0 => n <= 0)
    BY <1>2, ControlConsts, ProductSign
  <1>4. n \div b \in Int /\ (n >= 0 => n \div b >= 0) /\ (n <= 0 => n \div b <= 0)
    BY <1>1, DivSign
  <1>5. PICK e \in Int : e = v * Alpha
    BY Gains
  <1>6. (v >= 0 => e >= 0) /\ (v <= 0 => e <= 0)
    BY <1>5, Gains, ProductSign
  <1>7. v * b = n + e
    BY <1>1, <1>2, <1>5, Gains, ControlConsts
  <1>8. ASSUME v >= 0 PROVE n \div b <= v
    BY <1>1, <1>6, <1>7, <1>8, DivAtMost
  <1>9. ASSUME v <= 0 PROVE v <= n \div b
    BY <1>1, <1>6, <1>7, <1>9, DivAtLeast
  <1> QED
    BY <1>1, <1>2, <1>3, <1>4, <1>8, <1>9

(* An update adds the first term (method C) or part of the first without    *)
(* the second.                                                              *)
LEMMA UpdateFacts ==
  ASSUME ControlTypeOK, method # "idle", NEW q \in 0 .. MaxLoad
  PROVE  \E m \in Int :
           /\ NewRate(q) = rate + m
           /\ method = "C" => m = Proportional(q)
           /\ method # "C" =>
                LET v == Proportional(q) - (Beta * NetInflux) \div K IN
                (v >= 0 => 0 <= m /\ m <= v) /\ (v <= 0 => v <= m /\ m <= 0)
  <1>1. rate \in Nat /\ method \in {"C", "D", "E"}
    BY DEF ControlTypeOK
  <1>2. Proportional(q) \in Int
    BY ProportionalFacts
  <1>3. PICK v \in Int : v = Proportional(q) - (Beta * NetInflux) \div K
    BY <1>1, <1>2, InfluxFacts
  <1>4. CASE method = "C"
    BY <1>2, <1>4 DEF NewRate
  <1>5. CASE method = "D"
    <2>1. NewRate(q) = rate + v
      BY <1>3, <1>5 DEF NewRate, Corrected
    <2> QED
      BY <1>3, <1>5, <2>1
  <1>6. CASE method = "E"
    <2>1. PICK m \in Int : m = (v * K) \div (K + Alpha)
      BY DampedFacts
    <2>2. NewRate(q) = rate + m
      BY <1>3, <1>6, <2>1 DEF NewRate, Corrected
    <2>3. (v >= 0 => 0 <= m /\ m <= v) /\ (v <= 0 => v <= m /\ m <= 0)
      BY <2>1, DampedFacts
    <2> QED
      BY <1>3, <1>6, <2>2, <2>3
  <1> QED
    BY <1>1, <1>4, <1>5, <1>6

(* A rate that is not too low has one interval, the longer the lower it is. *)
IntervalOf(r) == IF r = 0 THEN MAX_PSPACING_MS ELSE Clamped(Millis(r))

LEMMA MillisFacts ==
  ASSUME NEW r \in Nat, r > 0
  PROVE  1000 * Blocksize * Scale \in Nat /\ Millis(r) \in Nat
  <1>1. PICK a \in Nat : a = 1000 * Blocksize * Scale
    BY ControlConsts
  <1>2. a \div r \in Int /\ a \div r >= 0
    BY DivSign
  <1> QED
    BY <1>1, <1>2 DEF Millis

LEMMA IntervalFacts ==
  ASSUME NEW r \in Nat
  PROVE  /\ IntervalOf(r) \in 0 .. MAX_PSPACING_MS
         /\ ToPspacingMs(r) \subseteq 0 .. MAX_PSPACING_MS
         /\ ~Unfit(r) => ToPspacingMs(r) = {IntervalOf(r)}
         /\ Unfit(r) \in BOOLEAN
  <1>1. CASE r = 0
    BY <1>1 DEF IntervalOf, ToPspacingMs, MAX_PSPACING_MS, Unfit
  <1>2. CASE r > 0
    <2>1. PICK m \in Nat : m = Millis(r)
      BY <1>2, MillisFacts
    <2>2. PICK w : w = 2 ^ 16
      OBVIOUS
    <2>3. m % w \in Nat
      <3>1. 2 ^ 16 = 65536
        OBVIOUS
      <3> QED
        BY <2>2, <3>1
    <2>4. Clamped(m) \in 0 .. MAX_PSPACING_MS /\ Clamped(m % w) \in 0 .. MAX_PSPACING_MS
      <3>1. \A n \in Nat : Clamped(n) \in 0 .. MAX_PSPACING_MS
        BY DEF Clamped, MAX_PSPACING_MS
      <3> QED
        BY <2>3, <3>1
    <2> QED
      BY <1>2, <2>1, <2>2, <2>4 DEF IntervalOf, ToPspacingMs, MAX_PSPACING_MS, Unfit
  <1> QED
    BY <1>1, <1>2

LEMMA IntervalOrder ==
  ASSUME NEW r \in Nat, NEW t \in Nat, r <= t
  PROVE  IntervalOf(r) >= IntervalOf(t)
  <1>1. CASE r = 0
    <2>1. IntervalOf(t) \in 0 .. MAX_PSPACING_MS
      BY IntervalFacts
    <2>2. IntervalOf(r) = MAX_PSPACING_MS
      BY <1>1 DEF IntervalOf
    <2> QED
      BY <2>1, <2>2 DEF MAX_PSPACING_MS
  <1>2. CASE r > 0
    <2>1. PICK a \in Nat : a = 1000 * Blocksize * Scale
      BY <1>2, MillisFacts
    <2>2. a \div t <= a \div r
      BY <1>2, DivOrder
    <2>3. PICK m \in Nat, n \in Nat : m = Millis(r) /\ n = Millis(t)
      BY <1>2, MillisFacts
    <2>4. n <= m
      BY <2>1, <2>2, <2>3 DEF Millis
    <2>5. Clamped(n) <= Clamped(m)
      BY <2>4 DEF Clamped, MAX_PSPACING_MS
    <2> QED
      BY <1>2, <2>3, <2>5 DEF IntervalOf
  <1> QED
    BY <1>1, <1>2

(* Between two updates the interval is that of the rate. *)
IntervalInv ==
  /\ method = "idle" => interval = None
  /\ interval # None /\ ~Unfit(rate) => interval = IntervalOf(rate)

ControlInv == ControlTypeOK /\ IntervalInv

LEMMA InitControlInv == ControlInit => ControlInv
  BY ControlConsts DEF ControlInit, ControlInv, ControlTypeOK, IntervalInv

LEMMA FeedbackFacts ==
  ASSUME ControlTypeOK, SendFeedback
  PROVE  /\ method # "idle" /\ method' = method /\ given' = given
         /\ feedbacks < MaxFeedback /\ feedbacks' = feedbacks + 1
         /\ load' \in 0 .. MaxLoad /\ rate' \in Nat
         /\ rate' = NotNegative(NewRate(load'))
         /\ interval' \in 0 .. MAX_PSPACING_MS /\ interval' # None
         /\ ~Unfit(rate') => interval' = IntervalOf(rate')
  <1>1. /\ method # "idle" /\ method' = method /\ given' = given
        /\ feedbacks < MaxFeedback /\ feedbacks' = feedbacks + 1
        /\ load' \in 0 .. MaxLoad /\ rate' = NotNegative(NewRate(load'))
        /\ interval' \in ToPspacingMs(rate')
    BY DEF SendFeedback
  <1>2. PICK q \in 0 .. MaxLoad : q = load'
    BY <1>1
  <1>3. NewRate(q) \in Int
    BY <1>1, UpdateFacts DEF ControlTypeOK
  <1>4. PICK r \in Nat : r = rate'
    BY <1>1, <1>2, <1>3 DEF NotNegative
  <1>5. interval' \in 0 .. MAX_PSPACING_MS /\ (~Unfit(r) => interval' = IntervalOf(r))
    BY <1>1, <1>4, IntervalFacts
  <1> QED
    BY <1>1, <1>4, <1>5 DEF None, MAX_PSPACING_MS

LEMMA NextControlInv == ControlInv /\ [ControlNext]_controlVars => ControlInv'
  <1> SUFFICES ASSUME ControlInv, [ControlNext]_controlVars PROVE ControlInv'
    OBVIOUS
  <1>1. CASE GetConfig
    <2>1. PICK pps \in StartRates : rate' = pps * Blocksize * Scale
      BY <1>1 DEF GetConfig
    <2>2. rate' \in Nat
      <3>1. pps \in Nat
        BY <2>1, ControlConsts
      <3>2. PICK b \in Nat : b = pps * Blocksize
        BY <3>1, ControlConsts
      <3> QED
        BY <2>1, <3>2, ControlConsts
    <2>3. ControlTypeOK'
      BY <1>1, <2>2 DEF GetConfig, ControlInv, ControlTypeOK
    <2> QED
      BY <1>1, <2>3 DEF GetConfig, ControlInv, IntervalInv
  <1>2. CASE SendFeedback
    <2>1. ControlTypeOK'
      BY <1>2, FeedbackFacts, ControlConsts DEF ControlInv, ControlTypeOK
    <2>2. IntervalInv'
      BY <1>2, FeedbackFacts DEF ControlInv, IntervalInv, Unfit, IntervalOf, Millis
    <2> QED
      BY <2>1, <2>2 DEF ControlInv
  <1>3. CASE EndStream
    BY <1>3, ControlConsts DEF EndStream, ControlInv, ControlTypeOK, IntervalInv
  <1>4. CASE UNCHANGED controlVars
    BY <1>4 DEF controlVars, ControlInv, ControlTypeOK, IntervalInv, Unfit, IntervalOf, Millis
  <1> QED
    BY <1>1, <1>2, <1>3, <1>4 DEF ControlNext

LEMMA ControlInvariance == ControlSpec => []ControlInv
  BY InitControlInv, NextControlInv, PTL DEF ControlSpec

LEMMA OnlyFeedbackUpdates ==
  ASSUME ControlInv, [ControlNext]_controlVars, Updates
  PROVE  SendFeedback
  BY ControlConsts DEF ControlInv, ControlTypeOK, ControlNext, GetConfig, EndStream, controlVars, Updates

(***************************************************************************)
(* The rate stays a natural number, and the interval within the bounds     *)
(* send_feedback puts on it, for any parameters.                           *)
(***************************************************************************)
THEOREM ControlTypeCorrect == ControlSpec => []ControlTypeOK
  <1>1. ControlInv => ControlTypeOK
    BY DEF ControlInv
  <1> QED
    BY <1>1, ControlInvariance, PTL

(***************************************************************************)
(* Every update moves the rate the way the load calls for, for any gains,  *)
(* sizes and start rates.                                                  *)
(***************************************************************************)
THEOREM RateFollows == ControlSpec => RateFollowsLoad
  <1> DEFINE Moves ==
        Updates =>
          /\ load' < Target /\ (method = "C" \/ NetInflux <= 0) => rate' >= rate
          /\ load' > Target /\ (method = "C" \/ NetInflux >= 0) => rate' <= rate
          /\ load' = Target /\ method = "C" => rate' = rate
          /\ load' = Target /\ method # "C" /\ Beta <= 2 * K =>
               \/ rate' - Consumption * Scale \in {-NetInflux, NetInflux}
               \/ /\ rate' - Consumption * Scale < (IF NetInflux < 0 THEN -NetInflux ELSE NetInflux)
                  /\ Consumption * Scale - rate' < (IF NetInflux < 0 THEN -NetInflux ELSE NetInflux)
  <1>1. ASSUME ControlInv, SendFeedback
        PROVE  Moves
    <2>1. /\ method # "idle" /\ ControlTypeOK /\ rate' = NotNegative(NewRate(load'))
          /\ rate \in Nat /\ rate' \in Nat
      BY <1>1, FeedbackFacts DEF ControlInv, ControlTypeOK
    <2>2. PICK q \in 0 .. MaxLoad : q = load'
      BY <1>1, FeedbackFacts DEF ControlInv
    <2>3. PICK m \in Int :
            /\ NewRate(q) = rate + m
            /\ method = "C" => m = Proportional(q)
            /\ method # "C" =>
                 LET v == Proportional(q) - (Beta * NetInflux) \div K IN
                 (v >= 0 => 0 <= m /\ m <= v) /\ (v <= 0 => v <= m /\ m <= 0)
      BY <2>1, UpdateFacts
    <2>4. rate' = IF rate + m < 0 THEN 0 ELSE rate + m
      BY <2>1, <2>2, <2>3 DEF NotNegative
    <2>5. PICK x \in Int : x = NetInflux
      BY <2>1, InfluxFacts
    <2>6. PICK b \in Int : b = (Beta * NetInflux) \div K
      BY <2>1, InfluxFacts
    <2>7. /\ (x >= 0 => b >= 0) /\ (x <= 0 => b <= 0)
          /\ Beta <= 2 * K => (x >= 0 => b <= 2 * x) /\ (x <= 0 => b >= 2 * x)
      BY <2>1, <2>5, <2>6, InfluxFacts
    <2>8. PICK p \in Int : p = Proportional(q)
      BY ProportionalFacts
    <2>9. (q < Target => p >= 0) /\ (q > Target => p <= 0) /\ (q = Target => p = 0)
      BY <2>8, ProportionalFacts
    <2>10. /\ method = "C" => m = p
           /\ method # "C" =>
                (p - b >= 0 => 0 <= m /\ m <= p - b) /\ (p - b <= 0 => p - b <= m /\ m <= 0)
      BY <2>3, <2>6, <2>8
    <2>11. PICK c \in Nat : c = Consumption * Scale /\ x = rate - c
      BY <2>1, <2>5, ControlConsts DEF NetInflux
    <2>12. load' < Target /\ (method = "C" \/ NetInflux <= 0) => rate' >= rate
      BY <2>1, <2>2, <2>4, <2>5, <2>7, <2>9, <2>10
    <2>13. load' > Target /\ (method = "C" \/ NetInflux >= 0) => rate' <= rate
      BY <2>1, <2>2, <2>4, <2>5, <2>7, <2>9, <2>10
    <2>14. load' = Target /\ method = "C" => rate' = rate
      BY <2>1, <2>2, <2>4, <2>9, <2>10
    <2>15. ASSUME load' = Target, method # "C", Beta <= 2 * K
           PROVE  \/ rate' - c \in {-x, x}
                  \/ /\ rate' - c < (IF x < 0 THEN -x ELSE x)
                     /\ c - rate' < (IF x < 0 THEN -x ELSE x)
      <3>1. /\ -b >= 0 => 0 <= m /\ m <= -b
            /\ -b <= 0 => -b <= m /\ m <= 0
        BY <2>2, <2>9, <2>10, <2>15
      <3>2. CASE x >= 0
        BY <2>1, <2>4, <2>7, <2>11, <2>15, <3>1, <3>2
      <3>3. CASE x < 0
        BY <2>1, <2>4, <2>7, <2>11, <2>15, <3>1, <3>3
      <3> QED
        BY <3>2, <3>3
    <2> QED
      BY <2>5, <2>11, <2>12, <2>13, <2>14, <2>15
  <1>2. ControlInv /\ [ControlNext]_controlVars => [Moves]_controlVars
    BY <1>1, OnlyFeedbackUpdates
  <1>3. [][Moves]_controlVars <=> RateFollowsLoad
    BY DEF RateFollowsLoad
  <1> HIDE DEF Moves
  <1> QED
    BY <1>2, <1>3, ControlInvariance, PTL DEF ControlSpec

(***************************************************************************)
(* The interval sent never falls with the rate, nor rises with it, unless  *)
(* one of the two rates is too low for it to fit 16 bits.                  *)
(***************************************************************************)
THEOREM IntervalFollows == ControlSpec => IntervalFollowsRate
  <1> DEFINE Follows ==
        Updates /\ interval # None /\ ~Unfit(rate) /\ ~Unfit(rate') =>
          /\ rate' <= rate => interval' >= interval
          /\ rate' >= rate => interval' <= interval
  <1>1. ASSUME ControlInv, SendFeedback
        PROVE  Follows
    <2>1. rate \in Nat /\ rate' \in Nat
      BY <1>1, FeedbackFacts DEF ControlInv, ControlTypeOK
    <2>2. ~Unfit(rate') => interval' = IntervalOf(rate')
      BY <1>1, FeedbackFacts DEF ControlInv
    <2>3. interval # None /\ ~Unfit(rate) => interval = IntervalOf(rate)
      BY <1>1 DEF ControlInv, IntervalInv
    <2>4. /\ rate' <= rate => IntervalOf(rate') >= IntervalOf(rate)
          /\ rate' >= rate => IntervalOf(rate') <= IntervalOf(rate)
      <3>1. PICK r \in Nat, t \in Nat : r = rate /\ t = rate'
        BY <2>1
      <3>2. IntervalOf(r) \in Int /\ IntervalOf(t) \in Int
        <4>1. IntervalOf(r) \in 0 .. MAX_PSPACING_MS /\ IntervalOf(t) \in 0 .. MAX_PSPACING_MS
          BY IntervalFacts
        <4>2. \A n \in 0 .. MAX_PSPACING_MS : n \in Int
          BY DEF MAX_PSPACING_MS
        <4> QED
          BY <4>1, <4>2
      <3>3. (t <= r => IntervalOf(t) >= IntervalOf(r)) /\ (r <= t => IntervalOf(r) >= IntervalOf(t))
        BY IntervalOrder
      <3> QED
        BY <3>1, <3>2, <3>3
    <2> QED
      BY <2>2, <2>3, <2>4
  <1>2. ControlInv /\ [ControlNext]_controlVars => [Follows]_controlVars
    BY <1>1, OnlyFeedbackUpdates
  <1>3. [][Follows]_controlVars <=> IntervalFollowsRate
    BY DEF IntervalFollowsRate
  <1> HIDE DEF Follows
  <1> QED
    BY <1>2, <1>3, ControlInvariance, PTL DEF ControlSpec
==============================================================================
