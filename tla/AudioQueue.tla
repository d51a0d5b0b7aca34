----------------------------- MODULE AudioQueue -----------------------------
(***************************************************************************)
(* The playback buffer of lab5's audio client: the circular queue of       *)
(* queue.c, written by the main thread of audio_client.c for every packet  *)
(* received, and read by the SIGALRM handler every 313 ms.  There is no    *)
(* lock: the handler may run between any two accesses of main to the read  *)
(* pointer, and runs to its end before main goes on.                       *)
(*                                                                         *)
(* Main is the only writer of head, so its own reads of it need no step of *)
(* their own; each of its reads of tail is one step, as the build (-O0)    *)
(* loads it from memory every time.                                        *)
(***************************************************************************)
EXTENDS Integers, Sequences

CONSTANTS
  Length,       \* queue->length; the capacity is one less
  Frame,        \* AUDIO_FRAME_SIZE, what the handler reads at a time
  BlockSize,    \* the bytes a packet holds at most
  MaxBytes      \* bound on the bytes received

ASSUME QueueAssumption ==
  /\ Length \in Nat \ {0} /\ Frame \in Nat \ {0}
  /\ BlockSize \in Nat /\ MaxBytes \in Nat

VARIABLES
  pc,           \* where main is
  pending,      \* bytes of the packet still to be written
  wrapped,      \* get_queue_load found the read pointer ahead of head
  callLoad,     \* load when write_queue was called (history variable)
  streaming,    \* does the playback timer run?
  head, tail,   \* the queue's write and read pointer
  data,         \* the queue's bytes; 0 before one is written
  received,     \* bytes received
  written,      \* bytes accepted into the queue; byte n is the number n
  played        \* bytes given to the audio device

queueVars == <<head, tail, data>>
vars == <<pc, pending, wrapped, callLoad, streaming, queueVars, received, written, played>>

-----------------------------------------------------------------------------
(* queue.c. *)

(* Variant for mutation: the write pointer runs off the end. *)
WrapLate(i) == i % (Length + 1)

Wrap(i) == i % Length

(* What get_queue_load returns when nothing interrupts it. *)
Load == IF head >= tail THEN head - tail ELSE Length + head - tail

(* Variant for mutation: the pointers are taken not to wrap. *)
LoadReadUnwrapped == head - tail

(* What it returns to main, which read tail once already to compare. *)
LoadRead == IF wrapped THEN Length + head - tail ELSE head - tail

Full == Wrap(head + 1) = tail

(* Variant for mutation: a queue of as many bytes as the array. *)
Fits == LoadRead + pending <= Length

(* Variant for mutation: a packet that fills the queue does not fit. *)
RoomForPacketStrict == LoadRead + pending < Length - 1

RoomForPacket == LoadRead + pending <= Length - 1

Contents == [i \in 1 .. Load |-> data[Wrap(tail + i - 1)]]

(* Variant for mutation: the byte the read pointer points at is left out. *)
TakeFrameLate ==
  /\ tail' = Wrap(tail + Frame)
  /\ played' = played \o [i \in 1 .. Frame |-> data[Wrap(tail + i)]]
  /\ UNCHANGED <<head, data>>

(* read_queue: a whole frame at once, for nothing interrupts its caller. *)
TakeFrame ==
  /\ tail' = Wrap(tail + Frame)
  /\ played' = played \o SubSeq(Contents, 1, Frame)
  /\ UNCHANGED <<head, data>>

(* Variant for mutation: a frame is ready only when more than it is there. *)
FrameReadyLate == Load > Frame

FrameReady == Load >= Frame

-----------------------------------------------------------------------------
Init ==
  /\ pc = "receive" /\ pending = 0 /\ wrapped = FALSE /\ callLoad = 0
  /\ streaming = FALSE
  /\ head = 0 /\ tail = 0 /\ data = [i \in 0 .. Length - 1 |-> 0]
  /\ received = 0 /\ written = 0 /\ played = <<>>

-----------------------------------------------------------------------------
(* Main: the receive loop and write_queue. *)

(* A packet arrives; the first one starts the playback timer. *)
ReceivePacket ==
  /\ pc = "receive"
  /\ \E n \in 1 .. BlockSize :
       /\ received + n <= MaxBytes
       /\ received' = received + n
       /\ pending' = n
  /\ streaming' = TRUE
  /\ callLoad' = Load
  /\ pc' = "compare"
  /\ UNCHANGED <<wrapped, queueVars, written, played>>

(* get_queue_load in write_queue: compare the pointers... *)
ComparePointers ==
  /\ pc = "compare"
  /\ wrapped' = (head < tail)
  /\ pc' = "decide"
  /\ UNCHANGED <<pending, callLoad, streaming, queueVars, received, written, played>>

(* ... and subtract them: the packet fits... *)
AcceptPacket ==
  /\ pc = "decide" /\ RoomForPacket
  /\ pc' = "check"
  /\ UNCHANGED <<pending, wrapped, callLoad, streaming, queueVars, received, written, played>>

(* ... or is dropped as a whole. *)
DropPacket ==
  /\ pc = "decide" /\ ~RoomForPacket
  /\ pending' = 0
  /\ pc' = "feedback"
  /\ UNCHANGED <<wrapped, callLoad, streaming, queueVars, received, written, played>>

(* enqueue: if the queue is full after all, write_queue gives the rest up. *)
CheckRoom ==
  /\ pc = "check"
  /\ IF Full THEN pc' = "feedback" /\ pending' = 0
             ELSE pc' = "store" /\ UNCHANGED pending
  /\ UNCHANGED <<wrapped, callLoad, streaming, queueVars, received, written, played>>

StoreByte ==
  /\ pc = "store"
  /\ data' = [data EXCEPT ![head] = written + 1]
  /\ pc' = "advance"
  /\ UNCHANGED <<pending, wrapped, callLoad, streaming, head, tail, received, written, played>>

AdvanceHead ==
  /\ pc = "advance"
  /\ head' = Wrap(head + 1)
  /\ written' = written + 1
  /\ pending' = pending - 1
  /\ pc' = IF pending = 1 THEN "feedback" ELSE "check"
  /\ UNCHANGED <<wrapped, callLoad, streaming, tail, data, received, played>>

(* send_feedback reads the load again, in the same two steps. *)
CompareForFeedback ==
  /\ pc = "feedback"
  /\ wrapped' = (head < tail)
  /\ pc' = "report"
  /\ UNCHANGED <<pending, callLoad, streaming, queueVars, received, written, played>>

ReportLoad ==
  /\ pc = "report"
  /\ pc' = "receive" /\ wrapped' = FALSE /\ callLoad' = 0
  /\ UNCHANGED <<pending, streaming, queueVars, received, written, played>>

(* The empty packet: stop the timer and go on to drain the queue. *)
ReceiveEof ==
  /\ pc = "receive"
  /\ pc' = "drain" /\ streaming' = FALSE
  /\ UNCHANGED <<pending, wrapped, callLoad, queueVars, received, written, played>>

(* start_client's last loop.  With less than a frame in the queue            *)
(* read_queue fails, nothing changes, and the loop goes round again.         *)
DrainFrame ==
  /\ pc = "drain" /\ FrameReady
  /\ TakeFrame
  /\ UNCHANGED <<pc, pending, wrapped, callLoad, streaming, received, written>>

FinishDrain ==
  /\ pc = "drain" /\ Load = 0
  /\ pc' = "done"
  /\ UNCHANGED <<pending, wrapped, callLoad, streaming, queueVars, received, written, played>>

(* recvfrom, setitimer or the sendto of send_feedback fails: main returns. *)
CallFails ==
  /\ pc \in {"receive", "report"}
  /\ pc' = "failed" /\ streaming' = FALSE
  /\ UNCHANGED <<pending, wrapped, callLoad, queueVars, received, written, played>>

(* The audio device refuses the frame read: the client exits. *)
DeviceFails ==
  /\ streaming \/ pc = "drain"
  /\ FrameReady
  /\ pc' = "failed" /\ streaming' = FALSE
  /\ UNCHANGED <<pending, wrapped, callLoad, queueVars, received, written, played>>

-----------------------------------------------------------------------------
(* The SIGALRM handler.  With less than a frame in the queue it does nothing. *)

PlayFrame ==
  /\ streaming /\ FrameReady
  /\ TakeFrame
  /\ UNCHANGED <<pc, pending, wrapped, callLoad, streaming, received, written>>

-----------------------------------------------------------------------------
Next ==
  \/ ReceivePacket \/ ComparePointers \/ AcceptPacket \/ DropPacket
  \/ CheckRoom \/ StoreByte \/ AdvanceHead
  \/ CompareForFeedback \/ ReportLoad
  \/ ReceiveEof \/ DrainFrame \/ FinishDrain
  \/ CallFails \/ DeviceFails \/ PlayFrame

Spec == Init /\ [][Next]_vars

(* Main's loop at the end of the stream keeps running. *)
FairSpec == Spec /\ WF_vars(DrainFrame) /\ WF_vars(FinishDrain)

-----------------------------------------------------------------------------
(***************************************************************************)
(* Type invariant; both pointers stay inside the array, and so does the    *)
(* load main computes, which may be stale but never negative (it is a      *)
(* size_t in queue.c).                                                     *)
(***************************************************************************)
TypeOK ==
  /\ pc \in {"receive", "compare", "decide", "check", "store", "advance",
             "feedback", "report", "drain", "done", "failed"}
  /\ pending \in 0 .. BlockSize
  /\ wrapped \in BOOLEAN /\ streaming \in BOOLEAN
  /\ callLoad \in Nat
  /\ head \in 0 .. Length - 1 /\ tail \in 0 .. Length - 1
  /\ data \in [0 .. Length - 1 -> Nat]
  /\ received \in Nat /\ written \in Nat
  /\ played \in Seq(Nat)

(***************************************************************************)
(* A load main computes is never below the true one, wherever the handler  *)
(* interrupts it: the comment in audio_client.c calls it "not up-to-date", *)
(* and this is the side on which that is harmless.                         *)
(***************************************************************************)
LoadNeverLow == pc \in {"decide", "report"} => LoadRead >= Load

(***************************************************************************)
(* A packet write_queue starts to copy is copied to its end: the queue is  *)
(* not full at any byte of it, so no packet is cut in the middle.          *)
(***************************************************************************)
NeverHalfWritten == pc = "check" => ~Full

(***************************************************************************)
(* The circular queue, unlocked and interrupted anywhere, is a FIFO: the   *)
(* device gets the bytes accepted, each once and in order, and no byte is  *)
(* overwritten before it is played.                                        *)
(***************************************************************************)
Fifo == INSTANCE AudioFifo
          WITH Capacity <- Length - 1, buffered <- Contents

FifoImplemented == Fifo!Spec

(***************************************************************************)
(* A packet that fitted when write_queue was called is dropped for one     *)
(* reason only: the handler took the read pointer past the end of the      *)
(* array between the comparison and the subtraction of get_queue_load, and *)
(* the load is too high by the whole array (audio_client.c:236 expects it  *)
(* to be off by one).                                                      *)
(***************************************************************************)
DropExplained ==
  [][DropPacket => callLoad + pending > Length - 1 \/ (wrapped /\ tail <= head)]_vars

(***************************************************************************)
(* The loop that drains the queue after the end of the stream plays every  *)
(* whole frame and ends, unless the device fails or a rest of less than a  *)
(* frame stays, which read_queue does not take: then it never ends.        *)
(***************************************************************************)
DrainEnds ==
  pc = "drain" ~> pc \in {"done", "failed"} \/ (Load \in 1 .. Frame - 1)
=============================================================================
