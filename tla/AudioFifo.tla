----------------------------- MODULE AudioFifo -----------------------------
(***************************************************************************)
(* What the playback buffer of lab5's audio client is meant to be: a       *)
(* bounded first-in first-out queue of bytes, filled a byte at a time and  *)
(* emptied a frame at a time.  The n-th byte put into it is the number n.  *)
(* Module AudioQueue, the circular queue of queue.c shared between main    *)
(* and a signal handler, implements this one.                              *)
(***************************************************************************)
EXTENDS Naturals, Sequences

CONSTANTS Capacity, Frame

VARIABLES
  buffered,     \* the bytes in the queue, oldest first
  played        \* the bytes given to the audio device

fifoVars == <<buffered, played>>

Init == buffered = <<>> /\ played = <<>>

Put ==
  /\ Len(buffered) < Capacity
  /\ buffered' = Append(buffered, Len(played) + Len(buffered) + 1)
  /\ UNCHANGED played

Play ==
  /\ Len(buffered) >= Frame
  /\ played' = played \o SubSeq(buffered, 1, Frame)
  /\ buffered' = SubSeq(buffered, Frame + 1, Len(buffered))

Next == Put \/ Play

Spec == Init /\ [][Next]_fifoVars
=============================================================================
