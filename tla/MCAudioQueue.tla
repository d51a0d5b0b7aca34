---------------------------- MODULE MCAudioQueue ----------------------------
(* Small instances of AudioQueue for TLC. *)
EXTENDS AudioQueue

(* A queue of two frames, as buffer_size is a multiple of the frame. *)
TwoFrames == 2 * Frame + 1
=============================================================================
