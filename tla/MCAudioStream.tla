--------------------------- MODULE MCAudioStream ---------------------------
(* A small instance of AudioStream for TLC. *)
EXTENDS AudioStream

(* One fault of every kind. *)
OneOfEach == [k \in FaultKinds |-> 1]
=============================================================================
