---------------------------- MODULE MCCommandFifo ----------------------------
(* Small instances of CommandFifo for TLC. *)
EXTENDS CommandFifo, TLC

OneOfEach == [k \in FaultKinds |-> 1]
=============================================================================
