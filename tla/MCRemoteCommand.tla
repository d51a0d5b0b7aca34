--------------------------- MODULE MCRemoteCommand ---------------------------
(* Small instances of RemoteCommand for TLC. *)
EXTENDS RemoteCommand, TLC

OneOfEach == [k \in FaultKinds |-> 1]

(* The clients admitted enter two commands, the others one. *)
TwoAndOne == [c \in Clients |-> IF c \in Admitted THEN 2 ELSE 1]
=============================================================================
