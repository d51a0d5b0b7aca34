---------------------------- MODULE MCFileOverTcp ----------------------------
(* Small instances of FileOverTcp for TLC. *)
EXTENDS FileOverTcp, TLC

(* One client asks for whatever there is, the others for the file. *)
AskAll(c) == c = CHOOSE x \in Clients : TRUE
OneOdd    == [c \in Clients |-> IF AskAll(c) THEN Kinds ELSE {"good"}]

SameDir == [c \in Clients |-> CHOOSE d \in Dirs : TRUE]
=============================================================================
