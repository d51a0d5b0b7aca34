---------------------------- MODULE FileTransfer ----------------------------
(***************************************************************************)
(* What lab4's roadrunner promises its user, window by window: the file    *)
(* the client writes grows by exactly the next window of the source file,  *)
(* and only after the server has learnt that the previous window arrived;  *)
(* the server learns of a window only after the client has written it.     *)
(* How (packets, acknowledgements, timers, retransmission) is left to      *)
(* module RoadRunner, which implements this one.                           *)
(***************************************************************************)
EXTENDS Naturals, Sequences

CONSTANT Source         \* the file of the server, a sequence of windows

VARIABLES
  written,              \* the windows the client has written, oldest first
  confirmed             \* how many of them the server knows of

ftVars == <<written, confirmed>>

Init == written = <<>> /\ confirmed = 0

Deliver ==
  /\ Len(written) = confirmed
  /\ confirmed < Len(Source)
  /\ written' = Append(written, Source[confirmed + 1])
  /\ UNCHANGED confirmed

Confirm ==
  /\ confirmed < Len(written)
  /\ confirmed' = confirmed + 1
  /\ UNCHANGED written

Next == Deliver \/ Confirm

Spec == Init /\ [][Next]_ftVars

(***************************************************************************)
(* The confirmation of the last window is not promised: the client has     *)
(* exited by then and nobody repeats its acknowledgement.                  *)
(***************************************************************************)
ConfirmInner == Confirm /\ confirmed + 1 < Len(Source)

FairSpec == Spec /\ WF_ftVars(Deliver) /\ WF_ftVars(ConfirmInner)
=============================================================================
