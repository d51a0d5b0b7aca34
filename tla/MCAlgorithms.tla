---------------------------- MODULE MCAlgorithms ----------------------------
(* Two sequential algorithms in one run: the one steps while the other is   *)
(* idle, so that their states add up and do not multiply.                   *)
EXTENDS ParseCommand, CongestionControl

Init == ParserInit /\ ControlInit

ParserStep ==
  /\ ReadLine \/ ParseChar \/ ParseEnd \/ ChildEnds
  /\ method = "idle" /\ UNCHANGED controlVars

ControlStep ==
  /\ GetConfig \/ SendFeedback \/ EndStream
  /\ shell = "prompt" /\ UNCHANGED parserVars

Next == ParserStep \/ ControlStep

Spec == Init /\ [][Next]_<<parserVars, controlVars>>
=============================================================================
