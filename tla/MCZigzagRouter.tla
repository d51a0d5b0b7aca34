--------------------------- MODULE MCZigzagRouter ---------------------------
(* Small instances of ZigzagRouter for TLC. *)
EXTENDS ZigzagRouter

To(p, q) == [receive |-> p, send |-> q]

(* Two routers as in lab6/v1/README.md.  The table moves the sockets of the  *)
(* first from the ports the system chose, and keeps those of the second.     *)
TwoRouters == {"r1", "r2"}
TwoStart ==
  [r1 |-> [control |-> 10, forward |-> 18, return |-> 19],
   r2 |-> [control |-> 20, forward |-> 21, return |-> 22]]
TwoTarget == [c \in Clients |-> 11]
OneTable ==
  <<[r1 |-> [forward |-> To(11, 21), return |-> To(12, FillIn)],
     r2 |-> [forward |-> To(21, Server), return |-> To(22, 12)]]>>

(* One router whose forward port the second table moves. *)
OneRouter == {"r1"}
OneStart == [r1 |-> [control |-> 10, forward |-> 18, return |-> 19]]
OneTarget == [c \in Clients |-> 11]
MovedPort ==
  LET entry(p) == [forward |-> To(p, Server), return |-> To(12, FillIn)]
  IN  <<[r1 |-> entry(11)], [r1 |-> entry(13)], [r1 |-> entry(13)]>>
=============================================================================
