---------------------------- MODULE MCRoadRunner ----------------------------
(* Small instances of RoadRunner for TLC. *)
EXTENDS RoadRunner, TLC

Faults(loss, dup, early, error) ==
  [k \in FaultKinds |-> CASE k = "loss"  -> loss
                          [] k = "dup"   -> dup
                          [] k = "early" -> early
                          [] k = "error" -> error]

(* An early timeout and a failing process; what is never received is lost. *)
EarlyAndError == Faults(0, 0, 1, 1)

(* A network that loses, repeats and delays, and processes that do not fail. *)
NetworkFaults == Faults(2, 1, 1, 0)

(* Only losses. *)
LossOnly == Faults(1, 0, 0, 0)

Symmetry == Permutations(Children)
=============================================================================
