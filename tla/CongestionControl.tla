-------------------------- MODULE CongestionControl --------------------------
(***************************************************************************)
(* The congestion control of lab5's client: for each packet stored one of  *)
(* three methods updates the rate at which packets are asked for           *)
(* (lab5/lib/congestion_controls.c, lab5/v2/audiocli.c), and the rate is    *)
(* sent to the server as a packet interval in milliseconds                  *)
(* (send_feedback, lab5/lib/pspacing.c).                                    *)
(*                                                                         *)
(* Rates are integers, multiples of 1/Scale bytes per second.  Scale is a  *)
(* multiple of every denominator MaxFeedback updates make, so divisions     *)
(* are exact; the rounding of long doubles is left out.                     *)
(***************************************************************************)
EXTENDS Integers

CONSTANTS
  Blocksize, Target,           \* bytes
  MaxLoad,                     \* highest load get_queue_load returns, as AudioQueue has it
  Consumption,                 \* bytes per second taken by the audio device
  EpsilonN, BetaN, AlphaN, K,  \* the parameter file: N/K each
  StartRates,                  \* packets per second
  MaxFeedback,                 \* bound: packets stored in one run
  Scale

ASSUME SizesAssumption ==
  Blocksize \in Nat \ {0} /\ MaxLoad \in Nat /\ Target \in Nat /\ Consumption \in Nat
ASSUME GainsAssumption ==
  EpsilonN \in Nat /\ BetaN \in Nat /\ AlphaN \in Nat /\ K \in Nat \ {0}
ASSUME StartAssumption == StartRates \subseteq 0..1000
ASSUME ScaleAssumption ==
  MaxFeedback \in Nat /\ Scale \in Nat \ {0} /\ Scale % ((K * (K + AlphaN)) ^ MaxFeedback) = 0

None == -1

VARIABLES
  method,     \* "idle" before the client starts, then the method: "C", "D" or "E"
  given,      \* numbers the parameter file holds
  rate,       \* packets_per_second * blocksize, in units of 1/Scale
  load,       \* the queue's load seen by the last update
  interval,   \* packet_interval of the last feedback
  feedbacks

controlVars == <<method, given, rate, load, interval, feedbacks>>

MAX_PSPACING_MS == 2000

(* Types; in particular no rate is negative and no interval beyond its bounds. *)
ControlTypeOK ==
  /\ method \in {"idle", "C", "D", "E"}
  /\ given \in 0..3
  /\ rate \in Nat
  /\ load \in 0..MaxLoad
  /\ interval \in {None} \cup 0..MAX_PSPACING_MS
  /\ feedbacks \in 0..MaxFeedback

ControlInit == method = "idle" /\ given = 0 /\ rate = 0 /\ load = 0 /\ interval = None /\ feedbacks = 0

(* check_packets_per_second, and the numbers read; those missing are 0. *)
GetConfig ==
  /\ method = "idle"
  /\ method' \in {"C", "D", "E"} /\ given' \in 0..3
  /\ \E pps \in StartRates : rate' = pps * Blocksize * Scale
  /\ UNCHANGED <<load, interval, feedbacks>>

Epsilon == IF given >= 1 THEN EpsilonN ELSE 0
Beta    == IF given >= 2 THEN BetaN ELSE 0
Alpha   == IF given >= 3 THEN AlphaN ELSE 0

(* Variant for mutation: the difference in the type of its operands. *)
OccupancyDiffUnsigned(q) == (Target - q) % 2 ^ 16

OccupancyDiff(q) == Target - q

NetInflux == rate - Consumption * Scale

Proportional(q) == (Epsilon * OccupancyDiff(q) * Scale) \div K

Corrected(q) == Proportional(q) - (Beta * NetInflux) \div K

NewRate(q) ==
  rate + CASE method = "C" -> Proportional(q)
           [] method = "D" -> Corrected(q)
           [] method = "E" -> (Corrected(q) * K) \div (K + Alpha)

(* Variant for mutation: the rate is not cut at zero. *)
NotNegativeNot(r) == r

NotNegative(r) == IF r < 0 THEN 0 ELSE r

Clamped(ms) == IF ms > MAX_PSPACING_MS THEN MAX_PSPACING_MS ELSE ms

Millis(r) == (1000 * Blocksize * Scale) \div r

(* Variant for mutation: an interval for a rate of no packets. *)
ToPspacingMsNoZero(r) == {IF r = 0 THEN 0 ELSE Clamped(Millis(r))}

Unfit(r) == r > 0 /\ Millis(r) >= 2 ^ 16

(* The conversion of a value that does not fit 16 bits is undefined; the    *)
(* low 16 bits and both ends stand for what may come of it.                 *)
ToPspacingMs(r) ==
  IF r = 0 THEN {MAX_PSPACING_MS}
  ELSE IF Unfit(r) THEN {0, Clamped(Millis(r) % 2 ^ 16), MAX_PSPACING_MS}
  ELSE {Clamped(Millis(r))}

(* send_feedback.  If sendto fails the client ends, or goes on after a      *)
(* signal; either way the interval is what it is.                          *)
SendFeedback ==
  /\ method # "idle" /\ feedbacks < MaxFeedback
  /\ \E q \in 0..MaxLoad :
       load' = q /\ rate' = NotNegative(NewRate(q))
  /\ interval' \in ToPspacingMs(rate')
  /\ feedbacks' = feedbacks + 1
  /\ UNCHANGED <<method, given>>

(* The end of the stream. *)
EndStream ==
  /\ method # "idle"
  /\ method' = "idle" /\ given' = 0 /\ rate' = 0
  /\ load' = 0 /\ interval' = None /\ feedbacks' = 0

ControlNext == GetConfig \/ SendFeedback \/ EndStream

ControlSpec == ControlInit /\ [][ControlNext]_controlVars

-----------------------------------------------------------------------------
Updates == feedbacks' > feedbacks

(* An update moves the rate towards what the load calls for: with too      *)
(* little in the queue it does not fall, as long as packets do not already  *)
(* come faster than they are played, with too much it does not rise, and    *)
(* with the target reached method C keeps it while D and E take it no       *)
(* farther from what is played (with beta at most 2 (1 + alpha)).           *)
RateFollowsLoad ==
  [][Updates =>
       /\ load' < Target /\ (method = "C" \/ NetInflux <= 0) => rate' >= rate
       /\ load' > Target /\ (method = "C" \/ NetInflux >= 0) => rate' <= rate
       /\ load' = Target /\ method = "C" => rate' = rate
       /\ load' = Target /\ method # "C" /\ Beta <= 2 * K =>
            \/ rate' - Consumption * Scale \in {-NetInflux, NetInflux}
            \/ /\ rate' - Consumption * Scale < (IF NetInflux < 0 THEN -NetInflux ELSE NetInflux)
               /\ Consumption * Scale - rate' < (IF NetInflux < 0 THEN -NetInflux ELSE NetInflux)]_controlVars

(* The server is never told to hurry when the rate falls, nor to wait when  *)
(* it rises, a rate of no packets included.  Rates whose interval does not  *)
(* fit 16 bits, under one packet in 65.5 s, are excepted.                   *)
IntervalFollowsRate ==
  [][Updates /\ interval # None /\ ~Unfit(rate) /\ ~Unfit(rate') =>
       /\ rate' <= rate => interval' >= interval
       /\ rate' >= rate => interval' <= interval]_controlVars
=============================================================================
