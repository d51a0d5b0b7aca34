---------------------------- MODULE ShellProofs ----------------------------
(***************************************************************************)
(* Proofs about lab1: the command server (CommandFifo), for any clients,   *)
(* sizes of requests and of a read, and faults; and the parser of its      *)
(* commands (ParseCommand), for lines of any length.                       *)
(***************************************************************************)
EXTENDS CommandFifo, ParseCommand, FiniteSetTheorems, FunctionTheorems, SequenceTheorems,
        WellFoundedInduction, TLAPS

-----------------------------------------------------------------------------
(* The inductive invariant. *)

(* Client c is waiting for its answer, or was stopped while it did. *)
Outstanding(c) == pc[c] = "wait" \/ (pc[c] = "ended" /\ faults["interrupt"] > 0)

(* The FIFO holds at most one request of a client, its latest, and none of   *)
(* the client the child works for.                                           *)
RequestInv ==
  \A i \in 1 .. Len(pipe) :
    /\ pipe[i].num = sent[pipe[i].client] /\ pipe[i].pid = pipe[i].client
    /\ Outstanding(pipe[i].client) /\ pipe[i].client # child.client
    /\ \A j \in 1 .. Len(pipe) : j # i => pipe[j].client # pipe[i].client

(* The child works for a client that waits or reads. *)
ChildInv ==
  child.at # "none" =>
    /\ child.pid = child.client /\ child.num = sent[child.client]
    /\ child.at # "run" => Outstanding(child.client)
    /\ child.at = "run" =>
         pc[child.client] = "read" \/ (pc[child.client] = "ended" /\ faults["interrupt"] > 0)

IInv == TypeOK /\ NameKept /\ (~cut => RequestInv /\ ChildInv /\ OwnAnswer)

-----------------------------------------------------------------------------
LEMMA Names == Nobody \notin Clients /\ NoPid \notin Clients
  BY FifoAssumption, Zenon DEF FifoAssumption

LEMMA PipeFacts ==
  ASSUME TypeOK
  PROVE  /\ Len(pipe) \in Nat /\ pipe \in Seq(Requests)
         /\ \A i \in 1 .. Len(pipe) : pipe[i] \in Requests /\ pipe[i].client \in Clients
  <1>1. pipe \in Seq(Requests)
    BY DEF TypeOK
  <1>2. Len(pipe) \in Nat /\ \A i \in 1 .. Len(pipe) : pipe[i] \in Requests
    BY <1>1
  <1> QED
    BY <1>1, <1>2 DEF Requests

LEMMA LeftoverFacts ==
  ASSUME TypeOK, NEW k \in 1 .. Len(pipe), NEW pid \in Pids
  PROVE  /\ Leftover(k, pid) \in Seq(Requests)
         /\ ~IsCut(k) =>
              /\ Len(Leftover(k, pid)) = Len(pipe) - k
              /\ \A i \in 1 .. Len(pipe) - k : Leftover(k, pid)[i] = pipe[k + i]
  <1> DEFINE rest == SubSeq(pipe, k + 1, Len(pipe))
  <1>1. /\ pipe \in Seq(Requests) /\ Len(pipe) \in Nat
        /\ \A i \in 1 .. Len(pipe) : pipe[i] \in Requests
    BY PipeFacts
  <1>2. /\ rest \in Seq(Requests) /\ Len(rest) = Len(pipe) - k
        /\ \A i \in 1 .. Len(pipe) - k : rest[i] = pipe[k + i]
    BY <1>1
  <1> HIDE DEF rest
  <1>3. CASE IsCut(k)
    <2>1. k + 1 \in 1 .. Len(pipe) /\ 1 \in 1 .. Len(rest)
      BY <1>1, <1>2, <1>3 DEF IsCut
    <2>2. [pipe[k + 1] EXCEPT !.pid = pid] \in Requests
      <3>1. pipe[k + 1] \in Requests
        BY <1>1, <2>1
      <3> QED
        BY <3>1 DEF Requests, Pids
    <2>3. [rest EXCEPT ![1] = [pipe[k + 1] EXCEPT !.pid = pid]] \in Seq(Requests)
      BY <1>2, <2>1, <2>2
    <2> QED
      BY <1>3, <2>3 DEF Leftover, rest
  <1>4. CASE ~IsCut(k)
    BY <1>2, <1>4 DEF Leftover, rest
  <1> QED
    BY <1>3, <1>4

LEMMA InitIInv == Init => IInv
  <1> SUFFICES ASSUME Init PROVE IInv
    OBVIOUS
  <1>1. TypeOK
    <2>1. <<>> \in Seq(Requests)
      OBVIOUS
    <2> QED
      BY <2>1 DEF Init, TypeOK, NoChild
  <1>2. RequestInv /\ ChildInv /\ OwnAnswer /\ NameKept
    BY DEF Init, RequestInv, ChildInv, OwnAnswer, NameKept, NoChild
  <1> QED
    BY <1>1, <1>2 DEF IInv

-----------------------------------------------------------------------------
(* A client that has no request under way moves. *)
LEMMA ClientMoves ==
  ASSUME IInv, NEW c \in Clients, pc[c] \in {"prompt", "open", "write"},
         NEW s \in {"prompt", "open", "write", "wait", "ended"}, GoTo(c, s),
         UNCHANGED <<sent, answer, srv, fifo, pipe, written, taken, cut, child, faults>>,
         size' \in [Clients -> Nat]
  PROVE  IInv'
  <1>1. pc' = [pc EXCEPT ![c] = s]
    BY DEF GoTo
  <1>2. TypeOK'
    BY <1>1 DEF IInv, TypeOK
  <1>3. NameKept'
    BY DEF IInv, NameKept
  <1>4. ASSUME ~cut PROVE RequestInv' /\ ChildInv' /\ OwnAnswer'
    <2>1. RequestInv /\ ChildInv /\ OwnAnswer
      BY <1>4 DEF IInv
    <2>2. \A q \in Clients : Outstanding(q) => Outstanding(q)' /\ q # c
      BY <1>1 DEF Outstanding, IInv, TypeOK
    <2>3. RequestInv'
      BY <2>1, <2>2, PipeFacts DEF RequestInv, IInv
    <2>4. ChildInv'
      <3> SUFFICES ASSUME child.at # "none" PROVE ChildInv'
        BY DEF ChildInv
      <3>1. child.client \in Clients
        BY DEF IInv, TypeOK, NoChild
      <3> QED
        BY <1>1, <2>1, <2>2, <3>1 DEF ChildInv, IInv, TypeOK
    <2>5. OwnAnswer'
      BY <1>1, <1>4, <2>1 DEF OwnAnswer, IInv, TypeOK
    <2> QED
      BY <2>3, <2>4, <2>5
  <1> QED
    BY <1>2, <1>3, <1>4 DEF IInv

LEMMA EnterStep == ASSUME IInv, NEW c \in Clients, Enter(c) PROVE IInv'
  <1>1. Sizes \subseteq Nat
    BY FifoAssumption, Zenon DEF FifoAssumption
  <1>2. size' \in [Clients -> Nat]
    BY <1>1 DEF Enter, IInv, TypeOK
  <1> QED
    BY <1>2, ClientMoves DEF Enter, fifoVars

LEMMA LeaveStep == ASSUME IInv, NEW c \in Clients, Leave(c) PROVE IInv'
  BY ClientMoves DEF Leave, fifoVars, IInv, TypeOK

LEMMA OpenServerStep == ASSUME IInv, NEW c \in Clients, OpenServer(c) PROVE IInv'
  <1>1. (IF fifo THEN "write" ELSE "ended") \in {"prompt", "open", "write", "wait", "ended"}
    OBVIOUS
  <1> QED
    BY <1>1, ClientMoves DEF OpenServer, fifoVars, IInv, TypeOK

LEMMA WriteStep == ASSUME IInv, NEW c \in Clients, Write(c) PROVE IInv'
  <1>1. CASE UNCHANGED <<sent, pipe, written>>
    <2>1. \E s \in {"wait", "ended"} : GoTo(c, s)
      BY DEF Write, AfterWrite
    <2> QED
      BY <1>1, <2>1, ClientMoves DEF Write, IInv, TypeOK
  <1>2. ASSUME pipe' = Append(pipe, [client |-> c, num |-> sent[c] + 1, pid |-> c,
                                     size |-> size[c], end |-> written + size[c]]),
               written' = written + size[c], sent' = [sent EXCEPT ![c] = sent[c] + 1],
               GoTo(c, AfterWrite)
        PROVE  IInv'
    <2> DEFINE q == [client |-> c, num |-> sent[c] + 1, pid |-> c,
                     size |-> size[c], end |-> written + size[c]]
    <2>1. /\ pc[c] = "write" /\ pc' = [pc EXCEPT ![c] = "wait"]
          /\ UNCHANGED <<size, answer, srv, fifo, taken, cut, child, faults>>
      BY <1>2 DEF Write, GoTo, AfterWrite
    <2>2. /\ pipe \in Seq(Requests) /\ Len(pipe) \in Nat
          /\ \A i \in 1 .. Len(pipe) : pipe[i].client \in Clients
      BY PipeFacts DEF IInv
    <2>20. q \in Requests
      BY DEF IInv, TypeOK, Requests, Pids
    <2> HIDE DEF q
    <2>3. /\ pipe' \in Seq(Requests) /\ Len(pipe') = Len(pipe) + 1 /\ Len(pipe) \in Nat
          /\ pipe'[Len(pipe) + 1] = q
          /\ \A i \in 1 .. Len(pipe) : pipe'[i] = pipe[i]
      BY <1>2, <2>2, <2>20 DEF q
    <2>4. TypeOK'
      BY <1>2, <2>1, <2>3 DEF IInv, TypeOK
    <2>5. NameKept'
      BY <2>1 DEF IInv, NameKept
    <2>6. ASSUME ~cut PROVE RequestInv' /\ ChildInv' /\ OwnAnswer'
      <3>1. RequestInv /\ ChildInv /\ OwnAnswer
        BY <2>6 DEF IInv
      <3>2. \A d \in Clients : Outstanding(d) => Outstanding(d)' /\ d # c /\ sent'[d] = sent[d]
        BY <1>2, <2>1 DEF Outstanding, IInv, TypeOK
      <3>3. Outstanding(c)' /\ sent'[c] = sent[c] + 1
        BY <1>2, <2>1 DEF Outstanding, IInv, TypeOK
      <3>4. child.at = "none" => child.client = Nobody
        BY DEF IInv, TypeOK, NoChild
      <3>5. child.at # "none" => child.client \in Clients /\ child.client # c
        BY <2>1, <3>1 DEF IInv, TypeOK, NoChild, ChildInv, Outstanding
      <3>6. child.client # c
        BY <3>4, <3>5, Names
      <3>7. \A i \in 1 .. Len(pipe) :
              /\ pipe[i].client \in Clients /\ pipe[i].client # c
              /\ Outstanding(pipe[i].client) /\ sent'[pipe[i].client] = sent[pipe[i].client]
        BY <2>2, <3>1, <3>2 DEF RequestInv
      <3>8. RequestInv'
        <4> SUFFICES ASSUME NEW i \in 1 .. Len(pipe')
                     PROVE  /\ pipe'[i].num = sent'[pipe'[i].client]
                            /\ pipe'[i].pid = pipe'[i].client
                            /\ Outstanding(pipe[i].client)' /\ pipe'[i].client # child'.client
                            /\ \A j \in 1 .. Len(pipe') : j # i => pipe'[j].client # pipe'[i].client
          BY DEF RequestInv
        <4>1. CASE i = Len(pipe) + 1
          <5>1. pipe'[i].client = c /\ pipe'[i].num = sent[c] + 1 /\ pipe'[i].pid = c
            BY <2>3, <4>1 DEF q
          <5>2. Outstanding(pipe[i].client)'
            BY <3>3, <5>1 DEF Outstanding
          <5> QED
            BY <2>1, <2>3, <3>3, <3>6, <3>7, <4>1, <5>1, <5>2
        <4>2. CASE i \in 1 .. Len(pipe)
          <5>1. pipe'[i] = pipe[i] /\ pipe'[Len(pipe) + 1].client = c
            BY <2>3, <4>2 DEF q
          <5>2. Outstanding(pipe[i].client)'
            BY <3>2, <3>7, <4>2, <5>1 DEF Outstanding
          <5> QED
            BY <2>1, <2>3, <3>1, <3>7, <4>2, <5>1, <5>2 DEF RequestInv
        <4> QED
          BY <2>3, <4>1, <4>2
      <3>9. ChildInv'
        BY <2>1, <3>1, <3>2, <3>5, <1>2 DEF ChildInv, IInv, TypeOK
      <3>10. OwnAnswer'
        BY <1>2, <2>1, <3>1, <2>6 DEF OwnAnswer, IInv, TypeOK
      <3> QED
        BY <3>8, <3>9, <3>10
    <2> QED
      BY <2>1, <2>4, <2>5, <2>6 DEF IInv
  <1> QED
    BY <1>1, <1>2 DEF Write

-----------------------------------------------------------------------------
(* Steps that take no request out of the FIFO. *)
LEMMA RequestsStay ==
  ASSUME IInv, RequestInv, UNCHANGED <<pipe, sent>>, child'.client \in {child.client, Nobody},
         \A q \in Clients : Outstanding(q) /\ q # child.client => Outstanding(q)'
  PROVE  RequestInv'
  <1> SUFFICES ASSUME NEW i \in 1 .. Len(pipe)
               PROVE  /\ pipe[i].num = sent[pipe[i].client] /\ pipe[i].pid = pipe[i].client
                      /\ Outstanding(pipe[i].client)' /\ pipe[i].client # child'.client
                      /\ \A j \in 1 .. Len(pipe) : j # i => pipe[j].client # pipe[i].client
    BY DEF RequestInv
  <1>1. pipe[i].client \in Clients
    BY PipeFacts DEF IInv
  <1>2. /\ pipe[i].num = sent[pipe[i].client] /\ pipe[i].pid = pipe[i].client
        /\ Outstanding(pipe[i].client) /\ pipe[i].client # child.client
        /\ \A j \in 1 .. Len(pipe) : j # i => pipe[j].client # pipe[i].client
    BY DEF RequestInv
  <1>3. Outstanding(pipe[i].client)'
    BY <1>1, <1>2 DEF Outstanding
  <1> QED
    BY <1>1, <1>2, <1>3, Names

LEMMA ChildFacts ==
  ASSUME TypeOK
  PROVE  /\ child.at = "none" <=> child = NoChild
         /\ child.at # "none" => /\ child.client \in Clients /\ child.pid \in Clients \cup {Nobody}
                                 /\ child.num \in Nat /\ child.at \in {"forked", "open", "run"}
                                 /\ child \in [at : {"forked", "open", "run"},
                                               pid : Clients \cup {Nobody},
                                               client : Clients, num : Nat]
         /\ NoChild.at = "none" /\ NoChild.client = Nobody
  BY DEF TypeOK, NoChild

LEMMA ReadAnswerStep == ASSUME IInv, NEW c \in Clients, ReadAnswer(c) PROVE IInv'
  <1>1. /\ pc[c] = "read" /\ EndOfFile(c) /\ pc' = [pc EXCEPT ![c] = "prompt"]
        /\ UNCHANGED <<size, sent, answer, srv, fifo, pipe, written, taken, cut, child, faults>>
    BY DEF ReadAnswer, GoTo, fifoVars
  <1>2. TypeOK' /\ NameKept'
    BY <1>1 DEF IInv, TypeOK, NameKept
  <1>3. ASSUME ~cut PROVE RequestInv' /\ ChildInv' /\ OwnAnswer'
    <2>1. RequestInv /\ ChildInv /\ OwnAnswer
      BY <1>3 DEF IInv
    <2>2. \A q \in Clients : Outstanding(q) => Outstanding(q)' /\ q # c
      BY <1>1 DEF Outstanding, IInv, TypeOK
    <2>3. RequestInv'
      BY <1>1, <2>1, <2>2, RequestsStay
    <2>4. ChildInv'
      BY <1>1, <2>1, <2>2, ChildFacts DEF ChildInv, EndOfFile, IInv, TypeOK
    <2>5. OwnAnswer'
      BY <1>1, <1>3, <2>1 DEF OwnAnswer, IInv, TypeOK
    <2> QED
      BY <2>3, <2>4, <2>5
  <1> QED
    BY <1>1, <1>2, <1>3 DEF IInv

LEMMA ReapStep == ASSUME IInv, Reap PROVE IInv'
  <1>1. /\ UNCHANGED <<pc, size, sent, answer, fifo, pipe, written, taken, cut, child, faults>>
        /\ srv = "wait" /\ srv' = "read" /\ child.at = "none"
    BY DEF Reap, clientVars, fifoVars
  <1>2. TypeOK' /\ NameKept'
    BY <1>1 DEF IInv, TypeOK, NameKept
  <1>3. ~cut => RequestInv' /\ ChildInv' /\ OwnAnswer'
    BY <1>1 DEF IInv, RequestInv, ChildInv, OwnAnswer, Outstanding
  <1> QED
    BY <1>1, <1>2, <1>3 DEF IInv

LEMMA ChildOpenStep == ASSUME IInv, ChildOpen PROVE IInv'
  <1>1. /\ child.at = "forked"
        /\ UNCHANGED <<pc, size, sent, answer, srv, pipe, written, taken, cut, faults>>
    BY DEF ChildOpen, clientVars
  <1>2. CASE Exists(child.pid)
    <2>1. child' = [child EXCEPT !.at = "open"] /\ fifo' = fifo
      BY <1>2 DEF ChildOpen
    <2>2. /\ child'.at = "open" /\ child'.client = child.client
          /\ child'.pid = child.pid /\ child'.num = child.num
          /\ child' \in [at : {"forked", "open", "run"}, pid : Clients \cup {Nobody},
                         client : Clients, num : Nat]
      BY <1>1, <2>1, ChildFacts DEF IInv
    <2>3. TypeOK' /\ NameKept'
      BY <1>1, <2>1, <2>2 DEF IInv, TypeOK, NameKept
    <2>4. ASSUME ~cut PROVE RequestInv' /\ ChildInv' /\ OwnAnswer'
      <3>1. RequestInv /\ ChildInv /\ OwnAnswer
        BY <2>4 DEF IInv
      <3>2. \A q \in Clients : Outstanding(q) => Outstanding(q)'
        BY <1>1 DEF Outstanding
      <3>3. RequestInv'
        BY <1>1, <2>2, <3>1, <3>2, RequestsStay
      <3>4. ChildInv' /\ OwnAnswer'
        BY <1>1, <2>2, <3>1 DEF ChildInv, OwnAnswer, Outstanding
      <3> QED
        BY <3>3, <3>4
    <2> QED
      BY <1>1, <2>3, <2>4 DEF IInv
  <1>3. CASE ~Exists(child.pid)
    <2>1. child' = NoChild /\ fifo' = FALSE
      BY <1>3 DEF ChildOpen
    <2>2. TypeOK'
      BY <1>1, <2>1 DEF IInv, TypeOK, NoChild
    <2>3. NameKept'
      <3>1. CASE cut
        BY <1>1, <3>1 DEF NameKept
      <3>2. CASE ~cut
        <4>1. child.pid \in Clients /\ Outstanding(child.pid)
          BY <1>1, <3>2, ChildFacts DEF IInv, ChildInv
        <4> QED
          BY <1>1, <1>3, <4>1 DEF Exists, Outstanding, NameKept
      <3> QED
        BY <3>1, <3>2
    <2>4. ASSUME ~cut PROVE RequestInv' /\ ChildInv' /\ OwnAnswer'
      <3>1. RequestInv /\ ChildInv /\ OwnAnswer
        BY <2>4 DEF IInv
      <3>2. \A q \in Clients : Outstanding(q) => Outstanding(q)'
        BY <1>1 DEF Outstanding
      <3>3. RequestInv'
        BY <1>1, <2>1, <3>1, <3>2, RequestsStay, ChildFacts DEF IInv
      <3>4. ChildInv' /\ OwnAnswer'
        BY <1>1, <2>1, <3>1, ChildFacts DEF ChildInv, OwnAnswer, IInv
      <3> QED
        BY <3>3, <3>4
    <2> QED
      BY <1>1, <2>2, <2>3, <2>4 DEF IInv
  <1> QED
    BY <1>2, <1>3

LEMMA ConnectStep == ASSUME IInv, Connect PROVE IInv'
  <1>1. /\ child.at = "open" /\ child.pid \in Clients /\ pc[child.pid] \in {"wait", "read"}
        /\ pc' = [pc EXCEPT ![child.pid] = "read"]
        /\ answer' = [answer EXCEPT ![child.pid] = [client |-> child.client, num |-> child.num]]
        /\ child' = [child EXCEPT !.at = "run"]
        /\ UNCHANGED <<size, sent, srv, fifo, pipe, written, taken, cut, faults>>
    BY DEF Connect, Exists, GoTo, fifoVars
  <1>2. /\ child'.at = "run" /\ child'.client = child.client
        /\ child'.pid = child.pid /\ child'.num = child.num
        /\ child' \in [at : {"forked", "open", "run"}, pid : Clients \cup {Nobody},
                       client : Clients, num : Nat]
        /\ [client |-> child.client, num |-> child.num] \in [client : Clients, num : Nat]
    BY <1>1, ChildFacts DEF IInv
  <1>3. TypeOK' /\ NameKept'
    BY <1>1, <1>2 DEF IInv, TypeOK, NameKept
  <1>4. ASSUME ~cut PROVE RequestInv' /\ ChildInv' /\ OwnAnswer'
    <2>1. RequestInv /\ ChildInv /\ OwnAnswer
      BY <1>4 DEF IInv
    <2>2. child.pid = child.client /\ child.num = sent[child.client]
      BY <1>1, <2>1 DEF ChildInv
    <2>3. \A q \in Clients : Outstanding(q) /\ q # child.client => Outstanding(q)'
      BY <1>1, <2>2 DEF Outstanding, IInv, TypeOK
    <2>4. RequestInv'
      BY <1>1, <1>2, <2>1, <2>3, RequestsStay
    <2>5. ChildInv'
      BY <1>1, <1>2, <2>2 DEF ChildInv, IInv, TypeOK
    <2>6. OwnAnswer'
      BY <1>1, <1>4, <2>1, <2>2 DEF OwnAnswer, IInv, TypeOK
    <2> QED
      BY <2>4, <2>5, <2>6
  <1> QED
    BY <1>1, <1>3, <1>4 DEF IInv

LEMMA ChildExitStep == ASSUME IInv, ChildExit PROVE IInv'
  <1>1. /\ child.at = "run" /\ child' = NoChild
        /\ UNCHANGED <<pc, size, sent, answer, srv, fifo, pipe, written, taken, cut, faults>>
    BY DEF ChildExit, clientVars, fifoVars
  <1>2. TypeOK' /\ NameKept'
    BY <1>1 DEF IInv, TypeOK, NameKept, NoChild
  <1>3. ASSUME ~cut PROVE RequestInv' /\ ChildInv' /\ OwnAnswer'
    <2>1. RequestInv /\ ChildInv /\ OwnAnswer
      BY <1>3 DEF IInv
    <2>2. \A q \in Clients : Outstanding(q) => Outstanding(q)'
      BY <1>1 DEF Outstanding
    <2>3. RequestInv'
      BY <1>1, <2>1, <2>2, RequestsStay, ChildFacts DEF IInv
    <2>4. ChildInv' /\ OwnAnswer'
      BY <1>1, <2>1, ChildFacts DEF ChildInv, OwnAnswer, IInv
    <2> QED
      BY <2>3, <2>4
  <1> QED
    BY <1>1, <1>2, <1>3 DEF IInv

LEMMA FaultFacts ==
  ASSUME TypeOK, NEW k \in FaultKinds, Fault(k)
  PROVE  /\ faults' \in [FaultKinds -> Nat]
         /\ faults["interrupt"] > 0 => faults'["interrupt"] > 0
         /\ k = "interrupt" => faults'["interrupt"] > 0
  BY DEF TypeOK, Fault, FaultKinds

LEMMA InterruptStep == ASSUME IInv, NEW c \in Clients, Interrupt(c) PROVE IInv'
  <1>1. /\ pc' = [pc EXCEPT ![c] = "ended"] /\ Fault("interrupt")
        /\ UNCHANGED <<size, sent, answer, srv, fifo, pipe, written, taken, cut, child>>
    BY DEF Interrupt, GoTo, fifoVars
  <1>2. faults' \in [FaultKinds -> Nat] /\ faults'["interrupt"] > 0
    BY <1>1, FaultFacts DEF FaultKinds, IInv
  <1>3. TypeOK' /\ NameKept'
    BY <1>1, <1>2 DEF IInv, TypeOK, NameKept
  <1>4. ASSUME ~cut PROVE RequestInv' /\ ChildInv' /\ OwnAnswer'
    <2>1. RequestInv /\ ChildInv /\ OwnAnswer
      BY <1>4 DEF IInv
    <2>2. \A q \in Clients : Outstanding(q) => Outstanding(q)'
      BY <1>1, <1>2 DEF Outstanding, IInv, TypeOK
    <2>3. RequestInv'
      BY <1>1, <2>1, <2>2, RequestsStay
    <2>4. ChildInv'
      BY <1>1, <1>2, <2>1, <2>2, ChildFacts DEF ChildInv, Outstanding, IInv, TypeOK
    <2>5. OwnAnswer'
      BY <1>1, <1>4, <2>1 DEF OwnAnswer, IInv, TypeOK
    <2> QED
      BY <2>3, <2>4, <2>5
  <1> QED
    BY <1>1, <1>3, <1>4 DEF IInv

LEMMA InterruptServerStep == ASSUME IInv, InterruptServer PROVE IInv'
  <1>1. /\ srv' = "ended" /\ fifo' = FALSE /\ child' \in {child, NoChild} /\ Fault("interrupt")
        /\ UNCHANGED <<pc, size, sent, answer, pipe, written, taken, cut>>
    BY DEF InterruptServer, clientVars
  <1>2. faults' \in [FaultKinds -> Nat] /\ faults'["interrupt"] > 0
    BY <1>1, FaultFacts DEF FaultKinds, IInv
  <1>3. TypeOK' /\ NameKept'
    BY <1>1, <1>2 DEF IInv, TypeOK, NameKept, NoChild
  <1>4. ASSUME ~cut PROVE RequestInv' /\ ChildInv' /\ OwnAnswer'
    <2>1. RequestInv /\ ChildInv /\ OwnAnswer
      BY <1>4 DEF IInv
    <2>2. \A q \in Clients : Outstanding(q) => Outstanding(q)'
      BY <1>1, <1>2 DEF Outstanding
    <2>3. RequestInv'
      BY <1>1, <2>1, <2>2, RequestsStay, ChildFacts DEF IInv
    <2>4. ChildInv'
      BY <1>1, <1>2, <2>1, ChildFacts DEF ChildInv, Outstanding, IInv
    <2>5. OwnAnswer'
      BY <1>1, <1>4, <2>1 DEF OwnAnswer
    <2> QED
      BY <2>3, <2>4, <2>5
  <1> QED
    BY <1>1, <1>3, <1>4 DEF IInv

-----------------------------------------------------------------------------
(* One read takes the first k requests, and the child gets the first. *)
LEMMA ReadRequestStep == ASSUME IInv, ReadRequest PROVE IInv'
  <1>1. /\ srv = "read"
        /\ UNCHANGED <<pc, size, sent, answer, written>>
    BY DEF ReadRequest, clientVars
  <1>2. PICK k \in 1 .. Len(pipe), pid \in Pids :
          /\ pipe' = Leftover(k, pid)
          /\ taken' = IF taken + ReadSize <= written THEN taken + ReadSize ELSE written
          /\ cut' = (cut \/ IsCut(k))
          /\ \/ pipe[1].pid # NoPid /\ (Fork(pipe[1]) \/ ForkFails)
             \/ pipe[1].pid = NoPid /\ ParseFails
    BY DEF ReadRequest, Pids
  <1>3. /\ Len(pipe) \in Nat /\ 1 \in 1 .. Len(pipe) /\ pipe[1] \in Requests
        /\ \A i \in 1 .. Len(pipe) : pipe[i].client \in Clients
    BY PipeFacts DEF IInv
  <1>4. /\ pipe' \in Seq(Requests)
        /\ ~IsCut(k) =>
             /\ Len(pipe') = Len(pipe) - k
             /\ \A i \in 1 .. Len(pipe) - k : pipe'[i] = pipe[k + i]
    BY <1>2, LeftoverFacts DEF IInv
  <1>5. taken' \in Nat /\ cut' \in BOOLEAN
    <2>1. ReadSize \in Nat
      BY FifoAssumption, Zenon DEF FifoAssumption
    <2>2. taken' \in Nat
      BY <1>2, <2>1 DEF IInv, TypeOK
    <2>3. cut' = TRUE \/ cut' = FALSE
      <3>1. CASE IsCut(k)
        BY <1>2, <3>1
      <3>2. CASE ~IsCut(k)
        BY <1>2, <3>2 DEF IInv, TypeOK
      <3> QED
        BY <3>1, <3>2
    <2> QED
      BY <2>2, <2>3
  <1>6. cut => cut'
    BY <1>2
  <1>7. child.at = "none" /\ child = NoChild
    BY <1>1, ChildFacts DEF IInv, TypeOK
  <1>8. \/ /\ child'.at = "forked" /\ child'.pid = pipe[1].pid
           /\ child'.client = pipe[1].client /\ child'.num = pipe[1].num
           /\ child' \in [at : {"forked", "open", "run"}, pid : Clients \cup {Nobody},
                          client : Clients, num : Nat]
           /\ srv' = "wait" /\ UNCHANGED <<fifo, faults>>
        \/ child' = child /\ srv' = srv /\ fifo' = fifo /\ Fault("fork")
        \/ child' = child /\ srv' = "ended" /\ fifo' = FALSE /\ faults' = faults
    <2>1. CASE pipe[1].pid # NoPid /\ Fork(pipe[1])
      BY <1>3, <2>1 DEF Fork, Requests, Pids
    <2>2. CASE ForkFails
      BY <2>2 DEF ForkFails
    <2>3. CASE ParseFails
      BY <2>3 DEF ParseFails
    <2> QED
      BY <1>2, <2>1, <2>2, <2>3
  <1>9. /\ faults' \in [FaultKinds -> Nat]
        /\ faults["interrupt"] > 0 => faults'["interrupt"] > 0
    <2>1. CASE Fault("fork")
      BY <2>1, FaultFacts DEF FaultKinds, IInv
    <2>2. CASE faults' = faults
      BY <2>2 DEF IInv, TypeOK
    <2> QED
      BY <1>8, <2>1, <2>2
  <1>10. TypeOK'
    BY <1>1, <1>4, <1>5, <1>7, <1>8, <1>9 DEF IInv, TypeOK, NoChild
  <1>11. NameKept'
    BY <1>1, <1>6, <1>8, <1>9 DEF IInv, NameKept
  <1>12. ASSUME ~cut' PROVE RequestInv' /\ ChildInv' /\ OwnAnswer'
    <2>1. ~cut /\ ~IsCut(k)
      BY <1>2, <1>12
    <2>2. RequestInv /\ OwnAnswer
      BY <2>1 DEF IInv
    <2>3. \A q \in Clients : Outstanding(q) => Outstanding(q)'
      BY <1>1, <1>9 DEF Outstanding
    <2>4. \A i \in 1 .. Len(pipe) :
            /\ pipe[i].num = sent[pipe[i].client] /\ pipe[i].pid = pipe[i].client
            /\ Outstanding(pipe[i].client)
            /\ \A j \in 1 .. Len(pipe) : j # i => pipe[j].client # pipe[i].client
      BY <2>2 DEF RequestInv
    <2>5. child'.client \in {Nobody, pipe[1].client}
      BY <1>7, <1>8, ChildFacts DEF IInv
    <2>6. RequestInv'
      <3> SUFFICES ASSUME NEW i \in 1 .. Len(pipe')
                   PROVE  /\ pipe'[i].num = sent'[pipe'[i].client]
                          /\ pipe'[i].pid = pipe'[i].client
                          /\ Outstanding(pipe[i].client)' /\ pipe'[i].client # child'.client
                          /\ \A j \in 1 .. Len(pipe') : j # i => pipe'[j].client # pipe'[i].client
        BY DEF RequestInv
      <3>1. /\ i \in 1 .. Len(pipe) - k /\ pipe'[i] = pipe[k + i]
            /\ k + i \in 1 .. Len(pipe) /\ k + i # 1
        BY <1>3, <1>4, <2>1
      <3>2. Outstanding(pipe[i].client)'
        BY <1>3, <2>3, <2>4, <3>1 DEF Outstanding
      <3>3. pipe'[i].client # child'.client
        BY <1>3, <2>4, <2>5, <3>1, Names
      <3>4. ASSUME NEW j \in 1 .. Len(pipe'), j # i
            PROVE  pipe'[j].client # pipe'[i].client
        <4>1. pipe'[j] = pipe[k + j] /\ k + j \in 1 .. Len(pipe) /\ k + j # k + i
          BY <1>3, <1>4, <2>1, <3>4
        <4> QED
          BY <2>4, <3>1, <4>1
      <3> QED
        BY <1>1, <2>4, <3>1, <3>2, <3>3, <3>4
    <2>7. ChildInv'
      <3>1. CASE child' = child
        BY <1>7, <3>1 DEF ChildInv
      <3>2. CASE child'.at = "forked" /\ child'.pid = pipe[1].pid
                 /\ child'.client = pipe[1].client /\ child'.num = pipe[1].num
        <4>1. Outstanding(child.client)'
          BY <1>3, <2>3, <2>4, <3>2 DEF Outstanding
        <4> QED
          BY <1>1, <1>3, <2>4, <3>2, <4>1 DEF ChildInv
      <3> QED
        BY <1>8, <3>1, <3>2
    <2>8. OwnAnswer'
      BY <1>1, <2>1, <2>2 DEF OwnAnswer
    <2> QED
      BY <2>6, <2>7, <2>8
  <1> QED
    BY <1>10, <1>11, <1>12 DEF IInv

LEMMA Invariance ==
  ASSUME IInv, [Next]_vars
  PROVE  IInv'
  <1>1. ASSUME NEW c \in Clients, ClientStep(c) \/ Enter(c) \/ Leave(c) \/ Interrupt(c)
        PROVE  IInv'
    BY <1>1, OpenServerStep, WriteStep, ReadAnswerStep, EnterStep, LeaveStep, InterruptStep
       DEF ClientStep
  <1>2. CASE ServerStep \/ InterruptServer
    BY <1>2, ReadRequestStep, ReapStep, InterruptServerStep DEF ServerStep
  <1>3. CASE ChildStep
    BY <1>3, ChildOpenStep, ConnectStep, ChildExitStep DEF ChildStep
  <1>4. CASE UNCHANGED vars
    <2>1. UNCHANGED <<pc, size, sent, answer, srv, fifo, pipe, written, taken, cut, child, faults>>
      BY <1>4 DEF vars, clientVars, fifoVars
    <2>2. TypeOK' /\ NameKept'
      BY <2>1 DEF IInv, TypeOK, NameKept
    <2>3. ~cut => RequestInv' /\ ChildInv' /\ OwnAnswer'
      BY <2>1 DEF IInv, RequestInv, ChildInv, OwnAnswer, Outstanding
    <2> QED
      BY <2>1, <2>2, <2>3 DEF IInv
  <1> QED
    BY <1>1, <1>2, <1>3, <1>4 DEF Next

LEMMA Inductive == Spec => []IInv
  BY InitIInv, Invariance, PTL DEF Spec

-----------------------------------------------------------------------------
(* The server runs one child at a time, and a request under way is a client's. *)
THEOREM FifoTypeCorrect == Spec => []TypeOK
  <1>1. IInv => TypeOK
    BY DEF IInv
  <1> QED
    BY <1>1, Inductive, PTL

(***************************************************************************)
(* However the clients' writes meet in the server's FIFO, whatever is      *)
(* dropped, fails or is stopped: a client reads the output of its own      *)
(* latest command, as long as no read has cut a request.                   *)
(***************************************************************************)
THEOREM AnswersAreOwn == Spec => []OwnAnswer
  <1>1. IInv => OwnAnswer
    BY DEF IInv, OwnAnswer
  <1> QED
    BY <1>1, Inductive, PTL

(***************************************************************************)
(* A child finds the FIFO of its client, and so does not return into main  *)
(* and remove the server's, unless a client was stopped or a request cut.  *)
(***************************************************************************)
THEOREM NameIsKept == Spec => []NameKept
  <1>1. IInv => NameKept
    BY DEF IInv
  <1> QED
    BY <1>1, Inductive, PTL

-----------------------------------------------------------------------------
(* How a request is lost. *)

(* The requests in the FIFO end one behind another, the last where writing   *)
(* has got to.                                                               *)
EndsInv ==
  \A i \in 1 .. Len(pipe) :
    /\ pipe[i].end <= written
    /\ \A j \in 1 .. Len(pipe) : i <= j => pipe[i].end <= pipe[j].end

(* Even of a request that was cut the end stays. *)
LEMMA LeftoverEnds ==
  ASSUME TypeOK, NEW k \in 1 .. Len(pipe), NEW pid \in Pids
  PROVE  /\ Len(Leftover(k, pid)) = Len(pipe) - k
         /\ \A i \in 1 .. Len(pipe) - k : Leftover(k, pid)[i].end = pipe[k + i].end
  <1> DEFINE rest == SubSeq(pipe, k + 1, Len(pipe))
  <1>1. /\ pipe \in Seq(Requests) /\ Len(pipe) \in Nat
        /\ \A i \in 1 .. Len(pipe) : pipe[i] \in Requests
    BY PipeFacts
  <1>2. /\ rest \in Seq(Requests) /\ Len(rest) = Len(pipe) - k
        /\ \A i \in 1 .. Len(pipe) - k : rest[i] = pipe[k + i]
    BY <1>1
  <1> HIDE DEF rest
  <1>3. CASE IsCut(k)
    <2>1. k + 1 \in 1 .. Len(pipe) /\ 1 \in 1 .. Len(rest)
      BY <1>1, <1>2, <1>3 DEF IsCut
    <2>2. PICK q : q = [pipe[k + 1] EXCEPT !.pid = pid]
      OBVIOUS
    <2>3. q \in Requests /\ q.end = pipe[k + 1].end
      <3>1. pipe[k + 1] \in Requests
        BY <1>1, <2>1
      <3> QED
        BY <2>2, <3>1 DEF Requests, Pids
    <2>4. Leftover(k, pid) = [rest EXCEPT ![1] = q]
      BY <1>3, <2>2 DEF Leftover, rest
    <2>5. /\ Len(Leftover(k, pid)) = Len(rest)
          /\ \A i \in 1 .. Len(rest) : Leftover(k, pid)[i] = IF i = 1 THEN q ELSE rest[i]
      BY <1>2, <2>1, <2>3, <2>4
    <2> QED
      BY <1>1, <1>2, <2>3, <2>5
  <1>4. CASE ~IsCut(k)
    BY <1>2, <1>4 DEF Leftover, rest
  <1> QED
    BY <1>3, <1>4

LEMMA NextEndsInv == IInv /\ EndsInv /\ [Next]_vars => EndsInv'
  <1> SUFFICES ASSUME IInv, EndsInv, [Next]_vars PROVE EndsInv'
    OBVIOUS
  <1>1. /\ Len(pipe) \in Nat /\ pipe \in Seq(Requests) /\ written \in Nat
        /\ \A i \in 1 .. Len(pipe) : pipe[i] \in Requests /\ pipe[i].end \in Nat
    <2>1. /\ Len(pipe) \in Nat /\ pipe \in Seq(Requests) /\ written \in Nat
          /\ \A i \in 1 .. Len(pipe) : pipe[i] \in Requests
      BY PipeFacts DEF IInv, TypeOK
    <2> QED
      BY <2>1 DEF Requests
  <1>2. CASE UNCHANGED <<pipe, written>>
    BY <1>2 DEF EndsInv
  <1>3. ASSUME NEW c \in Clients, Write(c), ~UNCHANGED <<pipe, written>>
        PROVE  EndsInv'
    <2>1. PICK q : q = [client |-> c, num |-> sent[c] + 1, pid |-> c,
                        size |-> size[c], end |-> written + size[c]]
      OBVIOUS
    <2>2. pipe' = Append(pipe, q) /\ written' = written + size[c] /\ size[c] \in Nat
      BY <1>3, <2>1 DEF Write, IInv, TypeOK
    <2>3. q \in Requests /\ q.end = written'
      BY <2>1, <2>2, <1>1 DEF IInv, TypeOK, Requests, Pids
    <2>4. /\ Len(pipe') = Len(pipe) + 1 /\ pipe'[Len(pipe) + 1] = q
          /\ \A i \in 1 .. Len(pipe) : pipe'[i] = pipe[i]
      BY <1>1, <2>2, <2>3
    <2>5. written' \in Nat /\ written <= written'
      BY <1>1, <2>2
    <2>6. \A i \in 1 .. Len(pipe') : pipe'[i].end <= written'
      <3> SUFFICES ASSUME NEW i \in 1 .. Len(pipe') PROVE pipe'[i].end <= written'
        OBVIOUS
      <3>1. CASE i = Len(pipe) + 1
        BY <2>3, <2>4, <2>5, <3>1
      <3>2. CASE i \in 1 .. Len(pipe)
        BY <1>1, <2>4, <2>5, <3>2 DEF EndsInv
      <3> QED
        BY <1>1, <2>4, <3>1, <3>2
    <2>7. \A i, j \in 1 .. Len(pipe') : i <= j => pipe'[i].end <= pipe'[j].end
      <3> SUFFICES ASSUME NEW i \in 1 .. Len(pipe'), NEW j \in 1 .. Len(pipe'), i <= j
                   PROVE  pipe'[i].end <= pipe'[j].end
        OBVIOUS
      <3>1. CASE j = Len(pipe) + 1
        BY <2>3, <2>4, <2>6, <3>1
      <3>2. CASE j \in 1 .. Len(pipe)
        <4>1. i \in 1 .. Len(pipe)
          BY <1>1, <3>2
        <4> QED
          BY <2>4, <3>2, <4>1 DEF EndsInv
      <3> QED
        BY <1>1, <2>4, <3>1, <3>2
    <2> QED
      BY <2>6, <2>7 DEF EndsInv
  <1>4. CASE ReadRequest
    <2>1. PICK k \in 1 .. Len(pipe), pid \in Pids : pipe' = Leftover(k, pid)
      BY <1>4 DEF ReadRequest, Pids
    <2>2. /\ Len(pipe') = Len(pipe) - k /\ written' = written
          /\ \A i \in 1 .. Len(pipe) - k : pipe'[i].end = pipe[k + i].end
      BY <1>4, <2>1, LeftoverEnds DEF ReadRequest, IInv
    <2>3. \A i \in 1 .. Len(pipe') : i \in 1 .. Len(pipe) - k /\ k + i \in 1 .. Len(pipe)
      BY <1>1, <2>2
    <2>4. \A i, j \in 1 .. Len(pipe') : i <= j => k + i <= k + j
      BY <1>1, <2>2
    <2> QED
      BY <2>2, <2>3, <2>4 DEF EndsInv
  <1> QED
    BY <1>2, <1>3, <1>4
       DEF Next, ClientStep, ServerStep, ChildStep, Enter, Leave, OpenServer, ReadAnswer, Reap,
           ChildOpen, Connect, ChildExit, Interrupt, InterruptServer, vars, fifoVars

(* Only a step that takes the client's request from the FIFO or its child   *)
(* away can lose it.                                                        *)
LEMMA HeldStays ==
  ASSUME NEW c \in Clients, Held(c), child'.client = child.client,
         \A i \in DOMAIN pipe : \E j \in DOMAIN pipe' : pipe'[j] = pipe[i]
  PROVE  Held(c)'
  <1>1. CASE child.client = c
    BY <1>1 DEF Held
  <1>2. ASSUME NEW i \in DOMAIN pipe, pipe[i].client = c
        PROVE  Held(c)'
    <2>1. PICK j \in DOMAIN pipe' : pipe'[j] = pipe[i]
      BY <1>2
    <2> QED
      BY <1>2, <2>1 DEF Held
  <1> QED
    BY <1>1, <1>2 DEF Held

LEMMA ReadLoses ==
  ASSUME IInv, EndsInv, ReadRequest, NEW c \in Clients, Held(c), ~Held(c)', ~cut',
         ~(faults'["fork"] > 0)
  PROVE  \E i \in 2 .. Len(pipe) : pipe[i].client = c /\ pipe[i].end <= taken'
  <1>1. PICK k \in 1 .. Len(pipe), pid \in Pids :
          /\ Fits(k)
          /\ pipe' = Leftover(k, pid)
          /\ taken' = IF taken + ReadSize <= written THEN taken + ReadSize ELSE written
          /\ cut' = (cut \/ IsCut(k))
          /\ \/ pipe[1].pid # NoPid /\ (Fork(pipe[1]) \/ ForkFails)
             \/ pipe[1].pid = NoPid /\ ParseFails
    BY DEF ReadRequest, Pids
  <1>2. ~cut /\ ~IsCut(k) /\ RequestInv
    BY <1>1 DEF IInv
  <1>3. /\ Len(pipe) \in Nat /\ 1 \in 1 .. Len(pipe)
        /\ \A i \in 1 .. Len(pipe) : pipe[i] \in Requests /\ pipe[i].client \in Clients
    BY PipeFacts DEF IInv
  <1>4. /\ Len(pipe') = Len(pipe) - k /\ pipe' \in Seq(Requests)
        /\ \A i \in 1 .. Len(pipe) - k : pipe'[i] = pipe[k + i]
    BY <1>1, <1>2, LeftoverFacts DEF IInv
  <1>5. child.client = Nobody
    BY ChildFacts DEF ReadRequest, IInv, TypeOK
  <1>6. PICK i \in 1 .. Len(pipe) : pipe[i].client = c
    <2>1. DOMAIN pipe = 1 .. Len(pipe)
      BY PipeFacts DEF IInv
    <2> QED
      BY <1>5, <2>1, Names DEF Held
  <1>7. child'.client = pipe[1].client
    <2>1. pipe[1].pid # NoPid
      BY <1>2, <1>3, Names DEF RequestInv
    <2>2. ~ForkFails
      <3>1. SUFFICES ASSUME ForkFails PROVE FALSE
        OBVIOUS
      <3>2. faults \in [FaultKinds -> Nat] /\ faults' = [faults EXCEPT !["fork"] = @ + 1]
        BY <3>1 DEF ForkFails, Fault, IInv, TypeOK
      <3> QED
        BY <3>2 DEF FaultKinds
    <2> QED
      BY <1>1, <2>1, <2>2 DEF Fork
  <1>8. i # 1
    BY <1>6, <1>7 DEF Held
  <1>9. i <= k
    <2> SUFFICES ASSUME k < i PROVE FALSE
      BY <1>3
    <2>1. PICK j \in 1 .. Len(pipe') : k + j = i
      <3>1. i - k \in 1 .. Len(pipe')
        BY <1>3, <1>4
      <3> QED
        BY <1>3, <3>1
    <2>2. pipe'[j].client = c
      BY <1>4, <1>6, <2>1
    <2>3. j \in DOMAIN pipe'
      BY <1>4, <2>1
    <2> QED
      BY <2>2, <2>3 DEF Held
  <1>10. pipe[i].end <= taken'
    <2>1. pipe[i].end \in Nat /\ pipe[k].end \in Nat /\ taken \in Nat /\ written \in Nat
      BY <1>3 DEF Requests, IInv, TypeOK
    <2>2. pipe[i].end <= pipe[k].end /\ pipe[i].end <= written
      BY <1>3, <1>9 DEF EndsInv
    <2>3. pipe[k].end <= taken + ReadSize /\ ReadSize \in Nat
      BY <1>1, FifoAssumption DEF Fits
    <2> QED
      BY <1>1, <2>1, <2>2, <2>3
  <1> QED
    BY <1>3, <1>6, <1>8, <1>10

(* What one step may do to the request of a client that goes on waiting.    *)
LostOnly ==
  \A c \in Clients :
    Held(c) /\ ~Held(c)' /\ pc'[c] = "wait"
      => \/ \E i \in 2 .. Len(pipe) : pipe[i].client = c /\ pipe[i].end <= taken'
         \/ cut' \/ \E k \in FaultKinds : faults'[k] > 0

LEMMA LossStep ==
  ASSUME IInv, EndsInv, [Next]_vars
  PROVE  LostOnly
  <1> SUFFICES ASSUME NEW c \in Clients, Held(c), ~Held(c)', pc'[c] = "wait", ~cut',
                      \A k \in FaultKinds : ~(faults'[k] > 0)
               PROVE  \E i \in 2 .. Len(pipe) : pipe[i].client = c /\ pipe[i].end <= taken'
    BY DEF LostOnly
  <1>1. ~(faults'["fork"] > 0) /\ ~(faults'["interrupt"] > 0)
    BY DEF FaultKinds
  <1>2. CASE UNCHANGED <<pipe, child>>
    BY <1>2 DEF Held
  <1>3. ASSUME NEW e \in Clients, Write(e)
        PROVE  FALSE
    <2>1. CASE UNCHANGED pipe
      BY <1>3, <2>1 DEF Write, Held
    <2>2. ASSUME NEW q \in Requests, pipe' = Append(pipe, q)
          PROVE  FALSE
      <3>1. \A i \in DOMAIN pipe : i \in DOMAIN pipe' /\ pipe'[i] = pipe[i]
        BY <2>2, PipeFacts DEF IInv
      <3> QED
        BY <1>3, <3>1, HeldStays DEF Write
    <2>3. [client |-> e, num |-> sent[e] + 1, pid |-> e, size |-> size[e],
           end |-> written + size[e]] \in Requests
      BY DEF IInv, TypeOK, Requests, Pids
    <2> QED
      BY <1>3, <2>1, <2>2, <2>3 DEF Write
  <1>4. CASE ReadRequest
    BY <1>1, <1>4, ReadLoses
  <1>5. ASSUME ChildOpen \/ ChildExit
        PROVE  FALSE
    <2>1. child.at # "none" /\ UNCHANGED <<pc, pipe, cut, faults>>
      BY <1>5 DEF ChildOpen, ChildExit, clientVars, fifoVars
    <2>2. ChildInv /\ child.client \in Clients
      BY <2>1, ChildFacts DEF IInv
    <2>3. child.client = c
      BY <2>1 DEF Held
    <2>4. pc[c] = "wait" /\ child.at # "run" /\ child.pid = c
      BY <1>1, <2>1, <2>2, <2>3 DEF ChildInv
    <2>5. child'.client = child.client
      BY <1>5, <2>2, <2>4, ChildFacts DEF ChildOpen, ChildExit, Exists, IInv
    <2> QED
      BY <2>1, <2>3, <2>5 DEF Held
  <1>6. CASE Connect
    <2>1. child'.client = child.client /\ pipe' = pipe
      BY <1>6, ChildFacts DEF Connect, fifoVars, IInv
    <2> QED
      BY <2>1 DEF Held
  <1>7. ASSUME InterruptServer
        PROVE  FALSE
    <2>1. faults \in [FaultKinds -> Nat] /\ faults' = [faults EXCEPT !["interrupt"] = @ + 1]
      BY <1>7 DEF InterruptServer, Fault, IInv, TypeOK
    <2> QED
      BY <1>1, <2>1 DEF FaultKinds
  <1> QED
    BY <1>2, <1>3, <1>4, <1>5, <1>6, <1>7
       DEF Next, ClientStep, ServerStep, ChildStep, Enter, Leave, OpenServer, ReadAnswer, Reap,
           Interrupt, vars, fifoVars

(***************************************************************************)
(* A request of a client that waits is lost in one way only: one read took *)
(* it whole behind another; unless fork failed, somebody was stopped, or a *)
(* read cut a request.                                                     *)
(***************************************************************************)
THEOREM LossExplained == Spec => LostBehindAnother
  <1>1. Init => EndsInv
    BY DEF Init, EndsInv
  <1>2. IInv /\ EndsInv /\ [Next]_vars => [LostOnly]_vars
    BY LossStep
  <1>3. [][LostOnly]_vars <=> LostBehindAnother
    BY DEF LostOnly, LostBehindAnother
  <1> QED
    BY <1>1, <1>2, <1>3, Inductive, NextEndsInv, PTL DEF Spec

-----------------------------------------------------------------------------
(* The parser.  First, numbers and sets of them in order. *)

LEMMA LessIsWellFounded ==
  \E R : /\ IsWellFoundedOn(R, Nat)
         /\ \A m, n \in Nat : n < m => <<n, m>> \in R
  <1>1. \A m, n \in Nat : n < m => <<n, m>> \in OpToRel(<, Nat)
    BY DEF OpToRel
  <1> QED
    BY <1>1, NatLessThanWellFounded, Zenon

LEMMA Smallest ==
  ASSUME NEW S, S \subseteq Nat, S # {}
  PROVE  \E m \in S : \A n \in S : m <= n
  <1>1. PICK R : /\ IsWellFoundedOn(R, Nat)
                 /\ \A m, n \in Nat : n < m => <<n, m>> \in R
    BY LessIsWellFounded
  <1>2. PICK m \in S : \A n \in S : ~ (<<n, m>> \in R)
    BY <1>1, WFMin, Zenon
  <1>3. ASSUME NEW n \in S PROVE ~ (n < m)
    BY <1>1, <1>2
  <1>4. ASSUME NEW n \in S PROVE m <= n
    BY <1>3
  <1> QED
    BY <1>4

-----------------------------------------------------------------------------
(* Sets of numbers in order. *)

Increasing(s) == \A i, j \in DOMAIN s : i < j => s[i] < s[j]

Onto(s, S) == \A x \in S : \E i \in DOMAIN s : s[i] = x

(* A set has one increasing enumeration. *)
LEMMA OneOrder ==
  ASSUME NEW S \in SUBSET Nat, NEW n \in Nat,
         NEW s \in [1 .. n -> S], NEW t \in [1 .. n -> S],
         Increasing(s), Increasing(t), Onto(s, S), Onto(t, S)
  PROVE  s = t
  <1> DEFINE differ == {k \in 1 .. n : s[k] # t[k]}
  <1>1. CASE differ = {}
    <2>1. \A k \in 1 .. n : s[k] = t[k]
      BY <1>1
    <2> QED
      BY <2>1
  <1>2. CASE differ # {}
    <2>1. differ \subseteq Nat
      OBVIOUS
    <2>2. PICK k \in differ : \A m \in differ : k <= m
      BY <1>2, <2>1, Smallest, Zenon
    <2>3. k \in 1 .. n /\ s[k] # t[k]
      BY <2>2
    <2>4. \A i \in 1 .. n : i < k => s[i] = t[i]
      BY <2>2
    <2>5. s[k] \in Nat /\ t[k] \in Nat /\ \A i \in 1 .. n : s[i] \in Nat /\ t[i] \in Nat
      BY <2>3
    <2> HIDE DEF differ
    <2>6. PICK i \in 1 .. n : s[i] = t[k]
      BY <2>3 DEF Onto
    <2>7. PICK j \in 1 .. n : t[j] = s[k]
      BY <2>3 DEF Onto
    <2>8. CASE s[k] < t[k]
      <3>1. j < k \/ j = k \/ k < j
        BY <2>3
      <3>2. j < k => s[j] < s[k]
        BY <2>3 DEF Increasing
      <3>3. k < j => t[k] < t[j]
        BY <2>3 DEF Increasing
      <3> QED
        BY <2>3, <2>4, <2>5, <2>7, <2>8, <3>1, <3>2, <3>3
    <2>9. CASE t[k] < s[k]
      <3>1. i < k \/ i = k \/ k < i
        BY <2>3
      <3>2. i < k => t[i] < t[k]
        BY <2>3 DEF Increasing
      <3>3. k < i => s[k] < s[i]
        BY <2>3 DEF Increasing
      <3> QED
        BY <2>3, <2>4, <2>5, <2>6, <2>9, <3>1, <3>2, <3>3
    <2> QED
      BY <2>3, <2>5, <2>8, <2>9
  <1> QED
    BY <1>1, <1>2

(* An increasing enumeration of a set is what InOrder says. *)
LEMMA OrderIs ==
  ASSUME NEW S \in SUBSET Nat, NEW n \in Nat, NEW s \in [1 .. n -> S],
         Increasing(s), Onto(s, S)
  PROVE  InOrder(S) = s
  <1>1. \A i, j \in 1 .. n : s[i] = s[j] => i = j
    <2> SUFFICES ASSUME NEW i \in 1 .. n, NEW j \in 1 .. n, s[i] = s[j] PROVE i = j
      OBVIOUS
    <2>1. i < j => s[i] < s[j]
      BY DEF Increasing
    <2>2. j < i => s[j] < s[i]
      BY DEF Increasing
    <2>3. s[i] \in Nat /\ s[j] \in Nat
      OBVIOUS
    <2> QED
      BY <2>1, <2>2, <2>3
  <1>2. s \in Bijection(1 .. n, S)
    BY <1>1 DEF Bijection, Injection, Surjection, IsInjective, Onto
  <1>3. IsFiniteSet(1 .. n) /\ Cardinality(1 .. n) = n
    BY FS_Interval
  <1>4. ExistsBijection(1 .. n, S)
    BY <1>2 DEF ExistsBijection
  <1>5. IsFiniteSet(S) /\ Cardinality(S) = n
    BY <1>3, <1>4, FS_Bijection
  <1> DEFINE P(f) == \A i, j \in DOMAIN f : i < j => f[i] < f[j]
             t == CHOOSE f \in [1 .. n -> S] : P(f)
  <1>6. P(s)
    BY DEF Increasing
  <1>7. t \in [1 .. n -> S] /\ P(t)
    BY <1>6
  <1>8. InOrder(S) = t
    BY <1>5 DEF InOrder
  <1> HIDE DEF t
  <1>9. Increasing(t)
    BY <1>7 DEF Increasing
  <1>10. \A i, j \in 1 .. n : t[i] = t[j] => i = j
    <2> SUFFICES ASSUME NEW i \in 1 .. n, NEW j \in 1 .. n, t[i] = t[j] PROVE i = j
      OBVIOUS
    <2>1. i < j => t[i] < t[j]
      BY <1>7, <1>9 DEF Increasing
    <2>2. j < i => t[j] < t[i]
      BY <1>7, <1>9 DEF Increasing
    <2>3. t[i] \in Nat /\ t[j] \in Nat
      BY <1>7
    <2> QED
      BY <2>1, <2>2, <2>3
  <1>11. t \in Injection(1 .. n, S)
    BY <1>7, <1>10 DEF Injection, IsInjective
  <1>12. t \in Surjection(1 .. n, S)
    BY <1>3, <1>5, <1>11, FS_Injection
  <1>13. Onto(t, S)
    BY <1>7, <1>12 DEF Surjection, Onto
  <1> QED
    BY <1>7, <1>8, <1>9, <1>13, OneOrder

LEMMA OrderEmpty == InOrder({}) = <<>>
  <1>1. <<>> \in [1 .. 0 -> {}] /\ Increasing(<<>>) /\ Onto(<<>>, {})
    BY DEF Increasing, Onto
  <1> QED
    BY <1>1, OrderIs

(* A number beyond those of a set comes last. *)
LEMMA OrderGrows ==
  ASSUME NEW S \in SUBSET Nat, NEW n \in Nat, NEW s \in [1 .. n -> S],
         Increasing(s), Onto(s, S), NEW x \in Nat, \A y \in S : y < x
  PROVE  /\ Append(s, x) \in [1 .. n + 1 -> S \cup {x}]
         /\ Increasing(Append(s, x)) /\ Onto(Append(s, x), S \cup {x})
  <1> DEFINE t == Append(s, x)
  <1>1. s \in Seq(S) /\ Len(s) = n
    OBVIOUS
  <1>2. /\ t \in Seq(S \cup {x}) /\ Len(t) = n + 1 /\ t[n + 1] = x
        /\ \A i \in 1 .. n : t[i] = s[i]
    BY <1>1
  <1> HIDE DEF t
  <1>3. t \in [1 .. n + 1 -> S \cup {x}]
    BY <1>2, LenProperties
  <1>4. ASSUME NEW i \in 1 .. n + 1, NEW j \in 1 .. n + 1, i < j PROVE t[i] < t[j]
    <2>1. i \in 1 .. n /\ t[i] = s[i] /\ s[i] \in S
      BY <1>2, <1>4
    <2>2. CASE j = n + 1
      BY <1>2, <2>1, <2>2
    <2>3. CASE j # n + 1
      BY <1>2, <1>4, <2>1, <2>3 DEF Increasing
    <2> QED
      BY <2>2, <2>3
  <1>5. ASSUME NEW y \in S \cup {x} PROVE \E i \in 1 .. n + 1 : t[i] = y
    <2>1. CASE y \in S
      <3>1. PICK i \in 1 .. n : s[i] = y
        BY <2>1 DEF Onto
      <3> QED
        BY <1>2, <3>1
    <2>2. CASE y = x
      BY <1>2, <2>2
    <2> QED
      BY <2>1, <2>2
  <1> QED
    BY <1>3, <1>4, <1>5 DEF Increasing, Onto, t

Enumerated(S) ==
  \E n \in Nat : \E s \in [1 .. n -> S] : Increasing(s) /\ Onto(s, S)

(* Every set of positions has an enumeration. *)
LEMMA OrderExists ==
  ASSUME NEW m \in Nat, NEW S \in SUBSET (1 .. m)
  PROVE  Enumerated(S)
  <1> DEFINE bad == {k \in Nat : \E T \in SUBSET (1 .. k) : ~Enumerated(T)}
  <1>1. CASE bad = {}
    BY <1>1
  <1>2. CASE bad # {}
    <2>1. PICK k \in bad : \A j \in bad : k <= j
      BY <1>2, Smallest
    <2>2. PICK T \in SUBSET (1 .. k) : ~Enumerated(T)
      BY <2>1
    <2>3. k \in Nat
      BY <2>1
    <2>4. CASE k = 0
      <3>1. T = {}
        BY <2>4
      <3>2. <<>> \in [1 .. 0 -> {}] /\ Increasing(<<>>) /\ Onto(<<>>, {})
        BY DEF Increasing, Onto
      <3> QED
        BY <2>2, <3>1, <3>2 DEF Enumerated
    <2>5. CASE k # 0
      <3>1. k - 1 \in Nat /\ k - 1 \notin bad
        BY <2>1, <2>3, <2>5
      <3>2. T \ {k} \in SUBSET (1 .. k - 1)
        BY <2>3
      <3>3. Enumerated(T \ {k})
        BY <3>1, <3>2
      <3>4. k \in T
        <4>1. CASE k \notin T
          <5>1. T \ {k} = T
            BY <4>1
          <5> QED
            BY <2>2, <3>3, <5>1
        <4> QED
          BY <4>1
      <3>5. PICK n \in Nat : \E s \in [1 .. n -> T \ {k}] : Increasing(s) /\ Onto(s, T \ {k})
        BY <3>3 DEF Enumerated
      <3>6. PICK s \in [1 .. n -> T \ {k}] : Increasing(s) /\ Onto(s, T \ {k})
        BY <3>5
      <3> DEFINE U == T \ {k}
      <3>7. U \in SUBSET Nat /\ \A y \in U : y < k
        BY <2>3
      <3>8. U \cup {k} = T
        BY <3>4
      <3> HIDE DEF U
      <3>9. s \in [1 .. n -> U] /\ Increasing(s) /\ Onto(s, U)
        BY <3>6 DEF U
      <3>10. /\ Append(s, k) \in [1 .. n + 1 -> U \cup {k}]
             /\ Increasing(Append(s, k)) /\ Onto(Append(s, k), U \cup {k})
        BY <2>3, <3>7, <3>9, OrderGrows
      <3>11. /\ Append(s, k) \in [1 .. n + 1 -> T]
            /\ Increasing(Append(s, k)) /\ Onto(Append(s, k), T)
        BY <3>8, <3>10
      <3>12. n + 1 \in Nat
        OBVIOUS
      <3> QED
        BY <2>2, <3>11, <3>12 DEF Enumerated
    <2> QED
      BY <2>4, <2>5
  <1> QED
    BY <1>1, <1>2

LEMMA OrderFacts ==
  ASSUME NEW m \in Nat, NEW S \in SUBSET (1 .. m)
  PROVE  /\ InOrder(S) \in Seq(S) /\ InOrder(S) \in Seq(Nat)
         /\ Increasing(InOrder(S)) /\ Onto(InOrder(S), S)
  <1>1. PICK n \in Nat : \E s \in [1 .. n -> S] : Increasing(s) /\ Onto(s, S)
    BY OrderExists DEF Enumerated
  <1>2. PICK s \in [1 .. n -> S] : Increasing(s) /\ Onto(s, S)
    BY <1>1
  <1>3. InOrder(S) = s
    BY <1>2, OrderIs
  <1>4. s \in [1 .. n -> Nat]
    <2>1. S \subseteq Nat
      OBVIOUS
    <2> QED
      BY <2>1
  <1>5. s \in Seq(S) /\ s \in Seq(Nat)
    BY <1>4
  <1> QED
    BY <1>2, <1>3, <1>5

LEMMA OrderAppend ==
  ASSUME NEW m \in Nat, NEW S \in SUBSET (1 .. m), NEW x \in Nat, x > m
  PROVE  InOrder(S \cup {x}) = Append(InOrder(S), x)
  <1>1. PICK n \in Nat : \E s \in [1 .. n -> S] : Increasing(s) /\ Onto(s, S)
    BY OrderExists DEF Enumerated
  <1>2. PICK s \in [1 .. n -> S] : Increasing(s) /\ Onto(s, S)
    BY <1>1
  <1>3. InOrder(S) = s
    BY <1>2, OrderIs
  <1>4. S \in SUBSET Nat /\ \A y \in S : y < x
    OBVIOUS
  <1>5. /\ Append(s, x) \in [1 .. n + 1 -> S \cup {x}]
        /\ Increasing(Append(s, x)) /\ Onto(Append(s, x), S \cup {x})
    BY <1>2, <1>4, OrderGrows
  <1>6. S \cup {x} \in SUBSET Nat /\ n + 1 \in Nat
    OBVIOUS
  <1>7. InOrder(S \cup {x}) = Append(s, x)
    BY <1>5, <1>6, OrderIs
  <1> QED
    BY <1>3, <1>7

-----------------------------------------------------------------------------
(* Characters made literal. *)

Solves(f, l, n) == f = [i \in 1 .. n |-> i > 1 /\ l[i - 1] = "escape" /\ ~f[i - 1]]

(* The recursion has a solution: there is no least length without one.     *)
LEMMA LiteralExists ==
  ASSUME NEW l, NEW n \in Nat
  PROVE  \E f : Solves(f, l, n)
  <1> DEFINE bad == {k \in Nat : ~ \E f : Solves(f, l, k)}
  <1>1. CASE bad = {}
    BY <1>1
  <1>2. CASE bad # {}
    <2>1. bad \subseteq Nat
      OBVIOUS
    <2>2. PICK k \in bad : \A j \in bad : k <= j
      BY <1>2, <2>1, Smallest, Zenon
    <2>3. k \in Nat /\ ~ \E f : Solves(f, l, k)
      BY <2>2
    <2>4. CASE k = 0
      <3> DEFINE f == [i \in 1 .. 0 |-> TRUE]
      <3>1. Solves(f, l, 0)
        BY DEF Solves
      <3> QED
        BY <2>3, <2>4, <3>1
    <2>5. CASE k # 0
      <3>1. k - 1 \in Nat /\ k - 1 \notin bad
        BY <2>2, <2>3, <2>5
      <3>2. PICK f : Solves(f, l, k - 1)
        BY <3>1
      <3> DEFINE e    == k > 1 /\ l[k - 1] = "escape" /\ ~f[k - 1]
                 g    == [i \in 1 .. k |-> IF i = k THEN e ELSE f[i]]
                 h    == [i \in 1 .. k |-> i > 1 /\ l[i - 1] = "escape" /\ ~g[i - 1]]
      <3>3. ASSUME NEW i \in 1 .. k - 1
            PROVE  f[i] = (i > 1 /\ l[i - 1] = "escape" /\ ~f[i - 1])
        BY <3>2 DEF Solves
      <3>4. ASSUME NEW i \in 1 .. k PROVE g[i] = h[i]
        <4>1. CASE i = 1
          BY <2>3, <3>3, <4>1
        <4>2. CASE i > 1
          <5>1. i - 1 \in 1 .. k /\ i - 1 # k
            BY <2>3, <4>2
          <5>2. g[i - 1] = f[i - 1]
            BY <5>1
          <5>3. CASE i = k
            BY <4>2, <5>2, <5>3
          <5>4. CASE i # k
            <6>1. i \in 1 .. k - 1
              BY <2>3, <5>4
            <6> QED
              BY <3>3, <5>2, <6>1, <5>4
          <5> QED
            BY <5>3, <5>4
        <4> QED
          BY <4>1, <4>2
      <3>5. g = h
        BY <3>4
      <3>6. Solves(g, l, k)
        BY <3>5 DEF Solves
      <3> QED
        BY <2>3, <3>6
    <2> QED
      BY <2>4, <2>5
  <1> QED
    BY <1>1, <1>2

(* A character is literal if the one before it escapes and is not literal.  *)
LEMMA LiteralFacts ==
  ASSUME NEW l, Len(l) \in Nat
  PROVE  /\ Literal(l) \subseteq 1 .. Len(l)
         /\ \A i \in 1 .. Len(l) :
              i \in Literal(l) <=> i > 1 /\ l[i - 1] = "escape" /\ i - 1 \notin Literal(l)
  <1> DEFINE esc == CHOOSE f : Solves(f, l, Len(l))
  <1>1. Solves(esc, l, Len(l))
    BY LiteralExists
  <1>2. Literal(l) = {i \in 1 .. Len(l) : esc[i]}
    BY DEF Literal, Solves
  <1> HIDE DEF esc
  <1>3. ASSUME NEW i \in 1 .. Len(l)
        PROVE  esc[i] = (i > 1 /\ l[i - 1] = "escape" /\ ~esc[i - 1])
    BY <1>1 DEF Solves
  <1>4. ASSUME NEW i \in 1 .. Len(l), i > 1 PROVE i - 1 \in 1 .. Len(l)
    BY <1>4
  <1> QED
    BY <1>2, <1>3, <1>4

-----------------------------------------------------------------------------
(* Quotes. *)

LEMMA QuotedFirst ==
  ASSUME NEW l, Len(l) \in Nat
  PROVE  ~Quoted(l, 1)
  <1>1. {d \in Marks(l, "quote") : d < 1} = {}
    BY DEF Marks
  <1>2. Cardinality({}) = 0
    BY FS_EmptySet
  <1>3. Cardinality({d \in Marks(l, "quote") : d < 1}) = 0
    BY <1>1, <1>2
  <1> QED
    BY <1>3 DEF Quoted

(* A quote that counts opens or closes, and no other character does. *)
LEMMA QuotedNext ==
  ASSUME NEW l, Len(l) \in Nat, NEW i \in 1 .. Len(l)
  PROVE  Quoted(l, i + 1) <=> IF i \in Marks(l, "quote") THEN ~Quoted(l, i) ELSE Quoted(l, i)
  <1> DEFINE before == {d \in Marks(l, "quote") : d < i}
             upto   == {d \in Marks(l, "quote") : d < i + 1}
  <1>1. Marks(l, "quote") \subseteq 1 .. Len(l)
    BY DEF Marks
  <1>2. IsFiniteSet(before)
    <2>1. IsFiniteSet(1 .. Len(l))
      BY FS_Interval
    <2> QED
      BY <1>1, <2>1, FS_Subset
  <1>3. upto = IF i \in Marks(l, "quote") THEN before \cup {i} ELSE before
    BY <1>1
  <1>4. i \notin before
    OBVIOUS
  <1>5. Quoted(l, i) <=> Cardinality(before) % 2 = 1
    BY DEF Quoted
  <1>6. Quoted(l, i + 1) <=> Cardinality(upto) % 2 = 1
    BY DEF Quoted
  <1> HIDE DEF before, upto
  <1>7. Cardinality(before) \in Nat /\ Cardinality(before \cup {i}) = Cardinality(before) + 1
    BY <1>2, <1>4, FS_CardinalityType, FS_AddElement
  <1>8. ASSUME NEW c \in Nat PROVE (c + 1) % 2 = 1 <=> ~(c % 2 = 1)
    OBVIOUS
  <1> QED
    BY <1>3, <1>5, <1>6, <1>7, <1>8

-----------------------------------------------------------------------------
(* The words of the part of a line that was read. *)

Begins(p, sep) == {i \in 1 .. p \ sep : i = 1 \/ i - 1 \in sep}

WordAt(i, p, sep) == {j \in i .. p : i .. j \cap sep = {}}

TextAt(l, i, p, sep, marks) ==
  LET at == InOrder(WordAt(i, p, sep) \ marks)
  IN  [k \in 1 .. Len(at) |-> l[at[k]]]

WordsTo(l, p, sep, marks) ==
  LET order == InOrder(Begins(p, sep))
  IN  [n \in 1 .. Len(order) |-> TextAt(l, order[n], p, sep, marks)]

AllMarks(l) == Marks(l, "quote") \cup Marks(l, "escape")

(* At the end of the line they are all its words. *)
LEMMA WordsAll ==
  ASSUME NEW l
  PROVE  Words(l) = WordsTo(l, Len(l), Separators(l), AllMarks(l))
  BY DEF Words, WordsTo, TextAt, WordAt, Begins, AllMarks

(* What a longer sequence of arguments is mapped to. *)
LEMMA MapAppend ==
  ASSUME NEW f, NEW at \in Seq(Nat), NEW x \in Nat
  PROVE  LET t == Append(at, x)
         IN  [k \in 1 .. Len(t) |-> f[t[k]]] = Append([k \in 1 .. Len(at) |-> f[at[k]]], f[x])
  <1> DEFINE n == Len(at)
             t == Append(at, x)
             E == {f[at[k]] : k \in 1 .. n} \cup {f[x]}
             s == [k \in 1 .. n |-> f[at[k]]]
             a == [k \in 1 .. n + 1 |-> f[t[k]]]
             b == Append(s, f[x])
  <1>1. n \in Nat /\ Len(t) = n + 1 /\ t[n + 1] = x /\ \A k \in 1 .. n : t[k] = at[k]
    OBVIOUS
  <1>2. s \in Seq(E) /\ Len(s) = n /\ f[x] \in E
    BY <1>1
  <1>3. \A k \in 1 .. n : s[k] = f[at[k]]
    OBVIOUS
  <1> HIDE DEF n, E, s
  <1>4. /\ b \in Seq(E) /\ Len(b) = n + 1 /\ b[n + 1] = f[x]
        /\ \A k \in 1 .. n : b[k] = s[k]
    BY <1>1, <1>2, AppendProperties
  <1> HIDE DEF b, t
  <1>5. \A k \in 1 .. n + 1 : b[k] = f[t[k]]
    BY <1>1, <1>3, <1>4
  <1>6. b = [k \in 1 .. n + 1 |-> b[k]]
    BY <1>4, LenProperties
  <1>7. b = a
    BY <1>5, <1>6
  <1> QED
    BY <1>1, <1>7 DEF b, s, t, n

(* A word with the next character of it, which a mark is not. *)
Longer(w, l, q, marks) == IF q \in marks THEN w ELSE Append(w, l[q])

(* No separator from i to p. *)
Unbroken(i, p, sep) == \A k \in i .. p : k \notin sep

(* A word read on with no separator gets its next character. *)
LEMMA TextGrows ==
  ASSUME NEW l, NEW p \in Nat, NEW i \in 1 .. p + 1, NEW sep, NEW marks,
         Unbroken(i, p + 1, sep)
  PROVE  TextAt(l, i, p + 1, sep, marks) = Longer(TextAt(l, i, p, sep, marks), l, p + 1, marks)
  <1> DEFINE S == WordAt(i, p, sep) \ marks
             T == WordAt(i, p + 1, sep) \ marks
  <1>1. WordAt(i, p + 1, sep) = WordAt(i, p, sep) \cup {p + 1}
    BY DEF WordAt, Unbroken
  <1>2. T = IF p + 1 \in marks THEN S ELSE S \cup {p + 1}
    BY <1>1
  <1>3. S \in SUBSET (1 .. p)
    BY DEF WordAt
  <1> HIDE DEF S, T
  <1>4. CASE p + 1 \in marks
    BY <1>2, <1>4 DEF TextAt, Longer, S, T
  <1>5. CASE p + 1 \notin marks
    <2>1. InOrder(T) = Append(InOrder(S), p + 1)
      <3>1. p + 1 \in Nat /\ p + 1 > p /\ T = S \cup {p + 1}
        BY <1>2, <1>5
      <3> QED
        BY <1>3, <3>1, OrderAppend
    <2>2. InOrder(S) \in Seq(Nat)
      BY <1>3, OrderFacts
    <2>3. LET t == Append(InOrder(S), p + 1) IN
            [k \in 1 .. Len(t) |-> l[t[k]]]
              = Append([k \in 1 .. Len(InOrder(S)) |-> l[InOrder(S)[k]]], l[p + 1])
      BY <2>2, MapAppend
    <2> QED
      BY <1>5, <2>1, <2>3 DEF TextAt, Longer, S, T
  <1> QED
    BY <1>4, <1>5

LEMMA EmptyIs ==
  ASSUME NEW s, s = [n \in 1 .. 0 |-> s[n]]
  PROVE  s = <<>>
  <1>1. s \in Seq({}) /\ Len(s) = 0
    OBVIOUS
  <1> QED
    BY <1>1, EmptySeq

LEMMA WordsEmpty ==
  ASSUME NEW l, NEW sep, NEW marks
  PROVE  WordsTo(l, 0, sep, marks) = <<>>
  <1>1. Begins(0, sep) = {}
    BY DEF Begins
  <1>2. Len(InOrder({})) = 0
    BY OrderEmpty
  <1>3. WordsTo(l, 0, sep, marks) = [n \in 1 .. 0 |-> TextAt(l, InOrder({})[n], 0, sep, marks)]
    BY <1>1, <1>2 DEF WordsTo
  <1> QED
    BY <1>3, EmptyIs

LEMMA BeginsFacts ==
  ASSUME NEW p \in Nat, NEW sep
  PROVE  LET order == InOrder(Begins(p, sep))
         IN  /\ Begins(p, sep) \in SUBSET (1 .. p)
             /\ order \in Seq(Nat) /\ Len(order) \in Nat /\ DOMAIN order = 1 .. Len(order)
             /\ \A n \in 1 .. Len(order) : order[n] \in Begins(p, sep) /\ order[n] \in 1 .. p
             /\ Increasing(order) /\ Onto(order, Begins(p, sep))
  <1> DEFINE S == Begins(p, sep)
  <1>1. S \in SUBSET (1 .. p)
    BY DEF Begins
  <1> HIDE DEF S
  <1>2. /\ InOrder(S) \in Seq(S) /\ InOrder(S) \in Seq(Nat)
        /\ Increasing(InOrder(S)) /\ Onto(InOrder(S), S)
    BY <1>1, OrderFacts
  <1>3. \A n \in 1 .. Len(InOrder(S)) : InOrder(S)[n] \in S
    BY <1>2, ElementOfSeq
  <1>4. \A n \in 1 .. Len(InOrder(S)) : InOrder(S)[n] \in 1 .. p
    BY <1>1, <1>3
  <1>5. Len(InOrder(S)) \in Nat /\ DOMAIN InOrder(S) = 1 .. Len(InOrder(S))
    BY <1>2, LenProperties
  <1> QED
    BY <1>1, <1>2, <1>3, <1>4, <1>5 DEF S

(* A separator ends a word and is part of none. *)
LEMMA WordsSkip ==
  ASSUME NEW l, NEW p \in Nat, NEW sep, NEW marks, p + 1 \in sep
  PROVE  WordsTo(l, p + 1, sep, marks) = WordsTo(l, p, sep, marks)
  <1> DEFINE order == InOrder(Begins(p, sep))
  <1>1. Begins(p + 1, sep) = Begins(p, sep)
    BY DEF Begins
  <1>2. ASSUME NEW i \in 1 .. p PROVE TextAt(l, i, p + 1, sep, marks) = TextAt(l, i, p, sep, marks)
    <2>1. WordAt(i, p + 1, sep) = WordAt(i, p, sep)
      BY DEF WordAt
    <2> QED
      BY <2>1 DEF TextAt
  <1>3. \A n \in 1 .. Len(order) : order[n] \in 1 .. p
    BY BeginsFacts
  <1> QED
    BY <1>1, <1>2, <1>3 DEF WordsTo

(* Behind a separator, and at the beginning of the line, a word begins. *)
LEMMA WordsBegin ==
  ASSUME NEW l, NEW p \in Nat, NEW sep, NEW marks, p + 1 \notin sep, p = 0 \/ p \in sep
  PROVE  WordsTo(l, p + 1, sep, marks) =
           Append(WordsTo(l, p, sep, marks), Longer(<<>>, l, p + 1, marks))
  <1> DEFINE order == InOrder(Begins(p, sep))
             texts == [i \in Nat |-> TextAt(l, i, p + 1, sep, marks)]
             t     == Append(order, p + 1)
  <1>1. Begins(p + 1, sep) = Begins(p, sep) \cup {p + 1}
    BY DEF Begins
  <1>2. ASSUME NEW i \in 1 .. p PROVE TextAt(l, i, p + 1, sep, marks) = TextAt(l, i, p, sep, marks)
    <2>1. WordAt(i, p + 1, sep) = WordAt(i, p, sep)
      BY DEF WordAt
    <2> QED
      BY <2>1 DEF TextAt
  <1>3. /\ Begins(p, sep) \in SUBSET (1 .. p) /\ order \in Seq(Nat) /\ Len(order) \in Nat
        /\ \A n \in 1 .. Len(order) : order[n] \in 1 .. p
    BY BeginsFacts
  <1>4. InOrder(Begins(p + 1, sep)) = t
    <2>1. p + 1 \in Nat /\ p + 1 > p
      OBVIOUS
    <2> QED
      BY <1>1, <1>3, <2>1, OrderAppend
  <1>5. TextAt(l, p + 1, p + 1, sep, marks) = Longer(<<>>, l, p + 1, marks)
    <2>1. TextAt(l, p + 1, p, sep, marks) = <<>>
      <3>1. WordAt(p + 1, p, sep) \ marks = {}
        BY DEF WordAt
      <3>2. Len(InOrder({})) = 0
        BY OrderEmpty
      <3>3. TextAt(l, p + 1, p, sep, marks) = [n \in 1 .. 0 |-> l[InOrder({})[n]]]
        BY <3>1, <3>2 DEF TextAt
      <3> QED
        BY <3>3, EmptyIs
    <2>2. p + 1 \in 1 .. p + 1 /\ Unbroken(p + 1, p + 1, sep)
      BY DEF Unbroken
    <2>3. TextAt(l, p + 1, p + 1, sep, marks) =
            Longer(TextAt(l, p + 1, p, sep, marks), l, p + 1, marks)
      BY <2>2, TextGrows
    <2> QED
      BY <2>1, <2>3
  <1>6. [n \in 1 .. Len(t) |-> texts[t[n]]]
          = Append([n \in 1 .. Len(order) |-> texts[order[n]]], texts[p + 1])
    BY <1>3, MapAppend
  <1>7. [n \in 1 .. Len(order) |-> texts[order[n]]] = WordsTo(l, p, sep, marks)
    BY <1>2, <1>3 DEF WordsTo
  <1>8. [n \in 1 .. Len(t) |-> texts[t[n]]] = WordsTo(l, p + 1, sep, marks)
    <2>1. t \in Seq(Nat)
      BY <1>3
    <2>2. \A n \in 1 .. Len(t) : t[n] \in Nat
      BY <2>1
    <2> HIDE DEF t
    <2> QED
      BY <1>4, <2>2 DEF WordsTo
  <1>9. texts[p + 1] = TextAt(l, p + 1, p + 1, sep, marks)
    OBVIOUS
  <1> QED
    BY <1>5, <1>6, <1>7, <1>8, <1>9

(* What is read of a word begins at its last beginning. *)
LEMMA LastBegin ==
  ASSUME NEW p \in Nat \ {0}, NEW sep, p \notin sep
  PROVE  LET order == InOrder(Begins(p, sep))
         IN  /\ Len(order) \in Nat \ {0}
             /\ order[Len(order)] .. p \cap sep = {}
             /\ \A n \in 1 .. Len(order) - 1 : order[n] .. p \cap sep # {}
  <1> DEFINE order == InOrder(Begins(p, sep))
             N     == Len(order)
             free  == {k \in 1 .. p : k .. p \cap sep = {}}
  <1>1. p \in free
    OBVIOUS
  <1>2. free \subseteq Nat
    OBVIOUS
  <1>3. PICK s \in free : \A k \in free : s <= k
    BY <1>1, <1>2, Smallest, Zenon
  <1>4. s \in 1 .. p /\ s .. p \cap sep = {}
    BY <1>3
  <1>5. s = 1 \/ s - 1 \in sep
    <2>1. CASE s # 1
      <3>1. s - 1 \in 1 .. p /\ s - 1 \notin free
        BY <1>3, <1>4, <2>1
      <3>2. (s - 1) .. p \cap sep # {}
        BY <3>1
      <3>3. (s - 1) .. p = {s - 1} \cup (s .. p)
        BY <1>4
      <3> QED
        BY <1>4, <3>2, <3>3
    <2> QED
      BY <2>1
  <1>6. s \in Begins(p, sep)
    BY <1>4, <1>5 DEF Begins
  <1> HIDE DEF free
  <1>7. /\ N \in Nat /\ DOMAIN order = 1 .. N
        /\ \A n \in 1 .. N : order[n] \in Begins(p, sep) /\ order[n] \in 1 .. p
        /\ Increasing(order) /\ Onto(order, Begins(p, sep))
    BY BeginsFacts
  <1> HIDE DEF N, order
  <1>8. PICK m \in 1 .. N : order[m] = s
    BY <1>6, <1>7 DEF Onto
  <1>9. \A n \in 1 .. N : order[n] <= s
    <2> SUFFICES ASSUME NEW n \in 1 .. N, order[n] > s PROVE FALSE
      BY <1>4, <1>7
    <2>1. order[n] \in 1 .. p /\ (order[n] = 1 \/ order[n] - 1 \in sep)
      BY <1>7 DEF Begins
    <2>2. order[n] - 1 \in s .. p
      BY <1>4, <2>1
    <2> QED
      BY <1>4, <2>1, <2>2
  <1>10. m = N
    <2> SUFFICES ASSUME m # N PROVE FALSE
      OBVIOUS
    <2>1. m + 1 \in 1 .. N /\ m < m + 1
      BY <1>7, <1>8
    <2>2. order[m] < order[m + 1]
      BY <1>7, <2>1 DEF Increasing
    <2> QED
      BY <1>4, <1>7, <1>8, <1>9, <2>1, <2>2
  <1>11. ASSUME NEW n \in 1 .. N - 1 PROVE order[n] .. p \cap sep # {}
    <2>1. n \in 1 .. N /\ n < N /\ N \in 1 .. N
      BY <1>7
    <2>2. order[n] < s /\ order[n] \in 1 .. p
      BY <1>7, <1>8, <1>10, <2>1 DEF Increasing
    <2>3. s - 1 \in sep /\ s - 1 \in order[n] .. p
      BY <1>4, <1>5, <2>2
    <2> QED
      BY <2>3
  <1>12. N # 0 /\ order[N] = s
    BY <1>7, <1>8, <1>10
  <1> QED
    BY <1>4, <1>7, <1>11, <1>12 DEF N, order

(* The arguments with the one the parser is in. *)
Added(a, w) == Append(a, w)

(* Inside a word the next character belongs to it. *)
LEMMA WordsGrow ==
  ASSUME NEW l, NEW p \in Nat \ {0}, NEW sep, NEW marks, p \notin sep, p + 1 \notin sep,
         NEW X, NEW a \in Seq(X), NEW w \in X, WordsTo(l, p, sep, marks) = Added(a, w)
  PROVE  WordsTo(l, p + 1, sep, marks) = Added(a, Longer(w, l, p + 1, marks))
  <1> DEFINE order == InOrder(Begins(p, sep))
             N     == Len(order)
             v     == Longer(w, l, p + 1, marks)
             W     == WordsTo(l, p, sep, marks)
             V     == WordsTo(l, p + 1, sep, marks)
  <1>1. Begins(p + 1, sep) = Begins(p, sep)
    BY DEF Begins
  <1>2. /\ N \in Nat \ {0} /\ order[N] .. p \cap sep = {}
        /\ \A n \in 1 .. N - 1 : order[n] .. p \cap sep # {}
        /\ \A n \in 1 .. N : order[n] \in 1 .. p
    BY LastBegin, BeginsFacts
  <1>3. /\ W = [n \in 1 .. N |-> TextAt(l, order[n], p, sep, marks)]
        /\ V = [n \in 1 .. N |-> TextAt(l, order[n], p + 1, sep, marks)]
    BY <1>1 DEF WordsTo
  <1> HIDE DEF N, order, W, V
  <1>4. Len(a) \in Nat /\ Len(Append(a, w)) = Len(a) + 1 /\ Append(a, w)[Len(a) + 1] = w
        /\ \A n \in 1 .. Len(a) : Append(a, w)[n] = a[n]
    BY AppendProperties
  <1>5. W = Append(a, w)
    BY DEF W, Added
  <1>6. Len(W) = N
    BY <1>2, <1>3
  <1>7. N = Len(a) + 1
    BY <1>4, <1>5, <1>6
  <1>8. ASSUME NEW n \in 1 .. N - 1 PROVE V[n] = a[n]
    <2>1. n \in 1 .. N /\ order[n] \in 1 .. p
      BY <1>2
    <2>2. WordAt(order[n], p + 1, sep) = WordAt(order[n], p, sep)
      <3>1. PICK k \in order[n] .. p : k \in sep
        BY <1>2
      <3>2. k \in order[n] .. p + 1 /\ k <= p + 1
        BY <2>1
      <3> QED
        BY <2>1, <3>1, <3>2 DEF WordAt
    <2>3. V[n] = W[n]
      BY <1>3, <2>1, <2>2 DEF TextAt
    <2> QED
      BY <1>2, <1>4, <1>5, <1>7, <2>3
  <1>9. V[N] = v
    <2>1. N \in 1 .. N /\ order[N] \in 1 .. p
      BY <1>2
    <2>2. Unbroken(order[N], p + 1, sep) /\ order[N] \in 1 .. p + 1
      <3>1. ASSUME NEW k \in order[N] .. p + 1 PROVE k \notin sep
        <4>1. k = p + 1 \/ k \in order[N] .. p
          BY <2>1
        <4> QED
          BY <1>2, <4>1
      <3> QED
        BY <2>1, <3>1 DEF Unbroken
    <2>3. TextAt(l, order[N], p, sep, marks) = w
      BY <1>3, <1>4, <1>5, <1>7, <2>1
    <2>4. TextAt(l, order[N], p + 1, sep, marks) =
            Longer(TextAt(l, order[N], p, sep, marks), l, p + 1, marks)
      <3>1. p \in Nat
        OBVIOUS
      <3> QED
        BY <2>2, <3>1, TextGrows
    <2>5. TextAt(l, order[N], p + 1, sep, marks) = v
      BY <2>3, <2>4
    <2> QED
      BY <1>3, <2>1, <2>5
  <1> HIDE DEF v
  <1>10. /\ a \in Seq(X \cup {v}) /\ v \in X \cup {v}
    BY LenProperties
  <1>11. /\ Append(a, v) \in Seq(X \cup {v}) /\ Len(Append(a, v)) = N
         /\ Append(a, v)[N] = v /\ \A n \in 1 .. N - 1 : Append(a, v)[n] = a[n]
    <2>1. /\ Append(a, v) \in Seq(X \cup {v}) /\ Len(Append(a, v)) = Len(a) + 1
          /\ Append(a, v)[Len(a) + 1] = v /\ \A n \in 1 .. Len(a) : Append(a, v)[n] = a[n]
      BY <1>10, AppendProperties
    <2>2. N - 1 = Len(a)
      BY <1>4, <1>7
    <2> QED
      BY <1>7, <2>1, <2>2
  <1>12. Append(a, v) = [n \in 1 .. N |-> Append(a, v)[n]]
    BY <1>11, LenProperties
  <1>13. \A n \in 1 .. N : V[n] = Append(a, v)[n]
    BY <1>2, <1>8, <1>9, <1>11
  <1>14. V = [n \in 1 .. N |-> V[n]]
    BY <1>3
  <1>15. V = Append(a, v)
    BY <1>12, <1>13, <1>14
  <1> QED
    BY <1>15 DEF V, v, Added

-----------------------------------------------------------------------------
(* The parser's state, said of the line. *)

Escaped(l, p) == l[p] = "escape" /\ p \notin Literal(l)

StateOf(l, p) ==
  IF p = 0 \/ p \in Separators(l) THEN "look"
  ELSE IF Quoted(l, p + 1) THEN IF Escaped(l, p) THEN "esc_quote" ELSE "in_quote"
  ELSE IF Escaped(l, p) THEN "esc_arg" ELSE "in_arg"

LEMMA LineFacts ==
  ASSUME NEW l \in Lines
  PROVE  /\ l \in Seq(Chars \cup Blanks) /\ Len(l) \in Nat /\ Len(l) >= 2 /\ Len(l) <= MaxLen
         /\ \A i \in 1 .. Len(l) : l[i] \in Chars \cup Blanks
  <1> DEFINE Final == UNION {[1 .. n -> Chars] : n \in 2 .. MaxLen}
             Body == UNION {[1 .. n -> Chars] : n \in 1 .. MaxLen - 1}
  <1>1. CASE l \in Final
    <2>1. PICK n \in 2 .. MaxLen : l \in [1 .. n -> Chars]
      BY <1>1
    <2>2. MaxLen \in Nat /\ n \in Nat
      BY MaxLenAssumption, <2>1
    <2> QED
      BY <2>1, <2>2
  <1>2. CASE \E k \in Body : l = Append(k, "newline")
    <2>1. PICK k \in Body : l = Append(k, "newline")
      BY <1>2
    <2>2. PICK n \in 1 .. MaxLen - 1 : k \in [1 .. n -> Chars]
      BY <2>1
    <2>3. MaxLen \in Nat /\ n \in Nat
      BY MaxLenAssumption, <2>2
    <2>4. "newline" \in Chars \cup Blanks /\ k \in Seq(Chars \cup Blanks) /\ Len(k) = n
      BY <2>2, <2>3 DEF Blanks
    <2>5. l \in Seq(Chars \cup Blanks) /\ Len(l) = n + 1
      BY <2>1, <2>4, AppendProperties
    <2>6. \A i \in 1 .. Len(l) : l[i] \in Chars \cup Blanks
      BY <2>5, ElementOfSeq
    <2> QED
      BY <2>2, <2>3, <2>5, <2>6
  <1>3. Lines = Final \cup {Append(k, "newline") : k \in Body}
    BY DEF Lines
  <1> HIDE DEF Final, Body
  <1> QED
    BY <1>1, <1>2, <1>3

LEMMA TableFacts ==
  /\ \A k \in Categories :
       /\ TRANSITIONS["esc_arg"][k]   = To("in_arg", "add")
       /\ TRANSITIONS["esc_quote"][k] = To("in_quote", "add")
  /\ TRANSITIONS["look"]["whitespace"] = To("look", "ignore")
  /\ TRANSITIONS["look"]["quote"]      = To("in_quote", "create")
  /\ TRANSITIONS["look"]["escape"]     = To("esc_arg", "create")
  /\ TRANSITIONS["look"]["others"]     = To("in_arg", "create_add")
  /\ TRANSITIONS["in_arg"]["whitespace"] = To("look", "close")
  /\ TRANSITIONS["in_arg"]["quote"]      = To("in_quote", "ignore")
  /\ TRANSITIONS["in_arg"]["escape"]     = To("esc_arg", "ignore")
  /\ TRANSITIONS["in_arg"]["others"]     = To("in_arg", "add")
  /\ TRANSITIONS["in_quote"]["whitespace"] = To("in_quote", "add")
  /\ TRANSITIONS["in_quote"]["quote"]      = To("in_arg", "ignore")
  /\ TRANSITIONS["in_quote"]["escape"]     = To("esc_quote", "ignore")
  /\ TRANSITIONS["in_quote"]["others"]     = To("in_quote", "add")
  BY DEF TRANSITIONS, Table, All

LEMMA CategoryFacts ==
  ASSUME NEW c
  PROVE  /\ Category(c) \in Categories
         /\ Category(c) = "whitespace" <=> c \in Blanks
         /\ Category(c) = "quote" <=> c = "quote"
         /\ Category(c) = "escape" <=> c = "escape"
         /\ c \in Blanks => c # "quote" /\ c # "escape"
  BY DEF Category, Categories, Blanks

(* Outside of words nothing is quoted or escaped. *)
LEMMA LookFacts ==
  ASSUME NEW l \in Lines, NEW p \in 0 .. Len(l) - 1, p = 0 \/ p \in Separators(l)
  PROVE  ~Quoted(l, p + 1) /\ p + 1 \notin Literal(l)
  <1>1. Len(l) \in Nat
    BY LineFacts
  <1>2. CASE p = 0
    BY <1>1, <1>2, QuotedFirst, LiteralFacts
  <1>3. CASE p # 0
    <2>1. p \in Separators(l) /\ p \in 1 .. Len(l) /\ p + 1 \in 1 .. Len(l)
      BY <1>1, <1>3
    <2>2. l[p] \in Blanks /\ ~Quoted(l, p)
      BY <2>1 DEF Separators
    <2>3. l[p] # "quote" /\ l[p] # "escape"
      BY <2>2 DEF Blanks
    <2>4. p \notin Marks(l, "quote")
      BY <2>3 DEF Marks
    <2>5. ~Quoted(l, p + 1)
      BY <1>1, <2>1, <2>2, <2>4, QuotedNext
    <2>6. (p + 1) - 1 = p
      BY <2>1
    <2> QED
      BY <1>1, <2>1, <2>3, <2>5, <2>6, LiteralFacts
  <1> QED
    BY <1>2, <1>3

(* What one character does: to the state, and to what is a separator or a  *)
(* mark, which is how the action of the table is right.                    *)
LEMMA CharFacts ==
  ASSUME NEW l \in Lines, NEW p \in 0 .. Len(l) - 1
  PROVE  LET s == StateOf(l, p)
             e == TRANSITIONS[s][Category(l[p + 1])]
             marked == p + 1 \in AllMarks(l)
         IN  /\ e.next = StateOf(l, p + 1)
             /\ s = "look" <=> p = 0 \/ p \in Separators(l)
             /\ p + 1 \in Separators(l) =>
                  IF s = "look" THEN e.action = "ignore" ELSE e.action = "close"
             /\ p + 1 \notin Separators(l) =>
                  IF s = "look" THEN e.action = IF marked THEN "create" ELSE "create_add"
                  ELSE e.action = IF marked THEN "ignore" ELSE "add"
  <1> DEFINE q == p + 1
             c == l[q]
             s == StateOf(l, p)
             e == TRANSITIONS[s][Category(c)]
  <1>1. Len(l) \in Nat /\ q \in 1 .. Len(l) /\ q # 0 /\ q - 1 = p
    BY LineFacts
  <1>2. s = "look" <=> p = 0 \/ p \in Separators(l)
    BY DEF StateOf
  <1>3. p # 0 => p \in 1 .. Len(l)
    BY <1>1
  <1>4. p # 0 => (q \in Literal(l) <=> Escaped(l, p))
    BY <1>1, <1>3, LiteralFacts DEF Escaped
  <1>5. s = "look" => ~Quoted(l, q) /\ q \notin Literal(l)
    BY <1>2, LookFacts
  <1>6. /\ s = "in_arg"    => ~Quoted(l, q) /\ q \notin Literal(l)
        /\ s = "in_quote"  =>  Quoted(l, q) /\ q \notin Literal(l)
        /\ s = "esc_arg"   => ~Quoted(l, q) /\ q \in Literal(l)
        /\ s = "esc_quote" =>  Quoted(l, q) /\ q \in Literal(l)
    BY <1>4 DEF StateOf
  <1>7. s \in {"look", "in_arg", "in_quote", "esc_arg", "esc_quote"}
    BY DEF StateOf
  <1>8. /\ q \in Marks(l, "quote") <=> c = "quote" /\ q \notin Literal(l)
        /\ q \in Marks(l, "escape") <=> c = "escape" /\ q \notin Literal(l)
        /\ q \in AllMarks(l) <=> c \in {"quote", "escape"} /\ q \notin Literal(l)
        /\ q \in Separators(l) <=> c \in Blanks /\ q \notin Literal(l) /\ ~Quoted(l, q)
    BY <1>1 DEF Marks, AllMarks, Separators
  <1>9. Quoted(l, q + 1) <=> IF q \in Marks(l, "quote") THEN ~Quoted(l, q) ELSE Quoted(l, q)
    BY <1>1, QuotedNext
  <1>10. Escaped(l, q) <=> c = "escape" /\ q \notin Literal(l)
    BY DEF Escaped
  <1>11. StateOf(l, q) =
           IF q \in Separators(l) THEN "look"
           ELSE IF Quoted(l, q + 1) THEN IF Escaped(l, q) THEN "esc_quote" ELSE "in_quote"
           ELSE IF Escaped(l, q) THEN "esc_arg" ELSE "in_arg"
    BY <1>1 DEF StateOf
  <1>12. /\ Category(c) \in Categories
         /\ Category(c) = "whitespace" <=> c \in Blanks
         /\ Category(c) = "quote" <=> c = "quote"
         /\ Category(c) = "escape" <=> c = "escape"
         /\ c \in Blanks => c # "quote" /\ c # "escape"
    BY CategoryFacts
  <1>13. \/ Category(c) = "whitespace" \/ Category(c) = "quote"
         \/ Category(c) = "escape" \/ Category(c) = "others"
    BY <1>12 DEF Categories
  <1> HIDE DEF q, c, s
  <1>14. CASE s \in {"esc_arg", "esc_quote"}
    <2>1. e = To(IF s = "esc_arg" THEN "in_arg" ELSE "in_quote", "add")
      BY <1>12, <1>14, TableFacts
    <2>2. q \notin Separators(l) /\ q \notin AllMarks(l) /\ ~Escaped(l, q)
      BY <1>6, <1>8, <1>10, <1>14
    <2>3. Quoted(l, q + 1) <=> s = "esc_quote"
      BY <1>6, <1>8, <1>9, <1>14
    <2>4. e.action = "add" /\ e.next = StateOf(l, q)
      BY <1>11, <1>14, <2>1, <2>2, <2>3 DEF To
    <2> QED
      BY <1>2, <1>14, <2>2, <2>4 DEF q, c, s
  <1>15. CASE s \in {"look", "in_arg", "in_quote"}
    <2>1. q \notin Literal(l) /\ (Quoted(l, q) <=> s = "in_quote")
      BY <1>5, <1>6, <1>15
    <2>2. CASE Category(c) = "whitespace"
      <3>1. q \notin AllMarks(l) /\ ~Escaped(l, q) /\ (q \in Separators(l) <=> s # "in_quote")
        BY <1>8, <1>10, <1>12, <2>1, <2>2
      <3>2. Quoted(l, q + 1) <=> s = "in_quote"
        BY <1>8, <1>9, <1>12, <2>1, <2>2
      <3>3. e.next = StateOf(l, q)
        BY <1>11, <1>15, <2>2, <3>1, <3>2, TableFacts DEF To
      <3>4. e.action = IF s = "look" THEN "ignore" ELSE IF s = "in_arg" THEN "close" ELSE "add"
        BY <1>15, <2>2, TableFacts DEF To
      <3> QED
        BY <1>2, <1>15, <3>1, <3>3, <3>4 DEF q, c, s
    <2>3. CASE Category(c) = "quote"
      <3>1. q \in AllMarks(l) /\ ~Escaped(l, q) /\ q \notin Separators(l)
        BY <1>8, <1>10, <1>12, <2>1, <2>3
      <3>2. Quoted(l, q + 1) <=> s # "in_quote"
        BY <1>8, <1>9, <1>12, <2>1, <2>3
      <3>3. e.next = StateOf(l, q)
        BY <1>11, <1>15, <2>3, <3>1, <3>2, TableFacts DEF To
      <3>4. e.action = IF s = "look" THEN "create" ELSE "ignore"
        BY <1>15, <2>3, TableFacts DEF To
      <3> QED
        BY <1>2, <1>15, <3>1, <3>3, <3>4 DEF q, c, s
    <2>4. CASE Category(c) = "escape"
      <3>1. q \in AllMarks(l) /\ Escaped(l, q) /\ q \notin Separators(l)
        BY <1>8, <1>10, <1>12, <2>1, <2>4
      <3>2. Quoted(l, q + 1) <=> s = "in_quote"
        BY <1>8, <1>9, <1>12, <2>1, <2>4
      <3>3. e.next = StateOf(l, q)
        BY <1>11, <1>15, <2>4, <3>1, <3>2, TableFacts DEF To
      <3>4. e.action = IF s = "look" THEN "create" ELSE "ignore"
        BY <1>15, <2>4, TableFacts DEF To
      <3> QED
        BY <1>2, <1>15, <3>1, <3>3, <3>4 DEF q, c, s
    <2>5. CASE Category(c) = "others"
      <3>1. q \notin AllMarks(l) /\ ~Escaped(l, q) /\ q \notin Separators(l)
        BY <1>8, <1>10, <1>12, <2>1, <2>5
      <3>2. Quoted(l, q + 1) <=> s = "in_quote"
        BY <1>8, <1>9, <1>12, <2>1, <2>5
      <3>3. e.next = StateOf(l, q)
        BY <1>11, <1>15, <2>5, <3>1, <3>2, TableFacts DEF To
      <3>4. e.action = IF s = "look" THEN "create_add" ELSE "add"
        BY <1>15, <2>5, TableFacts DEF To
      <3> QED
        BY <1>2, <1>15, <3>1, <3>3, <3>4 DEF q, c, s
    <2> QED
      BY <1>13, <2>2, <2>3, <2>4, <2>5
  <1> QED
    BY <1>7, <1>14, <1>15

-----------------------------------------------------------------------------
(* The inductive invariant. *)

WordsRead == WordsTo(line, pos, Separators(line), AllMarks(line))

(* The parser's state is that of the line; the words read are the arguments,*)
(* and the one it is in, if it is in one.  Outside of words the last        *)
(* argument is still there, and the action tells whether it was just added. *)
ReadInv ==
  shell = "parse" =>
    /\ line \in Lines /\ state = StateOf(line, pos)
    /\ state # "look" => WordsRead = Append(args, argument) /\ action # "close"
    /\ state = "look" =>
         /\ WordsRead = args
         /\ args = <<>> => argument = <<>>
         /\ args # <<>> => argument = Last(args)
         /\ pos > 0 => IF pos = 1 \/ pos - 1 \in Separators(line) THEN action = "ignore"
                                                                  ELSE action = "close"

(* Each argument took a character and one to end it. *)
SizeInv ==
  shell = "parse" =>
    Len(argument) <= pos /\ Len(args) <= pos /\ (pos > 0 => Len(args) < pos)

ParserInv == ParserTypeOK /\ SizeInv /\ ReadInv /\ ArgumentsExact

LEMMA InitParserInv == ParserInit => ParserInv
  <1> SUFFICES ASSUME ParserInit PROVE ParserInv
    OBVIOUS
  <1>1. MaxLen \in Nat
    BY MaxLenAssumption
  <1>2. /\ <<>> \in Seq(Chars \cup Blanks) /\ Len(<<>>) = 0
        /\ <<>> \in Seq(Seq(Chars \cup Blanks))
    OBVIOUS
  <1> QED
    BY <1>1, <1>2 DEF ParserInit, ParserInv, ParserTypeOK, SizeInv, ReadInv, ArgumentsExact,
       States, Actions

(* Before a line is read nothing is: where ReadLine and ChildEnds lead. *)
LEMMA StartStep ==
  ASSUME ReadLine \/ ChildEnds
  PROVE  ParserInv'
  <1>1. MaxLen \in Nat
    BY MaxLenAssumption
  <1>2. /\ <<>> \in Seq(Chars \cup Blanks) /\ Len(<<>>) = 0
        /\ <<>> \in Seq(Seq(Chars \cup Blanks))
    OBVIOUS
  <1>3. /\ shell' \in {"prompt", "parse"} /\ (line' = <<>> \/ line' \in Lines)
        /\ shell' = "parse" => line' \in Lines
        /\ pos' = 0 /\ state' = "look" /\ action' = "ignore" /\ argument' = <<>> /\ args' = <<>>
    BY DEF ReadLine, ChildEnds, Start
  <1>4. line' \in Lines => Len(line') \in Nat
    BY LineFacts
  <1>5. pos' \in 0 .. Len(line')
    BY <1>2, <1>3, <1>4
  <1>6. ParserTypeOK'
    BY <1>1, <1>2, <1>3, <1>5 DEF ParserTypeOK, States, Actions
  <1>7. WordsRead' = <<>>
    BY <1>3, WordsEmpty DEF WordsRead
  <1>8. ReadInv'
    BY <1>3, <1>7 DEF ReadInv, StateOf
  <1>9. SizeInv' /\ ArgumentsExact'
    BY <1>2, <1>3 DEF SizeInv, ArgumentsExact
  <1> QED
    BY <1>6, <1>8, <1>9 DEF ParserInv

LEMMA AppendFacts ==
  ASSUME NEW X, NEW a \in Seq(X), NEW x \in X
  PROVE  LET s == Append(a, x)
         IN  s \in Seq(X) /\ Len(s) = Len(a) + 1 /\ s # <<>> /\ Last(s) = x /\ Front(s) = a
  <1> DEFINE s == Append(a, x)
  <1>1. /\ s \in Seq(X) /\ Len(a) \in Nat /\ Len(s) = Len(a) + 1 /\ s[Len(a) + 1] = x
        /\ \A i \in 1 .. Len(a) : s[i] = a[i]
    BY AppendProperties
  <1>2. s # <<>>
    <2>1. Len(<<>>) = 0
      OBVIOUS
    <2> HIDE DEF s
    <2> QED
      BY <1>1, <2>1
  <1> HIDE DEF s
  <1>3. Front(s) = a
    <2>1. Front(s) = SubSeq(s, 1, Len(a))
      BY <1>1 DEF Front
    <2>2. SubSeq(s, 1, Len(a)) = [i \in 1 .. Len(a) |-> s[i]]
      BY <1>1
    <2>3. a = [i \in 1 .. Len(a) |-> a[i]]
      BY LenProperties
    <2>4. [i \in 1 .. Len(a) |-> s[i]] = [i \in 1 .. Len(a) |-> a[i]]
      BY <1>1
    <2> QED
      BY <2>1, <2>2, <2>3, <2>4
  <1>4. Last(s) = x
    BY <1>1 DEF Last
  <1> QED
    BY <1>1, <1>2, <1>3, <1>4 DEF s

(* The loop's step, in terms of what the character is on the line. *)
LEMMA LoopFacts ==
  ASSUME ParserInv, ParseChar
  PROVE  LET q == pos + 1
             longer(w) == Longer(w, line, q, AllMarks(line))
         IN  /\ shell = "parse" /\ shell' = "parse" /\ line' = line /\ pos' = q
             /\ line \in Lines /\ pos \in 0 .. Len(line) - 1 /\ state' = StateOf(line, q)
             /\ state = "look" <=> pos = 0 \/ pos \in Separators(line)
             /\ q \in Separators(line) /\ state = "look" =>
                  action' = "ignore" /\ argument' = argument /\ args' = args
             /\ q \in Separators(line) /\ state # "look" =>
                  action' = "close" /\ argument' = argument /\ args' = Append(args, argument)
             /\ q \notin Separators(line) /\ state = "look" =>
                  action' \in {"create", "create_add"} /\ argument' = longer(<<>>) /\ args' = args
             /\ q \notin Separators(line) /\ state # "look" =>
                  action' \in {"ignore", "add"} /\ argument' = longer(argument) /\ args' = args
  <1> DEFINE q == pos + 1
             c == line[q]
             e == TRANSITIONS[state][Category(c)]
             marked == q \in AllMarks(line)
  <1>1. /\ shell = "parse" /\ shell' = "parse" /\ line' = line /\ pos' = q /\ pos < Len(line)
        /\ state' = e.next /\ action' = e.action
        /\ argument' = CASE e.action = "create"     -> <<>>
                         [] e.action = "create_add" -> <<c>>
                         [] e.action = "add"        -> Append(argument, c)
                         [] OTHER                   -> argument
        /\ args' = IF e.action = "close" THEN Append(args, argument) ELSE args
    BY DEF ParseChar
  <1>2. line \in Lines /\ state = StateOf(line, pos) /\ pos \in 0 .. Len(line)
    BY <1>1 DEF ParserInv, ReadInv, ParserTypeOK
  <1>3. pos \in 0 .. Len(line) - 1
    BY <1>1, <1>2, LineFacts
  <1>4. /\ e.next = StateOf(line, q)
        /\ state = "look" <=> pos = 0 \/ pos \in Separators(line)
        /\ q \in Separators(line) =>
             IF state = "look" THEN e.action = "ignore" ELSE e.action = "close"
        /\ q \notin Separators(line) =>
             IF state = "look" THEN e.action = IF marked THEN "create" ELSE "create_add"
             ELSE e.action = IF marked THEN "ignore" ELSE "add"
    BY <1>2, <1>3, CharFacts
  <1>5. Append(<<>>, c) = <<c>>
    OBVIOUS
  <1> HIDE DEF c, e
  <1>6. q \in Separators(line) /\ state = "look" =>
          action' = "ignore" /\ argument' = argument /\ args' = args
    BY <1>1, <1>4
  <1>7. q \in Separators(line) /\ state # "look" =>
          action' = "close" /\ argument' = argument /\ args' = Append(args, argument)
    BY <1>1, <1>4
  <1>8. q \notin Separators(line) /\ state = "look" =>
          /\ action' \in {"create", "create_add"} /\ args' = args
          /\ argument' = Longer(<<>>, line, q, AllMarks(line))
    BY <1>1, <1>4, <1>5 DEF Longer, c
  <1>9. q \notin Separators(line) /\ state # "look" =>
          /\ action' \in {"ignore", "add"} /\ args' = args
          /\ argument' = Longer(argument, line, q, AllMarks(line))
    BY <1>1, <1>4 DEF Longer, c
  <1> QED
    BY <1>1, <1>2, <1>3, <1>4, <1>6, <1>7, <1>8, <1>9

LEMMA LongerFacts ==
  ASSUME NEW l \in Lines, NEW q \in 1 .. Len(l), NEW w \in Seq(Chars \cup Blanks)
  PROVE  LET v == Longer(w, l, q, AllMarks(l))
         IN  v \in Seq(Chars \cup Blanks) /\ Len(v) <= Len(w) + 1 /\ Len(v) \in Nat
  <1>1. l[q] \in Chars \cup Blanks
    BY LineFacts
  <1>2. /\ Append(w, l[q]) \in Seq(Chars \cup Blanks) /\ Len(Append(w, l[q])) = Len(w) + 1
        /\ Len(w) \in Nat
    BY <1>1, AppendProperties, LenProperties
  <1> QED
    BY <1>2 DEF Longer

LEMMA ParseCharStep ==
  ASSUME ParserInv, ParseChar
  PROVE  ParserInv'
  <1> DEFINE q == pos + 1
             C == Chars \cup Blanks
             W == WordsTo(line, q, Separators(line), AllMarks(line))
             longer(w) == Longer(w, line, q, AllMarks(line))
  <1>1. /\ shell = "parse" /\ shell' = "parse" /\ line' = line /\ pos' = q
        /\ line \in Lines /\ pos \in 0 .. Len(line) - 1 /\ state' = StateOf(line, q)
        /\ state = "look" <=> pos = 0 \/ pos \in Separators(line)
    BY LoopFacts
  <1>2. /\ Len(line) \in Nat /\ Len(line) >= 2 /\ Len(line) <= MaxLen /\ MaxLen \in Nat
        /\ pos \in Nat /\ q \in 1 .. Len(line) /\ q # 0
    BY <1>1, LineFacts, MaxLenAssumption
  <1>3. /\ argument \in Seq(C) /\ args \in Seq(Seq(C))
        /\ Len(argument) \in Nat /\ Len(args) \in Nat
        /\ Len(argument) <= pos /\ Len(args) <= pos /\ (pos > 0 => Len(args) < pos)
    BY <1>1, LenProperties DEF ParserInv, ParserTypeOK, SizeInv
  <1>4. /\ state # "look" => WordsRead = Append(args, argument)
        /\ state = "look" => /\ WordsRead = args
                             /\ args = <<>> => argument = <<>>
                             /\ args # <<>> => argument = Last(args)
    BY <1>1 DEF ParserInv, ReadInv
  <1>5. WordsRead' = W
    BY <1>1 DEF WordsRead
  <1>6. state' \in States
    BY <1>1 DEF StateOf, States
  <1>7. pos' > 0 /\ pos' \in 0 .. Len(line')
    BY <1>1, <1>2
  <1>8. /\ args' \in Seq(Seq(C)) /\ argument' \in Seq(C) /\ action' \in Actions
        /\ Len(argument') <= q /\ Len(args') < q
        /\ state' # "look" => W = Append(args', argument') /\ action' # "close"
        /\ state' = "look" =>
             /\ W = args'
             /\ args' = <<>> => argument' = <<>>
             /\ args' # <<>> => argument' = Last(args')
             /\ IF q = 1 \/ pos \in Separators(line) THEN action' = "ignore"
                                                     ELSE action' = "close"
    <2>1. CASE q \in Separators(line)
      <3>1. state' = "look"
        BY <1>1, <2>1 DEF StateOf
      <3>2. W = WordsRead
        BY <1>2, <2>1, WordsSkip DEF WordsRead
      <3>3. CASE state = "look"
        <4>1. action' = "ignore" /\ argument' = argument /\ args' = args
          BY <2>1, <3>3, LoopFacts
        <4>2. q = 1 \/ pos \in Separators(line)
          BY <1>1, <3>3
        <4>3. Len(args) < q /\ Len(argument) <= q
          BY <1>2, <1>3
        <4> QED
          BY <1>3, <1>4, <3>1, <3>2, <3>3, <4>1, <4>2, <4>3 DEF Actions
      <3>4. CASE state # "look"
        <4>1. action' = "close" /\ argument' = argument /\ args' = Append(args, argument)
          BY <2>1, <3>4, LoopFacts
        <4>2. pos # 0 /\ q # 1 /\ pos \notin Separators(line)
          BY <1>1, <1>2, <3>4
        <4>3. /\ Append(args, argument) \in Seq(Seq(C)) /\ Append(args, argument) # <<>>
              /\ Len(Append(args, argument)) = Len(args) + 1
              /\ Last(Append(args, argument)) = argument
          BY <1>3, AppendFacts
        <4>4. Len(args') < q /\ Len(argument) <= q
          BY <1>2, <1>3, <4>1, <4>2, <4>3
        <4> QED
          BY <1>3, <1>4, <3>1, <3>2, <3>4, <4>1, <4>2, <4>3, <4>4 DEF Actions
      <3> QED
        BY <3>3, <3>4
    <2>2. CASE q \notin Separators(line)
      <3>1. state' # "look"
        BY <1>1, <1>2, <2>2 DEF StateOf
      <3>2. CASE state = "look"
        <4>1. action' \in {"create", "create_add"} /\ argument' = longer(<<>>) /\ args' = args
          BY <2>2, <3>2, LoopFacts
        <4>2. W = Append(WordsRead, longer(<<>>))
          BY <1>1, <1>2, <2>2, <3>2, WordsBegin DEF WordsRead
        <4>3. <<>> \in Seq(C) /\ Len(<<>>) = 0
          OBVIOUS
        <4>4. argument' \in Seq(C) /\ Len(argument') <= 1 /\ Len(argument') \in Nat
          <5>1. /\ longer(<<>>) \in Seq(C) /\ Len(longer(<<>>)) \in Nat
                /\ Len(longer(<<>>)) <= Len(<<>>) + 1
            BY <1>1, <1>2, <4>3, LongerFacts
          <5> HIDE DEF longer
          <5> QED
            BY <4>1, <4>3, <5>1
        <4>5. Len(argument') <= q /\ Len(args) < q
          BY <1>2, <1>3, <4>4
        <4>6. action' \in Actions /\ action' # "close"
          BY <4>1 DEF Actions
        <4>7. W = Append(args', argument')
          BY <1>4, <3>2, <4>1, <4>2
        <4> QED
          BY <1>3, <3>1, <4>1, <4>4, <4>5, <4>6, <4>7
      <3>3. CASE state # "look"
        <4>1. action' \in {"ignore", "add"} /\ argument' = longer(argument) /\ args' = args
          BY <2>2, <3>3, LoopFacts
        <4>2. pos \in Nat \ {0} /\ pos \notin Separators(line)
          BY <1>1, <1>2, <3>3
        <4>3. W = Append(args, longer(argument))
          <5>1. WordsTo(line, pos, Separators(line), AllMarks(line)) = Added(args, argument)
            BY <1>4, <3>3 DEF WordsRead, Added
          <5>2. W = Added(args, longer(argument))
            BY <1>3, <2>2, <4>2, <5>1, WordsGrow
          <5> QED
            BY <5>2 DEF Added
        <4>4. argument' \in Seq(C) /\ Len(argument') <= Len(argument) + 1 /\ Len(argument') \in Nat
          BY <1>1, <1>2, <1>3, <4>1, LongerFacts
        <4>5. Len(argument') <= q /\ Len(args) < q
          BY <1>2, <1>3, <4>4
        <4>6. action' \in Actions /\ action' # "close"
          BY <4>1 DEF Actions
        <4>7. W = Append(args', argument')
          BY <4>1, <4>3
        <4> QED
          BY <1>3, <3>1, <4>1, <4>4, <4>5, <4>6, <4>7
      <3> QED
        BY <3>2, <3>3
    <2> QED
      BY <2>1, <2>2
  <1>9. Len(argument') \in Nat /\ Len(args') \in Nat
    BY <1>8, LenProperties
  <1>10. Len(argument') <= MaxLen /\ Len(args') <= MaxLen
    BY <1>2, <1>8, <1>9
  <1>11. ParserTypeOK'
    BY <1>1, <1>6, <1>7, <1>8, <1>10 DEF ParserTypeOK
  <1>12. SizeInv'
    BY <1>1, <1>2, <1>8, <1>9 DEF SizeInv
  <1>13. q - 1 = pos
    BY <1>2
  <1> HIDE DEF W
  <1>14. ReadInv'
    <2>1. line' \in Lines /\ state' = StateOf(line', pos')
      BY <1>1
    <2> QED
      BY <1>1, <1>5, <1>8, <1>13, <2>1 DEF ReadInv
  <1>15. ArgumentsExact'
    BY <1>1 DEF ArgumentsExact
  <1> QED
    BY <1>11, <1>12, <1>14, <1>15 DEF ParserInv

(* The end of the line: what is left to add is the word the line ends in,  *)
(* or the last argument once more.                                         *)
LEMMA ParseEndStep ==
  ASSUME ParserInv, ParseEnd
  PROVE  ParserInv'
  <1> DEFINE C == Chars \cup Blanks
             w == Words(line)
             n == Len(line)
             sep == Separators(line)
  <1>1. /\ shell = "parse" /\ pos = n /\ shell' = "child"
        /\ args' = IF action # "close" /\ argument # <<>> THEN Append(args, argument) ELSE args
        /\ line' = line /\ pos' = pos /\ state' = state /\ action' = action /\ argument' = argument
    BY DEF ParseEnd
  <1>2. line \in Lines /\ n \in Nat /\ n >= 2 /\ n <= MaxLen /\ MaxLen \in Nat
    BY <1>1, LineFacts, MaxLenAssumption DEF ParserInv, ReadInv
  <1>3. argument \in Seq(C) /\ args \in Seq(Seq(C)) /\ Len(args) \in Nat /\ Len(args) < n
    BY <1>1, <1>2, LenProperties DEF ParserInv, ParserTypeOK, SizeInv
  <1>4. WordsRead = w
    BY <1>1, WordsAll DEF WordsRead
  <1>5. state = "look" <=> n \in sep
    BY <1>1, <1>2 DEF ParserInv, ReadInv, StateOf
  <1>6. /\ state # "look" => w = Append(args, argument) /\ action # "close"
        /\ state = "look" =>
             /\ w = args
             /\ args = <<>> => argument = <<>>
             /\ args # <<>> => argument = Last(args)
             /\ IF n = 1 \/ n - 1 \in sep THEN action = "ignore" ELSE action = "close"
    BY <1>1, <1>2, <1>4 DEF ParserInv, ReadInv
  <1>7. /\ Append(args, argument) \in Seq(Seq(C)) /\ Append(args, argument) # <<>>
        /\ Len(Append(args, argument)) = Len(args) + 1
        /\ Last(Append(args, argument)) = argument /\ Front(Append(args, argument)) = args
    BY <1>3, AppendFacts
  <1>8. Trailing(line) <=> n - 1 \in sep /\ n \in sep
    BY <1>2 DEF Trailing
  <1>9. Arguments(line) =
          IF w = <<>> THEN w
          ELSE IF Trailing(line) /\ Last(w) # <<>> THEN Append(w, Last(w))
          ELSE IF n \notin sep /\ Last(w) = <<>> THEN Front(w)
          ELSE w
    BY DEF Arguments
  <1> HIDE DEF w, n, sep
  <1>10. args' = Arguments(line)
    <2>1. CASE state # "look"
      <3>1. ~Trailing(line) /\ n \notin sep
        BY <1>5, <1>8, <2>1
      <3>2. w # <<>> /\ Last(w) = argument /\ Front(w) = args /\ w = Append(args, argument)
        BY <1>6, <1>7, <2>1
      <3>3. args' = IF argument # <<>> THEN w ELSE args
        BY <1>1, <1>6, <2>1
      <3> QED
        BY <1>9, <3>1, <3>2, <3>3
    <2>2. CASE state = "look"
      <3>1. n \in sep /\ w = args
        BY <1>5, <1>6, <2>2
      <3>2. CASE n - 1 \in sep
        <4>1. Trailing(line) /\ action # "close"
          BY <1>6, <1>8, <2>2, <3>1, <3>2
        <4>2. CASE args = <<>>
          <5>1. argument = <<>>
            BY <1>6, <2>2, <4>2
          <5> QED
            BY <1>1, <1>9, <3>1, <4>2, <5>1
        <4>3. CASE args # <<>>
          <5>1. argument = Last(w)
            BY <1>6, <2>2, <3>1, <4>3
          <5> QED
            BY <1>1, <1>9, <3>1, <4>1, <4>3, <5>1
        <4> QED
          BY <4>2, <4>3
      <3>3. CASE n - 1 \notin sep
        <4>1. ~Trailing(line) /\ action = "close"
          BY <1>2, <1>6, <1>8, <2>2, <3>3
        <4> QED
          BY <1>1, <1>9, <3>1, <4>1
      <3> QED
        BY <3>2, <3>3
    <2> QED
      BY <2>1, <2>2
  <1>11. args' \in Seq(Seq(C)) /\ Len(args') <= MaxLen
    BY <1>1, <1>2, <1>3, <1>7
  <1>12. ParserTypeOK'
    <2>1. /\ line \in Lines /\ pos \in 0 .. Len(line) /\ state \in States /\ action \in Actions
          /\ argument \in Seq(C) /\ Len(argument) <= MaxLen
      BY <1>2 DEF ParserInv, ParserTypeOK
    <2>2. /\ line' \in Lines /\ pos' \in 0 .. Len(line') /\ state' \in States /\ action' \in Actions
          /\ argument' \in Seq(C) /\ Len(argument') <= MaxLen
      BY <1>1, <2>1
    <2> QED
      BY <1>1, <1>11, <2>2 DEF ParserTypeOK
  <1>13. SizeInv' /\ ReadInv'
    BY <1>1 DEF SizeInv, ReadInv
  <1>14. ArgumentsExact'
    BY <1>1, <1>10 DEF ArgumentsExact
  <1> QED
    BY <1>12, <1>13, <1>14 DEF ParserInv

LEMMA NextParserInv == ParserInv /\ [ParserNext]_parserVars => ParserInv'
  <1> SUFFICES ASSUME ParserInv, [ParserNext]_parserVars PROVE ParserInv'
    OBVIOUS
  <1>1. CASE ReadLine \/ ChildEnds
    BY <1>1, StartStep
  <1>2. CASE ParseChar
    BY <1>2, ParseCharStep
  <1>3. CASE ParseEnd
    BY <1>3, ParseEndStep
  <1>4. CASE UNCHANGED parserVars
    BY <1>4 DEF parserVars, ParserInv, ParserTypeOK, SizeInv, ReadInv, WordsRead, ArgumentsExact
  <1> QED
    BY <1>1, <1>2, <1>3, <1>4 DEF ParserNext

(* The parser's table leads to its states only, and it never has more      *)
(* arguments, or a longer one, than the line has characters                *)
(* (parse_command.c).                                                      *)
THEOREM ParserTypeCorrect == ParserSpec => []ParserTypeOK
  <1>1. ParserInv => ParserTypeOK
    BY DEF ParserInv
  <1> QED
    BY <1>1, InitParserInv, NextParserInv, PTL DEF ParserSpec

(* For every line the child is given the words of the line, wherever quotes *)
(* and escape characters stand in it, the last word as the code treats it: *)
(* twice after two blanks, not at all if it is empty and ends the line     *)
(* (parse_command.c:125).                                                  *)
THEOREM ArgumentsAreWords == ParserSpec => []ArgumentsExact
  <1>1. ParserInv => ArgumentsExact
    BY DEF ParserInv
  <1> QED
    BY <1>1, InitParserInv, NextParserInv, PTL DEF ParserSpec
=============================================================================
