----------------------------- MODULE CommandFifo -----------------------------
(***************************************************************************)
(* The command server of lab1/v3 (simsh1.c) and its clients                *)
(* (commandclient.c).  All clients write requests to one server FIFO, a    *)
(* client's pid before its command; the server reads it, forks a child for *)
(* the request and waits for it; the child opens the FIFO of that pid,     *)
(* executes the command with its output there, and the client reads to the *)
(* end of file.  Opening a FIFO blocks until its other end is opened.      *)
(*                                                                         *)
(* A request is its length, and the pid it begins with.  What a command    *)
(* prints is identified by the request.                                    *)
(***************************************************************************)
EXTENDS Naturals, Sequences

CONSTANTS
  Clients,
  Nobody,       \* a pid without a FIFO
  NoPid,        \* in place of a pid: the first line is not followed by another
  Sizes,        \* lengths of requests
  ReadSize,     \* PIPE_BUF
  MaxRequests,  \* bound on the requests of one client
  Budget        \* Budget[k]: bound on faults of kind k

FaultKinds == {"interrupt", "fork"}

ASSUME FifoAssumption ==
  /\ Nobody \notin Clients /\ NoPid \notin Clients
  /\ Sizes \subseteq Nat \ {0} /\ ReadSize \in Nat /\ MaxRequests \in Nat
  /\ Budget \in [FaultKinds -> Nat]

VARIABLES
  pc,       \* pc[c]: where client c is
  size,     \* size[c]: the length of its request
  sent,     \* sent[c]: requests it wrote so far
  answer,   \* answer[c]: the request whose output c read last
  srv,      \* where the server is; "wait" is waitpid
  fifo,     \* the server FIFO has its name
  pipe,     \* requests in the server FIFO, each with the position it ends at
  written,  \* how much was written to the server FIFO
  taken,    \* how much was read from it
  child,    \* the child of the server: what it does, for which request
  cut,      \* a read took a part of a request
  faults    \* faults so far, by kind

clientVars == <<pc, size, sent, answer>>
fifoVars   == <<fifo, pipe, written, taken, cut>>
vars       == <<clientVars, srv, fifoVars, child, faults>>

NoChild == [at |-> "none", pid |-> Nobody, client |-> Nobody, num |-> 0]

Init ==
  /\ pc = [c \in Clients |-> "prompt"]
  /\ size = [c \in Clients |-> 0]
  /\ sent = [c \in Clients |-> 0]
  /\ answer = [c \in Clients |-> [client |-> c, num |-> 0]]
  /\ srv = "read" /\ fifo = TRUE /\ pipe = <<>> /\ written = 0 /\ taken = 0
  /\ child = NoChild /\ cut = FALSE
  /\ faults = [k \in FaultKinds |-> 0]

CanFault(k) == faults[k] < Budget[k]
Fault(k) == faults' = [faults EXCEPT ![k] = @ + 1]

GoTo(c, s) == pc' = [pc EXCEPT ![c] = s]

-----------------------------------------------------------------------------
(* A client. *)

Enter(c) ==
  /\ pc[c] = "prompt" /\ sent[c] < MaxRequests
  /\ \E z \in Sizes : size' = [size EXCEPT ![c] = z]
  /\ GoTo(c, "open")
  /\ UNCHANGED <<sent, answer, srv, fifoVars, child, faults>>

(* The end of its input: start_client returns, and main removes its FIFO. *)
Leave(c) ==
  /\ pc[c] = "prompt"
  /\ GoTo(c, "ended")
  /\ UNCHANGED <<size, sent, answer, srv, fifoVars, child, faults>>

OpenServer(c) ==
  /\ pc[c] = "open"
  /\ GoTo(c, IF fifo THEN "write" ELSE "ended")
  /\ UNCHANGED <<size, sent, answer, srv, fifoVars, child, faults>>

(* The server reads the FIFO, and every child has inherited its descriptor. *)
HasReader == srv # "ended" \/ child.at # "none"

(* Variant for mutation: a client shows its prompt again without an answer. *)
AfterWriteNoWait == "prompt"

(* Where start_client is after the request is written: it opens its own FIFO. *)
AfterWrite == "wait"

(* A request that is too long is not written, and its answer waited for.     *)
(* SIGPIPE ends the client if nobody reads.                                  *)
Write(c) ==
  /\ pc[c] = "write"
  /\ \/ /\ size[c] > ReadSize
        /\ GoTo(c, AfterWrite)
        /\ UNCHANGED <<sent, pipe, written>>
     \/ /\ size[c] <= ReadSize /\ HasReader
        /\ pipe' = Append(pipe, [client |-> c, num |-> sent[c] + 1, pid |-> c,
                                 size |-> size[c], end |-> written + size[c]])
        /\ written' = written + size[c]
        /\ sent' = [sent EXCEPT ![c] = @ + 1]
        /\ GoTo(c, AfterWrite)
     \/ /\ size[c] <= ReadSize /\ ~HasReader
        /\ GoTo(c, "ended")
        /\ UNCHANGED <<sent, pipe, written>>
  /\ UNCHANGED <<size, answer, srv, fifo, taken, cut, child, faults>>

(* Variant for mutation: the client holds the writing end of its FIFO itself. *)
EndOfFileOwn(c) == FALSE

(* No process writes to the client's FIFO any more. *)
EndOfFile(c) == ~(child.at = "run" /\ child.pid = c)

ReadAnswer(c) ==
  /\ pc[c] = "read" /\ EndOfFile(c)
  /\ GoTo(c, "prompt")
  /\ UNCHANGED <<size, sent, answer, srv, fifoVars, child, faults>>

-----------------------------------------------------------------------------
(* The server. *)

(* The requests 1 .. k fit in one read, and no more. *)
Fits(k) ==
  /\ pipe[k].end <= taken + ReadSize
  /\ k < Len(pipe) => pipe[k + 1].end > taken + ReadSize

IsCut(k) == k < Len(pipe) /\ pipe[k + 1].end - pipe[k + 1].size < taken + ReadSize

(* Variant for mutation: what was read last is read again. *)
LeftoverAgain(k, pid) == SubSeq(pipe, k, Len(pipe))

(* Variant for mutation: one request too many is thrown away. *)
LeftoverOneLess(k, pid) == SubSeq(pipe, k + 2, Len(pipe))

(* What is left in the FIFO.  The rest of a request begins with the rest of  *)
(* the pid, which may be another pid, or is its last line.                   *)
Leftover(k, pid) ==
  LET rest == SubSeq(pipe, k + 1, Len(pipe)) IN
  IF IsCut(k) THEN [rest EXCEPT ![1] = [pipe[k + 1] EXCEPT !.pid = pid]] ELSE rest

(* Variant for mutation: the server does not wait for its child. *)
ForkGoOn(q) ==
  /\ child' = [at |-> "forked", pid |-> q.pid, client |-> q.client, num |-> q.num]
  /\ UNCHANGED <<srv, fifo, faults>>

Fork(q) ==
  /\ child' = [at |-> "forked", pid |-> q.pid, client |-> q.client, num |-> q.num]
  /\ srv' = "wait"
  /\ UNCHANGED <<fifo, faults>>

(* waitpid returns at once without a child. *)
ForkFails ==
  /\ CanFault("fork") /\ Fault("fork")
  /\ UNCHANGED <<srv, child, fifo>>

(* start_server returns without a command (line 41), and main removes the FIFO. *)
ParseFails ==
  /\ srv' = "ended" /\ fifo' = FALSE
  /\ UNCHANGED <<child, faults>>

(* One round of start_server, up to waitpid.  The pid and the command are     *)
(* what precedes the first null byte; the requests 2 .. k are lost.          *)
ReadRequest ==
  /\ srv = "read"
  /\ \E k \in 1 .. Len(pipe), pid \in Clients \cup {Nobody, NoPid} :
       /\ Fits(k) /\ (IsCut(k) => pid # pipe[k + 1].client)
       /\ pipe' = Leftover(k, pid)
       /\ taken' = IF taken + ReadSize <= written THEN taken + ReadSize ELSE written
       /\ cut' = (cut \/ IsCut(k))
       /\ \/ pipe[1].pid # NoPid /\ (Fork(pipe[1]) \/ ForkFails)
          \/ pipe[1].pid = NoPid /\ ParseFails
  /\ UNCHANGED <<clientVars, written>>

Reap ==
  /\ srv = "wait" /\ child.at = "none"
  /\ srv' = "read"
  /\ UNCHANGED <<clientVars, fifoVars, child, faults>>

-----------------------------------------------------------------------------
(* The child. *)

Exists(p) == p \in Clients /\ pc[p] # "ended"

(* If there is no such FIFO the child returns into main, which removes the  *)
(* FIFO of the server.                                                      *)
ChildOpen ==
  /\ child.at = "forked"
  /\ IF Exists(child.pid)
     THEN child' = [child EXCEPT !.at = "open"] /\ UNCHANGED fifo
     ELSE child' = NoChild /\ fifo' = FALSE
  /\ UNCHANGED <<clientVars, srv, pipe, written, taken, cut, faults>>

(* Both open calls return. *)
Connect ==
  /\ child.at = "open" /\ Exists(child.pid) /\ pc[child.pid] \in {"wait", "read"}
  /\ GoTo(child.pid, "read")
  /\ answer' = [answer EXCEPT ![child.pid] = [client |-> child.client, num |-> child.num]]
  /\ child' = [child EXCEPT !.at = "run"]
  /\ UNCHANGED <<size, sent, srv, fifoVars, faults>>

(* The command has ended, or execvp has failed. *)
ChildExit ==
  /\ child.at = "run"
  /\ child' = NoChild
  /\ UNCHANGED <<clientVars, srv, fifoVars, faults>>

-----------------------------------------------------------------------------
(* SIGINT: both programs remove their FIFO and end. *)

Interrupt(c) ==
  /\ CanFault("interrupt") /\ Fault("interrupt")
  /\ pc[c] # "ended"
  /\ GoTo(c, "ended")
  /\ UNCHANGED <<size, sent, answer, srv, fifoVars, child>>

(* From the terminal, the signal reaches the child too. *)
InterruptServer ==
  /\ CanFault("interrupt") /\ Fault("interrupt")
  /\ srv # "ended"
  /\ srv' = "ended" /\ fifo' = FALSE
  /\ child' \in {child, NoChild}
  /\ UNCHANGED <<clientVars, pipe, written, taken, cut>>

-----------------------------------------------------------------------------
ClientStep(c) == OpenServer(c) \/ Write(c) \/ ReadAnswer(c)
ServerStep    == ReadRequest \/ Reap
ChildStep     == ChildOpen \/ Connect \/ ChildExit

Next ==
  \/ \E c \in Clients : ClientStep(c) \/ Enter(c) \/ Leave(c) \/ Interrupt(c)
  \/ ServerStep \/ ChildStep \/ InterruptServer

Spec == Init /\ [][Next]_vars

(***************************************************************************)
(* Processes keep running and commands end; no client has to enter another *)
(* command, and none has to stop.                                          *)
(***************************************************************************)
FairSpec ==
  /\ Spec
  /\ \A c \in Clients : WF_vars(ClientStep(c))
  /\ WF_vars(ServerStep) /\ WF_vars(ChildStep)

-----------------------------------------------------------------------------
Pids == Clients \cup {Nobody, NoPid}

Requests == [client : Clients, num : Nat, pid : Pids, size : Nat, end : Nat]

(* Types; only one child runs, and the server has a name for its FIFO while *)
(* nothing removed it.                                                      *)
TypeOK ==
  /\ pc \in [Clients -> {"prompt", "open", "write", "wait", "read", "ended"}]
  /\ size \in [Clients -> Nat] /\ sent \in [Clients -> Nat]
  /\ answer \in [Clients -> [client : Clients, num : Nat]]
  /\ srv \in {"read", "wait", "ended"}
  /\ fifo \in BOOLEAN /\ cut \in BOOLEAN /\ written \in Nat /\ taken \in Nat
  /\ pipe \in Seq(Requests)
  /\ child = NoChild \/ child \in [at : {"forked", "open", "run"}, pid : Clients \cup {Nobody},
                                  client : Clients, num : Nat]
  /\ faults \in [FaultKinds -> Nat]
  /\ child.at # "none" => srv # "read"

(***************************************************************************)
(* What a client reads is the output of its own latest command, whoever    *)
(* else writes to the server, as long as no read has cut a request in two. *)
(***************************************************************************)
OwnAnswer == ~cut => \A c \in Clients : pc[c] = "read" => answer[c] = [client |-> c, num |-> sent[c]]

(***************************************************************************)
(* The server FIFO is only removed by the server's end, unless a client    *)
(* was stopped with a request under way or a read has cut one.             *)
(***************************************************************************)
NameKept == ~fifo => srv = "ended" \/ faults["interrupt"] > 0 \/ cut

(***************************************************************************)
(* The server does not wait for its child for ever: the client the child   *)
(* writes to is on its way to read, unless it was stopped.                 *)
(***************************************************************************)
ServerFree == srv = "wait" ~> srv # "wait" \/ faults["interrupt"] > 0 \/ cut

(* The request of c is in the server's FIFO or with a child. *)
Held(c) == (\E i \in DOMAIN pipe : pipe[i].client = c) \/ child.client = c

(***************************************************************************)
(* A request in the FIFO is answered, unless the server throws it away or  *)
(* ends.                                                                   *)
(***************************************************************************)
Answered ==
  \A c \in Clients :
    pc[c] = "wait" /\ Held(c)
      ~> \/ pc[c] \in {"prompt", "ended"} \/ (pc[c] = "wait" /\ ~Held(c))
         \/ srv = "ended" \/ faults["interrupt"] > 0 \/ cut

(***************************************************************************)
(* A request is lost in one way only: one read took it whole behind        *)
(* another, and the command of the first alone is executed                 *)
(* (lab1/v3/README.md:117 promises to serve multiple writers); unless fork *)
(* failed, somebody was stopped, or a read cut a request.                  *)
(***************************************************************************)
LostBehindAnother ==
  [][\A c \in Clients :
       Held(c) /\ ~Held(c)' /\ pc'[c] = "wait"
         => \/ \E i \in 2 .. Len(pipe) : pipe[i].client = c /\ pipe[i].end <= taken'
            \/ cut' \/ \E k \in FaultKinds : faults'[k] > 0]_vars
=============================================================================
