---------------------------- MODULE RemoteCommand ----------------------------
(***************************************************************************)
(* The remote command server of lab2/v2 (rcommandserver.c) and its clients *)
(* (rcommandclient.c).  A client opens a connection for each command,      *)
(* writes the command, and writes it again on the same connection whenever *)
(* two seconds pass without an answer, three times in all.  The server     *)
(* serves one connection at a time: it tosses a coin for what one read     *)
(* returns and reads again on heads; on tails a child executes the command *)
(* with its output on the connection, and the server waits for the child   *)
(* and closes.                                                             *)
(*                                                                         *)
(* A connection carries copies of one command in one direction and one     *)
(* output in the other; a command fits a read and an output a read.  What  *)
(* TCP does when an end is closed is written out: a descriptor closed with *)
(* unread input resets the connection, any other is an end of file.        *)
(***************************************************************************)
EXTENDS Naturals, Sequences, FiniteSets

CONSTANTS
  Clients,
  Admitted,     \* clients with an address in allowed_ips
  MaxEntries,   \* MaxEntries[c]: bound on the commands of client c
  MaxAttempts,  \* MAX_ATTEMPTS
  Backlog,      \* connections the kernel keeps for accept (MAX_LISTEN_NUM)
  MaxFds,       \* descriptors the server may have for connections
  Budget        \* Budget[k]: bound on faults of kind k

FaultKinds == {"late", "fork", "interrupt"}

ASSUME RemoteAssumption ==
  /\ Admitted \subseteq Clients
  /\ MaxEntries \in [Clients -> Nat] /\ MaxAttempts \in Nat \ {0}
  /\ Backlog \in Nat /\ MaxFds \in Nat
  /\ Budget \in [FaultKinds -> Nat]

(* A client's commands, each with its connection. *)
Ids == UNION {{c} \X (1 .. MaxEntries[c]) : c \in Clients}

VARIABLES
  pc,       \* pc[c]: where run is in client c
  entry,    \* entry[c]: commands it read so far; <<c, entry[c]>> is its connection
  attempt,  \* attempt[c]: the attempt it is at
  armed,    \* armed[c]: its alarm is set
  why,      \* history: why client c ended
  conn,     \* the connections
  queue,    \* those waiting for accept
  srv,      \* where the server is; "wait" is waitpid
  cur,      \* the connection in sockfd_full, if it reads or waits
  child,    \* it has a child executing a command
  faults    \* faults so far, by kind

clientVars == <<pc, entry, attempt, armed, why>>
serverVars == <<queue, srv, cur, child>>
vars       == <<clientVars, conn, serverVars, faults>>

(* at: what the server's end is.  unread: copies of the command it has not *)
(* read.  out: the output on its way to the client.  eof: the client has   *)
(* closed its end.  ok: sanitize_command accepts the command.  writes and  *)
(* runs are history: copies written, children that executed one.           *)
NoConn == [at |-> "none", unread |-> 0, out |-> "none", eof |-> FALSE, ok |-> TRUE,
           writes |-> 0, runs |-> 0]

Init ==
  /\ pc = [c \in Clients |-> "prompt"]
  /\ entry = [c \in Clients |-> 0] /\ attempt = [c \in Clients |-> 0]
  /\ armed = [c \in Clients |-> FALSE] /\ why = [c \in Clients |-> "none"]
  /\ conn = [i \in Ids |-> NoConn]
  /\ queue = <<>> /\ srv = "accept" /\ cur = <<>> /\ child = FALSE
  /\ faults = [k \in FaultKinds |-> 0]

CanFault(k) == faults[k] < Budget[k]
Fault(k) == faults' = [faults EXCEPT ![k] = @ + 1]

Id(c) == <<c, entry[c]>>
GoTo(c, s) == pc' = [pc EXCEPT ![c] = s]
End(c, reason) == GoTo(c, "ended") /\ why' = [why EXCEPT ![c] = reason]
SetAlarm(c, b) == armed' = [armed EXCEPT ![c] = b]

(* The server's descriptors outlive it in a child. *)
ServerGone == srv = "ended" /\ ~child

-----------------------------------------------------------------------------
(* A client. *)

Enter(c) ==
  /\ pc[c] = "prompt" /\ entry[c] < MaxEntries[c]
  /\ entry' = [entry EXCEPT ![c] = @ + 1]
  /\ \E ok \in BOOLEAN : conn' = [conn EXCEPT ![<<c, entry[c] + 1>>].ok = ok]
  /\ GoTo(c, "connect")
  /\ UNCHANGED <<attempt, armed, why, serverVars, faults>>

(* The end of its input. *)
Leave(c) ==
  /\ pc[c] = "prompt"
  /\ End(c, "user")
  /\ UNCHANGED <<entry, attempt, armed, conn, serverVars, faults>>

Connect(c) ==
  /\ pc[c] = "connect"
  /\ \/ /\ ~ServerGone /\ Len(queue) < Backlog
        /\ queue' = Append(queue, Id(c))
        /\ conn' = [conn EXCEPT ![Id(c)].at = "queued"]
        /\ attempt' = [attempt EXCEPT ![c] = 1]
        /\ GoTo(c, "write") /\ UNCHANGED why
     \/ /\ ServerGone
        /\ End(c, "refused")
        /\ UNCHANGED <<attempt, conn, queue>>
  /\ UNCHANGED <<entry, armed, srv, cur, child, faults>>

(* The kernel gives up on a connection the server's queue has no room for. *)
ConnectTimesOut(c) ==
  /\ pc[c] = "connect" /\ Len(queue) >= Backlog
  /\ End(c, "refused")
  /\ UNCHANGED <<entry, attempt, armed, conn, serverVars, faults>>

CloseEnd(c) == conn' = [conn EXCEPT ![Id(c)].eof = TRUE]

(* write fails on a connection that was reset, and the program ends. *)
WriteFails(c) ==
  /\ conn[Id(c)].at = "reset"
  /\ End(c, "reset") /\ CloseEnd(c)
  /\ UNCHANGED <<armed, faults>>

(* A copy written to a connection that was closed is thrown away. *)
WriteCopy(c) ==
  /\ conn[Id(c)].at # "reset"
  /\ conn' = [conn EXCEPT ![Id(c)].unread = IF conn[Id(c)].at = "closed" THEN @ ELSE @ + 1,
                          ![Id(c)].writes = @ + 1]
  /\ GoTo(c, "read") /\ UNCHANGED why

(* Variant for mutation: the alarm is set for the first attempt only. *)
WriteAlarmOnce(c) ==
  /\ pc[c] = "write"
  /\ WriteFails(c) \/ (WriteCopy(c) /\ SetAlarm(c, attempt[c] = 1) /\ UNCHANGED faults)
  /\ UNCHANGED <<entry, attempt, serverVars>>

(* A late alarm goes off before read is entered. *)
Write(c) ==
  /\ pc[c] = "write"
  /\ \/ WriteFails(c)
     \/ WriteCopy(c) /\ SetAlarm(c, TRUE) /\ UNCHANGED faults
     \/ WriteCopy(c) /\ SetAlarm(c, FALSE) /\ CanFault("late") /\ Fault("late")
  /\ UNCHANGED <<entry, attempt, serverVars>>

(* Variant for mutation: the alarm is cancelled after the last read only. *)
ReadOutputArmed(c) ==
  /\ pc[c] = "read" /\ conn[Id(c)].out = "ready"
  /\ conn' = [conn EXCEPT ![Id(c)].out = "read"]
  /\ UNCHANGED <<clientVars, serverVars, faults>>

ReadOutput(c) ==
  /\ pc[c] = "read" /\ conn[Id(c)].out = "ready"
  /\ conn' = [conn EXCEPT ![Id(c)].out = "read"]
  /\ SetAlarm(c, FALSE)
  /\ UNCHANGED <<pc, entry, attempt, why, serverVars, faults>>

(* End of file: back to the prompt, with the alarm set if there was no output. *)
ReadEof(c) ==
  /\ pc[c] = "read" /\ conn[Id(c)].at = "closed" /\ conn[Id(c)].out # "ready"
  /\ CloseEnd(c)
  /\ GoTo(c, "prompt")
  /\ UNCHANGED <<entry, attempt, armed, why, serverVars, faults>>

ReadReset(c) ==
  /\ pc[c] = "read" /\ conn[Id(c)].at = "reset" /\ conn[Id(c)].out # "ready"
  /\ CloseEnd(c)
  /\ End(c, "reset")
  /\ UNCHANGED <<entry, attempt, armed, serverVars, faults>>

Readable(c) == conn[Id(c)].out = "ready" \/ conn[Id(c)].at \in {"closed", "reset"}

Interrupted(c) == pc[c] = "read" /\ armed[c] /\ ~Readable(c) /\ SetAlarm(c, FALSE)

TryAgain(c) ==
  /\ attempt' = [attempt EXCEPT ![c] = @ + 1]
  /\ GoTo(c, "write") /\ UNCHANGED conn

GiveUp(c) == GoTo(c, "prompt") /\ CloseEnd(c) /\ UNCHANGED attempt

(* Variants for mutation: an attempt too many, and one too few. *)
TimeoutOneMore(c) ==
  /\ Interrupted(c)
  /\ (attempt[c] <= MaxAttempts /\ TryAgain(c)) \/ (attempt[c] > MaxAttempts /\ GiveUp(c))
  /\ UNCHANGED <<entry, why, serverVars, faults>>

TimeoutOneLess(c) ==
  /\ Interrupted(c)
  /\ (attempt[c] + 1 < MaxAttempts /\ TryAgain(c)) \/ (attempt[c] + 1 >= MaxAttempts /\ GiveUp(c))
  /\ UNCHANGED <<entry, why, serverVars, faults>>

(* SIGALRM interrupts read: the next attempt, or none. *)
Timeout(c) ==
  /\ Interrupted(c)
  /\ (attempt[c] < MaxAttempts /\ TryAgain(c)) \/ (attempt[c] = MaxAttempts /\ GiveUp(c))
  /\ UNCHANGED <<entry, why, serverVars, faults>>

(* SIGALRM interrupts fgets or connect, and either ends the program. *)
StrayAlarm(c) ==
  /\ pc[c] \in {"prompt", "connect"} /\ armed[c]
  /\ SetAlarm(c, FALSE)
  /\ End(c, "alarm")
  /\ UNCHANGED <<entry, attempt, conn, serverVars, faults>>

(* SIGINT. *)
Interrupt(c) ==
  /\ CanFault("interrupt") /\ Fault("interrupt")
  /\ pc[c] # "ended"
  /\ End(c, "user")
  /\ IF pc[c] \in {"write", "read"} THEN CloseEnd(c) ELSE UNCHANGED conn
  /\ UNCHANGED <<entry, attempt, armed, serverVars>>

-----------------------------------------------------------------------------
(* The server. *)

OpenFds == {i \in Ids : conn[i].at \in {"served", "leaked"}}

Admits(i) == i[1] \in Admitted  \* sanitize_client_addr

Allows(i) == conn[i].ok         \* sanitize_command

(* Without a descriptor accept fails, and is called again at once.  A       *)
(* connection from an address that is not allowed stays open.               *)
Accept ==
  /\ srv = "accept" /\ queue # <<>> /\ Cardinality(OpenFds) < MaxFds
  /\ queue' = Tail(queue)
  /\ \/ /\ Admits(Head(queue))
        /\ conn' = [conn EXCEPT ![Head(queue)].at = "served"]
        /\ cur' = Head(queue) /\ srv' = "read"
     \/ /\ ~Admits(Head(queue))
        /\ conn' = [conn EXCEPT ![Head(queue)].at = "leaked"]
        /\ UNCHANGED <<cur, srv>>
  /\ UNCHANGED <<clientVars, child, faults>>

(* Back to accept without closing the connection. *)
Leak == srv' = "accept" /\ cur' = <<>> /\ UNCHANGED child

(* One round of the read loop: copies written meanwhile come with the first. *)
(* If fork fails there is no child to wait for.                              *)
ReadCommand ==
  /\ srv = "read" /\ conn[cur].unread > 0
  /\ LET read == [conn EXCEPT ![cur].unread = 0] IN
     \/ conn' = read /\ UNCHANGED <<srv, cur, child, faults>>           \* heads
     \/ /\ ~Allows(cur)
        /\ conn' = [read EXCEPT ![cur].at = "leaked"]
        /\ Leak /\ UNCHANGED faults
     \/ /\ Allows(cur)
        /\ conn' = [read EXCEPT ![cur].runs = @ + 1]
        /\ child' = TRUE /\ srv' = "wait" /\ UNCHANGED <<cur, faults>>
     \/ /\ Allows(cur)
        /\ CanFault("fork") /\ Fault("fork")
        /\ conn' = read
        /\ srv' = "wait" /\ UNCHANGED <<cur, child>>
  /\ UNCHANGED <<clientVars, queue>>

(* Variant for mutation: the server goes on reading at the end of file. *)
ReadNothingAgain ==
  /\ srv = "read" /\ conn[cur].unread = 0 /\ conn[cur].eof
  /\ UNCHANGED vars

(* The client has given up, or ended, before a coin came up tails. *)
ReadNothing ==
  /\ srv = "read" /\ conn[cur].unread = 0 /\ conn[cur].eof
  /\ conn' = [conn EXCEPT ![cur].at = "leaked"]
  /\ Leak
  /\ UNCHANGED <<clientVars, queue, faults>>

Closed(i) == IF conn[i].unread > 0 THEN "reset" ELSE "closed"

(* Variants for mutation: the connection is served on after its command, or not closed. *)
ReapServesOn ==
  /\ srv = "wait" /\ ~child
  /\ srv' = "read"
  /\ UNCHANGED <<clientVars, queue, cur, child, conn, faults>>

ReapUnclosed ==
  /\ srv = "wait" /\ ~child
  /\ conn' = [conn EXCEPT ![cur].at = "leaked"]
  /\ srv' = "accept" /\ cur' = <<>>
  /\ UNCHANGED <<clientVars, queue, child, faults>>

(* waitpid returns, and the connection is closed. *)
Reap ==
  /\ srv = "wait" /\ ~child
  /\ conn' = [conn EXCEPT ![cur].at = Closed(cur)]
  /\ srv' = "accept" /\ cur' = <<>>
  /\ UNCHANGED <<clientVars, queue, child, faults>>

(* With the last process that holds them all connections end. *)
AllClosed ==
  [i \in Ids |-> CASE conn[i].at = "queued" -> [conn[i] EXCEPT !.at = "reset"]
                   [] conn[i].at \in {"served", "leaked"} -> [conn[i] EXCEPT !.at = Closed(i)]
                   [] OTHER -> conn[i]]

(* The child prints its output, or that there is no such command, and ends. *)
ChildExit ==
  /\ child
  /\ child' = FALSE
  /\ LET printed == [conn[cur] EXCEPT !.out = IF conn[cur].eof THEN "none" ELSE "ready"] IN
     IF srv = "ended"
     THEN conn' = [AllClosed EXCEPT ![cur].out = printed.out]
     ELSE conn' = [conn EXCEPT ![cur] = printed]
  /\ UNCHANGED <<clientVars, queue, srv, cur, faults>>

(* SIGINT, which from the terminal ends the child too. *)
InterruptServer ==
  /\ CanFault("interrupt") /\ Fault("interrupt")
  /\ srv # "ended"
  /\ srv' = "ended"
  /\ child' \in {child, FALSE}
  /\ conn' = IF child' THEN conn ELSE AllClosed
  /\ UNCHANGED <<clientVars, queue, cur>>

-----------------------------------------------------------------------------
ClientStep(c) ==
  Connect(c) \/ Write(c) \/ ReadOutput(c) \/ ReadEof(c) \/ ReadReset(c) \/ Timeout(c)
ServerStep == Accept \/ ReadCommand \/ ReadNothing \/ Reap \/ ChildExit

Next ==
  \/ \E c \in Clients :
       \/ ClientStep(c) \/ Enter(c) \/ Leave(c)
       \/ ConnectTimesOut(c) \/ StrayAlarm(c) \/ Interrupt(c)
  \/ ServerStep \/ InterruptServer

Spec == Init /\ [][Next]_vars

(***************************************************************************)
(* Processes keep running, alarms go off and commands end.  The coin may   *)
(* come up heads for ever, and nobody has to enter a command.              *)
(***************************************************************************)
FairSpec ==
  /\ Spec
  /\ \A c \in Clients : WF_vars(ClientStep(c))
  /\ WF_vars(ServerStep)

-----------------------------------------------------------------------------
Ends == {"none", "queued", "served", "leaked", "closed", "reset"}

(* Types, and at which connection the server is. *)
TypeOK ==
  /\ pc \in [Clients -> {"prompt", "connect", "write", "read", "ended"}]
  /\ entry \in [Clients -> Nat] /\ attempt \in [Clients -> 0 .. MaxAttempts]
  /\ armed \in [Clients -> BOOLEAN]
  /\ why \in [Clients -> {"none", "user", "refused", "reset", "alarm"}]
  /\ conn \in [Ids -> [at : Ends, unread : Nat, out : {"none", "ready", "read"}, eof : BOOLEAN,
                       ok : BOOLEAN, writes : 0 .. MaxAttempts, runs : Nat]]
  /\ queue \in Seq(Ids)
  /\ srv \in {"accept", "read", "wait", "ended"} /\ child \in BOOLEAN
  /\ srv \in {"read", "wait"} => cur \in Ids /\ conn[cur].at = "served"
  /\ child => cur \in Ids /\ srv \in {"wait", "ended"}
  /\ faults \in [FaultKinds -> Nat]

(***************************************************************************)
(* A command entered once is executed at most once, however often it was   *)
(* written, and only for a client and a command that are allowed.          *)
(***************************************************************************)
ExecutedOnce ==
  \A i \in Ids : conn[i].runs <= 1 /\ (conn[i].runs = 1 => i[1] \in Admitted /\ conn[i].ok)

(***************************************************************************)
(* Why a client ends without being told to: its connection was reset       *)
(* because it had written a copy the server did not read, its alarm was    *)
(* still set because no output came (rcommandclient.c:49), or there was no *)
(* server to connect to.                                                   *)
(***************************************************************************)
EndExplained ==
  \A c \in Clients :
    /\ why[c] = "reset" => conn[Id(c)].writes > 1 \/ srv = "ended"
    /\ why[c] = "alarm" => faults["fork"] > 0 \/ srv = "ended"

(***************************************************************************)
(* A client that is back at its prompt has printed the output of its       *)
(* command, or has given up after all attempts, or there was no child.     *)
(***************************************************************************)
AnsweredOrGivenUp ==
  \A c \in Clients :
    pc[c] = "prompt" /\ entry[c] > 0
      => \/ conn[Id(c)].out = "read" \/ conn[Id(c)].writes = MaxAttempts
         \/ faults["fork"] > 0 \/ srv = "ended"

(* How a client's command, or the client itself, came to its end. *)
OutcomeExplained == EndExplained /\ AnsweredOrGivenUp

(***************************************************************************)
(* A descriptor the server no longer uses stays open only if it refused    *)
(* the client or the command, or the client closed first.                  *)
(***************************************************************************)
LeakExplained ==
  \A i \in OpenFds : conn[i].at = "leaked" => i[1] \notin Admitted \/ ~conn[i].ok \/ conn[i].eof

(* Whoever connected gets back to its prompt, unless an alarm went off early. *)
ClientReturns ==
  \A c \in Clients :
    pc[c] \in {"write", "read"} ~> pc[c] \in {"prompt", "ended"} \/ faults["late"] > 0

(***************************************************************************)
(* Whoever waits for accept is accepted, unless the server has run out of  *)
(* descriptors or ended, or an alarm went off early: then client and       *)
(* server wait in read for each other.                                     *)
(***************************************************************************)
QueueServed ==
  \A i \in Ids :
    conn[i].at = "queued"
      ~> \/ conn[i].at # "queued" \/ srv = "ended" \/ faults["late"] > 0
         \/ (srv = "accept" /\ Cardinality(OpenFds) = MaxFds)
=============================================================================
