----------------------------- MODULE FileOverTcp -----------------------------
(***************************************************************************)
(* The file server of lab3/v1 (myftps.c) and its clients (myftpc.c).  Each *)
(* run of a client asks for the file over a connection of its own and      *)
(* appends what it reads to a file in the directory it runs in, if there   *)
(* was none.  The server's parent reads one request at a time, and closes  *)
(* the connection or forks a child that sends the file and closes.         *)
(*                                                                         *)
(* The file is a sequence of units, written and read in blocks, between    *)
(* which TCP keeps no boundary.  Names, keys and addresses are abstracted  *)
(* to what the checks say of a request.                                    *)
(***************************************************************************)
EXTENDS Naturals, Sequences, FiniteSets

CONSTANTS
  Clients,
  Asks,        \* Asks[c]: what its users ask for, of Kinds
  Dirs,
  DirOf,       \* DirOf[c]: the directory client c runs in
  FileLen,     \* units of the file on the server
  BlockArg,    \* the server's argument blocksize-byte
  ClientBlock, \* the client's
  NumSlots,    \* bound on connections at a time
  Backlog,     \* connections the kernel keeps for accept (MAX_LISTEN_NUM)
  MaxFaults    \* bound on the kinds of faults that happen, each any number of times

(* A request from an address that is not allowed, one with a wrong key or a *)
(* name that is malformed or of no file, and one to be served.              *)
Kinds == {"foreign", "wrong", "good"}

FaultKinds == {"child", "disk", "fork", "interrupt", "kill"}

(* send_file takes its block size as an uint16_t. *)
Chunk == BlockArg % 65536

ASSUME FileAssumption ==
  /\ Asks \in [Clients -> SUBSET Kinds] /\ DirOf \in [Clients -> Dirs]
  /\ FileLen \in Nat \ {0} /\ BlockArg \in Nat /\ Chunk # 0 /\ ClientBlock \in Nat \ {0}
  /\ NumSlots \in Nat /\ Backlog \in Nat /\ MaxFaults \in Nat

Slots == 1 .. NumSlots

NoReport == FileLen + 1

VARIABLES
  pc,       \* pc[c]: where run is in client c; "idle" between two runs
  slot,     \* slot[c]: its connection
  result,   \* result[c]: the units its last run reported, if it did not fail
  conn,     \* the connections
  queue,    \* those waiting for accept
  srv,      \* where the parent is
  cur,      \* the connection it reads a request from
  file,     \* file[d]: the units in the file in directory d
  made,     \* made[d]: there is a file in d
  overlap,  \* history: directories in which two runs fetched at a time
  missing,  \* history: missing[d]: units read from TCP that the disk refused
  faults    \* the kinds of faults that happened

clientVars == <<pc, slot, result>>
serverVars == <<queue, srv, cur>>
diskVars   == <<file, made, overlap, missing>>
vars       == <<clientVars, conn, serverVars, diskVars, faults>>

(* at: what the server's end is; "send" is a child.  request: what the     *)
(* parent has not read.  sent, read: units written by the child, and read  *)
(* by the client.  eof: the client has closed its end.                     *)
Free == [at |-> "free", kind |-> "good", request |-> FALSE, sent |-> 0, read |-> 0, eof |-> FALSE]

Init ==
  /\ pc = [c \in Clients |-> "idle"] /\ slot = [c \in Clients |-> 0]
  /\ result = [c \in Clients |-> NoReport]
  /\ conn = [s \in Slots |-> Free]
  /\ queue = <<>> /\ srv = "accept" /\ cur = 0
  /\ file = [d \in Dirs |-> <<>>] /\ made = [d \in Dirs |-> FALSE]
  /\ overlap = {} /\ missing = [d \in Dirs |-> {}]
  /\ faults = {}

Fault(k) == faults' = faults \cup {k} /\ Cardinality(faults') <= MaxFaults

GoTo(c, s) == pc' = [pc EXCEPT ![c] = s]
Ends(c, report) ==
  /\ GoTo(c, "idle")
  /\ result' = [result EXCEPT ![c] = report]
  /\ slot' = [slot EXCEPT ![c] = 0]

(* A connection that both ends have closed is no more. *)
Collected(r) == IF r.eof /\ r.at \in {"closed", "reset"} THEN Free ELSE r

ClientCloses(s) == conn' = [conn EXCEPT ![s] = Collected([@ EXCEPT !.eof = TRUE])]

Sending == {s \in Slots : conn[s].at = "send"}

-----------------------------------------------------------------------------
(* A client. *)

(* Children inherit the listening descriptor. *)
Listening == srv # "ended" \/ Sending # {}

FirstFree == CHOOSE s \in Slots : conn[s].at = "free" /\ \A t \in 1 .. s - 1 : conn[t].at # "free"

(* A user starts the program, and it connects. *)
Start(c, k) ==
  /\ pc[c] = "idle"
  /\ Listening /\ Len(queue) < Backlog /\ \E s \in Slots : conn[s].at = "free"
  /\ slot' = [slot EXCEPT ![c] = FirstFree]
  /\ conn' = [conn EXCEPT ![FirstFree] = [Free EXCEPT !.at = "queued", !.kind = k]]
  /\ queue' = Append(queue, FirstFree)
  /\ result' = [result EXCEPT ![c] = NoReport]
  /\ GoTo(c, "request")
  /\ UNCHANGED <<srv, cur, diskVars, faults>>

WriteRequest(c) ==
  /\ pc[c] = "request"
  /\ \/ /\ conn[slot[c]].at = "reset"
        /\ Ends(c, NoReport) /\ ClientCloses(slot[c])
     \/ /\ conn[slot[c]].at # "reset"
        /\ conn' = [conn EXCEPT ![slot[c]].request = (conn[slot[c]].at # "closed")]
        /\ GoTo(c, "check") /\ UNCHANGED <<slot, result>>
  /\ UNCHANGED <<serverVars, diskVars, faults>>

Fetching(d) == {c \in Clients : pc[c] = "fetch" /\ DirOf[c] = d}

BeginFetch(c) ==
  /\ GoTo(c, "fetch")
  /\ overlap' = IF Fetching(DirOf[c]) # {} THEN overlap \cup {DirOf[c]} ELSE overlap
  /\ UNCHANGED <<slot, conn, result>>

(* Variants for mutation: a file that exists is appended to; the file is   *)
(* made by the check.                                                      *)
CheckFileNot(c) ==
  /\ pc[c] = "check"
  /\ BeginFetch(c)
  /\ UNCHANGED <<serverVars, file, made, missing, faults>>

CheckFileMakes(c) ==
  /\ pc[c] = "check"
  /\ \/ /\ made[DirOf[c]]
        /\ Ends(c, NoReport) /\ ClientCloses(slot[c])
        /\ UNCHANGED <<overlap, made>>
     \/ ~made[DirOf[c]] /\ BeginFetch(c) /\ made' = [made EXCEPT ![DirOf[c]] = TRUE]
  /\ UNCHANGED <<serverVars, file, missing, faults>>

(* The file must not exist; it is made when the first block arrives. *)
CheckFile(c) ==
  /\ pc[c] = "check"
  /\ \/ /\ made[DirOf[c]]
        /\ Ends(c, NoReport) /\ ClientCloses(slot[c])
        /\ UNCHANGED overlap
     \/ ~made[DirOf[c]] /\ BeginFetch(c)
  /\ UNCHANGED <<serverVars, file, made, missing, faults>>

Unread(s) == conn[s].sent - conn[s].read

Units(from, n) == [i \in 1 .. n |-> from + i]

(* Variant for mutation: the buffer is written when it is full, and what is *)
(* in it at the end of the stream is not.                                  *)
ReadBlockFullOnly(c) ==
  LET d == DirOf[c] s == slot[c] IN
  /\ pc[c] = "fetch"
  /\ \E n \in 1 .. ClientBlock :
       /\ n <= Unread(s)
       /\ conn' = [conn EXCEPT ![s].read = @ + n]
       /\ file' = [file EXCEPT ![d] = IF n = ClientBlock THEN @ \o Units(conn[s].read, n) ELSE @]
  /\ made' = [made EXCEPT ![d] = TRUE]
  /\ UNCHANGED <<clientVars, serverVars, overlap, missing, faults>>

(* A read, and append_file, whose result is ignored: with the disk full    *)
(* nothing is written, and the next block is appended all the same.        *)
ReadBlock(c) ==
  LET d == DirOf[c] s == slot[c] IN
  /\ pc[c] = "fetch"
  /\ \E n \in 1 .. ClientBlock :
       /\ n <= Unread(s)
       /\ conn' = [conn EXCEPT ![s].read = @ + n]
       /\ \/ file' = [file EXCEPT ![d] = @ \o Units(conn[s].read, n)] /\ UNCHANGED <<missing, faults>>
          \/ /\ Fault("disk") /\ UNCHANGED file
             /\ missing' = [missing EXCEPT ![d] = @ \cup {conn[s].read + i : i \in 1 .. n}]
  /\ made' = [made EXCEPT ![d] = TRUE]
  /\ UNCHANGED <<clientVars, serverVars, overlap>>

(* print_statistics, whatever was read. *)
ReadEof(c) ==
  /\ pc[c] = "fetch" /\ conn[slot[c]].at = "closed" /\ Unread(slot[c]) = 0
  /\ Ends(c, conn[slot[c]].read) /\ ClientCloses(slot[c])
  /\ UNCHANGED <<serverVars, diskVars, faults>>

ReadReset(c) ==
  /\ pc[c] = "fetch" /\ conn[slot[c]].at = "reset" /\ Unread(slot[c]) = 0
  /\ Ends(c, NoReport) /\ ClientCloses(slot[c])
  /\ UNCHANGED <<serverVars, diskVars, faults>>

(* SIGINT. *)
Interrupt(c) ==
  /\ Fault("interrupt")
  /\ pc[c] # "idle"
  /\ Ends(c, NoReport) /\ ClientCloses(slot[c])
  /\ UNCHANGED <<serverVars, diskVars>>

-----------------------------------------------------------------------------
(* The parent. *)

(* A descriptor closed with unread input resets the connection. *)
Shut(r) == Collected([r EXCEPT !.at = IF r.request THEN "reset" ELSE "closed"])

Admits(s) == conn[s].kind # "foreign"  \* sanitize_client_addr

Accept ==
  /\ srv = "accept" /\ queue # <<>>
  /\ queue' = Tail(queue)
  /\ LET s == Head(queue) IN
     \/ /\ ~Admits(s)
        /\ conn' = [conn EXCEPT ![s] = Shut(@)]
        /\ UNCHANGED <<srv, cur>>
     \/ /\ Admits(s)
        /\ conn' = [conn EXCEPT ![s].at = "read"]
        /\ srv' = "read" /\ cur' = s
  /\ UNCHANGED <<clientVars, diskVars, faults>>

(* If the client closed before it wrote, read returns 0 and what the buffer *)
(* held is decoded as a request.                                           *)
Decoded == IF conn[cur].request THEN {conn[cur].kind} ELSE {"wrong", "good"}

Taken(r) == [r EXCEPT !.request = FALSE, !.kind = "good"]

Reject == conn' = [conn EXCEPT ![cur] = Shut(Taken(@))] /\ UNCHANGED faults

(* Tails: the child has the connection, and the parent closes its copy. *)
ForkChild == conn' = [conn EXCEPT ![cur] = [Taken(@) EXCEPT !.at = "send"]] /\ UNCHANGED faults

ForkFails ==
  /\ Fault("fork")
  /\ conn' = [conn EXCEPT ![cur] = Shut(Taken(@))]

(* Variant for mutation: the next request is expected on the same connection. *)
BackToRead == UNCHANGED <<srv, cur, clientVars, queue, diskVars>>

BackToAccept == srv' = "accept" /\ cur' = 0 /\ UNCHANGED <<clientVars, queue, diskVars>>

CanRead == conn[cur].request \/ conn[cur].eof

(* Variant for mutation: read_request waits for all bytes of the request. *)
CanReadAll == conn[cur].request

(* The request's checks, and heads: the connection is closed. *)
RejectRequest ==
  /\ srv = "read" /\ CanRead
  /\ Reject /\ BackToAccept

ServeRequest ==
  /\ srv = "read" /\ CanRead /\ "good" \in Decoded
  /\ ForkChild \/ ForkFails
  /\ BackToAccept

-----------------------------------------------------------------------------
(* A child. *)

BlockAt(pos) == IF pos + Chunk <= FileLen THEN Chunk ELSE FileLen - pos

(* Variant for mutation: the parent keeps its copy of the connection. *)
ChildClosedKept(r) == [r EXCEPT !.at = "kept"]

ChildClosed(r) == Shut(r)

(* What the last process with the listening descriptor leaves: the          *)
(* connections nobody accepted are reset.                                   *)
Abandoned(f) ==
  [s \in Slots |-> IF f[s].at = "queued" THEN Collected([f[s] EXCEPT !.at = "reset"]) ELSE f[s]]

(* Connections in the queue end with the last child of a server that ended. *)
LastChildEnds(s) ==
  LET f == [conn EXCEPT ![s] = ChildClosed(@)] IN
  IF srv = "ended" /\ Sending = {s}
  THEN conn' = Abandoned(f) /\ queue' = <<>>
  ELSE conn' = f /\ UNCHANGED queue

(* fread and write.  A client that has closed ends the child by SIGPIPE,    *)
(* once its reset has come.                                                 *)
SendBlock(s) ==
  /\ conn[s].at = "send" /\ conn[s].sent < FileLen
  /\ conn' = [conn EXCEPT ![s].sent = @ + BlockAt(conn[s].sent)]
  /\ UNCHANGED <<clientVars, serverVars, diskVars, faults>>

(* The end of the file, or a connection its client has closed. *)
FinishSend(s) ==
  /\ conn[s].at = "send"
  /\ conn[s].sent = FileLen \/ conn[s].eof
  /\ LastChildEnds(s)
  /\ UNCHANGED <<clientVars, srv, cur, diskVars, faults>>

(* fopen or fread fails: the connection is closed as at the end of the file. *)
ChildFails(s) ==
  /\ Fault("child")
  /\ conn[s].at = "send"
  /\ LastChildEnds(s)
  /\ UNCHANGED <<clientVars, srv, cur, diskVars>>

(* SIGINT, which from the terminal ends the children too. *)
InterruptServer ==
  /\ Fault("kill")
  /\ srv # "ended"
  /\ srv' = "ended" /\ cur' = 0
  /\ \E all \in BOOLEAN :
       LET f == [s \in Slots |-> IF conn[s].at = "read" \/ (all /\ conn[s].at = "send")
                                 THEN Shut(conn[s]) ELSE conn[s]] IN
       IF all \/ Sending = {} THEN conn' = Abandoned(f) /\ queue' = <<>>
                              ELSE conn' = f /\ UNCHANGED queue
  /\ UNCHANGED <<clientVars, diskVars>>

-----------------------------------------------------------------------------
ClientStep(c) == WriteRequest(c) \/ CheckFile(c) \/ ReadBlock(c) \/ ReadEof(c) \/ ReadReset(c)
ParentStep    == Accept \/ RejectRequest \/ ServeRequest
ChildStep(s)  == SendBlock(s) \/ FinishSend(s)

Next ==
  \/ \E c \in Clients :
       \/ \E k \in Asks[c] : Start(c, k)
       \/ ClientStep(c) \/ Interrupt(c)
  \/ ParentStep \/ InterruptServer
  \/ \E s \in Slots : ChildStep(s) \/ ChildFails(s)

Spec == Init /\ [][Next]_vars

(***************************************************************************)
(* Processes keep running.  A client is run again and again with a request *)
(* to be served, and the coin does not come up heads each time it is.      *)
(***************************************************************************)
FairSpec ==
  /\ Spec
  /\ \A c \in Clients :
       /\ WF_vars(ClientStep(c)) /\ SF_vars(Start(c, "good") /\ "good" \in Asks[c])
       /\ SF_vars(ServeRequest /\ cur = slot[c] /\ conn[cur].kind = "good")
  /\ WF_vars(ParentStep)
  /\ \A s \in Slots : WF_vars(ChildStep(s))

-----------------------------------------------------------------------------
Source == Units(0, FileLen)

(* Types, and where the parent and the clients are in the connections. *)
TypeOK ==
  /\ pc \in [Clients -> {"idle", "request", "check", "fetch"}]
  /\ slot \in [Clients -> 0 .. NumSlots]
  /\ result \in [Clients -> 0 .. NoReport]
  /\ conn \in [Slots -> [at : {"free", "queued", "read", "send", "closed", "reset"},
                         kind : Kinds, request : BOOLEAN, sent : 0 .. FileLen,
                         read : 0 .. FileLen, eof : BOOLEAN]]
  /\ queue \in Seq(Slots) /\ srv \in {"accept", "read", "ended"}
  /\ srv = "read" => cur \in Slots /\ conn[cur].at = "read"
  /\ file \in [Dirs -> Seq(1 .. FileLen)] /\ made \in [Dirs -> BOOLEAN]
  /\ overlap \subseteq Dirs /\ missing \in [Dirs -> SUBSET (1 .. FileLen)]
  /\ faults \subseteq FaultKinds

Beginning(seq) == Len(seq) <= FileLen /\ \A i \in DOMAIN seq : seq[i] = i

(* The first n units but those in gone, each once and in their order. *)
AllBut(seq, n, gone) ==
  /\ gone \subseteq 1 .. n
  /\ {seq[i] : i \in DOMAIN seq} = (1 .. n) \ gone
  /\ \A i, j \in DOMAIN seq : i < j => seq[i] < seq[j]

(***************************************************************************)
(* What a directory holds is the beginning of the server's file, wherever  *)
(* the stream is cut and whoever fails, unless two runs fetched into it at *)
(* a time (both looked before either had written) or the disk refused a    *)
(* block.  In particular a run that finds the whole file leaves it alone.   *)
(***************************************************************************)
BeginningKept == \A d \in Dirs : Beginning(file[d]) \/ d \in overlap \/ missing[d] # {}

(***************************************************************************)
(* A run that reports bytes reports all of the file, unless a child failed *)
(* or the server was stopped, which the client cannot tell from its end.   *)
(* What it reports is then in its directory, each byte once and in order,  *)
(* unless two runs fetched into it at a time.  One exception is the code's *)
(* own: blocks the disk refused are reported too, and are missing from the *)
(* file.                                                                   *)
(***************************************************************************)
ReportTrue ==
  \A c \in Clients :
    result[c] \notin {NoReport, 0} =>
      /\ result[c] = FileLen \/ "child" \in faults \/ "kill" \in faults
      /\ AllBut(file[DirOf[c]], result[c], missing[DirOf[c]]) \/ DirOf[c] \in overlap

(* Every run of a client ends: the parent gets back from every connection,  *)
(* and each client sees the end of its own.                                *)
RunEnds == \A c \in Clients : pc[c] # "idle" ~> pc[c] = "idle"

(* In the end every directory a client runs in has the file. *)
Fetched ==
  <>(\/ \A c \in Clients : file[DirOf[c]] = Source
     \/ faults # {}
     \/ overlap # {})
=============================================================================
