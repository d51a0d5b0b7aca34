-------------------------- MODULE FileOverTcpProofs --------------------------
(***************************************************************************)
(* Proofs about FileOverTcp for any clients, requests, directories, file,  *)
(* block sizes, connections and faults.                                    *)
(***************************************************************************)
EXTENDS FileOverTcp, SequenceTheorems, WellFoundedInduction, TLAPS

-----------------------------------------------------------------------------
(* The inductive invariant. *)

(* No client reads what was not sent, and nothing is sent before a child.   *)
(* A connection whose end its client can still see was closed after all of  *)
(* the file or nothing, unless somebody failed.                             *)
Failed == "child" \in faults \/ "kill" \in faults

ConnOK(r) ==
  /\ r.read <= r.sent
  /\ r.at \in {"free", "queued", "read"} => r.sent = 0
  /\ r.at = "closed" /\ ~r.eof => r.sent \in {0, FileLen} \/ Failed

ConnInv == \A s \in Slots : ConnOK(conn[s])

(* Every connection waits for accept once. *)
QueueInv ==
  /\ \A k \in 1 .. Len(queue) : conn[queue[k]].at = "queued"
  /\ \A k, l \in 1 .. Len(queue) : queue[k] = queue[l] => k = l

(* A client under way has a connection of its own, which it has not closed, *)
(* and has read from it only if it fetches.                                 *)
OwnerInv ==
  /\ \A c \in Clients : pc[c] # "idle" =>
       /\ slot[c] \in Slots
       /\ conn[slot[c]].at # "free" /\ ~conn[slot[c]].eof
       /\ pc[c] # "fetch" => conn[slot[c]].read = 0
  /\ \A c, e \in Clients : pc[c] # "idle" /\ pc[e] # "idle" /\ slot[c] = slot[e] => c = e

(* The one run that fetches into a directory has appended all it read, but  *)
(* for what the disk refused, and made the file if it read anything.        *)
FetchOK(d, c) ==
  /\ AllBut(file[d], conn[slot[c]].read, missing[d])
  /\ missing[d] = {} => Len(file[d]) = conn[slot[c]].read
  /\ conn[slot[c]].read # 0 => made[d]

FileInv ==
  \A d \in Dirs :
    /\ ~made[d] => file[d] = <<>> /\ missing[d] = {}
    /\ d \notin overlap =>
         /\ \A c, e \in Fetching(d) : c = e
         /\ \A c \in Fetching(d) : FetchOK(d, c)
         /\ missing[d] = {} => Beginning(file[d])

(* Once a run has reported bytes there is a file, and nobody fetches.       *)
ReportInv ==
  \A c \in Clients :
    result[c] \notin {NoReport, 0} =>
      DirOf[c] \in overlap \/ (made[DirOf[c]] /\ Fetching(DirOf[c]) = {})

IInv == TypeOK /\ ConnInv /\ QueueInv /\ OwnerInv /\ FileInv /\ ReportInv /\ ReportTrue
-----------------------------------------------------------------------------
(* Facts about the operators. *)

Ends4 == {"free", "queued", "read", "send", "closed", "reset"}

Connection ==
  [at : Ends4, kind : Kinds, request : BOOLEAN, sent : 0 .. FileLen, read : 0 .. FileLen,
   eof : BOOLEAN]

LEMMA FileLenFacts ==
  FileLen \in Nat /\ FileLen >= 1 /\ ClientBlock \in Nat /\ NumSlots \in Nat
  BY FileAssumption

LEMMA ConnFacts ==
  ASSUME NEW r \in Connection
  PROVE  /\ r.at \in Ends4 /\ r.kind \in Kinds /\ r.request \in BOOLEAN /\ r.eof \in BOOLEAN
         /\ r.sent \in Nat /\ r.sent <= FileLen /\ r.read \in Nat /\ r.read <= FileLen
  BY FileLenFacts DEF Connection

LEMMA ConnType == TypeOK => conn \in [Slots -> Connection]
  BY DEF TypeOK, Connection, Ends4

LEMMA FreeFacts ==
  /\ Free \in Connection /\ Free.at = "free" /\ Free.sent = 0 /\ Free.read = 0
  /\ Free.eof = FALSE /\ ConnOK(Free)
  BY FileLenFacts DEF Free, Connection, Kinds, Ends4, ConnOK

(* The client's end closes: the connection is gone if the other end had too. *)
EofSet(r) == Collected([r EXCEPT !.eof = TRUE])

LEMMA EofFacts ==
  ASSUME NEW r \in Connection
  PROVE  /\ EofSet(r) \in Connection
         /\ r.at \in {"closed", "reset"} => EofSet(r) = Free
         /\ r.at \notin {"closed", "reset"} =>
              /\ EofSet(r).at = r.at /\ EofSet(r).sent = r.sent
              /\ EofSet(r).read = r.read /\ EofSet(r).eof = TRUE
  <1> DEFINE e == [r EXCEPT !.eof = TRUE]
  <1>1. /\ e \in Connection /\ e.at = r.at /\ e.sent = r.sent /\ e.read = r.read /\ e.eof = TRUE
    BY DEF Connection
  <1>2. EofSet(r) = Collected(e)
    BY DEF EofSet
  <1> HIDE DEF e
  <1> QED
    BY <1>1, <1>2, FreeFacts DEF Collected

(* The server's end closes, with a reset if it leaves a request unread. *)
LEMMA ShutFacts ==
  ASSUME NEW r \in Connection
  PROVE  /\ Shut(r) \in Connection
         /\ r.eof => Shut(r) = Free
         /\ ~r.eof => /\ Shut(r).at \in {"closed", "reset"} /\ Shut(r).eof = FALSE
                      /\ Shut(r).sent = r.sent /\ Shut(r).read = r.read
  <1>1. PICK a \in {"closed", "reset"} : a = IF r.request THEN "reset" ELSE "closed"
    OBVIOUS
  <1> DEFINE e == [r EXCEPT !.at = a]
  <1>2. /\ e \in Connection /\ e.at = a /\ e.sent = r.sent /\ e.read = r.read /\ e.eof = r.eof
    BY DEF Connection, Ends4
  <1>3. Shut(r) = Collected(e)
    BY <1>1 DEF Shut
  <1> HIDE DEF e
  <1>4. r.eof \in BOOLEAN
    BY ConnFacts
  <1> QED
    BY <1>2, <1>3, <1>4, FreeFacts DEF Collected

LEMMA TakenFacts ==
  ASSUME NEW r \in Connection
  PROVE  /\ Taken(r) \in Connection
         /\ Taken(r).at = r.at /\ Taken(r).sent = r.sent /\ Taken(r).read = r.read
         /\ Taken(r).eof = r.eof
  BY DEF Connection, Taken, Kinds

LEMMA AtFacts ==
  ASSUME NEW r \in Connection, NEW a \in Ends4
  PROVE  LET x == [r EXCEPT !.at = a] IN
           /\ x \in Connection /\ x.at = a /\ x.sent = r.sent /\ x.read = r.read /\ x.eof = r.eof
  BY DEF Connection

(* Nobody is left who could accept the connections in the queue. *)
LEMMA AbandonedFacts ==
  ASSUME NEW f \in [Slots -> Connection]
  PROVE  /\ Abandoned(f) \in [Slots -> Connection]
         /\ \A s \in Slots :
              /\ f[s].at # "queued" => Abandoned(f)[s] = f[s]
              /\ f[s].at = "queued" /\ f[s].eof => Abandoned(f)[s] = Free
              /\ f[s].at = "queued" /\ ~f[s].eof =>
                   /\ Abandoned(f)[s].at = "reset" /\ Abandoned(f)[s].eof = FALSE
                   /\ Abandoned(f)[s].sent = f[s].sent /\ Abandoned(f)[s].read = f[s].read
  <1>1. ASSUME NEW s \in Slots
        PROVE  /\ Abandoned(f)[s] \in Connection
               /\ f[s].at # "queued" => Abandoned(f)[s] = f[s]
               /\ f[s].at = "queued" /\ f[s].eof => Abandoned(f)[s] = Free
               /\ f[s].at = "queued" /\ ~f[s].eof =>
                   /\ Abandoned(f)[s].at = "reset" /\ Abandoned(f)[s].eof = FALSE
                   /\ Abandoned(f)[s].sent = f[s].sent /\ Abandoned(f)[s].read = f[s].read
    <2>1. f[s] \in Connection /\ f[s].eof \in BOOLEAN
      BY ConnFacts
    <2> DEFINE e == [f[s] EXCEPT !.at = "reset"]
    <2>2. /\ e \in Connection /\ e.at = "reset" /\ e.sent = f[s].sent /\ e.read = f[s].read
          /\ e.eof = f[s].eof
      BY <2>1, AtFacts DEF Ends4
    <2>3. Abandoned(f)[s] = IF f[s].at = "queued" THEN Collected(e) ELSE f[s]
      BY DEF Abandoned
    <2> HIDE DEF e
    <2> QED
      BY <2>1, <2>2, <2>3, FreeFacts DEF Collected
  <1>2. Abandoned(f) \in [Slots -> Connection]
    BY <1>1 DEF Abandoned
  <1> QED
    BY <1>1, <1>2

LEMMA FaultFacts ==
  ASSUME TypeOK, NEW k \in FaultKinds, Fault(k)
  PROVE  faults \subseteq faults' /\ faults' \subseteq FaultKinds /\ k \in faults'
  BY DEF TypeOK, Fault

LEMMA LessIsWellFounded ==
  \E R : /\ IsWellFoundedOn(R, Nat)
         /\ \A m, n \in Nat : n < m => <<n, m>> \in R
  <1>1. \A m, n \in Nat : n < m => <<n, m>> \in OpToRel(<, Nat)
    BY DEF OpToRel
  <1> QED
    BY <1>1, NatLessThanWellFounded, Zenon

LEMMA Smallest ==
  ASSUME NEW S, S \subseteq Nat, S # {}
  PROVE  \E m \in S : \A n \in S : m <= n
  <1>1. PICK R : /\ IsWellFoundedOn(R, Nat)
                 /\ \A m, n \in Nat : n < m => <<n, m>> \in R
    BY LessIsWellFounded
  <1>2. PICK m \in S : \A n \in S : ~ (<<n, m>> \in R)
    BY <1>1, WFMin, Zenon
  <1>3. ASSUME NEW n \in S PROVE ~ (n < m)
    BY <1>1, <1>2
  <1>4. ASSUME NEW n \in S PROVE m <= n
    BY <1>3
  <1> QED
    BY <1>4

(* If a connection is free, FirstFree is. *)
LEMMA FirstFreeFacts ==
  ASSUME \E s \in Slots : conn[s].at = "free"
  PROVE  FirstFree \in Slots /\ conn[FirstFree].at = "free"
  <1> DEFINE S == {s \in Slots : conn[s].at = "free"}
  <1>1. S \subseteq Nat /\ S # {}
    BY DEF Slots
  <1>2. PICK m \in S : \A n \in S : m <= n
    BY <1>1, Smallest
  <1>3. \A t \in 1 .. m - 1 : t \notin S /\ t \in Slots
    BY <1>1, <1>2, FileLenFacts DEF Slots
  <1>4. \E s \in Slots : conn[s].at = "free" /\ \A t \in 1 .. s - 1 : conn[t].at # "free"
    BY <1>2, <1>3
  <1> QED
    BY <1>4, Zenon DEF FirstFree

LEMMA InitIInv == Init => IInv
  <1> SUFFICES ASSUME Init PROVE IInv
    OBVIOUS
  <1>1. conn \in [Slots -> Connection] /\ \A s \in Slots : conn[s] = Free
    BY FreeFacts DEF Init
  <1>2. TypeOK
    <2>1. /\ pc \in [Clients -> {"idle", "request", "check", "fetch"}]
          /\ slot \in [Clients -> 0 .. NumSlots] /\ result \in [Clients -> 0 .. NoReport]
          /\ srv = "accept"
          /\ made \in [Dirs -> BOOLEAN] /\ overlap \subseteq Dirs /\ faults \subseteq FaultKinds
          /\ missing \in [Dirs -> SUBSET (1 .. FileLen)]
      BY FileLenFacts DEF Init, NoReport
    <2>2. queue \in Seq(Slots) /\ file \in [Dirs -> Seq(1 .. FileLen)]
      BY DEF Init
    <2> QED
      BY <1>1, <2>1, <2>2, Zenon DEF TypeOK, Connection, Ends4
  <1>3. ConnInv
    BY <1>1, FreeFacts DEF ConnInv
  <1>4. QueueInv /\ OwnerInv
    BY DEF Init, QueueInv, OwnerInv
  <1>5. FileInv
    BY FileLenFacts DEF Init, FileInv, Fetching, Beginning
  <1>6. ReportInv /\ ReportTrue
    BY DEF Init, ReportInv, ReportTrue
  <1> QED
    BY <1>2, <1>3, <1>4, <1>5, <1>6 DEF IInv
(* A step that leaves the files alone, and of those that fetch what they    *)
(* have read.                                                               *)
LEMMA FilesStay ==
  ASSUME IInv, UNCHANGED diskVars,
         \A d \in Dirs : Fetching(d)' \subseteq Fetching(d),
         \A d \in Dirs : \A e \in Fetching(d)' :
           slot'[e] = slot[e] /\ conn'[slot[e]].read = conn[slot[e]].read
  PROVE  FileInv'
  <1>1. UNCHANGED <<file, made, overlap, missing>>
    BY DEF diskVars
  <1>2. ASSUME NEW d \in Dirs, d \notin overlap, NEW e \in Fetching(d)'
        PROVE  FetchOK(d, e)'
    <2>1. FetchOK(d, e)
      BY <1>2 DEF IInv, FileInv
    <2>2. slot'[e] = slot[e] /\ conn'[slot[e]].read = conn[slot[e]].read
      BY <1>2
    <2> QED
      BY <1>1, <2>1, <2>2 DEF FetchOK, AllBut
  <1> QED
    BY <1>1, <1>2 DEF IInv, FileInv, Beginning

(* So do reports stay true, if there is no new one.                         *)
LEMMA ReportsStay ==
  ASSUME IInv, UNCHANGED diskVars, faults \subseteq faults',
         \A d \in Dirs : Fetching(d)' \subseteq Fetching(d),
         \A e \in Clients : result'[e] \in {result[e], NoReport}
  PROVE  ReportInv' /\ ReportTrue'
  <1>1. UNCHANGED <<file, made, overlap, missing>>
    BY DEF diskVars
  <1>2. \A e \in Clients : DirOf[e] \in Dirs
    BY FileAssumption
  <1>3. ReportInv'
    BY <1>1, <1>2 DEF IInv, ReportInv
  <1>4. ReportTrue'
    BY <1>1 DEF IInv, ReportTrue, AllBut
  <1> QED
    BY <1>3, <1>4

-----------------------------------------------------------------------------
(* The steps of the server and its children. *)

(* They leave what a client that has not closed has read of its connection. *)
ServerKeeps(s) ==
  conn[s].at # "free" /\ ~conn[s].eof
    => conn'[s].at # "free" /\ ~conn'[s].eof /\ conn'[s].read = conn[s].read

LEMMA ServerStepKeepsIInv ==
  ASSUME IInv, UNCHANGED <<clientVars, diskVars>>,
         faults \subseteq faults', faults' \subseteq FaultKinds,
         conn' \in [Slots -> Connection], queue' \in Seq(Slots),
         srv' \in {"accept", "read", "ended"},
         srv' = "read" => cur' \in Slots /\ conn'[cur'].at = "read",
         \A s \in Slots : ServerKeeps(s) /\ (conn'[s] = conn[s] \/ ConnOK(conn[s])'),
         QueueInv'
  PROVE  IInv'
  <1>1. UNCHANGED <<pc, slot, result, file, made, overlap, missing>>
    BY DEF clientVars, diskVars
  <1>2. TypeOK'
    BY <1>1 DEF IInv, TypeOK, Connection, Ends4
  <1>3. ConnInv'
    <2> SUFFICES ASSUME NEW s \in Slots PROVE ConnOK(conn[s])'
      BY DEF ConnInv
    <2>1. CASE conn'[s] = conn[s]
      BY <2>1 DEF IInv, ConnInv, ConnOK, Failed
    <2> QED
      BY <2>1
  <1>4. \A c \in Clients : pc[c] # "idle" =>
          slot[c] \in Slots /\ conn'[slot[c]].at # "free" /\ ~conn'[slot[c]].eof
          /\ conn'[slot[c]].read = conn[slot[c]].read
    BY DEF IInv, OwnerInv, ServerKeeps
  <1>5. OwnerInv'
    BY <1>1, <1>4 DEF IInv, OwnerInv
  <1>6. FileInv'
    <2>1. \A d \in Dirs : Fetching(d)' = Fetching(d)
      BY <1>1 DEF Fetching
    <2>2. \A d \in Dirs : \A c \in Fetching(d) : conn'[slot[c]].read = conn[slot[c]].read
      BY <1>4 DEF Fetching
    <2> QED
      BY <1>1, <2>1, <2>2, FilesStay
  <1>7. ReportInv' /\ ReportTrue'
    <2>1. \A d \in Dirs : Fetching(d)' = Fetching(d)
      BY <1>1 DEF Fetching
    <2> QED
      BY <1>1, <2>1, ReportsStay
  <1> QED
    BY <1>2, <1>3, <1>5, <1>6, <1>7 DEF IInv

(* A step that changes one connection, which is not in the queue. *)
LEMMA OneConnStep ==
  ASSUME IInv, UNCHANGED <<clientVars, diskVars, queue>>,
         faults \subseteq faults', faults' \subseteq FaultKinds,
         NEW s \in Slots, NEW x \in Connection, conn' = [conn EXCEPT ![s] = x],
         conn[s].at # "queued", ConnOK(x)',
         ~conn[s].eof => x.at # "free" /\ ~x.eof /\ x.read = conn[s].read,
         srv' \in {"accept", "read", "ended"},
         srv' = "read" => cur' \in Slots /\ cur' # s /\ conn[cur'].at = "read"
  PROVE  IInv'
  <1>1. conn \in [Slots -> Connection] /\ queue \in Seq(Slots)
    BY ConnType DEF IInv, TypeOK
  <1>2. /\ conn' \in [Slots -> Connection] /\ conn'[s] = x
        /\ \A t \in Slots : t # s => conn'[t] = conn[t]
    BY <1>1
  <1>3. \A t \in Slots : ServerKeeps(t) /\ (conn'[t] = conn[t] \/ ConnOK(conn[t])')
    BY <1>2 DEF ServerKeeps, ConnOK, Failed
  <1>4. QueueInv'
    <2>1. \A k \in 1 .. Len(queue) : queue[k] \in Slots
      BY <1>1
    <2> QED
      BY <1>2, <2>1 DEF IInv, QueueInv
  <1> QED
    BY <1>1, <1>2, <1>3, <1>4, ServerStepKeepsIInv

LEMMA AcceptStep ==
  ASSUME IInv, Accept
  PROVE  IInv'
  <1>1. PICK h : h = Head(queue)
    OBVIOUS
  <1>2. /\ srv = "accept" /\ queue \in Seq(Slots) /\ queue # <<>> /\ queue' = Tail(queue)
        /\ UNCHANGED <<clientVars, diskVars, faults>>
        /\ conn \in [Slots -> Connection] /\ faults \subseteq FaultKinds
    BY ConnType DEF Accept, IInv, TypeOK
  <1>3. /\ Len(queue) \in Nat /\ Len(queue) >= 1 /\ h = queue[1] /\ h \in Slots
        /\ queue' \in Seq(Slots) /\ Len(queue') = Len(queue) - 1
        /\ \A k \in 1 .. Len(queue') : queue'[k] = queue[k + 1] /\ k + 1 \in 1 .. Len(queue)
    BY <1>1, <1>2
  <1>4. /\ conn[h].at = "queued" /\ conn[h] \in Connection
        /\ \A k \in 1 .. Len(queue') : conn[queue'[k]].at = "queued" /\ queue'[k] # h /\ queue'[k] \in Slots
    <2>1. \A k \in 1 .. Len(queue) : conn[queue[k]].at = "queued" /\ queue[k] \in Slots
      BY <1>2 DEF IInv, QueueInv
    <2>2. \A k \in 1 .. Len(queue) : queue[k] = queue[1] => k = 1
      BY <1>2, <1>3 DEF IInv, QueueInv
    <2>3. \A k \in 1 .. Len(queue') : k + 1 # 1
      OBVIOUS
    <2> QED
      BY <1>2, <1>3, <2>1, <2>2, <2>3
  <1>5. conn[h].sent = 0 /\ conn[h].read <= 0 /\ conn[h].eof \in BOOLEAN
    BY <1>3, <1>4, ConnFacts DEF IInv, ConnInv, ConnOK
  <1>6. PICK x \in Connection :
          /\ conn' = [conn EXCEPT ![h] = x]
          /\ ~conn[h].eof => x.at # "free" /\ ~x.eof /\ x.read = conn[h].read
          /\ x = Free \/ (x.sent = 0 /\ x.read = conn[h].read)
          /\ \/ srv' = "accept"
             \/ srv' = "read" /\ cur' = h /\ x.at = "read"
    <2>1. CASE conn' = [conn EXCEPT ![h] = Shut(@)] /\ UNCHANGED <<srv, cur>>
      BY <1>2, <1>3, <1>4, <1>5, <2>1, ShutFacts
    <2>2. CASE conn' = [conn EXCEPT ![h].at = "read"] /\ srv' = "read" /\ cur' = h
      <3>1. PICK x : x = [conn[h] EXCEPT !.at = "read"]
        OBVIOUS
      <3>2. x \in Connection /\ x.at = "read" /\ x.sent = 0 /\ x.read = conn[h].read
            /\ x.eof = conn[h].eof
        BY <1>4, <1>5, <3>1, AtFacts DEF Ends4
      <3>3. conn' = [conn EXCEPT ![h] = x]
        BY <2>2, <3>1
      <3> QED
        BY <2>2, <3>2, <3>3
    <2> QED
      BY <1>1, <2>1, <2>2 DEF Accept
  <1>7. /\ conn' \in [Slots -> Connection] /\ conn'[h] = x
        /\ \A t \in Slots : t # h => conn'[t] = conn[t]
    BY <1>2, <1>3, <1>6
  <1>8. ConnOK(x)'
    <2>1. CASE x = Free
      BY <2>1, FreeFacts DEF ConnOK
    <2>2. CASE x.sent = 0 /\ x.read = conn[h].read
      BY <1>5, <2>2 DEF ConnOK
    <2> QED
      BY <1>6, <2>1, <2>2
  <1>9. \A t \in Slots : ServerKeeps(t) /\ (conn'[t] = conn[t] \/ ConnOK(conn[t])')
    BY <1>6, <1>7, <1>8 DEF ServerKeeps, ConnOK, Failed
  <1>10. QueueInv'
    <2>1. \A k, l \in 1 .. Len(queue') : queue'[k] = queue'[l] => k = l
      BY <1>2, <1>3 DEF IInv, QueueInv
    <2> QED
      BY <1>4, <1>7, <2>1 DEF QueueInv
  <1> QED
    BY <1>2, <1>3, <1>6, <1>7, <1>9, <1>10, ServerStepKeepsIInv

(* The connection read from is closed, or becomes a child's. *)
LEMMA RequestStep ==
  ASSUME IInv, RejectRequest \/ ServeRequest
  PROVE  IInv'
  <1>1. PICK s : s = cur
    OBVIOUS
  <1>2. /\ srv = "read" /\ srv' = "accept" /\ UNCHANGED <<clientVars, diskVars, queue>>
        /\ s \in Slots /\ conn[s].at = "read" /\ conn[s] \in Connection
        /\ faults \subseteq FaultKinds
    BY <1>1, ConnType DEF RejectRequest, ServeRequest, BackToAccept, IInv, TypeOK
  <1>3. /\ conn[s].sent = 0 /\ conn[s].read <= 0 /\ conn[s].read \in Nat /\ conn[s].eof \in BOOLEAN
    BY <1>2, ConnFacts DEF IInv, ConnInv, ConnOK
  <1>4. /\ Taken(conn[s]) \in Connection /\ Taken(conn[s]).at = "read"
        /\ Taken(conn[s]).sent = 0 /\ Taken(conn[s]).read = conn[s].read
        /\ Taken(conn[s]).eof = conn[s].eof
    BY <1>2, <1>3, TakenFacts
  <1>5. PICK x \in Connection :
          /\ conn' = [conn EXCEPT ![s] = x]
          /\ ~conn[s].eof => x.at # "free" /\ ~x.eof /\ x.read = conn[s].read
          /\ x = Free \/ (x.sent = 0 /\ x.read = conn[s].read)
    <2>1. CASE conn' = [conn EXCEPT ![s] = Shut(Taken(@))]
      <3>1. PICK x : x = Shut(Taken(conn[s]))
        OBVIOUS
      <3>2. x \in Connection
            /\ (conn[s].eof => x = Free)
            /\ (~conn[s].eof => x.at \in {"closed", "reset"} /\ ~x.eof /\ x.sent = 0
                                 /\ x.read = conn[s].read)
        BY <1>4, <3>1, ShutFacts
      <3>3. conn' = [conn EXCEPT ![s] = x]
        BY <2>1, <3>1
      <3> QED
        BY <3>2, <3>3
    <2>2. CASE conn' = [conn EXCEPT ![s] = [Taken(@) EXCEPT !.at = "send"]]
      <3>1. PICK x : x = [Taken(conn[s]) EXCEPT !.at = "send"]
        OBVIOUS
      <3>2. x \in Connection /\ x.at = "send" /\ x.sent = 0 /\ x.read = conn[s].read
            /\ x.eof = conn[s].eof
        BY <1>4, <3>1, AtFacts DEF Ends4
      <3>3. conn' = [conn EXCEPT ![s] = x]
        BY <2>2, <3>1
      <3> QED
        BY <3>2, <3>3
    <2> QED
      BY <1>1, <2>1, <2>2 DEF RejectRequest, Reject, ServeRequest, ForkChild, ForkFails
  <1>6. ConnOK(x)'
    <2>1. CASE x = Free
      BY <2>1, FreeFacts DEF ConnOK
    <2>2. CASE x.sent = 0 /\ x.read = conn[s].read
      BY <1>3, <2>2 DEF ConnOK
    <2> QED
      BY <1>5, <2>1, <2>2
  <1>7. faults \subseteq faults' /\ faults' \subseteq FaultKinds
    BY <1>2, FaultFacts
       DEF RejectRequest, Reject, ServeRequest, ForkChild, ForkFails, FaultKinds, IInv
  <1> QED
    BY <1>2, <1>5, <1>6, <1>7, OneConnStep

LEMMA SendBlockStep ==
  ASSUME IInv, NEW s \in Slots, SendBlock(s)
  PROVE  IInv'
  <1>1. /\ conn[s].at = "send" /\ conn[s].sent < FileLen
        /\ conn' = [conn EXCEPT ![s].sent = @ + BlockAt(conn[s].sent)]
        /\ UNCHANGED <<clientVars, serverVars, diskVars, faults>>
        /\ conn \in [Slots -> Connection] /\ conn[s] \in Connection /\ faults \subseteq FaultKinds
    BY ConnType DEF SendBlock, IInv, TypeOK
  <1>2. conn[s].sent \in Nat /\ conn[s].read \in Nat /\ conn[s].read <= conn[s].sent
        /\ FileLen \in Nat /\ Chunk \in Nat
    BY <1>1, ConnFacts, FileAssumption DEF IInv, ConnInv, ConnOK, Chunk
  <1>3. PICK n : n = conn[s].sent + BlockAt(conn[s].sent)
    OBVIOUS
  <1>4. n \in 0 .. FileLen /\ conn[s].sent <= n
    BY <1>1, <1>2, <1>3 DEF BlockAt
  <1>9. PICK x : x = [conn[s] EXCEPT !.sent = n]
    OBVIOUS
  <1>5. /\ x \in Connection /\ x.at = "send" /\ x.read = conn[s].read /\ x.eof = conn[s].eof
        /\ x.sent = n
    BY <1>1, <1>4, <1>9 DEF Connection
  <1>6. conn' = [conn EXCEPT ![s] = x]
    BY <1>1, <1>3, <1>9
  <1>7. ConnOK(x)'
    BY <1>2, <1>4, <1>5 DEF ConnOK
  <1>8. /\ srv \in {"accept", "read", "ended"}
        /\ srv = "read" => cur \in Slots /\ conn[cur].at = "read"
    BY DEF IInv, TypeOK
  <1> QED
    BY <1>1, <1>5, <1>6, <1>7, <1>8, OneConnStep DEF serverVars

(* The connections become f, and if asked those in the queue are abandoned. *)
LEMMA ClosingStep ==
  ASSUME IInv, UNCHANGED <<clientVars, diskVars>>,
         faults \subseteq faults', faults' \subseteq FaultKinds,
         srv' \in {"accept", "read", "ended"},
         NEW f \in [Slots -> Connection],
         \A s \in Slots :
           /\ conn[s].at # "free" /\ ~conn[s].eof
                => f[s].at # "free" /\ ~f[s].eof /\ f[s].read = conn[s].read
           /\ ConnOK(f[s])'
           /\ conn[s].at = "queued" => f[s] = conn[s],
         srv' = "read" => cur' \in Slots /\ f[cur'].at = "read",
         \/ conn' = Abandoned(f) /\ queue' = <<>>
         \/ conn' = f /\ UNCHANGED queue
  PROVE  IInv'
  <1>1. queue \in Seq(Slots) /\ \A k \in 1 .. Len(queue) : queue[k] \in Slots
    BY DEF IInv, TypeOK
  <1>2. \A s \in Slots : f[s] \in Connection /\ f[s].eof \in BOOLEAN
    BY ConnFacts
  <1>3. CASE conn' = f /\ UNCHANGED queue
    <2>1. \A s \in Slots : ServerKeeps(s) /\ ConnOK(conn[s])'
      BY <1>3 DEF ServerKeeps, ConnOK, Failed
    <2>2. QueueInv'
      BY <1>1, <1>3 DEF IInv, QueueInv
    <2> QED
      BY <1>1, <1>3, <2>1, <2>2, ServerStepKeepsIInv
  <1>4. CASE conn' = Abandoned(f) /\ queue' = <<>>
    <2>1. PICK g : g = Abandoned(f)
      OBVIOUS
    <2>2. /\ g \in [Slots -> Connection]
          /\ \A s \in Slots :
              /\ f[s].at # "queued" => g[s] = f[s]
              /\ f[s].at = "queued" /\ f[s].eof => g[s] = Free
              /\ f[s].at = "queued" /\ ~f[s].eof =>
                   /\ g[s].at = "reset" /\ g[s].eof = FALSE
                   /\ g[s].sent = f[s].sent /\ g[s].read = f[s].read
      BY <2>1, AbandonedFacts
    <2>3. conn' = g
      BY <1>4, <2>1
    <2>4. ASSUME NEW s \in Slots PROVE ServerKeeps(s) /\ ConnOK(conn[s])'
      <3>1. ServerKeeps(s)
        BY <1>2, <2>2, <2>3 DEF ServerKeeps
      <3>2. ConnOK(g[s])'
        BY <1>2, <2>2, FreeFacts DEF ConnOK, Failed
      <3> QED
        BY <2>3, <3>1, <3>2 DEF ConnOK, Failed
    <2>5. QueueInv' /\ queue' \in Seq(Slots)
      BY <1>4 DEF QueueInv
    <2>6. srv' = "read" => cur' \in Slots /\ conn'[cur'].at = "read"
      BY <2>2, <2>3
    <2> QED
      BY <2>2, <2>3, <2>4, <2>5, <2>6, ServerStepKeepsIInv
  <1> QED
    BY <1>3, <1>4

(* A child that ends has sent all, or its client has closed, or it failed. *)
LEMMA ChildEndStep ==
  ASSUME IInv, NEW s \in Slots, FinishSend(s) \/ ChildFails(s)
  PROVE  IInv'
  <1>1. /\ conn[s].at = "send" /\ LastChildEnds(s) /\ UNCHANGED <<clientVars, srv, cur, diskVars>>
        /\ conn \in [Slots -> Connection] /\ conn[s] \in Connection
    BY ConnType DEF FinishSend, ChildFails, IInv, TypeOK
  <1>2. /\ faults \subseteq faults' /\ faults' \subseteq FaultKinds
        /\ conn[s].sent = FileLen \/ conn[s].eof \/ "child" \in faults'
    BY FaultFacts DEF FinishSend, ChildFails, FaultKinds, IInv, TypeOK
  <1>3. conn[s].read <= conn[s].sent /\ conn[s].eof \in BOOLEAN
    BY <1>1, ConnFacts DEF IInv, ConnInv, ConnOK
  <1>4. PICK x : x = Shut(conn[s])
    OBVIOUS
  <1>5. /\ x \in Connection
        /\ conn[s].eof => x = Free
        /\ ~conn[s].eof => x.at \in {"closed", "reset"} /\ x.eof = FALSE
                           /\ x.sent = conn[s].sent /\ x.read = conn[s].read
    BY <1>1, <1>4, ShutFacts
  <1>6. ConnOK(x)'
    <2>1. CASE conn[s].eof
      BY <1>5, <2>1, FreeFacts DEF ConnOK
    <2>2. CASE ~conn[s].eof
      BY <1>2, <1>3, <1>5, <2>2 DEF ConnOK, Failed
    <2> QED
      BY <1>3, <2>1, <2>2
  <1>7. PICK f : f = [conn EXCEPT ![s] = x]
    OBVIOUS
  <1>8. f \in [Slots -> Connection] /\ f[s] = x /\ \A t \in Slots : t # s => f[t] = conn[t]
    BY <1>1, <1>5, <1>7
  <1>9. \A t \in Slots : t # s => ConnOK(conn[t])
    BY DEF IInv, ConnInv
  <1>10. ASSUME NEW t \in Slots
         PROVE  /\ conn[t].at # "free" /\ ~conn[t].eof
                     => f[t].at # "free" /\ ~f[t].eof /\ f[t].read = conn[t].read
                /\ ConnOK(f[t])'
                /\ conn[t].at = "queued" => f[t] = conn[t]
    <2>1. CASE t = s
      BY <1>1, <1>3, <1>5, <1>6, <1>8, <2>1
    <2>2. CASE t # s
      BY <1>2, <1>8, <1>9, <2>2 DEF ConnOK, Failed
    <2> QED
      BY <2>1, <2>2
  <1>11. \/ conn' = Abandoned(f) /\ queue' = <<>>
         \/ conn' = f /\ UNCHANGED queue
    <2>1. f = [conn EXCEPT ![s] = ChildClosed(conn[s])]
      BY <1>4, <1>7 DEF ChildClosed
    <2> QED
      BY <1>1, <2>1 DEF LastChildEnds
  <1>12. /\ srv' \in {"accept", "read", "ended"}
         /\ srv' = "read" => cur' \in Slots /\ f[cur'].at = "read"
    BY <1>1, <1>8 DEF IInv, TypeOK
  <1> QED
    BY <1>1, <1>2, <1>8, <1>10, <1>11, <1>12, ClosingStep

LEMMA InterruptServerStep ==
  ASSUME IInv, InterruptServer
  PROVE  IInv'
  <1>1. /\ srv' = "ended" /\ UNCHANGED <<clientVars, diskVars>> /\ conn \in [Slots -> Connection]
        /\ faults \subseteq faults' /\ faults' \subseteq FaultKinds /\ "kill" \in faults'
    BY FaultFacts, ConnType DEF InterruptServer, FaultKinds, IInv
  <1>2. PICK all \in BOOLEAN :
          LET f == [s \in Slots |-> IF conn[s].at = "read" \/ (all /\ conn[s].at = "send")
                                    THEN Shut(conn[s]) ELSE conn[s]] IN
          IF all \/ Sending = {} THEN conn' = Abandoned(f) /\ queue' = <<>>
                                 ELSE conn' = f /\ UNCHANGED queue
    BY DEF InterruptServer
  <1>3. PICK f : f = [s \in Slots |-> IF conn[s].at = "read" \/ (all /\ conn[s].at = "send")
                                      THEN Shut(conn[s]) ELSE conn[s]]
    OBVIOUS
  <1>4. \/ conn' = Abandoned(f) /\ queue' = <<>>
        \/ conn' = f /\ UNCHANGED queue
    BY <1>2, <1>3
  <1>5. ASSUME NEW s \in Slots
        PROVE  /\ f[s] \in Connection
               /\ conn[s].at # "free" /\ ~conn[s].eof
                    => f[s].at # "free" /\ ~f[s].eof /\ f[s].read = conn[s].read
               /\ ConnOK(f[s])'
               /\ conn[s].at = "queued" => f[s] = conn[s]
    <2>1. conn[s] \in Connection /\ conn[s].eof \in BOOLEAN /\ ConnOK(conn[s])
      BY <1>1, ConnFacts DEF IInv, ConnInv
    <2>2. CASE f[s] = conn[s]
      BY <1>1, <2>1, <2>2 DEF ConnOK, Failed
    <2>3. CASE conn[s].at \in {"read", "send"} /\ f[s] = Shut(conn[s])
      <3>1. PICK x : x = Shut(conn[s])
        OBVIOUS
      <3>2. /\ x \in Connection
            /\ conn[s].eof => x = Free
            /\ ~conn[s].eof => x.at \in {"closed", "reset"} /\ x.eof = FALSE
                               /\ x.sent = conn[s].sent /\ x.read = conn[s].read
        BY <2>1, <3>1, ShutFacts
      <3>3. ConnOK(x)'
        BY <1>1, <2>1, <3>2, FreeFacts DEF ConnOK, Failed
      <3>4. f[s] = x
        BY <2>3, <3>1
      <3> QED
        BY <2>3, <3>2, <3>3, <3>4
    <2> QED
      BY <1>3, <2>2, <2>3
  <1>6. f \in [Slots -> Connection]
    BY <1>3, <1>5
  <1> QED
    BY <1>1, <1>4, <1>5, <1>6, ClosingStep
-----------------------------------------------------------------------------
(* The steps of a client. *)

(* A client changes its own connection, so the others and what the parent   *)
(* and the queue say of it hold as long as its server's end stays the same. *)
LEMMA OwnConn ==
  ASSUME IInv, NEW c \in Clients, pc[c] # "idle", NEW x \in Connection,
         conn' = [conn EXCEPT ![slot[c]] = x],
         x.at = conn[slot[c]].at \/ conn[slot[c]].at \in {"closed", "reset"},
         UNCHANGED serverVars, faults \subseteq faults', ConnOK(x)'
  PROVE  /\ slot[c] \in Slots /\ conn'[slot[c]] = x
         /\ \A e \in Clients : e # c /\ pc[e] # "idle" =>
              slot[e] \in Slots /\ slot[e] # slot[c] /\ conn'[slot[e]] = conn[slot[e]]
         /\ conn' \in [Slots -> Connection] /\ ConnInv' /\ QueueInv'
         /\ srv' = "read" => cur' \in Slots /\ conn'[cur'].at = "read"
  <1>1. /\ conn \in [Slots -> Connection] /\ queue \in Seq(Slots)
        /\ srv = "read" => cur \in Slots /\ conn[cur].at = "read"
    BY ConnType DEF IInv, TypeOK
  <1>2. PICK s : s = slot[c]
    OBVIOUS
  <1>3. s \in Slots /\ \A e \in Clients : e # c /\ pc[e] # "idle" => slot[e] \in Slots /\ slot[e] # s
    BY <1>2 DEF IInv, OwnerInv
  <1>4. /\ conn' \in [Slots -> Connection] /\ conn'[s] = x
        /\ \A t \in Slots : t # s => conn'[t] = conn[t]
    BY <1>1, <1>2, <1>3
  <1>5. ConnInv'
    <2> SUFFICES ASSUME NEW t \in Slots PROVE ConnOK(conn[t])'
      BY DEF ConnInv
    <2>1. CASE t = s
      BY <1>4, <2>1 DEF ConnOK, Failed
    <2>2. CASE t # s
      BY <1>4, <2>2 DEF IInv, ConnInv, ConnOK, Failed
    <2> QED
      BY <2>1, <2>2
  <1>6. UNCHANGED <<queue, srv, cur>>
    BY DEF serverVars
  <1>7. QueueInv'
    <2>1. \A k \in 1 .. Len(queue) : queue[k] \in Slots /\ conn'[queue[k]].at = "queued"
      BY <1>1, <1>2, <1>4 DEF IInv, QueueInv
    <2> QED
      BY <1>6, <2>1 DEF IInv, QueueInv
  <1>8. srv' = "read" => cur' \in Slots /\ conn'[cur'].at = "read"
    BY <1>1, <1>2, <1>4, <1>6
  <1> QED
    BY <1>2, <1>3, <1>4, <1>5, <1>7, <1>8

(* A client's run ends, and it closes its connection. *)
LEMMA EndStep ==
  ASSUME IInv, NEW c \in Clients, pc[c] # "idle",
         NEW report \in 0 .. NoReport, Ends(c, report), ClientCloses(slot[c]),
         UNCHANGED <<serverVars, diskVars>>,
         faults \subseteq faults', faults' \subseteq FaultKinds,
         report \notin {NoReport, 0} =>
           (report = FileLen \/ Failed) /\ pc[c] = "fetch" /\ report = conn[slot[c]].read
  PROVE  IInv'
  <1>1. /\ slot[c] \in Slots /\ conn \in [Slots -> Connection] /\ conn[slot[c]] \in Connection
        /\ ConnOK(conn[slot[c]])
    BY ConnType DEF IInv, TypeOK, OwnerInv, ConnInv
  <1>2. PICK x : x = EofSet(conn[slot[c]])
    OBVIOUS
  <1>3. /\ x \in Connection
        /\ \/ x = Free /\ conn[slot[c]].at \in {"closed", "reset"}
           \/ /\ x.at = conn[slot[c]].at /\ x.sent = conn[slot[c]].sent
              /\ x.read = conn[slot[c]].read /\ x.eof = TRUE
    BY <1>1, <1>2, EofFacts
  <1>4. conn' = [conn EXCEPT ![slot[c]] = x]
    BY <1>2 DEF ClientCloses, EofSet
  <1>5. ConnOK(x)'
    BY <1>1, <1>3, FreeFacts DEF ConnOK
  <1>6. /\ \A e \in Clients : e # c /\ pc[e] # "idle" =>
             slot[e] \in Slots /\ slot[e] # slot[c] /\ conn'[slot[e]] = conn[slot[e]]
        /\ conn' \in [Slots -> Connection] /\ ConnInv' /\ QueueInv'
        /\ srv' = "read" => cur' \in Slots /\ conn'[cur'].at = "read"
    BY <1>3, <1>4, <1>5, OwnConn
  <1>7. /\ pc' = [pc EXCEPT ![c] = "idle"] /\ slot' = [slot EXCEPT ![c] = 0]
        /\ result' = [result EXCEPT ![c] = report]
        /\ UNCHANGED <<queue, srv, cur, file, made, overlap, missing>>
    BY DEF Ends, GoTo, serverVars, diskVars
  <1>8. /\ pc \in [Clients -> {"idle", "request", "check", "fetch"}]
        /\ slot \in [Clients -> 0 .. NumSlots] /\ result \in [Clients -> 0 .. NoReport]
    BY DEF IInv, TypeOK
  <1>9. TypeOK'
    <2>1. /\ pc' \in [Clients -> {"idle", "request", "check", "fetch"}]
          /\ slot' \in [Clients -> 0 .. NumSlots] /\ result' \in [Clients -> 0 .. NoReport]
      BY <1>7, <1>8, FileLenFacts
    <2> QED
      BY <1>6, <1>7, <2>1 DEF IInv, TypeOK, Connection, Ends4
  <1>10. \A e \in Clients : pc'[e] # "idle" =>
           e # c /\ pc[e] # "idle" /\ pc'[e] = pc[e] /\ slot'[e] = slot[e]
           /\ slot[e] \in Slots /\ conn'[slot[e]] = conn[slot[e]]
    BY <1>6, <1>7, <1>8
  <1>11. OwnerInv'
    BY <1>10 DEF IInv, OwnerInv
  <1>12. \A d \in Dirs : Fetching(d)' = Fetching(d) \ {c}
    BY <1>7, <1>8 DEF Fetching
  <1>13. FileInv'
    <2>1. \A d \in Dirs : \A e \in Fetching(d)' : slot'[e] = slot[e] /\ conn'[slot[e]] = conn[slot[e]]
      BY <1>10 DEF Fetching
    <2> QED
      BY <1>12, <2>1, FilesStay
  <1>14. CASE report \in {NoReport, 0}
    <2>1. \A e \in Clients : result'[e] \notin {NoReport, 0} => e # c /\ result'[e] = result[e]
      BY <1>7, <1>8, <1>14
    <2>2. ReportInv'
      BY <1>7, <1>12, <2>1, FileAssumption DEF IInv, ReportInv
    <2>3. ReportTrue'
      BY <1>7, <2>1 DEF IInv, ReportTrue, AllBut
    <2> QED
      BY <1>6, <1>9, <1>11, <1>13, <2>2, <2>3 DEF IInv
  <1>15. CASE report \notin {NoReport, 0}
    <2>1. PICK d \in Dirs : d = DirOf[c]
      BY FileAssumption
    <2>2. c \in Fetching(d)
      BY <1>15, <2>1 DEF Fetching
    <2>3. ASSUME d \notin overlap
          PROVE  AllBut(file[d], report, missing[d]) /\ made[d] /\ Fetching(d) = {c}
      <3>1. FetchOK(d, c) /\ \A e \in Fetching(d) : e = c
        BY <2>2, <2>3 DEF IInv, FileInv
      <3> QED
        BY <1>15, <2>2, <3>1 DEF FetchOK
    <2>4. /\ result'[c] = report
          /\ \A e \in Clients : e # c => result'[e] = result[e]
      BY <1>7, <1>8
    <2>5. ReportInv'
      <3> SUFFICES ASSUME NEW e \in Clients, result'[e] \notin {NoReport, 0}, DirOf[e] \notin overlap
                   PROVE  made[DirOf[e]] /\ Fetching(DirOf[e])' = {}
        BY <1>7 DEF ReportInv
      <3>1. CASE e = c
        BY <1>12, <2>1, <2>3, <3>1
      <3>2. CASE e # c
        BY <1>12, <2>4, <3>2, FileAssumption DEF IInv, ReportInv
      <3> QED
        BY <3>1, <3>2
    <2>6. ReportTrue'
      <3> SUFFICES ASSUME NEW e \in Clients, result'[e] \notin {NoReport, 0}
                   PROVE  /\ result'[e] = FileLen \/ "child" \in faults' \/ "kill" \in faults'
                          /\ \/ AllBut(file[DirOf[e]], result'[e], missing[DirOf[e]])
                             \/ DirOf[e] \in overlap
        BY <1>7 DEF ReportTrue, AllBut
      <3>1. CASE e = c
        BY <1>15, <2>1, <2>3, <2>4, <3>1 DEF Failed
      <3>2. CASE e # c
        BY <2>4, <3>2 DEF IInv, ReportTrue
      <3> QED
        BY <3>1, <3>2
    <2> QED
      BY <1>6, <1>9, <1>11, <1>13, <2>5, <2>6 DEF IInv
  <1> QED
    BY <1>14, <1>15

(* The steps that end a run: it reports only what it read up to the end of  *)
(* a connection that was closed.                                            *)
LEMMA EndsKeepIInv ==
  ASSUME IInv, NEW c \in Clients,
         \/ WriteRequest(c) /\ Ends(c, NoReport) /\ ClientCloses(slot[c])
         \/ CheckFile(c) /\ Ends(c, NoReport) /\ ClientCloses(slot[c]) /\ UNCHANGED overlap
         \/ ReadEof(c) \/ ReadReset(c) \/ Interrupt(c)
  PROVE  IInv'
  <1>1. /\ UNCHANGED <<serverVars, diskVars>> /\ pc[c] # "idle" /\ ClientCloses(slot[c])
        /\ faults \subseteq faults' /\ faults' \subseteq FaultKinds
    <2>1. faults \subseteq FaultKinds
      BY DEF IInv, TypeOK
    <2>2. CASE Interrupt(c)
      BY <2>2, FaultFacts DEF Interrupt, FaultKinds, IInv
    <2> QED
      BY <2>1, <2>2 DEF WriteRequest, CheckFile, ReadEof, ReadReset, diskVars
  <1>2. NoReport \in 0 .. NoReport
    BY FileLenFacts DEF NoReport
  <1>3. CASE Ends(c, NoReport)
    BY <1>1, <1>2, <1>3, EndStep
  <1>4. CASE ReadEof(c)
    <2>1. PICK r \in Connection : r = conn[slot[c]]
      BY <1>1, ConnType DEF IInv, TypeOK, OwnerInv
    <2>2. r.at = "closed" /\ r.sent - r.read = 0 /\ Ends(c, r.read)
      BY <1>4, <2>1 DEF ReadEof, Unread
    <2>3. ConnOK(r) /\ ~r.eof
      BY <1>1, <2>1 DEF IInv, OwnerInv, ConnInv
    <2>4. /\ r.read \in 0 .. NoReport
          /\ r.read \in {0, FileLen} \/ Failed
      BY <2>2, <2>3, ConnFacts, FileLenFacts DEF ConnOK, NoReport
    <2>5. pc[c] = "fetch" /\ r.read = conn[slot[c]].read
      BY <1>4, <2>1 DEF ReadEof
    <2> QED
      BY <1>1, <2>2, <2>4, <2>5, EndStep
  <1> QED
    BY <1>3, <1>4 DEF ReadReset, Interrupt

(* A new run takes a connection nobody has, and is last in the queue.       *)
LEMMA StartStep ==
  ASSUME IInv, NEW c \in Clients, NEW k \in Asks[c], Start(c, k)
  PROVE  IInv'
  <1>1. PICK s : s = FirstFree
    OBVIOUS
  <1>2. PICK x : x = [Free EXCEPT !.at = "queued", !.kind = k]
    OBVIOUS
  <1>3. /\ pc[c] = "idle" /\ slot' = [slot EXCEPT ![c] = s]
        /\ conn' = [conn EXCEPT ![s] = x] /\ queue' = Append(queue, s)
        /\ result' = [result EXCEPT ![c] = NoReport] /\ pc' = [pc EXCEPT ![c] = "request"]
        /\ UNCHANGED <<srv, cur, file, made, overlap, missing, faults>>
        /\ \E t \in Slots : conn[t].at = "free"
    BY <1>1, <1>2 DEF Start, GoTo, diskVars
  <1>4. s \in Slots /\ conn[s].at = "free"
    BY <1>1, <1>3, FirstFreeFacts
  <1>5. /\ x \in Connection /\ x.at = "queued" /\ x.sent = 0 /\ x.read = 0 /\ x.eof = FALSE
    <2>1. k \in Kinds
      BY FileAssumption
    <2>2. PICK y : y = [Free EXCEPT !.at = "queued"]
      OBVIOUS
    <2>3. y \in Connection /\ y.at = "queued" /\ y.sent = 0 /\ y.read = 0 /\ y.eof = FALSE
      BY <2>2, AtFacts, FreeFacts DEF Ends4
    <2>4. x = [y EXCEPT !.kind = k]
      BY <1>2, <2>2 DEF Free
    <2> QED
      BY <2>1, <2>3, <2>4 DEF Connection
  <1>6. /\ pc \in [Clients -> {"idle", "request", "check", "fetch"}]
        /\ slot \in [Clients -> 0 .. NumSlots] /\ result \in [Clients -> 0 .. NoReport]
        /\ conn \in [Slots -> Connection] /\ queue \in Seq(Slots)
    BY ConnType DEF IInv, TypeOK
  <1>7. /\ conn' \in [Slots -> Connection] /\ conn'[s] = x
        /\ \A t \in Slots : t # s => conn'[t] = conn[t]
    BY <1>3, <1>4, <1>5, <1>6
  <1>8. /\ pc' \in [Clients -> {"idle", "request", "check", "fetch"}]
        /\ slot' \in [Clients -> 0 .. NumSlots] /\ result' \in [Clients -> 0 .. NoReport]
        /\ queue' \in Seq(Slots)
    BY <1>3, <1>4, <1>6, FileLenFacts DEF NoReport, Slots
  <1>9. TypeOK'
    BY <1>3, <1>4, <1>7, <1>8 DEF IInv, TypeOK, Connection, Ends4
  <1>10. ConnInv'
    <2> SUFFICES ASSUME NEW t \in Slots PROVE ConnOK(conn[t])'
      BY DEF ConnInv
    <2>1. CASE t = s
      BY <1>5, <1>7, <2>1 DEF ConnOK, Failed
    <2>2. CASE t # s
      BY <1>3, <1>7, <2>2 DEF IInv, ConnInv, ConnOK, Failed
    <2> QED
      BY <2>1, <2>2
  <1>11. QueueInv'
    <2>1. /\ Len(queue) \in Nat /\ Len(queue') = Len(queue) + 1 /\ queue'[Len(queue) + 1] = s
          /\ \A i \in 1 .. Len(queue) : queue'[i] = queue[i] /\ queue[i] \in Slots
      BY <1>3, <1>4, <1>6
    <2>2. \A i \in 1 .. Len(queue) : conn[queue[i]].at = "queued" /\ queue[i] # s
      BY <1>4 DEF IInv, QueueInv
    <2>3. \A i \in 1 .. Len(queue') : conn'[queue'[i]].at = "queued"
      <3> SUFFICES ASSUME NEW i \in 1 .. Len(queue') PROVE conn'[queue'[i]].at = "queued"
        OBVIOUS
      <3>1. CASE i \in 1 .. Len(queue)
        BY <1>7, <2>1, <2>2, <3>1
      <3>2. CASE i = Len(queue) + 1
        BY <1>5, <1>7, <2>1, <3>2
      <3> QED
        BY <2>1, <3>1, <3>2
    <2>4. \A i, j \in 1 .. Len(queue') : queue'[i] = queue'[j] => i = j
      <3>1. \A i, j \in 1 .. Len(queue) : queue[i] = queue[j] => i = j
        BY DEF IInv, QueueInv
      <3> QED
        BY <2>1, <2>2, <3>1
    <2> QED
      BY <2>3, <2>4 DEF QueueInv
  <1>12. \A e \in Clients : e # c /\ pc[e] # "idle" =>
           slot[e] \in Slots /\ slot[e] # s /\ conn'[slot[e]] = conn[slot[e]]
    BY <1>4, <1>7 DEF IInv, OwnerInv
  <1>13. /\ \A e \in Clients : e # c => pc'[e] = pc[e] /\ slot'[e] = slot[e]
         /\ pc'[c] = "request" /\ slot'[c] = s
    BY <1>3, <1>6
  <1>14. OwnerInv'
    <2>1. \A e \in Clients : pc'[e] # "idle" =>
            /\ slot'[e] \in Slots /\ conn'[slot'[e]].at # "free" /\ ~conn'[slot'[e]].eof
            /\ pc'[e] # "fetch" => conn'[slot'[e]].read = 0
      BY <1>4, <1>5, <1>7, <1>12, <1>13 DEF IInv, OwnerInv
    <2>2. \A e, g \in Clients : pc'[e] # "idle" /\ pc'[g] # "idle" /\ slot'[e] = slot'[g] => e = g
      BY <1>12, <1>13 DEF IInv, OwnerInv
    <2> QED
      BY <2>1, <2>2 DEF OwnerInv
  <1>15. FileInv'
    <2>1. \A d \in Dirs : Fetching(d)' = Fetching(d)
      BY <1>3, <1>13 DEF Fetching
    <2>2. \A d \in Dirs : \A e \in Fetching(d) : slot'[e] = slot[e] /\ conn'[slot[e]] = conn[slot[e]]
      BY <1>3, <1>12, <1>13 DEF Fetching
    <2> QED
      BY <1>3, <2>1, <2>2, FilesStay DEF diskVars
  <1>16. ReportInv' /\ ReportTrue'
    <2>1. \A d \in Dirs : Fetching(d)' = Fetching(d)
      BY <1>3, <1>13 DEF Fetching
    <2>2. \A e \in Clients : result'[e] \in {result[e], NoReport}
      BY <1>3, <1>6
    <2> QED
      BY <1>3, <2>1, <2>2, ReportsStay DEF diskVars
  <1> QED
    BY <1>9, <1>10, <1>11, <1>14, <1>15, <1>16 DEF IInv

(* The request is on its way, or is lost on a connection that was closed.   *)
LEMMA RequestWrittenStep ==
  ASSUME IInv, NEW c \in Clients, WriteRequest(c), conn[slot[c]].at # "reset",
         conn' = [conn EXCEPT ![slot[c]].request = (conn[slot[c]].at # "closed")],
         GoTo(c, "check"), UNCHANGED <<slot, result>>
  PROVE  IInv'
  <1>1. /\ pc[c] = "request" /\ pc' = [pc EXCEPT ![c] = "check"]
        /\ UNCHANGED <<slot, result, serverVars, queue, srv, cur, diskVars, file, made, overlap, missing, faults>>
        /\ pc \in [Clients -> {"idle", "request", "check", "fetch"}]
    BY DEF WriteRequest, GoTo, serverVars, diskVars, IInv, TypeOK
  <1>2. PICK r \in Connection : r = conn[slot[c]]
    BY <1>1, ConnType DEF IInv, TypeOK, OwnerInv
  <1>3. PICK b \in BOOLEAN : b = (r.at # "closed")
    OBVIOUS
  <1>4. PICK x : x = [r EXCEPT !.request = b]
    OBVIOUS
  <1>5. /\ x \in Connection /\ x.at = r.at /\ x.sent = r.sent /\ x.read = r.read /\ x.eof = r.eof
    BY <1>4 DEF Connection
  <1>6. conn' = [conn EXCEPT ![slot[c]] = x]
    BY <1>2, <1>3, <1>4
  <1>7. ConnOK(r)
    BY <1>1, <1>2 DEF IInv, OwnerInv, ConnInv
  <1>8. ConnOK(x)'
    BY <1>1, <1>5, <1>7 DEF ConnOK, Failed
  <1>9. /\ slot[c] \in Slots /\ conn'[slot[c]] = x
        /\ \A e \in Clients : e # c /\ pc[e] # "idle" =>
             slot[e] \in Slots /\ slot[e] # slot[c] /\ conn'[slot[e]] = conn[slot[e]]
        /\ conn' \in [Slots -> Connection] /\ ConnInv' /\ QueueInv'
        /\ srv' = "read" => cur' \in Slots /\ conn'[cur'].at = "read"
    BY <1>1, <1>2, <1>5, <1>6, <1>8, OwnConn
  <1>10. /\ pc' \in [Clients -> {"idle", "request", "check", "fetch"}] /\ pc'[c] = "check"
         /\ \A e \in Clients : e # c => pc'[e] = pc[e]
    BY <1>1
  <1>11. TypeOK'
    BY <1>1, <1>9, <1>10 DEF IInv, TypeOK, Connection, Ends4
  <1>12. r.at # "free" /\ ~r.eof /\ r.read = 0
    BY <1>1, <1>2 DEF IInv, OwnerInv
  <1>13. OwnerInv'
    <2>1. \A e \in Clients : pc'[e] # "idle" =>
            /\ slot[e] \in Slots /\ conn'[slot[e]].at # "free" /\ ~conn'[slot[e]].eof
            /\ pc'[e] # "fetch" => conn'[slot[e]].read = 0
      BY <1>5, <1>9, <1>10, <1>12 DEF IInv, OwnerInv
    <2>2. \A e \in Clients : pc'[e] # "idle" => pc[e] # "idle"
      BY <1>1, <1>10
    <2>3. \A e, g \in Clients : pc'[e] # "idle" /\ pc'[g] # "idle" /\ slot[e] = slot[g] => e = g
      BY <2>2 DEF IInv, OwnerInv
    <2> QED
      BY <1>1, <2>1, <2>3 DEF OwnerInv
  <1>14. FileInv'
    <2>1. \A d \in Dirs : Fetching(d)' = Fetching(d)
      BY <1>1, <1>10 DEF Fetching
    <2>2. \A d \in Dirs : \A e \in Fetching(d) : conn'[slot[e]] = conn[slot[e]]
      BY <1>1, <1>9 DEF Fetching
    <2> QED
      BY <1>1, <2>1, <2>2, FilesStay
  <1>15. ReportInv' /\ ReportTrue'
    <2>1. \A d \in Dirs : Fetching(d)' = Fetching(d)
      BY <1>1, <1>10 DEF Fetching
    <2> QED
      BY <1>1, <2>1, ReportsStay
  <1> QED
    BY <1>9, <1>11, <1>13, <1>14, <1>15 DEF IInv

(* There is no file in the directory, so what a run is about to fetch is    *)
(* the beginning of it, unless another run is fetching.                     *)
LEMMA BeginFetchStep ==
  ASSUME IInv, NEW c \in Clients, CheckFile(c), ~made[DirOf[c]], BeginFetch(c)
  PROVE  IInv'
  <1>1. PICK d \in Dirs : d = DirOf[c]
    BY FileAssumption
  <1>2. /\ pc[c] = "check" /\ pc' = [pc EXCEPT ![c] = "fetch"]
        /\ overlap' = IF Fetching(d) # {} THEN overlap \cup {d} ELSE overlap
        /\ UNCHANGED <<slot, conn, result, queue, srv, cur, file, made, missing, faults>>
        /\ pc \in [Clients -> {"idle", "request", "check", "fetch"}]
    BY <1>1 DEF CheckFile, BeginFetch, GoTo, serverVars, IInv, TypeOK
  <1>3. /\ pc' \in [Clients -> {"idle", "request", "check", "fetch"}] /\ pc'[c] = "fetch"
        /\ \A e \in Clients : e # c => pc'[e] = pc[e]
    BY <1>2
  <1>4. TypeOK'
    BY <1>2, <1>3 DEF IInv, TypeOK
  <1>5. ConnInv' /\ QueueInv' /\ ReportTrue'
    <2>1. ConnInv' /\ QueueInv'
      BY <1>2 DEF IInv, ConnInv, ConnOK, Failed, QueueInv
    <2>2. overlap \subseteq overlap'
      BY <1>2
    <2>3. ReportTrue'
      BY <1>2, <2>2 DEF IInv, ReportTrue, AllBut
    <2> QED
      BY <2>1, <2>3
  <1>6. OwnerInv'
    <2>1. \A e \in Clients : pc'[e] # "idle" => pc[e] # "idle"
      BY <1>2, <1>3
    <2>2. \A e \in Clients : pc'[e] # "fetch" => pc[e] # "fetch"
      BY <1>2, <1>3
    <2> QED
      BY <1>2, <2>1, <2>2 DEF IInv, OwnerInv
  <1>7. ~made[d] /\ file[d] = <<>> /\ missing[d] = {} /\ conn[slot[c]].read = 0
    <2>1. ~made[d]
      BY <1>1
    <2>2. conn[slot[c]].read = 0
      BY <1>2 DEF IInv, OwnerInv
    <2> QED
      BY <2>1, <2>2 DEF IInv, FileInv
  <1>8. /\ \A g \in Dirs \ {d} : Fetching(g)' = Fetching(g)
        /\ d \notin overlap' => Fetching(d)' = {c}
        /\ overlap \subseteq overlap'
    BY <1>1, <1>2, <1>3 DEF Fetching
  <1>9. FetchOK(d, c)
    <2>1. AllBut(<<>>, 0, {})
      BY DEF AllBut
    <2> QED
      BY <1>7, <2>1 DEF FetchOK
  <1>10. FileInv'
    <2> SUFFICES ASSUME NEW g \in Dirs
                 PROVE  /\ ~made[g] => file[g] = <<>> /\ missing[g] = {}
                        /\ g \notin overlap' =>
                             /\ \A b, e \in Fetching(g)' : b = e
                             /\ \A e \in Fetching(g)' : FetchOK(g, e)
                             /\ missing[g] = {} => Beginning(file[g])
      BY <1>2 DEF FileInv, FetchOK, AllBut, Beginning
    <2>1. CASE g # d
      BY <1>8, <2>1 DEF IInv, FileInv
    <2>2. CASE g = d
      <3>1. Beginning(<<>>)
        BY FileLenFacts DEF Beginning
      <3> QED
        BY <1>7, <1>8, <1>9, <2>2, <3>1
    <2> QED
      BY <2>1, <2>2
  <1>11. ReportInv'
    <2> SUFFICES ASSUME NEW e \in Clients, result[e] \notin {NoReport, 0}, DirOf[e] \notin overlap'
                 PROVE  made[DirOf[e]] /\ Fetching(DirOf[e])' = {}
      BY <1>2 DEF ReportInv
    <2>1. made[DirOf[e]] /\ Fetching(DirOf[e]) = {} /\ DirOf[e] \in Dirs
      BY <1>8, FileAssumption DEF IInv, ReportInv
    <2>2. DirOf[e] # d
      BY <1>7, <2>1
    <2> QED
      BY <1>8, <2>1, <2>2
  <1> QED
    BY <1>4, <1>5, <1>6, <1>10, <1>11 DEF IInv

(* What is appended are units of the server's file.                         *)
LEMMA UnitsConcat ==
  ASSUME NEW f \in Seq(1 .. FileLen), NEW from \in Nat, NEW n \in Nat, from + n <= FileLen
  PROVE  /\ f \o Units(from, n) \in Seq(1 .. FileLen)
         /\ DOMAIN f = 1 .. Len(f) /\ Len(f) \in Nat
         /\ Len(f \o Units(from, n)) = Len(f) + n
         /\ DOMAIN (f \o Units(from, n)) = 1 .. Len(f) + n
         /\ \A i \in 1 .. Len(f) : (f \o Units(from, n))[i] = f[i]
         /\ \A i \in 1 .. n : (f \o Units(from, n))[Len(f) + i] = from + i
  <1>1. PICK u : u = Units(from, n)
    OBVIOUS
  <1>2. /\ u \in Seq(1 .. FileLen) /\ Len(u) = n
        /\ \A i \in 1 .. n : u[i] = from + i
    <2>1. \A i \in 1 .. n : from + i \in 1 .. FileLen
      BY FileLenFacts
    <2> QED
      BY <1>1, <2>1, FileLenFacts DEF Units
  <1>3. PICK g : g = f \o u
    OBVIOUS
  <1>4. /\ g \in Seq(1 .. FileLen) /\ Len(g) = Len(f) + n /\ Len(f) \in Nat
        /\ \A i \in 1 .. Len(f) : g[i] = f[i]
        /\ \A i \in 1 .. n : g[Len(f) + i] = u[i]
    <2>1. /\ g \in Seq(1 .. FileLen) /\ Len(g) = Len(f) + Len(u) /\ Len(f) \in Nat
          /\ \A i \in 1 .. Len(f) + Len(u) : g[i] = IF i <= Len(f) THEN f[i] ELSE u[i - Len(f)]
      <3>1. PICK S : S = 1 .. FileLen
        OBVIOUS
      <3>2. f \in Seq(S) /\ u \in Seq(S)
        BY <1>2, <3>1
      <3>3. /\ f \o u \in Seq(S) /\ Len(f \o u) = Len(f) + Len(u)
            /\ \A i \in 1 .. Len(f) + Len(u) :
                 (f \o u)[i] = IF i <= Len(f) THEN f[i] ELSE u[i - Len(f)]
        BY <3>2, ConcatProperties, Zenon
      <3> QED
        BY <1>2, <1>3, <3>1, <3>3
    <2>2. \A i \in 1 .. n : /\ Len(f) + i \in 1 .. Len(f) + Len(u) /\ ~ (Len(f) + i <= Len(f))
                            /\ (Len(f) + i) - Len(f) = i
      BY <1>2, <2>1
    <2>3. \A i \in 1 .. Len(f) : i \in 1 .. Len(f) + Len(u) /\ i <= Len(f)
      BY <1>2, <2>1
    <2> QED
      BY <1>2, <2>1, <2>2, <2>3
  <1> QED
    BY <1>1, <1>2, <1>3, <1>4

(* Appended to as much of its beginning as was read before, they make a     *)
(* beginning again.                                                         *)
LEMMA UnitsAppended ==
  ASSUME NEW f \in Seq(1 .. FileLen), NEW from \in Nat, NEW n \in Nat, from + n <= FileLen
  PROVE  Beginning(f) /\ Len(f) = from =>
           /\ Beginning(f \o Units(from, n))
           /\ Len(f \o Units(from, n)) = from + n
  <1>1. PICK g : g = f \o Units(from, n)
    OBVIOUS
  <1>2. /\ g \in Seq(1 .. FileLen) /\ Len(g) = Len(f) + n /\ Len(f) \in Nat
        /\ \A i \in 1 .. Len(f) : g[i] = f[i]
        /\ \A i \in 1 .. n : g[Len(f) + i] = from + i
    BY <1>1, UnitsConcat
  <1>3. ASSUME Beginning(f), Len(f) = from
        PROVE  Beginning(g) /\ Len(g) = from + n
    <2>1. ASSUME NEW i \in DOMAIN g PROVE g[i] = i
      <3>1. i \in 1 .. from + n
        BY <1>2, <1>3
      <3>2. CASE i \in 1 .. from
        BY <1>2, <1>3, <3>2 DEF Beginning
      <3>3. CASE i - from \in 1 .. n
        <4>1. PICK j \in 1 .. n : j = i - from
          BY <3>3
        <4>2. i = from + j
          BY <3>1, <4>1
        <4> QED
          BY <1>2, <1>3, <4>2
      <3> QED
        BY <3>1, <3>2, <3>3
    <2> QED
      BY <1>2, <1>3, <2>1 DEF Beginning
  <1> QED
    BY <1>1, <1>3

(* The units read next are the last of those the file has, or of those it   *)
(* has not.                                                                 *)
LEMMA UnitsAdded ==
  ASSUME NEW f \in Seq(1 .. FileLen), NEW from \in Nat, NEW n \in Nat, NEW gone,
         from + n <= FileLen, AllBut(f, from, gone)
  PROVE  /\ AllBut(f \o Units(from, n), from + n, gone)
         /\ AllBut(f, from + n, gone \cup {from + i : i \in 1 .. n})
  <1>1. PICK new : new = {from + i : i \in 1 .. n}
    OBVIOUS
  <1>2. /\ 1 .. from + n = (1 .. from) \cup new
        /\ \A i \in 1 .. from : i \notin new
    <2>1. ASSUME NEW i \in 1 .. from + n, i \notin 1 .. from PROVE i \in new
      <3>1. i - from \in 1 .. n /\ i = from + (i - from)
        BY <2>1
      <3> QED
        BY <1>1, <3>1
    <2>2. ASSUME NEW i \in new PROVE i \in 1 .. from + n /\ i \notin 1 .. from
      <3>1. PICK j \in 1 .. n : i = from + j
        BY <1>1
      <3> QED
        BY <3>1
    <2>3. 1 .. from \subseteq 1 .. from + n
      OBVIOUS
    <2> QED
      BY <2>1, <2>2, <2>3
  <1>3. /\ gone \subseteq 1 .. from
        /\ {f[i] : i \in DOMAIN f} = (1 .. from) \ gone
        /\ \A i, j \in DOMAIN f : i < j => f[i] < f[j]
    BY DEF AllBut
  <1>4. AllBut(f, from + n, gone \cup new)
    <2>1. (1 .. from + n) \ (gone \cup new) = (1 .. from) \ gone
      BY <1>2
    <2>2. gone \cup new \subseteq 1 .. from + n
      BY <1>2, <1>3
    <2> QED
      BY <1>3, <2>1, <2>2 DEF AllBut
  <1>5. PICK g : g = f \o Units(from, n)
    OBVIOUS
  <1>6. /\ DOMAIN f = 1 .. Len(f) /\ Len(f) \in Nat
        /\ DOMAIN g = 1 .. Len(f) + n
        /\ \A i \in 1 .. Len(f) : g[i] = f[i]
        /\ \A i \in 1 .. n : g[Len(f) + i] = from + i
    <2>1. /\ DOMAIN f = 1 .. Len(f) /\ Len(f) \in Nat
          /\ g \in Seq(1 .. FileLen) /\ Len(g) = Len(f) + n
      BY <1>5, UnitsConcat
    <2>2. /\ \A i \in 1 .. Len(f) : g[i] = f[i]
          /\ \A i \in 1 .. n : g[Len(f) + i] = from + i
      BY <1>5, UnitsConcat
    <2>3. DOMAIN g = 1 .. Len(g)
      BY <2>1
    <2> QED
      BY <2>1, <2>2, <2>3
  <1>7. \A i \in DOMAIN g : i \in DOMAIN f \/ \E j \in 1 .. n : i = Len(f) + j
    <2>1. ASSUME NEW i \in DOMAIN g, i \notin DOMAIN f
          PROVE  i - Len(f) \in 1 .. n /\ i = Len(f) + (i - Len(f))
      BY <1>6, <2>1
    <2> QED
      BY <2>1
  <1>8. \A i \in DOMAIN f : g[i] \in 1 .. from
    BY <1>3, <1>6
  <1>9. {g[i] : i \in DOMAIN g} = (1 .. from + n) \ gone
    <2>1. ASSUME NEW i \in DOMAIN g PROVE g[i] \in (1 .. from + n) \ gone
      <3>1. CASE i \in DOMAIN f
        <4>1. g[i] \in {f[k] : k \in DOMAIN f}
          BY <1>6, <3>1
        <4> QED
          BY <1>2, <1>3, <4>1
      <3>2. ASSUME NEW j \in 1 .. n, i = Len(f) + j PROVE g[i] \in (1 .. from + n) \ gone
        <4>1. g[i] \in new
          BY <1>1, <1>6, <3>2
        <4> QED
          BY <1>2, <1>3, <4>1
      <3> QED
        BY <1>7, <3>1, <3>2
    <2>2. ASSUME NEW u \in (1 .. from + n) \ gone PROVE \E i \in DOMAIN g : g[i] = u
      <3>1. CASE u \in new
        <4>1. PICK j \in 1 .. n : u = from + j
          BY <1>1, <3>1
        <4>2. Len(f) + j \in DOMAIN g
          BY <1>6
        <4> QED
          BY <1>6, <4>1, <4>2
      <3>2. CASE u \notin new
        <4>1. u \in {f[k] : k \in DOMAIN f}
          BY <1>2, <1>3, <3>2
        <4>2. PICK k \in DOMAIN f : u = f[k]
          BY <4>1
        <4>3. k \in DOMAIN g /\ g[k] = u
          BY <1>6, <4>2
        <4> QED
          BY <4>3
      <3> QED
        BY <3>1, <3>2
    <2> QED
      BY <2>1, <2>2
  <1>10. ASSUME NEW i \in DOMAIN g, NEW j \in DOMAIN g, i < j PROVE g[i] < g[j]
    <2>1. CASE i \in DOMAIN f /\ j \in DOMAIN f
      BY <1>3, <1>6, <1>10, <2>1
    <2>2. ASSUME NEW k \in 1 .. n, j = Len(f) + k, i \in DOMAIN f PROVE g[i] < g[j]
      <3>1. g[j] = from + k /\ g[i] \in 1 .. from
        BY <1>6, <1>8, <2>2
      <3> QED
        BY <3>1
    <2>3. ASSUME NEW k \in 1 .. n, j = Len(f) + k, NEW l \in 1 .. n, i = Len(f) + l
          PROVE  g[i] < g[j]
      <3>1. g[j] = from + k /\ g[i] = from + l
        BY <1>6, <2>3
      <3>2. l < k
        BY <1>6, <1>10, <2>3
      <3> QED
        BY <3>1, <3>2
    <2>4. i \notin DOMAIN f => j \notin DOMAIN f
      BY <1>6, <1>10
    <2> QED
      BY <1>7, <2>1, <2>2, <2>3, <2>4
  <1>11. AllBut(g, from + n, gone)
    <2>1. gone \subseteq 1 .. from + n
      BY <1>2, <1>3
    <2> QED
      BY <1>9, <1>10, <2>1 DEF AllBut
  <1> QED
    BY <1>1, <1>4, <1>5, <1>11

(* What a run has read is in the file, but for what the disk refused.       *)
LEMMA ReadBlockStep ==
  ASSUME IInv, NEW c \in Clients, ReadBlock(c)
  PROVE  IInv'
  <1>1. PICK d \in Dirs : d = DirOf[c]
    BY FileAssumption
  <1>2. PICK n \in 1 .. ClientBlock :
          /\ n <= Unread(slot[c])
          /\ conn' = [conn EXCEPT ![slot[c]].read = @ + n]
          /\ \/ /\ file' = [file EXCEPT ![d] = @ \o Units(conn[slot[c]].read, n)]
                /\ UNCHANGED <<missing, faults>>
             \/ /\ Fault("disk") /\ UNCHANGED file
                /\ missing' = [missing EXCEPT ![d] = @ \cup {conn[slot[c]].read + i : i \in 1 .. n}]
    BY <1>1 DEF ReadBlock
  <1>3. /\ pc[c] = "fetch" /\ made' = [made EXCEPT ![d] = TRUE]
        /\ UNCHANGED <<pc, slot, result, serverVars, queue, srv, cur, overlap>>
        /\ made \in [Dirs -> BOOLEAN] /\ file \in [Dirs -> Seq(1 .. FileLen)]
        /\ missing \in [Dirs -> SUBSET (1 .. FileLen)]
    BY <1>1 DEF ReadBlock, clientVars, serverVars, IInv, TypeOK
  <1>4. PICK r \in Connection : r = conn[slot[c]]
    BY <1>3, ConnType DEF IInv, TypeOK, OwnerInv
  <1>5. /\ r.read \in Nat /\ r.sent \in Nat /\ r.sent <= FileLen /\ n \in Nat /\ r.read + n <= r.sent
    BY <1>2, <1>4, ConnFacts, FileLenFacts DEF Unread
  <1>6. PICK x : x = [r EXCEPT !.read = r.read + n]
    OBVIOUS
  <1>7. /\ x \in Connection /\ x.at = r.at /\ x.sent = r.sent /\ x.read = r.read + n /\ x.eof = r.eof
    BY <1>5, <1>6, FileLenFacts DEF Connection
  <1>8. conn' = [conn EXCEPT ![slot[c]] = x]
    BY <1>2, <1>4, <1>6
  <1>9. faults \subseteq faults' /\ faults' \subseteq FaultKinds
    BY <1>2, FaultFacts DEF FaultKinds, IInv, TypeOK
  <1>10. ConnOK(x)'
    <2>1. ConnOK(r)
      BY <1>3, <1>4 DEF IInv, OwnerInv, ConnInv
    <2> QED
      BY <1>5, <1>7, <1>9, <2>1 DEF ConnOK, Failed
  <1>11. /\ slot[c] \in Slots /\ conn'[slot[c]] = x
         /\ \A e \in Clients : e # c /\ pc[e] # "idle" =>
              slot[e] \in Slots /\ slot[e] # slot[c] /\ conn'[slot[e]] = conn[slot[e]]
         /\ conn' \in [Slots -> Connection] /\ ConnInv' /\ QueueInv'
         /\ srv' = "read" => cur' \in Slots /\ conn'[cur'].at = "read"
    BY <1>3, <1>4, <1>7, <1>8, <1>9, <1>10, OwnConn
  <1>12. PICK f \in Seq(1 .. FileLen) : f = file[d]
    BY <1>3
  <1>13. PICK h : h = missing[d]
    OBVIOUS
  <1>14. PICK g : g = f \o Units(r.read, n)
    OBVIOUS
  <1>15. PICK new : new = {r.read + i : i \in 1 .. n}
    OBVIOUS
  <1>16. r.read + n <= FileLen
    BY <1>5, FileLenFacts
  <1>17. /\ g \in Seq(1 .. FileLen)
         /\ Beginning(f) /\ Len(f) = r.read => Beginning(g) /\ Len(g) = r.read + n
         /\ AllBut(f, r.read, h) => AllBut(g, r.read + n, h) /\ AllBut(f, r.read + n, h \cup new)
    BY <1>5, <1>14, <1>15, <1>16, UnitsConcat, UnitsAppended, UnitsAdded
  <1>18. /\ new # {} /\ new \subseteq 1 .. FileLen
    <2>1. r.read + 1 \in new
      BY <1>5, <1>15
    <2> QED
      BY <1>5, <1>15, <1>16, <2>1, FileLenFacts
  <1>19. \/ file' = [file EXCEPT ![d] = g] /\ UNCHANGED missing
         \/ missing' = [missing EXCEPT ![d] = h \cup new] /\ UNCHANGED file
    <2>1. CASE file' = [file EXCEPT ![d] = @ \o Units(conn[slot[c]].read, n)] /\ UNCHANGED missing
      BY <1>4, <1>12, <1>14, <2>1
    <2>2. CASE /\ UNCHANGED file
               /\ missing' = [missing EXCEPT ![d] = @ \cup {conn[slot[c]].read + i : i \in 1 .. n}]
      BY <1>4, <1>13, <1>15, <2>2
    <2> QED
      BY <1>2, <2>1, <2>2
  <1>20. /\ file' \in [Dirs -> Seq(1 .. FileLen)] /\ made' \in [Dirs -> BOOLEAN] /\ made'[d] = TRUE
         /\ missing' \in [Dirs -> SUBSET (1 .. FileLen)]
         /\ \A e \in Dirs : e # d => file'[e] = file[e] /\ made'[e] = made[e] /\ missing'[e] = missing[e]
         /\ \/ file'[d] = g /\ missing'[d] = h
            \/ file'[d] = f /\ missing'[d] = h \cup new
    BY <1>3, <1>12, <1>13, <1>17, <1>18, <1>19
  <1>21. TypeOK'
    BY <1>3, <1>9, <1>11, <1>20 DEF IInv, TypeOK, Connection, Ends4
  <1>22. OwnerInv'
    <2>1. r.at # "free" /\ ~r.eof
      BY <1>3, <1>4 DEF IInv, OwnerInv
    <2>2. \A e \in Clients : pc[e] # "idle" =>
            /\ slot[e] \in Slots /\ conn'[slot[e]].at # "free" /\ ~conn'[slot[e]].eof
            /\ pc[e] # "fetch" => conn'[slot[e]].read = 0
      BY <1>3, <1>7, <1>11, <2>1 DEF IInv, OwnerInv
    <2> QED
      BY <1>3, <2>2 DEF IInv, OwnerInv
  <1>23. /\ \A e \in Dirs : Fetching(e)' = Fetching(e)
         /\ c \in Fetching(d)
    BY <1>1, <1>3 DEF Fetching
  <1>24. ASSUME d \notin overlap
         PROVE  FetchOK(d, c)' /\ (missing'[d] = {} => Beginning(file'[d]))
    <2>1. /\ AllBut(f, r.read, h) /\ (h = {} => Beginning(f) /\ Len(f) = r.read)
      BY <1>4, <1>12, <1>13, <1>23, <1>24 DEF IInv, FileInv, FetchOK
    <2>2. /\ AllBut(file'[d], r.read + n, missing'[d])
          /\ missing'[d] = {} => Beginning(file'[d]) /\ Len(file'[d]) = r.read + n
      <3>1. CASE file'[d] = g /\ missing'[d] = h
        BY <1>17, <2>1, <3>1, Zenon
      <3>2. CASE file'[d] = f /\ missing'[d] = h \cup new
        <4>1. h \cup new # {}
          BY <1>18
        <4> QED
          BY <1>17, <2>1, <3>2, <4>1, Zenon
      <3> QED
        BY <1>20, <3>1, <3>2
    <2>3. conn'[slot'[c]].read = r.read + n /\ made'[d]
      BY <1>3, <1>7, <1>11, <1>20
    <2> QED
      BY <2>2, <2>3 DEF FetchOK, AllBut
  <1>25. FileInv'
    <2> SUFFICES ASSUME NEW e \in Dirs
                 PROVE  /\ ~made'[e] => file'[e] = <<>> /\ missing'[e] = {}
                        /\ e \notin overlap =>
                             /\ \A a, b \in Fetching(e) : a = b
                             /\ \A b \in Fetching(e) : FetchOK(e, b)'
                             /\ missing'[e] = {} => Beginning(file'[e])
      BY <1>3, <1>23 DEF FileInv, Beginning
    <2>1. /\ ~made[e] => file[e] = <<>> /\ missing[e] = {}
          /\ e \notin overlap =>
               /\ \A a, b \in Fetching(e) : a = b
               /\ \A b \in Fetching(e) : FetchOK(e, b)
               /\ missing[e] = {} => Beginning(file[e])
      BY DEF IInv, FileInv
    <2>2. CASE e # d
      <3>1. \A b \in Fetching(e) : conn'[slot[b]] = conn[slot[b]]
        BY <1>1, <1>11, <2>2 DEF Fetching
      <3>2. \A b \in Fetching(e) : FetchOK(e, b) => FetchOK(e, b)'
        BY <1>3, <1>20, <2>2, <3>1 DEF FetchOK, AllBut
      <3> QED
        BY <1>20, <2>1, <2>2, <3>2
    <2>3. CASE e = d
      BY <1>23, <1>24, <1>20, <2>1, <2>3
    <2> QED
      BY <2>2, <2>3
  <1>26. ASSUME NEW e \in Clients, result[e] \notin {NoReport, 0}, DirOf[e] \notin overlap
         PROVE  DirOf[e] # d /\ DirOf[e] \in Dirs /\ made[DirOf[e]] /\ Fetching(DirOf[e]) = {}
    <2>1. made[DirOf[e]] /\ Fetching(DirOf[e]) = {}
      BY <1>26 DEF IInv, ReportInv
    <2> QED
      BY <1>23, <2>1, FileAssumption
  <1>27. ReportInv'
    <2> SUFFICES ASSUME NEW e \in Clients, result[e] \notin {NoReport, 0}, DirOf[e] \notin overlap
                 PROVE  made'[DirOf[e]] /\ Fetching(DirOf[e])' = {}
      BY <1>3 DEF ReportInv
    <2>1. DirOf[e] # d /\ DirOf[e] \in Dirs /\ made[DirOf[e]] /\ Fetching(DirOf[e]) = {}
      BY <1>26
    <2> QED
      BY <1>20, <1>23, <2>1
  <1>28. ReportTrue'
    <2> SUFFICES ASSUME NEW e \in Clients, result[e] \notin {NoReport, 0}
                 PROVE  /\ result[e] = FileLen \/ "child" \in faults' \/ "kill" \in faults'
                        /\ \/ AllBut(file'[DirOf[e]], result[e], missing'[DirOf[e]])
                           \/ DirOf[e] \in overlap
      BY <1>3 DEF ReportTrue, AllBut
    <2> QED
      BY <1>9, <1>26, <1>20 DEF IInv, ReportTrue
  <1> QED
    BY <1>11, <1>21, <1>22, <1>25, <1>27, <1>28 DEF IInv
-----------------------------------------------------------------------------
LEMMA NextIInv == IInv /\ [Next]_vars => IInv'
  <1> SUFFICES ASSUME IInv, [Next]_vars PROVE IInv'
    OBVIOUS
  <1>1. ASSUME NEW c \in Clients, NEW k \in Asks[c], Start(c, k) PROVE IInv'
    BY <1>1, StartStep
  <1>2. ASSUME NEW c \in Clients, WriteRequest(c) PROVE IInv'
    BY <1>2, EndsKeepIInv, RequestWrittenStep DEF WriteRequest
  <1>3. ASSUME NEW c \in Clients, CheckFile(c) PROVE IInv'
    BY <1>3, EndsKeepIInv, BeginFetchStep DEF CheckFile
  <1>4. ASSUME NEW c \in Clients, ReadBlock(c) PROVE IInv'
    BY <1>4, ReadBlockStep
  <1>5. ASSUME NEW c \in Clients, ReadEof(c) \/ ReadReset(c) \/ Interrupt(c) PROVE IInv'
    BY <1>5, EndsKeepIInv
  <1>6. CASE ParentStep
    BY <1>6, AcceptStep, RequestStep DEF ParentStep
  <1>7. CASE InterruptServer
    BY <1>7, InterruptServerStep
  <1>8. ASSUME NEW s \in Slots, ChildStep(s) \/ ChildFails(s) PROVE IInv'
    BY <1>8, SendBlockStep, ChildEndStep DEF ChildStep
  <1>9. CASE UNCHANGED vars
    <2>1. UNCHANGED <<pc, slot, result, conn, queue, srv, cur, file, made, overlap, missing, faults>>
      BY <1>9 DEF vars, clientVars, serverVars, diskVars
    <2>2. TypeOK' /\ ConnInv' /\ QueueInv' /\ OwnerInv'
      BY <2>1 DEF IInv, TypeOK, ConnInv, ConnOK, Failed, QueueInv, OwnerInv
    <2>3. \A d \in Dirs : Fetching(d)' = Fetching(d)
      BY <2>1 DEF Fetching
    <2>4. FileInv' /\ ReportInv' /\ ReportTrue'
      BY <2>1, <2>3, FilesStay, ReportsStay DEF diskVars
    <2> QED
      BY <2>2, <2>4 DEF IInv
  <1> QED
    BY <1>1, <1>2, <1>3, <1>4, <1>5, <1>6, <1>7, <1>8, <1>9 DEF Next, ClientStep

LEMMA Invariance == Spec => []IInv
  <1>1. Init => IInv
    BY InitIInv
  <1>2. IInv /\ [Next]_vars => IInv'
    BY NextIInv
  <1> QED
    BY <1>1, <1>2, PTL DEF Spec

(* Type correctness: clients, connections, queue and files stay what they   *)
(* are, and the parent that reads a request has a connection to read it     *)
(* from.                                                                    *)
THEOREM FileTypeCorrect == Spec => []TypeOK
  <1>1. IInv => TypeOK
    BY DEF IInv
  <1> QED
    BY <1>1, Invariance, PTL

(* What a directory holds is the beginning of the server's file, for any    *)
(* blocks and any failures of the server, its children and the clients,     *)
(* unless two runs fetched into it at a time or the disk refused a block.   *)
THEOREM BeginningStays == Spec => []BeginningKept
  <1>1. IInv => BeginningKept
    BY DEF IInv, FileInv, BeginningKept
  <1> QED
    BY <1>1, Invariance, PTL

(* A run that reports bytes reports the whole file, unless a child failed   *)
(* or the server was stopped, and what it reports is in its directory, each *)
(* byte once and in order, but for blocks the disk refused, unless two runs *)
(* fetched into it at a time.                                               *)
THEOREM ReportsAreTrue == Spec => []ReportTrue
  <1>1. IInv => ReportTrue
    BY DEF IInv
  <1> QED
    BY <1>1, Invariance, PTL
=============================================================================
