------------------------- MODULE RemoteCommandProofs -------------------------
(***************************************************************************)
(* Proofs about RemoteCommand for any clients, commands, attempts, backlog *)
(* and faults.                                                             *)
(***************************************************************************)
EXTENDS RemoteCommand, SequenceTheorems, TLAPS

-----------------------------------------------------------------------------
(* The inductive invariant. *)

(* What may keep an output from a client that waits for it. *)
Excused == faults["fork"] > 0 \/ srv = "ended"

(* A connection that was never made carries nothing. *)
Fresh(i) ==
  /\ conn[i].at = "none" /\ conn[i].unread = 0 /\ conn[i].out = "none"
  /\ conn[i].eof = FALSE /\ conn[i].writes = 0 /\ conn[i].runs = 0

(* Only the connection the server is at is served, and it is executed and   *)
(* answered once the server has left its read loop, not before.             *)
ServedInv(i) ==
  /\ conn[i].at = "none" => Fresh(i)
  /\ conn[i].at = "served" => i = cur /\ Admits(i) /\ (srv \in {"read", "wait"} \/ child)
  /\ conn[i].at \in {"none", "queued", "leaked"} \/ (conn[i].at = "served" /\ srv = "read")
       => conn[i].runs = 0 /\ conn[i].out = "none"

(* What is left of a connection the server has closed. *)
ClosedInv(i) ==
  /\ conn[i].unread <= conn[i].writes
  /\ conn[i].at = "reset" => conn[i].writes > 1 \/ srv = "ended"
  /\ conn[i].at \in {"closed", "reset"} => conn[i].out # "none" \/ conn[i].eof \/ Excused

(* ExecutedOnce and LeakExplained of one connection. *)
RunsInv(i) == conn[i].runs <= 1 /\ (conn[i].runs = 1 => i[1] \in Admitted /\ conn[i].ok)

LeakInv(i) == conn[i].at = "leaked" => i[1] \notin Admitted \/ ~conn[i].ok \/ conn[i].eof

ConnInv == \A i \in Ids : ServedInv(i) /\ ClosedInv(i) /\ RunsInv(i) /\ LeakInv(i)

(* The server waits for a child that has one copy of the command: another   *)
(* unread copy was written later.                                           *)
ServerInv ==
  /\ srv = "wait" => conn[cur].unread < conn[cur].writes
  /\ srv = "wait" /\ ~child => conn[cur].out # "none" \/ conn[cur].eof \/ Excused
  /\ child => conn[cur].at = "served" /\ conn[cur].runs = 1 /\ conn[cur].out = "none"

(* Every connection waits for accept once. *)
QueueInv ==
  srv # "ended" =>
    /\ \A k \in 1 .. Len(queue) : conn[queue[k]].at = "queued"
    /\ \A k, l \in 1 .. Len(queue) : queue[k] = queue[l] => k = l

(* Where a client is tells how often it has written its command. *)
WritesInv(c) ==
  /\ pc[c] = "connect" => Fresh(Id(c))
  /\ pc[c] \in {"write", "read"} => conn[Id(c)].at # "none" /\ ~conn[Id(c)].eof /\ attempt[c] >= 1
  /\ pc[c] = "write" => conn[Id(c)].writes = attempt[c] - 1 /\ conn[Id(c)].out # "read"
  /\ pc[c] = "read" => conn[Id(c)].writes = attempt[c] /\ (armed[c] => conn[Id(c)].out # "read")

(* An alarm left over from a connection that ended without an output. *)
AlarmInv(c) ==
  /\ pc[c] \in {"prompt", "connect"} /\ armed[c] => Excused
  /\ pc[c] = "ended" <=> why[c] # "none"

EntryInv(c) ==
  /\ entry[c] <= MaxEntries[c]
  /\ pc[c] \in {"connect", "write", "read"} \/ why[c] = "reset" => entry[c] >= 1
  /\ \A n \in 1 .. MaxEntries[c] : n > entry[c] => Fresh(<<c, n>>)

(* OutcomeExplained of one client. *)
OutcomeInv(c) ==
  /\ why[c] = "reset" => conn[Id(c)].writes > 1 \/ srv = "ended"
  /\ why[c] = "alarm" => Excused
  /\ pc[c] = "prompt" /\ entry[c] > 0
       => conn[Id(c)].out = "read" \/ conn[Id(c)].writes = MaxAttempts \/ Excused

ClientInv == \A c \in Clients : WritesInv(c) /\ AlarmInv(c) /\ EntryInv(c) /\ OutcomeInv(c)

IInv == TypeOK /\ ConnInv /\ ServerInv /\ QueueInv /\ ClientInv

-----------------------------------------------------------------------------
(* Facts about types and identities. *)

Connection ==
  [at : Ends, unread : Nat, out : {"none", "ready", "read"}, eof : BOOLEAN,
   ok : BOOLEAN, writes : 0 .. MaxAttempts, runs : Nat]

LEMMA ConnFacts ==
  ASSUME NEW x \in Connection
  PROVE  /\ x.at \in Ends /\ x.unread \in Nat /\ x.out \in {"none", "ready", "read"}
         /\ x.eof \in BOOLEAN /\ x.ok \in BOOLEAN
         /\ x.writes \in Nat /\ x.writes <= MaxAttempts /\ x.runs \in Nat
  BY DEF Connection

LEMMA ConnType == TypeOK => conn \in [Ids -> Connection]
  BY DEF TypeOK, Connection

LEMMA IdsFacts ==
  /\ \A c \in Clients : \A n \in 1 .. MaxEntries[c] : <<c, n>> \in Ids
  /\ \A i \in Ids : \E c \in Clients : \E n \in 1 .. MaxEntries[c] : i = <<c, n>>
  BY DEF Ids

LEMMA IdFacts ==
  ASSUME TypeOK, NEW c \in Clients, EntryInv(c)
  PROVE  /\ entry[c] \in Nat /\ MaxEntries[c] \in Nat
         /\ entry[c] >= 1 => Id(c) \in Ids
  <1>1. entry[c] \in Nat /\ MaxEntries[c] \in Nat
    BY RemoteAssumption DEF TypeOK
  <1> QED
    BY <1>1, IdsFacts DEF Id, EntryInv

LEMMA Attempts == MaxAttempts \in Nat /\ MaxAttempts >= 1
  BY RemoteAssumption

(* The invariant gives the properties. *)
LEMMA IInvImplies == IInv => ExecutedOnce /\ OutcomeExplained /\ LeakExplained
  <1> SUFFICES ASSUME IInv PROVE ExecutedOnce /\ OutcomeExplained /\ LeakExplained
    OBVIOUS
  <1>1. ExecutedOnce
    BY DEF IInv, ConnInv, RunsInv, ExecutedOnce
  <1>2. LeakExplained
    BY DEF IInv, ConnInv, LeakInv, LeakExplained, OpenFds
  <1>3. OutcomeExplained
    BY DEF IInv, ClientInv, OutcomeInv, OutcomeExplained, EndExplained, AnsweredOrGivenUp, Excused
  <1> QED
    BY <1>1, <1>2, <1>3

LEMMA InitIInv == Init => IInv
  <1> SUFFICES ASSUME Init PROVE IInv
    OBVIOUS
  <1> USE DEF Init
  <1>1. \A i \in Ids : conn[i] = NoConn
    OBVIOUS
  <1>2. TypeOK
    <2>1. NoConn \in Connection
      BY Attempts DEF NoConn, Connection, Ends
    <2>2. conn \in [Ids -> Connection]
      BY <2>1
    <2>3. queue \in Seq(Ids)
      OBVIOUS
    <2>4. /\ pc \in [Clients -> {"prompt", "connect", "write", "read", "ended"}]
          /\ entry \in [Clients -> Nat] /\ attempt \in [Clients -> 0 .. MaxAttempts]
          /\ armed \in [Clients -> BOOLEAN]
          /\ why \in [Clients -> {"none", "user", "refused", "reset", "alarm"}]
          /\ faults \in [FaultKinds -> Nat]
      BY Attempts
    <2>5. srv = "accept" /\ child = FALSE
      OBVIOUS
    <2> HIDE DEF Init
    <2> QED
      BY <2>2, <2>3, <2>4, <2>5, Zenon DEF TypeOK, Connection
  <1>3. ConnInv
    BY <1>1 DEF ConnInv, ServedInv, Fresh, ClosedInv, RunsInv, LeakInv, NoConn
  <1>4. ServerInv /\ QueueInv
    BY DEF ServerInv, QueueInv
  <1>5. ASSUME NEW c \in Clients PROVE WritesInv(c) /\ AlarmInv(c) /\ EntryInv(c) /\ OutcomeInv(c)
    <2>1. \A n \in 1 .. MaxEntries[c] : Fresh(<<c, n>>)
      BY <1>1, IdsFacts DEF Fresh, NoConn
    <2>2. MaxEntries[c] \in Nat
      BY RemoteAssumption
    <2> QED
      BY <2>1, <2>2 DEF WritesInv, AlarmInv, EntryInv, OutcomeInv
  <1> QED
    BY <1>2, <1>3, <1>4, <1>5 DEF IInv, ClientInv

-----------------------------------------------------------------------------
(* What the steps of clients have in common. *)

(* A client may write, read the output and close its end of a connection    *)
(* that was made, and change one that was not only by making it.            *)
ClientKeeps(i) ==
  /\ conn[i].at # "none" => conn'[i].at = conn[i].at /\ conn'[i].ok = conn[i].ok
  /\ Fresh(i) => conn'[i].at \in {"none", "queued"} /\ conn'[i].unread = 0
                 /\ conn'[i].out = "none" /\ conn'[i].eof = FALSE /\ conn'[i].writes = 0
  /\ conn'[i].runs = conn[i].runs
  /\ conn[i].eof => conn'[i].eof
  /\ conn'[i].out = conn[i].out \/ (conn[i].out = "ready" /\ conn'[i].out = "read")
  /\ conn'[i].writes >= conn[i].writes
  /\ \/ conn'[i].unread = conn[i].unread
     \/ conn'[i].unread = conn[i].unread + 1 /\ conn'[i].writes = conn[i].writes + 1

LEMMA ClientsKeepConns ==
  ASSUME IInv, TypeOK', UNCHANGED <<srv, cur, child>>, faults'["fork"] = faults["fork"],
         \A i \in Ids : ClientKeeps(i)
  PROVE  ConnInv' /\ ServerInv'
  <1>1. Excused' = Excused
    BY DEF Excused
  <1>2. ASSUME NEW i \in Ids
        PROVE  (ServedInv(i) /\ ClosedInv(i) /\ RunsInv(i) /\ LeakInv(i))'
    <2>1. ServedInv(i) /\ ClosedInv(i) /\ RunsInv(i) /\ LeakInv(i) /\ ClientKeeps(i)
      BY DEF IInv, ConnInv
    <2>2. /\ conn[i].unread \in Nat /\ conn[i].writes \in Nat /\ conn[i].runs \in Nat
          /\ conn'[i].unread \in Nat /\ conn'[i].writes \in Nat /\ conn'[i].runs \in Nat
      <3>1. conn[i] \in Connection /\ conn'[i] \in Connection
        BY DEF IInv, TypeOK, Connection
      <3> QED
        BY <3>1, ConnFacts
    <2>3. CASE conn[i].at = "none"
      BY <2>1, <2>2, <2>3 DEF ServedInv, Fresh, ClosedInv, RunsInv, LeakInv, ClientKeeps
    <2>4. CASE conn[i].at # "none"
      <3>1. ServedInv(i)'
        BY <2>1, <2>4 DEF ServedInv, ClientKeeps, Admits
      <3>2. ClosedInv(i)'
        BY <1>1, <2>1, <2>2, <2>4 DEF ClosedInv, ClientKeeps
      <3>3. RunsInv(i)' /\ LeakInv(i)'
        BY <2>1, <2>4 DEF RunsInv, LeakInv, ClientKeeps
      <3> QED
        BY <3>1, <3>2, <3>3
    <2> QED
      BY <2>3, <2>4
  <1>3. ServerInv'
    <2>1. srv = "wait" \/ child => cur \in Ids /\ conn[cur].at = "served" /\ ClientKeeps(cur)
      BY DEF IInv, TypeOK, ServerInv
    <2>2. srv = "wait" => conn[cur].unread \in Nat /\ conn[cur].writes \in Nat
                          /\ conn'[cur].unread \in Nat /\ conn'[cur].writes \in Nat
      <3>1. srv = "wait" => conn[cur] \in Connection /\ conn'[cur] \in Connection
        BY <2>1 DEF IInv, TypeOK, Connection
      <3> QED
        BY <3>1, ConnFacts
    <2> QED
      BY <1>1, <2>1, <2>2 DEF IInv, ServerInv, ClientKeeps
  <1> QED
    BY <1>2, <1>3 DEF ConnInv

(* A step of one client on its own connection leaves the others alone. *)
LEMMA OtherClients ==
  ASSUME IInv, NEW c \in Clients, NEW d \in Clients, d # c,
         UNCHANGED srv, faults'["fork"] = faults["fork"],
         NEW n, \A i \in Ids : i # <<c, n>> => conn'[i] = conn[i],
         pc'[d] = pc[d], entry'[d] = entry[d], attempt'[d] = attempt[d],
         armed'[d] = armed[d], why'[d] = why[d]
  PROVE  (WritesInv(d) /\ AlarmInv(d) /\ EntryInv(d) /\ OutcomeInv(d))'
  <1>1. WritesInv(d) /\ AlarmInv(d) /\ EntryInv(d) /\ OutcomeInv(d) /\ Excused' = Excused
    BY DEF IInv, ClientInv, Excused
  <1>2. Id(d)' = Id(d)
    BY DEF Id
  <1>3. entry[d] >= 1 => Id(d) \in Ids /\ conn'[Id(d)] = conn[Id(d)]
    <2>1. Id(d) # <<c, n>>
      BY DEF Id
    <2> QED
      BY <1>1, <2>1, IdFacts DEF IInv
  <1>4. \A m \in 1 .. MaxEntries[d] : conn'[<<d, m>>] = conn[<<d, m>>]
    BY IdsFacts
  <1>5. entry[d] \in Nat
    BY <1>1, IdFacts DEF IInv
  <1>6. EntryInv(d)'
    BY <1>1, <1>4 DEF EntryInv, Fresh
  <1>7. WritesInv(d)'
    BY <1>1, <1>2, <1>3 DEF WritesInv, EntryInv, Fresh
  <1>8. AlarmInv(d)'
    BY <1>1 DEF AlarmInv
  <1>9. OutcomeInv(d)'
    BY <1>1, <1>2, <1>3, <1>5 DEF OutcomeInv, EntryInv
  <1> QED
    BY <1>6, <1>7, <1>8, <1>9

LEMMA QueueKept ==
  ASSUME IInv, UNCHANGED <<srv, queue>>,
         \A i \in Ids : conn[i].at = "queued" => conn'[i].at = "queued"
  PROVE  QueueInv'
  <1>1. \A k \in 1 .. Len(queue) : queue[k] \in Ids
    BY DEF IInv, TypeOK
  <1> QED
    BY <1>1 DEF IInv, QueueInv
LEMMA ClientStepKeepsIInv ==
  ASSUME IInv, TypeOK', QueueInv', NEW c \in Clients, NEW n,
         UNCHANGED <<srv, cur, child>>, faults'["fork"] = faults["fork"],
         \A i \in Ids : i # <<c, n>> => conn'[i] = conn[i],
         <<c, n>> \in Ids => ClientKeeps(<<c, n>>),
         \A d \in Clients : d # c =>
           /\ pc'[d] = pc[d] /\ entry'[d] = entry[d] /\ attempt'[d] = attempt[d]
           /\ armed'[d] = armed[d] /\ why'[d] = why[d],
         (WritesInv(c) /\ AlarmInv(c) /\ EntryInv(c) /\ OutcomeInv(c))'
  PROVE  IInv'
  <1>1. ASSUME NEW i \in Ids, conn'[i] = conn[i] PROVE ClientKeeps(i)
    <2>1. conn[i].writes \in Nat
      BY ConnType, ConnFacts DEF IInv
    <2> QED
      BY <1>1, <2>1 DEF ClientKeeps, Fresh
  <1>2. \A i \in Ids : ClientKeeps(i)
    BY <1>1
  <1>3. ConnInv' /\ ServerInv'
    BY <1>2, ClientsKeepConns
  <1>4. ASSUME NEW d \in Clients, d # c
        PROVE  (WritesInv(d) /\ AlarmInv(d) /\ EntryInv(d) /\ OutcomeInv(d))'
    BY <1>4, OtherClients
  <1>5. ClientInv'
    BY <1>4 DEF ClientInv
  <1> QED
    BY <1>3, <1>5 DEF IInv

(* What a client that has a connection knows of it. *)
LEMMA OwnFacts ==
  ASSUME IInv, NEW c \in Clients
  PROVE  /\ WritesInv(c) /\ AlarmInv(c) /\ EntryInv(c) /\ OutcomeInv(c)
         /\ entry[c] \in Nat /\ MaxEntries[c] \in Nat /\ attempt[c] \in 0 .. MaxAttempts
         /\ pc[c] \in {"connect", "write", "read"} =>
              /\ Id(c) \in Ids /\ conn[Id(c)] \in Connection
              /\ ServedInv(Id(c)) /\ ClosedInv(Id(c))
  <1>1. WritesInv(c) /\ AlarmInv(c) /\ EntryInv(c) /\ OutcomeInv(c)
    BY DEF IInv, ClientInv
  <1>2. entry[c] \in Nat /\ MaxEntries[c] \in Nat /\ attempt[c] \in 0 .. MaxAttempts
    BY <1>1, IdFacts DEF IInv, TypeOK
  <1>3. pc[c] \in {"connect", "write", "read"} => Id(c) \in Ids
    BY <1>1, IdFacts DEF IInv, EntryInv
  <1> QED
    BY <1>1, <1>2, <1>3, ConnType DEF IInv, ConnInv

LEMMA EnterStep ==
  ASSUME IInv, NEW c \in Clients, Enter(c)
  PROVE  IInv'
  <1>0. PICK n : n = entry[c] + 1
    OBVIOUS
  <1> DEFINE i == <<c, n>>
  <1>1. i \in Ids /\ n \in 1 .. MaxEntries[c] /\ Fresh(i) /\ conn[i] \in Connection
    <2>1. n \in 1 .. MaxEntries[c] /\ n > entry[c]
      BY <1>0, OwnFacts DEF Enter
    <2> QED
      BY <2>1, IdsFacts, OwnFacts, ConnType DEF EntryInv, IInv
  <1>2. PICK ok \in BOOLEAN : conn' = [conn EXCEPT ![i].ok = ok]
    BY <1>0 DEF Enter
  <1>3. /\ pc' = [pc EXCEPT ![c] = "connect"] /\ entry' = [entry EXCEPT ![c] = n]
        /\ pc[c] = "prompt" /\ UNCHANGED <<attempt, armed, why, serverVars, faults>>
    BY <1>0 DEF Enter, GoTo
  <1>4. /\ conn \in [Ids -> Connection] /\ entry \in [Clients -> Nat]
        /\ pc \in [Clients -> {"prompt", "connect", "write", "read", "ended"}]
    BY ConnType DEF IInv, TypeOK
  <1> HIDE DEF i
  <1>5. /\ conn'[i] \in Connection /\ \A j \in Ids : j # i => conn'[j] = conn[j]
        /\ conn'[i].at = conn[i].at /\ conn'[i].unread = conn[i].unread
        /\ conn'[i].out = conn[i].out /\ conn'[i].eof = conn[i].eof
        /\ conn'[i].writes = conn[i].writes /\ conn'[i].runs = conn[i].runs
    BY <1>1, <1>2, <1>4 DEF Connection
  <1>6. conn' \in [Ids -> Connection]
    BY <1>1, <1>2, <1>4, <1>5
  <1>7. ClientKeeps(i)
    BY <1>1, <1>5 DEF Fresh, ClientKeeps
  <1>8. TypeOK'
    <2>1. entry' \in [Clients -> Nat]
      BY <1>1, <1>3, <1>4
    <2>2. cur \in Ids => conn'[cur].at = conn[cur].at
      BY <1>5
    <2> QED
      BY <1>3, <1>6, <2>1, <2>2 DEF IInv, TypeOK, Connection, serverVars
  <1>9. QueueInv'
    BY <1>1, <1>3, <1>5, QueueKept DEF serverVars, Fresh
  <1>10. pc'[c] = "connect" /\ entry'[c] = n /\ armed'[c] = armed[c] /\ why'[c] = why[c]
    BY <1>3, <1>4
  <1>11. Id(c)' = i /\ Fresh(i)'
    BY <1>1, <1>5, <1>10 DEF Id, i, Fresh
  <1>12. WritesInv(c)' /\ AlarmInv(c)' /\ OutcomeInv(c)'
    BY <1>3, <1>10, <1>11, OwnFacts DEF WritesInv, AlarmInv, OutcomeInv, Excused, serverVars
  <1>13. EntryInv(c)'
    <2>1. \A m \in 1 .. MaxEntries[c] : m > n => m > entry[c] /\ Fresh(<<c, m>>) /\ <<c, m>> # i /\ <<c, m>> \in Ids
      BY <1>0, OwnFacts, IdsFacts DEF EntryInv, i
    <2> QED
      BY <1>1, <1>5, <1>10, <2>1, OwnFacts DEF EntryInv, Fresh
  <1>14. \A d \in Clients : d # c =>
           /\ pc'[d] = pc[d] /\ entry'[d] = entry[d] /\ attempt'[d] = attempt[d]
           /\ armed'[d] = armed[d] /\ why'[d] = why[d]
    BY <1>3, <1>4
  <1> QED
    BY <1>3, <1>5, <1>7, <1>8, <1>9, <1>12, <1>13, <1>14, ClientStepKeepsIInv DEF serverVars, i
-----------------------------------------------------------------------------
(* The steps of a client that has read its command. *)

States  == {"prompt", "connect", "write", "read", "ended"}
Reasons == {"none", "user", "refused", "reset", "alarm"}

LEMMA ClientTypes ==
  ASSUME TypeOK, UNCHANGED <<srv, cur, child>>,
         conn' \in [Ids -> Connection], pc' \in [Clients -> States],
         entry' \in [Clients -> Nat], attempt' \in [Clients -> 0 .. MaxAttempts],
         armed' \in [Clients -> BOOLEAN], why' \in [Clients -> Reasons],
         queue' \in Seq(Ids), faults' \in [FaultKinds -> Nat],
         \A i \in Ids : conn[i].at # "none" => conn'[i].at = conn[i].at
  PROVE  TypeOK'
  BY DEF TypeOK, Connection, States, Reasons

LEMMA FaultFacts ==
  ASSUME TypeOK, NEW k \in FaultKinds, Fault(k)
  PROVE  /\ faults' \in [FaultKinds -> Nat]
         /\ \A l \in FaultKinds : l # k => faults'[l] = faults[l]
         /\ faults'[k] > 0
  BY DEF TypeOK, Fault

(* One field of its own connection changes in a step of a client. *)
LEMMA CloseFacts ==
  ASSUME TypeOK, NEW i \in Ids, conn' = [conn EXCEPT ![i].eof = TRUE]
  PROVE  /\ conn' \in [Ids -> Connection] /\ \A j \in Ids : j # i => conn'[j] = conn[j]
         /\ conn'[i].at = conn[i].at /\ conn'[i].unread = conn[i].unread
         /\ conn'[i].out = conn[i].out /\ conn'[i].eof = TRUE /\ conn'[i].ok = conn[i].ok
         /\ conn'[i].writes = conn[i].writes /\ conn'[i].runs = conn[i].runs
  <1>1. conn \in [Ids -> Connection]
    BY ConnType
  <1> QED
    BY <1>1 DEF Connection

(* The other entries of the client are as fresh as they were. *)
LEMMA EntryKept ==
  ASSUME IInv, NEW c \in Clients, UNCHANGED entry,
         \A j \in Ids : j # Id(c) => conn'[j] = conn[j],
         pc'[c] \in {"connect", "write", "read"} \/ why'[c] = "reset" => entry[c] >= 1
  PROVE  EntryInv(c)'
  <1>1. \A m \in 1 .. MaxEntries[c] :
          m > entry[c] => Fresh(<<c, m>>) /\ <<c, m>> \in Ids /\ conn'[<<c, m>>] = conn[<<c, m>>]
    <2> SUFFICES ASSUME NEW m \in 1 .. MaxEntries[c], m > entry[c]
                 PROVE  Fresh(<<c, m>>) /\ <<c, m>> \in Ids /\ conn'[<<c, m>>] = conn[<<c, m>>]
      OBVIOUS
    <2>1. Fresh(<<c, m>>) /\ <<c, m>> \in Ids
      BY OwnFacts, IdsFacts DEF EntryInv
    <2>2. m # entry[c]
      BY OwnFacts
    <2>3. <<c, m>> # Id(c)
      BY <2>2 DEF Id
    <2> QED
      BY <2>1, <2>3
  <1> QED
    BY <1>1, OwnFacts DEF EntryInv, Fresh

(* The end of a client, which may close its connection. *)
LEMMA EndStep ==
  ASSUME IInv, NEW c \in Clients, NEW reason \in Reasons \ {"none"}, End(c, reason),
         UNCHANGED <<entry, attempt, serverVars>>, armed' \in [Clients -> BOOLEAN],
         \A d \in Clients : d # c => armed'[d] = armed[d],
         faults' \in [FaultKinds -> Nat], faults'["fork"] = faults["fork"],
         UNCHANGED conn \/ (pc[c] \in {"write", "read"} /\ CloseEnd(c)),
         reason = "reset" => pc[c] \in {"write", "read"} /\ conn[Id(c)].at = "reset",
         reason = "alarm" => Excused
  PROVE  IInv'
  <1>0. PICK n : n = entry[c]
    OBVIOUS
  <1> DEFINE i == <<c, n>>
  <1>1. Id(c) = i /\ Id(c)' = i
    BY <1>0 DEF Id
  <1>2. /\ conn' \in [Ids -> Connection]
        /\ \A j \in Ids : j # i => conn'[j] = conn[j]
        /\ \A j \in Ids : conn'[j].at = conn[j].at
        /\ i \in Ids => /\ conn'[i].at = conn[i].at /\ conn'[i].unread = conn[i].unread
                        /\ conn'[i].out = conn[i].out /\ conn'[i].ok = conn[i].ok
                        /\ conn'[i].writes = conn[i].writes /\ conn'[i].runs = conn[i].runs
                        /\ conn[i].eof => conn'[i].eof
                        /\ conn[i].at = "none" => conn' = conn
    <2>1. CASE UNCHANGED conn
      BY <2>1, ConnType DEF IInv
    <2>2. CASE pc[c] \in {"write", "read"} /\ CloseEnd(c)
      <3>1. i \in Ids /\ conn[i].at # "none" /\ conn' = [conn EXCEPT ![i].eof = TRUE]
        BY <1>1, <2>2, OwnFacts DEF WritesInv, CloseEnd
      <3> QED
        BY <3>1, CloseFacts DEF IInv
    <2> QED
      BY <2>1, <2>2
  <1>3. /\ pc' = [pc EXCEPT ![c] = "ended"] /\ why' = [why EXCEPT ![c] = reason]
        /\ pc \in [Clients -> States] /\ why \in [Clients -> Reasons]
    BY DEF End, GoTo, IInv, TypeOK, States, Reasons
  <1>4. TypeOK'
    <2>1. pc' \in [Clients -> States] /\ why' \in [Clients -> Reasons]
      BY <1>3 DEF States
    <2>2. /\ entry' \in [Clients -> Nat] /\ attempt' \in [Clients -> 0 .. MaxAttempts]
          /\ queue' \in Seq(Ids) /\ UNCHANGED <<srv, cur, child>>
      BY DEF IInv, TypeOK, serverVars
    <2> QED
      BY <1>2, <2>1, <2>2, ClientTypes DEF IInv
  <1>5. QueueInv'
    BY <1>2, QueueKept DEF serverVars
  <1>6. i \in Ids => ClientKeeps(i)
    <2>1. i \in Ids => conn[i].writes \in Nat
      BY ConnType, ConnFacts DEF IInv
    <2> QED
      BY <1>2, <2>1 DEF ClientKeeps, Fresh
  <1>7. pc'[c] = "ended" /\ why'[c] = reason
    BY <1>3
  <1>8. WritesInv(c)' /\ AlarmInv(c)'
    BY <1>7 DEF WritesInv, AlarmInv
  <1>9. EntryInv(c)'
    <2>1. reason = "reset" => entry[c] >= 1
      BY OwnFacts DEF EntryInv
    <2> QED
      BY <1>1, <1>2, <1>7, <2>1, EntryKept
  <1>10. OutcomeInv(c)'
    <2>1. reason = "reset" => i \in Ids /\ (conn[i].writes > 1 \/ srv = "ended")
      BY <1>1, OwnFacts DEF ClosedInv
    <2> QED
      BY <1>1, <1>2, <1>7, <2>1 DEF OutcomeInv, Excused, serverVars
  <1>11. \A d \in Clients : d # c =>
           /\ pc'[d] = pc[d] /\ entry'[d] = entry[d] /\ attempt'[d] = attempt[d]
           /\ armed'[d] = armed[d] /\ why'[d] = why[d]
    BY <1>3
  <1> QED
    BY <1>2, <1>4, <1>5, <1>6, <1>8, <1>9, <1>10, <1>11, ClientStepKeepsIInv DEF serverVars

(* The ways a client ends. *)
LEMMA EndSteps ==
  ASSUME IInv, NEW c \in Clients,
         \/ Leave(c) \/ ConnectTimesOut(c) \/ ReadReset(c) \/ StrayAlarm(c) \/ Interrupt(c)
         \/ (Connect(c) /\ End(c, "refused")) \/ (Write(c) /\ WriteFails(c))
  PROVE  IInv'
  <1>1. armed \in [Clients -> BOOLEAN] /\ faults \in [FaultKinds -> Nat]
    BY DEF IInv, TypeOK
  <1>2. CASE Leave(c) \/ ConnectTimesOut(c)
    BY <1>1, <1>2, EndStep DEF Leave, ConnectTimesOut, Reasons
  <1>3. CASE ReadReset(c)
    BY <1>1, <1>3, EndStep DEF ReadReset, Reasons
  <1>4. CASE StrayAlarm(c)
    BY <1>1, <1>4, EndStep, OwnFacts DEF StrayAlarm, SetAlarm, AlarmInv, Reasons
  <1>5. CASE Interrupt(c)
    <2>1. faults' \in [FaultKinds -> Nat] /\ faults'["fork"] = faults["fork"]
      BY <1>5, FaultFacts DEF Interrupt, FaultKinds, IInv
    <2> QED
      BY <1>1, <1>5, <2>1, EndStep DEF Interrupt, Reasons
  <1>6. CASE Connect(c) /\ End(c, "refused")
    <2>1. UNCHANGED <<conn, queue, attempt>>
      BY <1>6, OwnFacts DEF Connect, End, GoTo, IInv, TypeOK
    <2> QED
      BY <1>1, <1>6, <2>1, EndStep DEF Connect, Reasons, serverVars
  <1>7. CASE Write(c) /\ WriteFails(c)
    BY <1>1, <1>7, EndStep DEF Write, WriteFails, Reasons, serverVars
  <1> QED
    BY <1>2, <1>3, <1>4, <1>5, <1>6, <1>7
(* A step of a client that goes on, on the connection it has. *)
LEMMA GoOnStep ==
  ASSUME IInv, NEW c \in Clients, pc[c] \in {"connect", "write", "read"}, NEW i, i = Id(c),
         NEW s \in States \ {"ended"}, GoTo(c, s),
         UNCHANGED <<entry, why, srv, cur, child>>, QueueInv', queue' \in Seq(Ids),
         attempt' \in [Clients -> 0 .. MaxAttempts], armed' \in [Clients -> BOOLEAN],
         \A d \in Clients : d # c => attempt'[d] = attempt[d] /\ armed'[d] = armed[d],
         faults' \in [FaultKinds -> Nat], faults'["fork"] = faults["fork"],
         conn' \in [Ids -> Connection], \A j \in Ids : j # i => conn'[j] = conn[j],
         ClientKeeps(i), Id(c)' = i => WritesInv(c)',
         s = "connect" => FALSE,
         s = "prompt" => /\ armed'[c] => Excused
                         /\ conn'[i].out = "read" \/ conn'[i].writes = MaxAttempts \/ Excused
  PROVE  IInv'
  <1>0. PICK n : n = entry[c]
    OBVIOUS
  <1>1. i = <<c, n>> /\ Id(c)' = i /\ i \in Ids
    BY <1>0, OwnFacts DEF Id
  <1>2. pc' = [pc EXCEPT ![c] = s] /\ pc \in [Clients -> States]
    BY DEF GoTo, IInv, TypeOK, States
  <1>3. pc'[c] = s /\ \A d \in Clients : d # c => pc'[d] = pc[d]
    BY <1>2
  <1>4. TypeOK'
    <2>1. pc' \in [Clients -> States] /\ why' \in [Clients -> Reasons] /\ entry' \in [Clients -> Nat]
      BY <1>2 DEF IInv, TypeOK, Reasons
    <2>2. \A j \in Ids : conn[j].at # "none" => conn'[j].at = conn[j].at
      BY <1>1 DEF ClientKeeps
    <2> QED
      BY <2>1, <2>2, ClientTypes DEF IInv
  <1>5. EntryInv(c)'
    BY <1>1, <1>3, OwnFacts, EntryKept DEF EntryInv
  <1>6. why[c] = "none"
    BY OwnFacts DEF AlarmInv, IInv, TypeOK
  <1>7. AlarmInv(c)' /\ OutcomeInv(c)'
    BY <1>1, <1>3, <1>6 DEF AlarmInv, OutcomeInv, Excused
  <1> QED
    BY <1>1, <1>3, <1>4, <1>5, <1>7, ClientStepKeepsIInv

LEMMA ConnectStep ==
  ASSUME IInv, NEW c \in Clients, Connect(c), ~End(c, "refused")
  PROVE  IInv'
  <1> DEFINE i == Id(c)
  <1>1. /\ pc[c] = "connect" /\ Fresh(i) /\ i \in Ids /\ conn[i] \in Connection
        /\ conn \in [Ids -> Connection]
    BY OwnFacts, ConnType DEF Connect, WritesInv, IInv
  <1>2. /\ queue' = Append(queue, i) /\ conn' = [conn EXCEPT ![i].at = "queued"]
        /\ attempt' = [attempt EXCEPT ![c] = 1] /\ GoTo(c, "write")
        /\ UNCHANGED <<entry, why, armed, srv, cur, child, faults>>
    BY DEF Connect
  <1>3. PICK k : k = i
    OBVIOUS
  <1>4. /\ conn' \in [Ids -> Connection] /\ \A j \in Ids : j # k => conn'[j] = conn[j]
        /\ conn'[k].at = "queued" /\ conn'[k].unread = 0 /\ conn'[k].out = "none"
        /\ conn'[k].eof = FALSE /\ conn'[k].writes = 0 /\ conn'[k].runs = 0
    BY <1>1, <1>2, <1>3 DEF Connection, Ends, Fresh
  <1>5. ClientKeeps(k)
    BY <1>1, <1>3, <1>4 DEF ClientKeeps, Fresh
  <1>6. queue' \in Seq(Ids) /\ QueueInv'
    <2>1. queue \in Seq(Ids)
      BY DEF IInv, TypeOK
    <2>2. srv # "ended" => \A l \in 1 .. Len(queue) : queue[l] \in Ids /\ queue[l] # k
      BY <1>1, <1>3, <2>1 DEF IInv, QueueInv, Fresh
    <2>3. /\ queue' \in Seq(Ids) /\ Len(queue') = Len(queue) + 1 /\ queue'[Len(queue) + 1] = k
          /\ \A l \in 1 .. Len(queue) : queue'[l] = queue[l]
      BY <1>1, <1>2, <1>3, <2>1
    <2> QED
      BY <1>2, <1>4, <2>1, <2>2, <2>3 DEF IInv, QueueInv
  <1>7. /\ attempt' \in [Clients -> 0 .. MaxAttempts] /\ attempt'[c] = 1
        /\ \A d \in Clients : d # c => attempt'[d] = attempt[d]
    BY <1>2, Attempts DEF IInv, TypeOK
  <1>8. pc'[c] = "write" /\ armed' \in [Clients -> BOOLEAN] /\ faults' \in [FaultKinds -> Nat]
    BY <1>2 DEF GoTo, IInv, TypeOK
  <1>9. Id(c)' = k => WritesInv(c)'
    BY <1>4, <1>7, <1>8 DEF WritesInv
  <1> HIDE DEF i
  <1> QED
    BY <1>1, <1>2, <1>3, <1>4, <1>5, <1>6, <1>7, <1>8, <1>9, GoOnStep DEF States, i

LEMMA WriteStep ==
  ASSUME IInv, NEW c \in Clients, Write(c), ~WriteFails(c)
  PROVE  IInv'
  <1>1. PICK i : i = Id(c)
    OBVIOUS
  <1>2. /\ pc[c] = "write" /\ i \in Ids /\ conn[i] \in Connection /\ conn \in [Ids -> Connection]
        /\ conn[i].at # "none" /\ ~conn[i].eof /\ conn[i].writes = attempt[c] - 1
        /\ conn[i].out # "read" /\ attempt[c] >= 1 /\ attempt[c] \in 0 .. MaxAttempts
    BY <1>1, OwnFacts, ConnType DEF Write, WritesInv, IInv
  <1>3. /\ WriteCopy(c) /\ UNCHANGED <<entry, attempt, serverVars>>
        /\ SetAlarm(c, TRUE) \/ SetAlarm(c, FALSE)
        /\ UNCHANGED faults \/ Fault("late")
    BY DEF Write
  <1>4. conn' = [conn EXCEPT ![i].unread = IF conn[i].at = "closed" THEN @ ELSE @ + 1,
                             ![i].writes = @ + 1]
    BY <1>1, <1>3 DEF WriteCopy
  <1>5. conn[i].unread \in Nat /\ conn[i].writes + 1 \in 0 .. MaxAttempts /\ conn[i].writes \in Nat
    BY <1>2, ConnFacts, Attempts
  <1>6. /\ conn' \in [Ids -> Connection] /\ \A j \in Ids : j # i => conn'[j] = conn[j]
        /\ conn'[i].at = conn[i].at /\ conn'[i].out = conn[i].out /\ conn'[i].ok = conn[i].ok
        /\ conn'[i].eof = conn[i].eof /\ conn'[i].runs = conn[i].runs
        /\ conn'[i].writes = conn[i].writes + 1
        /\ conn'[i].unread = conn[i].unread \/ conn'[i].unread = conn[i].unread + 1
    BY <1>2, <1>4, <1>5 DEF Connection
  <1>7. ClientKeeps(i)
    BY <1>2, <1>5, <1>6 DEF ClientKeeps, Fresh
  <1>8. /\ armed' \in [Clients -> BOOLEAN] /\ \A d \in Clients : d # c => armed'[d] = armed[d]
    BY <1>3 DEF SetAlarm, IInv, TypeOK
  <1>9. faults' \in [FaultKinds -> Nat] /\ faults'["fork"] = faults["fork"]
    BY <1>3, FaultFacts DEF IInv, TypeOK, FaultKinds
  <1>10. GoTo(c, "read") /\ UNCHANGED why /\ pc'[c] = "read"
    BY <1>3 DEF WriteCopy, GoTo, IInv, TypeOK
  <1>11. Id(c)' = i => WritesInv(c)'
    BY <1>2, <1>3, <1>5, <1>6, <1>10 DEF WritesInv
  <1>12. QueueInv' /\ queue' \in Seq(Ids)
    BY <1>3, <1>6, QueueKept DEF serverVars, IInv, TypeOK
  <1>13. attempt' \in [Clients -> 0 .. MaxAttempts]
    BY <1>3 DEF IInv, TypeOK
  <1> QED
    BY <1>1, <1>2, <1>3, <1>6, <1>7, <1>8, <1>9, <1>10, <1>11, <1>12, <1>13, GoOnStep
       DEF States, serverVars

LEMMA ReadOutputStep ==
  ASSUME IInv, NEW c \in Clients, ReadOutput(c)
  PROVE  IInv'
  <1>1. PICK i : i = Id(c)
    OBVIOUS
  <1>2. /\ pc[c] = "read" /\ i \in Ids /\ conn[i] \in Connection /\ conn \in [Ids -> Connection]
        /\ conn[i].at # "none" /\ ~conn[i].eof /\ conn[i].writes = attempt[c]
        /\ conn[i].out = "ready" /\ attempt[c] >= 1
        /\ conn' = [conn EXCEPT ![i].out = "read"] /\ armed' = [armed EXCEPT ![c] = FALSE]
        /\ UNCHANGED <<pc, entry, attempt, why, serverVars, faults>>
    BY <1>1, OwnFacts, ConnType DEF ReadOutput, WritesInv, SetAlarm, IInv
  <1>3. /\ conn' \in [Ids -> Connection] /\ \A j \in Ids : j # i => conn'[j] = conn[j]
        /\ conn'[i].at = conn[i].at /\ conn'[i].out = "read" /\ conn'[i].ok = conn[i].ok
        /\ conn'[i].eof = conn[i].eof /\ conn'[i].runs = conn[i].runs
        /\ conn'[i].writes = conn[i].writes /\ conn'[i].unread = conn[i].unread
    BY <1>2 DEF Connection
  <1>4. ClientKeeps(i)
    BY <1>2, <1>3, ConnFacts DEF ClientKeeps, Fresh
  <1>5. /\ armed' \in [Clients -> BOOLEAN] /\ armed'[c] = FALSE
        /\ \A d \in Clients : d # c => armed'[d] = armed[d]
        /\ GoTo(c, "read") /\ faults' \in [FaultKinds -> Nat]
        /\ attempt' \in [Clients -> 0 .. MaxAttempts] /\ queue' \in Seq(Ids)
    BY <1>2 DEF IInv, TypeOK, GoTo, serverVars
  <1>6. Id(c)' = i => WritesInv(c)'
    BY <1>2, <1>3, <1>5 DEF WritesInv
  <1>7. QueueInv'
    BY <1>2, <1>3, QueueKept DEF serverVars
  <1> QED
    BY <1>1, <1>2, <1>3, <1>4, <1>5, <1>6, <1>7, GoOnStep DEF States, serverVars

(* Back at the prompt, by the end of file or after the last attempt. *)
LEMMA BackStep ==
  ASSUME IInv, NEW c \in Clients, ReadEof(c) \/ (Timeout(c) /\ GiveUp(c))
  PROVE  IInv'
  <1>1. PICK i : i = Id(c)
    OBVIOUS
  <1>2. /\ pc[c] = "read" /\ i \in Ids /\ conn[i] \in Connection
        /\ conn[i].at # "none" /\ ~conn[i].eof /\ conn[i].writes = attempt[c]
        /\ armed[c] => conn[i].out # "read"
        /\ conn' = [conn EXCEPT ![i].eof = TRUE] /\ GoTo(c, "prompt")
        /\ UNCHANGED <<entry, attempt, why, serverVars, faults>>
    BY <1>1, OwnFacts DEF ReadEof, Timeout, Interrupted, GiveUp, CloseEnd, WritesInv
  <1>3. /\ conn' \in [Ids -> Connection] /\ \A j \in Ids : j # i => conn'[j] = conn[j]
        /\ conn'[i].at = conn[i].at /\ conn'[i].unread = conn[i].unread
        /\ conn'[i].out = conn[i].out /\ conn'[i].eof = TRUE /\ conn'[i].ok = conn[i].ok
        /\ conn'[i].writes = conn[i].writes /\ conn'[i].runs = conn[i].runs
    BY <1>2, CloseFacts DEF IInv
  <1>4. ClientKeeps(i)
    BY <1>2, <1>3, ConnFacts DEF ClientKeeps, Fresh
  <1>5. /\ armed' \in [Clients -> BOOLEAN] /\ (armed'[c] => armed[c])
        /\ \A d \in Clients : d # c => attempt'[d] = attempt[d] /\ armed'[d] = armed[d]
        /\ pc'[c] = "prompt" /\ faults' \in [FaultKinds -> Nat]
        /\ attempt' \in [Clients -> 0 .. MaxAttempts] /\ queue' \in Seq(Ids)
    BY <1>2 DEF ReadEof, Timeout, Interrupted, SetAlarm, IInv, TypeOK, GoTo, serverVars
  <1>6. QueueInv'
    BY <1>2, <1>3, QueueKept DEF serverVars
  <1>7. /\ armed'[c] => Excused
        /\ conn'[i].out = "read" \/ conn'[i].writes = MaxAttempts \/ Excused
    <2>1. CASE ReadEof(c)
      <3>1. conn[i].at = "closed" /\ conn[i].out # "ready" /\ UNCHANGED armed
        BY <1>1, <2>1 DEF ReadEof
      <3>2. conn[i].out = "read" \/ Excused
        BY <1>1, <1>2, <3>1, OwnFacts, ConnFacts DEF ClosedInv
      <3> QED
        BY <1>2, <1>3, <3>1, <3>2
    <2>2. CASE Timeout(c) /\ GiveUp(c)
      <3>1. attempt[c] = MaxAttempts
        <4>1. attempt'[c] = attempt[c] /\ attempt \in [Clients -> 0 .. MaxAttempts]
          BY <1>2 DEF IInv, TypeOK
        <4>2. pc'[c] # "write"
          BY <1>5
        <4> QED
          BY <2>2, <4>1, <4>2 DEF Timeout, TryAgain, GoTo, IInv, TypeOK
      <3>2. armed'[c] = FALSE
        BY <2>2 DEF Timeout, Interrupted, SetAlarm, IInv, TypeOK
      <3> QED
        BY <1>2, <1>3, <3>1, <3>2
    <2> QED
      BY <2>1, <2>2
  <1>8. WritesInv(c)'
    BY <1>5 DEF WritesInv
  <1>9. /\ UNCHANGED <<entry, why, srv, cur, child>> /\ faults'["fork"] = faults["fork"]
        /\ "prompt" \in States \ {"ended"}
    BY <1>2 DEF States, serverVars
  <1> QED
    BY <1>1, <1>2, <1>3, <1>4, <1>5, <1>6, <1>7, <1>8, <1>9, GoOnStep

LEMMA TryAgainStep ==
  ASSUME IInv, NEW c \in Clients, Timeout(c), ~GiveUp(c)
  PROVE  IInv'
  <1>1. PICK i : i = Id(c)
    OBVIOUS
  <1>2. /\ pc[c] = "read" /\ i \in Ids /\ conn[i] \in Connection
        /\ conn[i].at # "none" /\ ~conn[i].eof /\ conn[i].writes = attempt[c]
        /\ conn[i].out # "read" /\ attempt[c] \in Nat /\ attempt[c] >= 1
        /\ attempt[c] < MaxAttempts
        /\ attempt' = [attempt EXCEPT ![c] = @ + 1] /\ GoTo(c, "write")
        /\ armed' = [armed EXCEPT ![c] = FALSE]
        /\ UNCHANGED <<entry, why, conn, serverVars, faults>>
    BY <1>1, OwnFacts DEF Timeout, Interrupted, SetAlarm, TryAgain, WritesInv
  <1>3. /\ attempt' \in [Clients -> 0 .. MaxAttempts] /\ attempt'[c] = attempt[c] + 1
        /\ \A d \in Clients : d # c => attempt'[d] = attempt[d]
    BY <1>2, Attempts DEF IInv, TypeOK
  <1>4. /\ armed' \in [Clients -> BOOLEAN] /\ \A d \in Clients : d # c => armed'[d] = armed[d]
        /\ pc'[c] = "write" /\ faults' \in [FaultKinds -> Nat] /\ queue' \in Seq(Ids)
    BY <1>2 DEF IInv, TypeOK, GoTo, serverVars
  <1>5. ClientKeeps(i)
    BY <1>2, ConnFacts DEF ClientKeeps, Fresh
  <1>6. QueueInv'
    BY <1>2, QueueKept DEF serverVars
  <1>7. Id(c)' = i => WritesInv(c)'
    BY <1>2, <1>3, <1>4 DEF WritesInv
  <1>8. conn' \in [Ids -> Connection] /\ \A j \in Ids : conn'[j] = conn[j]
    BY <1>2, ConnType DEF IInv
  <1> QED
    BY <1>1, <1>2, <1>3, <1>4, <1>5, <1>6, <1>7, <1>8, GoOnStep DEF States, serverVars
-----------------------------------------------------------------------------
(* What the steps of the server have in common. *)

ServerKeeps(i) ==
  /\ conn'[i].writes = conn[i].writes /\ conn'[i].eof = conn[i].eof /\ conn'[i].ok = conn[i].ok
  /\ conn'[i].out = conn[i].out \/ (conn[i].out = "none" /\ conn'[i].out = "ready")
  /\ conn[i].at = "none" => conn'[i] = conn[i]
  /\ conn[i].at # "none" => conn'[i].at # "none"

LEMMA ServerKeepsClients ==
  ASSUME IInv, UNCHANGED clientVars, Excused => Excused',
         srv = "ended" => srv' = "ended", \A i \in Ids : ServerKeeps(i)
  PROVE  ClientInv'
  <1> SUFFICES ASSUME NEW c \in Clients
               PROVE  (WritesInv(c) /\ AlarmInv(c) /\ EntryInv(c) /\ OutcomeInv(c))'
    BY DEF ClientInv
  <1>1. UNCHANGED <<pc, entry, attempt, armed, why>>
    BY DEF clientVars
  <1>3. Id(c)' = Id(c)
    BY <1>1 DEF Id
  <1>4. WritesInv(c) /\ AlarmInv(c) /\ EntryInv(c) /\ OutcomeInv(c) /\ entry[c] \in Nat
    BY OwnFacts
  <1>5. entry[c] >= 1 => Id(c) \in Ids /\ ServerKeeps(Id(c))
    BY <1>4, IdFacts DEF IInv
  <1>6. \A i \in Ids : Fresh(i) => Fresh(i)'
    BY DEF Fresh, ServerKeeps
  <1>7. WritesInv(c)'
    BY <1>1, <1>3, <1>4, <1>5, <1>6 DEF WritesInv, EntryInv, ServerKeeps
  <1>8. AlarmInv(c)'
    BY <1>1, <1>4 DEF AlarmInv
  <1>9. EntryInv(c)'
    BY <1>1, <1>4, <1>6, IdsFacts DEF EntryInv
  <1>10. OutcomeInv(c)'
    BY <1>1, <1>3, <1>4, <1>5 DEF OutcomeInv, EntryInv, ServerKeeps
  <1> QED
    BY <1>7, <1>8, <1>9, <1>10

(* The step of a server that changes the connection i, not by making it. *)
LEMMA ServerStepKeepsIInv ==
  ASSUME IInv, NEW i \in Ids, conn[i].at # "none", conn'[i].at # "none",
         UNCHANGED clientVars, Excused => Excused',
         srv = "ended" => srv' = "ended",
         \A j \in Ids : j # i => conn'[j] = conn[j],
         conn'[i].writes = conn[i].writes, conn'[i].eof = conn[i].eof, conn'[i].ok = conn[i].ok,
         conn'[i].out = conn[i].out \/ (conn[i].out = "none" /\ conn'[i].out = "ready"),
         TypeOK', ServerInv', QueueInv',
         \A j \in Ids : j # i => ServedInv(j)',
         (ServedInv(i) /\ ClosedInv(i) /\ RunsInv(i) /\ LeakInv(i))'
  PROVE  IInv'
  <1>1. \A j \in Ids : ServerKeeps(j)
    BY DEF ServerKeeps
  <1>2. ClientInv'
    BY <1>1, ServerKeepsClients
  <1>3. ASSUME NEW j \in Ids, j # i
        PROVE  (ServedInv(j) /\ ClosedInv(j) /\ RunsInv(j) /\ LeakInv(j))'
    BY <1>3 DEF IInv, ConnInv, ClosedInv, RunsInv, LeakInv
  <1> QED
    BY <1>2, <1>3 DEF IInv, ConnInv

LEMMA ServerTypes ==
  ASSUME TypeOK, UNCHANGED clientVars, conn' \in [Ids -> Connection], queue' \in Seq(Ids),
         faults' \in [FaultKinds -> Nat],
         srv' \in {"accept", "read", "wait", "ended"}, child' \in BOOLEAN,
         srv' \in {"read", "wait"} => cur' \in Ids /\ conn'[cur'].at = "served",
         child' => cur' \in Ids /\ srv' \in {"wait", "ended"}
  PROVE  TypeOK'
  BY DEF TypeOK, Connection, clientVars

(* What the server knows of the connection it is at. *)
LEMMA CurFacts ==
  ASSUME IInv, srv \in {"read", "wait"} \/ child
  PROVE  /\ cur \in Ids /\ conn[cur] \in Connection /\ conn[cur].at = "served"
         /\ conn \in [Ids -> Connection] /\ Admits(cur)
         /\ ServedInv(cur) /\ ClosedInv(cur) /\ RunsInv(cur) /\ LeakInv(cur)
         /\ faults \in [FaultKinds -> Nat] /\ queue \in Seq(Ids)
         /\ \A j \in Ids : j # cur => conn[j].at # "served" /\ ServedInv(j)
         /\ srv # "ended" => \A k \in 1 .. Len(queue) : queue[k] \in Ids /\ queue[k] # cur
  <1>1. /\ cur \in Ids /\ conn[cur].at = "served" /\ conn \in [Ids -> Connection]
        /\ faults \in [FaultKinds -> Nat] /\ queue \in Seq(Ids)
    BY ConnType DEF IInv, TypeOK, ServerInv
  <1>2. \A j \in Ids : ServedInv(j) /\ ClosedInv(j) /\ RunsInv(j) /\ LeakInv(j)
    BY DEF IInv, ConnInv
  <1>3. srv # "ended" => \A k \in 1 .. Len(queue) : queue[k] \in Ids /\ queue[k] # cur
    BY <1>1 DEF IInv, QueueInv
  <1> QED
    BY <1>1, <1>2, <1>3 DEF ServedInv

LEMMA AcceptStep ==
  ASSUME IInv, Accept
  PROVE  IInv'
  <1>1. PICK h : h = Head(queue)
    OBVIOUS
  <1>2. /\ srv = "accept" /\ ~child /\ queue \in Seq(Ids) /\ queue # <<>>
        /\ queue' = Tail(queue) /\ UNCHANGED <<clientVars, child, faults>>
        /\ conn \in [Ids -> Connection] /\ faults \in [FaultKinds -> Nat]
    BY ConnType DEF Accept, IInv, TypeOK
  <1>3. /\ Len(queue) \in Nat /\ Len(queue) >= 1 /\ h = queue[1] /\ h \in Ids
        /\ queue' \in Seq(Ids) /\ Len(queue') = Len(queue) - 1
        /\ \A k \in 1 .. Len(queue') : queue'[k] = queue[k + 1] /\ k + 1 \in 1 .. Len(queue)
    BY <1>1, <1>2
  <1>4. /\ conn[h].at = "queued" /\ conn[h] \in Connection
        /\ \A k \in 1 .. Len(queue') : conn[queue'[k]].at = "queued" /\ queue'[k] # h /\ queue'[k] \in Ids
    <2>1. \A k \in 1 .. Len(queue) : conn[queue[k]].at = "queued" /\ queue[k] \in Ids
      BY <1>2 DEF IInv, QueueInv
    <2>2. \A k \in 1 .. Len(queue) : queue[k] = queue[1] => k = 1
      BY <1>2, <1>3 DEF IInv, QueueInv
    <2>3. \A k \in 1 .. Len(queue') : k + 1 # 1
      OBVIOUS
    <2> QED
      BY <1>2, <1>3, <2>1, <2>2, <2>3
  <1>5. PICK a \in {"served", "leaked"} :
          /\ conn' = [conn EXCEPT ![h].at = a]
          /\ a = "served" => Admits(h) /\ cur' = h /\ srv' = "read"
          /\ a = "leaked" => ~Admits(h) /\ UNCHANGED <<cur, srv>>
    BY <1>1 DEF Accept
  <1>6. /\ conn' \in [Ids -> Connection] /\ \A j \in Ids : j # h => conn'[j] = conn[j]
        /\ conn'[h].at = a /\ conn'[h].unread = conn[h].unread
        /\ conn'[h].out = conn[h].out /\ conn'[h].eof = conn[h].eof /\ conn'[h].ok = conn[h].ok
        /\ conn'[h].writes = conn[h].writes /\ conn'[h].runs = conn[h].runs
    BY <1>2, <1>3, <1>5 DEF Connection, Ends
  <1>7. \A j \in Ids : ServedInv(j) /\ ClosedInv(j) /\ RunsInv(j) /\ conn[j].at # "served"
    BY <1>2 DEF IInv, ConnInv, ServedInv
  <1>8. TypeOK'
    <2>1. /\ srv' \in {"accept", "read", "wait", "ended"} /\ child' = FALSE
          /\ srv' \in {"read", "wait"} => cur' \in Ids /\ conn'[cur'].at = "served"
      BY <1>2, <1>3, <1>5, <1>6
    <2> QED
      BY <1>2, <1>3, <1>6, <2>1, ServerTypes DEF IInv
  <1>9. QueueInv'
    <2>1. \A k, l \in 1 .. Len(queue') : queue'[k] = queue'[l] => k = l
      BY <1>2, <1>3 DEF IInv, QueueInv
    <2> QED
      BY <1>4, <1>6, <2>1 DEF QueueInv
  <1>10. ServerInv'
    BY <1>2, <1>5 DEF ServerInv
  <1>11. \A j \in Ids : j # h => ServedInv(j)'
    BY <1>2, <1>5, <1>6, <1>7 DEF ServedInv, Fresh
  <1>12. (ServedInv(h) /\ ClosedInv(h) /\ RunsInv(h) /\ LeakInv(h))'
    BY <1>3, <1>4, <1>5, <1>6, <1>7 DEF ServedInv, ClosedInv, RunsInv, LeakInv, Admits
  <1>13. Excused => Excused'
    BY <1>2 DEF Excused
  <1> QED
    BY <1>2, <1>3, <1>4, <1>5, <1>6, <1>8, <1>9, <1>10, <1>11, <1>12, <1>13, ServerStepKeepsIInv
(* Leaving the connection at hand, open or closed, for accept. *)
LEMMA BackToAccept ==
  ASSUME IInv, NEW i \in Ids, i = cur, srv \in {"read", "wait"}, ~child,
         srv' = "accept", UNCHANGED <<clientVars, queue, child, faults>>,
         conn' \in [Ids -> Connection], \A j \in Ids : j # i => conn'[j] = conn[j],
         conn'[i].at \in {"leaked", "closed", "reset"},
         conn'[i].writes = conn[i].writes, conn'[i].eof = conn[i].eof, conn'[i].ok = conn[i].ok,
         conn'[i].out = conn[i].out, conn'[i].runs = conn[i].runs,
         (ServedInv(i) /\ ClosedInv(i) /\ LeakInv(i))'
  PROVE  IInv'
  <1>1. /\ conn[i].at = "served" /\ faults \in [FaultKinds -> Nat] /\ queue \in Seq(Ids)
        /\ \A j \in Ids : j # i => conn[j].at # "served" /\ ServedInv(j)
        /\ \A k \in 1 .. Len(queue) : queue[k] \in Ids /\ queue[k] # i
    BY CurFacts
  <1>2. TypeOK'
    <2>1. child' \in BOOLEAN /\ ~child'
      BY DEF IInv, TypeOK
    <2> QED
      BY <1>1, <2>1, ServerTypes DEF IInv
  <1>3. ServerInv'
    BY DEF ServerInv
  <1>4. QueueInv'
    BY <1>1 DEF IInv, QueueInv
  <1>5. \A j \in Ids : j # i => ServedInv(j)'
    BY <1>1 DEF ServedInv, Fresh
  <1>6. RunsInv(i)'
    BY DEF IInv, ConnInv, RunsInv
  <1>7. Excused => Excused'
    BY DEF Excused
  <1> QED
    BY <1>1, <1>2, <1>3, <1>4, <1>5, <1>6, <1>7, ServerStepKeepsIInv

LEMMA ReadStep ==
  ASSUME IInv, ReadCommand
  PROVE  IInv'
  <1>1. PICK i : i = cur
    OBVIOUS
  <1>2. /\ srv = "read" /\ ~child /\ conn[i].unread > 0 /\ UNCHANGED <<clientVars, queue>>
    BY <1>1 DEF ReadCommand, IInv, TypeOK
  <1>3. /\ i \in Ids /\ conn[i] \in Connection /\ conn[i].at = "served"
        /\ conn \in [Ids -> Connection] /\ Admits(i)
        /\ ServedInv(i) /\ ClosedInv(i) /\ RunsInv(i) /\ LeakInv(i)
        /\ faults \in [FaultKinds -> Nat] /\ queue \in Seq(Ids)
        /\ \A j \in Ids : j # i => conn[j].at # "served" /\ ServedInv(j)
        /\ \A k \in 1 .. Len(queue) : queue[k] \in Ids /\ queue[k] # i
    BY <1>1, <1>2, CurFacts
  <1>4. conn[i].unread \in Nat /\ conn[i].writes \in Nat /\ conn[i].writes > 0
        /\ conn[i].runs = 0 /\ conn[i].out = "none"
    BY <1>2, <1>3, ConnFacts DEF ServedInv, ClosedInv
  <1> DEFINE read == [conn EXCEPT ![i].unread = 0]
  <1>5. /\ read \in [Ids -> Connection] /\ \A j \in Ids : j # i => read[j] = conn[j]
        /\ read[i].at = "served" /\ read[i].unread = 0
        /\ read[i].out = "none" /\ read[i].eof = conn[i].eof /\ read[i].ok = conn[i].ok
        /\ read[i].writes = conn[i].writes /\ read[i].runs = 0
    BY <1>3, <1>4 DEF Connection
  <1>6. /\ srv' = "read" /\ child' = FALSE /\ UNCHANGED <<cur, faults>> /\ conn' = read
        \/ /\ ~Allows(i) /\ Leak /\ UNCHANGED faults
           /\ conn' = [read EXCEPT ![i].at = "leaked"]
        \/ /\ Allows(i) /\ conn' = [read EXCEPT ![i].runs = @ + 1]
           /\ child' = TRUE /\ srv' = "wait" /\ UNCHANGED <<cur, faults>>
        \/ /\ Fault("fork") /\ conn' = read
           /\ srv' = "wait" /\ child' = FALSE /\ UNCHANGED cur
    BY <1>1, <1>2 DEF ReadCommand, IInv, TypeOK
  <1> HIDE DEF read
  <1>7. ASSUME ~Allows(i), conn' = [read EXCEPT ![i].at = "leaked"], Leak, UNCHANGED faults
        PROVE  IInv'
    <2>1. /\ conn' \in [Ids -> Connection] /\ \A j \in Ids : j # i => conn'[j] = conn[j]
          /\ conn'[i].at = "leaked" /\ conn'[i].unread = 0
          /\ conn'[i].out = conn[i].out /\ conn'[i].eof = conn[i].eof /\ conn'[i].ok = conn[i].ok
          /\ conn'[i].writes = conn[i].writes /\ conn'[i].runs = conn[i].runs
      BY <1>3, <1>4, <1>5, <1>7 DEF Connection, Ends
    <2>2. (ServedInv(i) /\ ClosedInv(i) /\ LeakInv(i))'
      BY <1>4, <1>7, <2>1 DEF ServedInv, ClosedInv, LeakInv, Allows
    <2> QED
      BY <1>1, <1>2, <1>3, <1>7, <2>1, <2>2, BackToAccept DEF Leak
  <1>8. ASSUME NEW n \in {0, 1},
               conn' \in [Ids -> Connection], \A j \in Ids : j # i => conn'[j] = conn[j],
               conn'[i].at = "served", conn'[i].unread = 0, conn'[i].out = "none",
               conn'[i].eof = conn[i].eof, conn'[i].ok = conn[i].ok,
               conn'[i].writes = conn[i].writes, conn'[i].runs = n,
               UNCHANGED cur, faults' \in [FaultKinds -> Nat], Excused => Excused',
               \/ srv' = "read" /\ child' = FALSE /\ n = 0
               \/ srv' = "wait" /\ child' = TRUE /\ n = 1 /\ Allows(i)
               \/ srv' = "wait" /\ child' = FALSE /\ n = 0 /\ faults'["fork"] > 0
        PROVE  IInv'
    <2>1. TypeOK'
      BY <1>1, <1>2, <1>3, <1>8, ServerTypes DEF IInv
    <2>2. ServerInv'
      BY <1>1, <1>4, <1>8 DEF ServerInv, Excused
    <2>3. QueueInv'
      BY <1>2, <1>3, <1>8 DEF IInv, QueueInv
    <2>4. \A j \in Ids : j # i => ServedInv(j)'
      BY <1>3, <1>8 DEF ServedInv, Fresh
    <2>5. (ServedInv(i) /\ ClosedInv(i) /\ RunsInv(i) /\ LeakInv(i))'
      BY <1>1, <1>3, <1>4, <1>8 DEF ServedInv, ClosedInv, RunsInv, LeakInv, Admits, Allows
    <2>6. srv # "ended" /\ conn[i].at # "none" /\ conn'[i].at # "none"
      BY <1>2, <1>3, <1>8
    <2> QED
      BY <1>2, <1>3, <1>4, <1>8, <2>1, <2>2, <2>3, <2>4, <2>5, <2>6, ServerStepKeepsIInv
  <1>9. CASE srv' = "read" /\ child' = FALSE /\ UNCHANGED <<cur, faults>> /\ conn' = read
    BY <1>3, <1>5, <1>8, <1>9, <1>2 DEF Excused
  <1>10. CASE /\ Allows(i) /\ conn' = [read EXCEPT ![i].runs = @ + 1]
              /\ child' = TRUE /\ srv' = "wait" /\ UNCHANGED <<cur, faults>>
    <2>1. /\ conn' \in [Ids -> Connection] /\ \A j \in Ids : j # i => conn'[j] = conn[j]
          /\ conn'[i].at = "served" /\ conn'[i].unread = 0
          /\ conn'[i].out = "none" /\ conn'[i].eof = conn[i].eof /\ conn'[i].ok = conn[i].ok
          /\ conn'[i].writes = conn[i].writes /\ conn'[i].runs = 1
      <3>1. PICK x : x = [read[i] EXCEPT !.runs = read[i].runs + 1]
        OBVIOUS
      <3>2. read[i] \in Connection /\ read[i].runs + 1 = 1
        BY <1>3, <1>5
      <3>3. /\ x \in Connection /\ x.at = read[i].at /\ x.unread = read[i].unread
            /\ x.out = read[i].out /\ x.eof = read[i].eof /\ x.ok = read[i].ok
            /\ x.writes = read[i].writes /\ x.runs = 1
        BY <3>1, <3>2 DEF Connection
      <3>4. conn' = [read EXCEPT ![i] = x]
        BY <1>10, <3>1
      <3> QED
        BY <1>3, <1>5, <3>3, <3>4
    <2>2. Excused => Excused'
      BY <1>2, <1>10 DEF Excused
    <2> QED
      BY <1>3, <1>8, <1>10, <2>1, <2>2
  <1>11. CASE /\ Fault("fork") /\ conn' = read
              /\ srv' = "wait" /\ child' = FALSE /\ UNCHANGED cur
    <2>1. faults' \in [FaultKinds -> Nat] /\ faults'["fork"] > 0
      BY <1>11, FaultFacts DEF FaultKinds, IInv
    <2>2. Excused'
      BY <2>1 DEF Excused
    <2> QED
      BY <1>5, <1>8, <1>11, <2>1, <2>2
  <1> QED
    BY <1>6, <1>7, <1>9, <1>10, <1>11

LEMMA ReadNothingStep ==
  ASSUME IInv, ReadNothing
  PROVE  IInv'
  <1>1. PICK i : i = cur
    OBVIOUS
  <1>2. /\ srv = "read" /\ ~child /\ conn[i].eof
        /\ conn' = [conn EXCEPT ![i].at = "leaked"] /\ Leak /\ UNCHANGED <<clientVars, queue, faults>>
    BY <1>1 DEF ReadNothing, IInv, TypeOK
  <1>3. /\ i \in Ids /\ conn[i] \in Connection /\ conn[i].at = "served"
        /\ conn \in [Ids -> Connection] /\ ServedInv(i) /\ ClosedInv(i)
    BY <1>1, <1>2, CurFacts
  <1>4. /\ conn' \in [Ids -> Connection] /\ \A j \in Ids : j # i => conn'[j] = conn[j]
        /\ conn'[i].at = "leaked" /\ conn'[i].unread = conn[i].unread
        /\ conn'[i].out = conn[i].out /\ conn'[i].eof = conn[i].eof /\ conn'[i].ok = conn[i].ok
        /\ conn'[i].writes = conn[i].writes /\ conn'[i].runs = conn[i].runs
    BY <1>2, <1>3 DEF Connection, Ends
  <1>5. (ServedInv(i) /\ ClosedInv(i) /\ LeakInv(i))'
    BY <1>2, <1>3, <1>4 DEF ServedInv, ClosedInv, LeakInv
  <1> QED
    BY <1>1, <1>2, <1>3, <1>4, <1>5, BackToAccept DEF Leak

LEMMA ReapStep ==
  ASSUME IInv, Reap
  PROVE  IInv'
  <1>1. PICK i : i = cur
    OBVIOUS
  <1>2. /\ srv = "wait" /\ ~child /\ conn' = [conn EXCEPT ![i].at = Closed(i)]
        /\ srv' = "accept" /\ UNCHANGED <<clientVars, queue, child, faults>>
    BY <1>1 DEF Reap
  <1>3. /\ i \in Ids /\ conn[i] \in Connection /\ conn[i].at = "served"
        /\ conn \in [Ids -> Connection] /\ ServedInv(i) /\ ClosedInv(i)
    BY <1>1, <1>2, CurFacts
  <1>4. PICK a : /\ a = Closed(i) /\ a \in {"closed", "reset"}
                 /\ a = "reset" => conn[i].unread > 0
    BY DEF Closed
  <1>5. /\ conn' \in [Ids -> Connection] /\ \A j \in Ids : j # i => conn'[j] = conn[j]
        /\ conn'[i].at = a /\ conn'[i].unread = conn[i].unread
        /\ conn'[i].out = conn[i].out /\ conn'[i].eof = conn[i].eof /\ conn'[i].ok = conn[i].ok
        /\ conn'[i].writes = conn[i].writes /\ conn'[i].runs = conn[i].runs
    BY <1>2, <1>3, <1>4 DEF Connection, Ends
  <1>6. /\ conn[i].unread < conn[i].writes /\ conn[i].unread \in Nat /\ conn[i].writes \in Nat
        /\ conn[i].out # "none" \/ conn[i].eof \/ Excused
    BY <1>1, <1>2, <1>3, ConnFacts DEF IInv, ServerInv
  <1>7. Excused => Excused'
    BY <1>2 DEF Excused
  <1>8. (ServedInv(i) /\ ClosedInv(i) /\ LeakInv(i))'
    BY <1>3, <1>4, <1>5, <1>6, <1>7 DEF ServedInv, ClosedInv, LeakInv
  <1> QED
    BY <1>1, <1>2, <1>3, <1>4, <1>5, <1>8, BackToAccept
LEMMA AllClosedFacts ==
  ASSUME TypeOK
  PROVE  /\ AllClosed \in [Ids -> Connection]
         /\ \A i \in Ids :
              /\ AllClosed[i].at \in {"none", "closed", "reset"}
              /\ conn[i].at = "none" <=> AllClosed[i].at = "none"
              /\ conn[i].at = "none" => AllClosed[i] = conn[i]
              /\ AllClosed[i].unread = conn[i].unread /\ AllClosed[i].out = conn[i].out
              /\ AllClosed[i].eof = conn[i].eof /\ AllClosed[i].ok = conn[i].ok
              /\ AllClosed[i].writes = conn[i].writes /\ AllClosed[i].runs = conn[i].runs
  <1>1. ASSUME NEW i \in Ids
        PROVE  /\ AllClosed[i] \in Connection
               /\ AllClosed[i].at \in {"none", "closed", "reset"}
               /\ conn[i].at = "none" <=> AllClosed[i].at = "none"
               /\ conn[i].at = "none" => AllClosed[i] = conn[i]
               /\ AllClosed[i].unread = conn[i].unread /\ AllClosed[i].out = conn[i].out
               /\ AllClosed[i].eof = conn[i].eof /\ AllClosed[i].ok = conn[i].ok
               /\ AllClosed[i].writes = conn[i].writes /\ AllClosed[i].runs = conn[i].runs
    <2>1. conn[i] \in Connection /\ conn[i].at \in Ends
      BY ConnType, ConnFacts
    <2>2. CASE conn[i].at \in {"none", "closed", "reset"}
      <3>1. AllClosed[i] = conn[i]
        BY <2>2 DEF AllClosed
      <3> QED
        BY <2>1, <2>2, <3>1
    <2>3. CASE conn[i].at \in {"queued", "served", "leaked"}
      <3>1. PICK a \in {"closed", "reset"} : AllClosed[i] = [conn[i] EXCEPT !.at = a]
        BY <2>3 DEF AllClosed, Closed
      <3> QED
        BY <2>1, <2>3, <3>1 DEF Connection, Ends
    <2> QED
      BY <2>1, <2>2, <2>3 DEF Ends
  <1>2. AllClosed \in [Ids -> Connection]
    BY <1>1 DEF AllClosed
  <1> QED
    BY <1>1, <1>2

(* The end of the last process that holds the connections. *)
LEMMA EndedStep ==
  ASSUME IInv, UNCHANGED <<clientVars, queue>>, srv' = "ended", child' = FALSE,
         faults' \in [FaultKinds -> Nat], conn' \in [Ids -> Connection],
         \A j \in Ids :
           /\ conn'[j].at \in {"none", "closed", "reset"} /\ conn'[j].unread = conn[j].unread
           /\ conn[j].at = "none" <=> conn'[j].at = "none"
           /\ conn'[j].out = conn[j].out \/ (conn[j].out = "none" /\ conn'[j].out = "ready")
           /\ conn[j].at = "none" => conn'[j] = conn[j]
           /\ conn'[j].eof = conn[j].eof /\ conn'[j].ok = conn[j].ok
           /\ conn'[j].writes = conn[j].writes /\ conn'[j].runs = conn[j].runs
  PROVE  IInv'
  <1>1. TypeOK'
    <2>1. queue \in Seq(Ids)
      BY DEF IInv, TypeOK
    <2> QED
      BY <2>1, ServerTypes DEF IInv
  <1>2. ServerInv' /\ QueueInv' /\ Excused'
    BY DEF ServerInv, QueueInv, Excused
  <1>3. ClientInv'
    <2>1. \A j \in Ids : ServerKeeps(j)
      BY DEF ServerKeeps
    <2> QED
      BY <1>2, <2>1, ServerKeepsClients
  <1>4. ASSUME NEW j \in Ids
        PROVE  (ServedInv(j) /\ ClosedInv(j) /\ RunsInv(j) /\ LeakInv(j))'
    <2>1. ServedInv(j) /\ ClosedInv(j) /\ RunsInv(j)
      BY DEF IInv, ConnInv
    <2> QED
      BY <1>2, <2>1 DEF ServedInv, Fresh, ClosedInv, RunsInv, LeakInv
  <1> QED
    BY <1>1, <1>2, <1>3, <1>4 DEF IInv, ConnInv

LEMMA ChildExitStep ==
  ASSUME IInv, ChildExit
  PROVE  IInv'
  <1>1. PICK i : i = cur
    OBVIOUS
  <1>2. child /\ child' = FALSE /\ UNCHANGED <<clientVars, queue, srv, cur, faults>>
    BY DEF ChildExit
  <1>3. /\ i \in Ids /\ conn[i] \in Connection /\ conn[i].at = "served"
        /\ conn \in [Ids -> Connection] /\ Admits(i)
        /\ ServedInv(i) /\ ClosedInv(i) /\ RunsInv(i) /\ LeakInv(i)
        /\ faults \in [FaultKinds -> Nat] /\ queue \in Seq(Ids)
        /\ \A j \in Ids : j # i => conn[j].at # "served" /\ ServedInv(j)
        /\ srv # "ended" => \A k \in 1 .. Len(queue) : queue[k] \in Ids /\ queue[k] # i
        /\ conn[i].runs = 1 /\ conn[i].out = "none" /\ srv \in {"wait", "ended"}
    BY <1>1, <1>2, CurFacts DEF IInv, ServerInv, TypeOK
  <1>4. PICK o \in {"none", "ready"} :
          /\ o = IF conn[i].eof THEN "none" ELSE "ready"
          /\ IF srv = "ended"
             THEN conn' = [AllClosed EXCEPT ![i].out = [conn[i] EXCEPT !.out = o].out]
             ELSE conn' = [conn EXCEPT ![i] = [conn[i] EXCEPT !.out = o]]
    BY <1>1 DEF ChildExit
  <1>5. [conn[i] EXCEPT !.out = o].out = o
    BY <1>3 DEF Connection
  <1>6. CASE srv = "ended"
    <2>1. conn' = [AllClosed EXCEPT ![i].out = o]
      BY <1>4, <1>5, <1>6
    <2> DEFINE closed == AllClosed
    <2>2. closed \in [Ids -> Connection] /\ closed[i] \in Connection
      BY <1>3, AllClosedFacts DEF IInv
    <2>3. \A j \in Ids :
            /\ closed[j].at \in {"none", "closed", "reset"}
            /\ conn[j].at = "none" <=> closed[j].at = "none"
            /\ conn[j].at = "none" => closed[j] = conn[j]
            /\ closed[j].unread = conn[j].unread /\ closed[j].out = conn[j].out
            /\ closed[j].eof = conn[j].eof /\ closed[j].ok = conn[j].ok
            /\ closed[j].writes = conn[j].writes /\ closed[j].runs = conn[j].runs
      BY AllClosedFacts DEF IInv
    <2>4. conn' = [closed EXCEPT ![i].out = o]
      BY <2>1
    <2> HIDE DEF closed
    <2>5. /\ conn' \in [Ids -> Connection] /\ \A j \in Ids : j # i => conn'[j] = closed[j]
          /\ conn'[i].at = closed[i].at /\ conn'[i].unread = closed[i].unread
          /\ conn'[i].out = o /\ conn'[i].eof = closed[i].eof /\ conn'[i].ok = closed[i].ok
          /\ conn'[i].writes = closed[i].writes /\ conn'[i].runs = closed[i].runs
      BY <1>3, <2>2, <2>4 DEF Connection
    <2>6. \A j \in Ids :
           /\ conn'[j].at \in {"none", "closed", "reset"} /\ conn'[j].unread = conn[j].unread
           /\ conn[j].at = "none" <=> conn'[j].at = "none"
           /\ conn'[j].out = conn[j].out \/ (conn[j].out = "none" /\ conn'[j].out = "ready")
           /\ conn[j].at = "none" => conn'[j] = conn[j]
           /\ conn'[j].eof = conn[j].eof /\ conn'[j].ok = conn[j].ok
           /\ conn'[j].writes = conn[j].writes /\ conn'[j].runs = conn[j].runs
      BY <1>3, <2>3, <2>5
    <2> QED
      BY <1>2, <1>3, <1>6, <2>5, <2>6, EndedStep
  <1>7. CASE srv = "wait"
    <2>1. conn' = [conn EXCEPT ![i] = [conn[i] EXCEPT !.out = o]]
      BY <1>4, <1>7
    <2>2. /\ conn' \in [Ids -> Connection] /\ \A j \in Ids : j # i => conn'[j] = conn[j]
          /\ conn'[i].at = "served" /\ conn'[i].unread = conn[i].unread
          /\ conn'[i].out = o /\ conn'[i].eof = conn[i].eof /\ conn'[i].ok = conn[i].ok
          /\ conn'[i].writes = conn[i].writes /\ conn'[i].runs = conn[i].runs
      BY <1>3, <2>1 DEF Connection
    <2>3. TypeOK'
      BY <1>1, <1>2, <1>3, <1>7, <2>2, ServerTypes DEF IInv
    <2>4. ServerInv'
      BY <1>1, <1>2, <1>4, <1>7, <2>2 DEF IInv, ServerInv
    <2>5. QueueInv'
      BY <1>2, <1>3, <1>7, <2>2 DEF IInv, QueueInv
    <2>6. \A j \in Ids : j # i => ServedInv(j)'
      BY <1>2, <1>3, <2>2 DEF ServedInv, Fresh
    <2>7. (ServedInv(i) /\ ClosedInv(i) /\ RunsInv(i) /\ LeakInv(i))'
      BY <1>1, <1>2, <1>3, <1>7, <2>2 DEF ServedInv, ClosedInv, RunsInv, LeakInv, Admits
    <2>8. Excused => Excused'
      BY <1>2 DEF Excused
    <2> QED
      BY <1>2, <1>3, <1>4, <1>7, <2>2, <2>3, <2>4, <2>5, <2>6, <2>7, <2>8, ServerStepKeepsIInv
  <1> QED
    BY <1>3, <1>6, <1>7

LEMMA InterruptServerStep ==
  ASSUME IInv, InterruptServer
  PROVE  IInv'
  <1>1. /\ Fault("interrupt") /\ srv # "ended" /\ srv' = "ended"
        /\ child' \in {child, FALSE} /\ UNCHANGED <<clientVars, queue, cur>>
        /\ conn' = IF child' THEN conn ELSE AllClosed
    BY DEF InterruptServer
  <1>2. /\ faults' \in [FaultKinds -> Nat] /\ child \in BOOLEAN /\ queue \in Seq(Ids)
        /\ conn \in [Ids -> Connection]
    BY <1>1, FaultFacts, ConnType DEF FaultKinds, IInv, TypeOK
  <1>3. CASE child' = FALSE
    <2>1. conn' = AllClosed
      BY <1>1, <1>3
    <2> QED
      BY <1>1, <1>2, <1>3, <2>1, AllClosedFacts, EndedStep DEF IInv
  <1>4. CASE child' = TRUE
    <2>1. child = TRUE /\ UNCHANGED conn
      BY <1>1, <1>2, <1>4
    <2>2. TypeOK'
      BY <1>1, <1>2, <1>4, <2>1, CurFacts, ServerTypes DEF IInv
    <2>3. ServerInv' /\ QueueInv' /\ Excused'
      BY <1>1, <1>4, <2>1 DEF IInv, ServerInv, QueueInv, Excused
    <2>4. ClientInv'
      <3>1. \A j \in Ids : ServerKeeps(j)
        BY <2>1 DEF ServerKeeps
      <3> QED
        BY <1>1, <2>3, <3>1, ServerKeepsClients
    <2>5. ASSUME NEW j \in Ids
          PROVE  (ServedInv(j) /\ ClosedInv(j) /\ RunsInv(j) /\ LeakInv(j))'
      <3>1. ServedInv(j) /\ ClosedInv(j) /\ RunsInv(j) /\ LeakInv(j)
        BY DEF IInv, ConnInv
      <3> QED
        BY <1>1, <1>4, <2>1, <2>3, <3>1 DEF ServedInv, Fresh, ClosedInv, RunsInv, LeakInv
    <2> QED
      BY <2>2, <2>3, <2>4, <2>5 DEF IInv, ConnInv
  <1> QED
    BY <1>1, <1>2, <1>3, <1>4

-----------------------------------------------------------------------------
LEMMA NextIInv == IInv /\ [Next]_vars => IInv'
  <1> SUFFICES ASSUME IInv, [Next]_vars PROVE IInv'
    OBVIOUS
  <1>1. ASSUME NEW c \in Clients,
               \/ ClientStep(c) \/ Enter(c) \/ Leave(c)
               \/ ConnectTimesOut(c) \/ StrayAlarm(c) \/ Interrupt(c)
        PROVE  IInv'
    <2>1. CASE Enter(c)
      BY <2>1, EnterStep
    <2>2. CASE Leave(c) \/ ConnectTimesOut(c) \/ StrayAlarm(c) \/ Interrupt(c)
      BY <2>2, EndSteps
    <2>3. CASE Connect(c)
      BY <2>3, EndSteps, ConnectStep
    <2>4. CASE Write(c)
      BY <2>4, EndSteps, WriteStep
    <2>5. CASE ReadOutput(c)
      BY <2>5, ReadOutputStep
    <2>6. CASE ReadEof(c) \/ ReadReset(c)
      BY <2>6, BackStep, EndSteps
    <2>7. CASE Timeout(c)
      BY <2>7, BackStep, TryAgainStep
    <2> QED
      BY <1>1, <2>1, <2>2, <2>3, <2>4, <2>5, <2>6, <2>7 DEF ClientStep
  <1>2. CASE ServerStep
    BY <1>2, AcceptStep, ReadStep, ReadNothingStep, ReapStep, ChildExitStep DEF ServerStep
  <1>3. CASE InterruptServer
    BY <1>3, InterruptServerStep
  <1>4. CASE UNCHANGED vars
    BY <1>4 DEF vars, clientVars, serverVars, IInv, TypeOK, ConnInv, ServedInv, ClosedInv, RunsInv,
       LeakInv, ServerInv, QueueInv, ClientInv, WritesInv, AlarmInv, EntryInv, OutcomeInv, Fresh,
       Excused, Id, Admits
  <1> QED
    BY <1>1, <1>2, <1>3, <1>4 DEF Next

LEMMA Invariance == Spec => []IInv
  BY InitIInv, NextIInv, PTL DEF Spec

(***************************************************************************)
(* Type correctness, and that the server is always at a connection that is *)
(* open when it reads, waits or has a child.                               *)
(***************************************************************************)
THEOREM RemoteTypeCorrect == Spec => []TypeOK
  <1>1. IInv => TypeOK
    BY DEF IInv
  <1> QED
    BY <1>1, Invariance, PTL

(***************************************************************************)
(* However often a command is written before and after the server reads    *)
(* it, a connection executes it at most once, and only for a client and a  *)
(* command that are allowed.                                               *)
(***************************************************************************)
THEOREM AtMostOnce == Spec => []ExecutedOnce
  BY IInvImplies, Invariance, PTL

(***************************************************************************)
(* A client only ends on its own because of an unread copy of its command, *)
(* of an alarm an unanswered connection left behind, or of the server's    *)
(* end; and one back at its prompt has its output or has tried often       *)
(* enough, unless there was no child.                                      *)
(***************************************************************************)
THEOREM OutcomesExplained == Spec => []OutcomeExplained
  BY IInvImplies, Invariance, PTL

(***************************************************************************)
(* A descriptor the server has left open is of a client or a command it    *)
(* refused, or of a client that closed first.                              *)
(***************************************************************************)
THEOREM LeaksExplained == Spec => []LeakExplained
  BY IInvImplies, Invariance, PTL
=============================================================================
