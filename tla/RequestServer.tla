---------------------------- MODULE RequestServer ----------------------------
(***************************************************************************)
(* What versions 2 and 3 of lab4's file transfer add to the transfer        *)
(* itself, which is RoadRunner: requests that carry a certificate, the list *)
(* of keys the server checks it against, and in version 3 the coding of the *)
(* file's bytes (lab4/v2 and lab4/v3: rrunners.c, rrunnerc.c; lab4/lib:     *)
(* access_control.c, bbcodec.c, request_codec.c).                           *)
(*                                                                         *)
(* A word of 32 bits is the set of its bits that are 1, so that exclusive   *)
(* or is the symmetric difference; a byte is a set of low bits.  A file is  *)
(* one window of one block.                                                *)
(***************************************************************************)
EXTENDS Naturals, FiniteSets, Sequences

CONSTANTS
  Clients,
  Bits,       \* of a word
  LowBits,    \* those of a byte
  Address,    \* [Clients -> Words], the address of each client's host
  Key,        \* [Clients -> Words], its private key
  Lists,      \* what acl.dat may hold: addresses and public keys in turn
  Content,    \* the file's data, a sequence of bytes
  Coding,     \* TRUE for version 3
  MaxFaults   \* bound: failures of fork and of the lookup of the own address

Words == SUBSET Bits

ASSUME BitsAssumption == LowBits \subseteq Bits
ASSUME HostsAssumption   ==
  Address \in [Clients -> Words] /\ Key \in [Clients -> Words]
ASSUME ListsAssumption   == Lists \subseteq Seq(Words)
ASSUME ContentAssumption == Content \in Seq(SUBSET LowBits)
ASSUME SwitchAssumption  == Coding \in BOOLEAN /\ MaxFaults \in Nat

Absent == <<"absent">>

VARIABLES
  acl,       \* acl.dat
  present,   \* whether the server has the file
  server,    \* "starting", "serving", "ended"
  keys,      \* public_keys, as far as num_public_keys
  pc,        \* of each client: "idle", "request", "wait", "done", "ended"
  file,      \* what each has stored, or Absent
  requests,  \* requests under way: [from, certificate]
  children,  \* children sending: [to, key, data]
  packets,   \* packets under way: [to, data]
  stray,     \* clients that made a certificate from an address not theirs
  faults

vars == <<acl, present, server, keys, pc, file, requests, children, packets, stray, faults>>

Bytes == Seq(SUBSET LowBits)

TypeOK ==
  /\ acl \in Lists /\ present \in BOOLEAN
  /\ server \in {"starting", "serving", "ended"}
  /\ keys \in Seq(Words)
  /\ pc \in [Clients -> {"idle", "request", "wait", "done", "ended"}]
  /\ file \in [Clients -> Bytes \cup {Absent}]
  /\ requests \subseteq [from : Clients, certificate : Words]
  /\ \A k \in children : k.to \in Clients /\ k.key \in Words /\ k.data \in Bytes
  /\ \A p \in packets : p.to \in Clients /\ p.data \in Bytes
  /\ stray \subseteq Clients
  /\ faults \in 0..MaxFaults

Init ==
  /\ acl \in Lists /\ present \in BOOLEAN
  /\ server = "starting" /\ keys = <<>>
  /\ pc = [c \in Clients |-> "idle"] /\ file = [c \in Clients |-> Absent]
  /\ requests = {} /\ children = {} /\ packets = {}
  /\ stray = {} /\ faults = 0

CanFault == faults < MaxFaults
Fault    == faults' = faults + 1

-----------------------------------------------------------------------------
(* lab4/lib/bbcodec.c *)

Xor(x, y) == (x \ y) \cup (y \ x)

bbdecode(x, prikey) == Xor(x, prikey)
bbencode(y, pubkey) == Xor(y, pubkey)

(* Variant for mutation: the result is not cut to a byte. *)
bbencode_dataWide(data, pubkey) == [i \in 1..Len(data) |-> bbencode(data[i], pubkey)]

(* Each byte is widened to a word and the result cut to a byte. *)
bbdecode_data(data, prikey) == [i \in 1..Len(data) |-> bbdecode(data[i], prikey) \cap LowBits]
bbencode_data(data, pubkey) == [i \in 1..Len(data) |-> bbencode(data[i], pubkey) \cap LowBits]

-----------------------------------------------------------------------------
(* lab4/lib/access_control.c *)

load_public_keys(tokens) == [i \in 1..Len(tokens) \div 2 |-> tokens[2 * i]]

Unbalanced(tokens) == Len(tokens) % 2 = 1

(* The entries that make the sender's address of its certificate. *)
Entries(addr, certificate) == {i \in 1..Len(keys) : bbencode(certificate, keys[i]) = addr}

(* Variant for mutation: the first entry, whatever the certificate. *)
FirstEntryAny(addr, certificate) == keys[1]

(* The key of the first of them; the address listed with it is not read. *)
FirstEntry(addr, certificate) ==
  LET match == Entries(addr, certificate)
  IN  keys[CHOOSE i \in match : \A j \in match : i <= j]

-----------------------------------------------------------------------------
(* Clients. *)

(* A file of that name must not exist yet. *)
StartClient(c) ==
  /\ pc[c] = "idle" /\ file[c] = Absent
  /\ pc' = [pc EXCEPT ![c] = "request"]
  /\ UNCHANGED <<acl, present, server, keys, file, requests, children, packets, stray, faults>>

Request(c, addr) == [from |-> c, certificate |-> bbdecode(addr, Key[c])]

RequestFile(c) ==
  /\ pc[c] = "request"
  /\ pc' = [pc EXCEPT ![c] = "wait"]
  /\ requests' = requests \cup {Request(c, Address[c])}
  /\ UNCHANGED <<acl, present, server, keys, file, children, packets, stray, faults>>

(* get_udp_host_ip fails, or finds another address of the host: its result *)
(* is not looked at, and any word may stand in the certificate.             *)
RequestFileAstray(c) ==
  /\ CanFault /\ Fault
  /\ pc[c] = "request"
  /\ pc' = [pc EXCEPT ![c] = "wait"]
  /\ \E addr \in Words : requests' = requests \cup {Request(c, addr)}
  /\ stray' = stray \cup {c}
  /\ UNCHANGED <<acl, present, server, keys, file, children, packets>>

(* Variant for mutation: the client waits on without a new request. *)
RequestTimeoutIgnored(c) == pc[c] = "wait" /\ UNCHANGED vars

(* The request timer, which the first packet stops. *)
RequestTimeout(c) ==
  /\ pc[c] = "wait"
  /\ pc' = [pc EXCEPT ![c] = "request"]
  /\ UNCHANGED <<acl, present, server, keys, file, requests, children, packets, stray, faults>>

Decoded(data, c) == IF Coding THEN bbdecode_data(data, Key[c]) ELSE data

(* The packet ends the transfer: the file is written and acknowledged. *)
ReceivePacket(c) ==
  /\ pc[c] = "wait"
  /\ \E p \in packets :
       /\ p.to = c
       /\ file' = [file EXCEPT ![c] = Decoded(p.data, c)]
  /\ pc' = [pc EXCEPT ![c] = "done"]
  /\ UNCHANGED <<acl, present, server, keys, requests, children, packets, stray, faults>>

(* SIGINT. *)
InterruptClient(c) ==
  /\ pc[c] \in {"request", "wait"}
  /\ pc' = [pc EXCEPT ![c] = "ended"]
  /\ UNCHANGED <<acl, present, server, keys, file, requests, children, packets, stray, faults>>

-----------------------------------------------------------------------------
(* The server.  Its socket is bound before acl.dat is read, so requests may  *)
(* wait for it; before that they are lost.                                  *)

StartServer ==
  /\ server = "starting"
  /\ IF Unbalanced(acl)
     THEN server' = "ended" /\ UNCHANGED keys
     ELSE server' = "serving" /\ keys' = load_public_keys(acl)
  /\ UNCHANGED <<acl, present, pc, file, requests, children, packets, stray, faults>>

Lose ==
  /\ \/ \E r \in requests : requests' = requests \ {r} /\ UNCHANGED packets
     \/ \E p \in packets : packets' = packets \ {p} /\ UNCHANGED requests
  /\ UNCHANGED <<acl, present, server, keys, pc, file, children, stray, faults>>

(* The server reads a request, of which a copy may stay under way. *)
Read(r) == server = "serving" /\ r \in requests /\ requests' \in {requests, requests \ {r}}

check_access(r) == Entries(Address[r.from], r.certificate) # {}

(* run: no access, or no such file.  Names that check_filename refuses a     *)
(* client refuses itself.                                                   *)
RejectRequest ==
  /\ \E r \in requests : Read(r) /\ ~(check_access(r) /\ present)
  /\ UNCHANGED <<acl, present, server, keys, pc, file, children, packets, stray, faults>>

(* The window as send_window leaves it: coded once, before the loop that    *)
(* sends it until it is acknowledged.                                       *)
Window(key) == IF Coding THEN bbencode_data(Content, key) ELSE Content

ServeRequest(c) ==
  /\ \E r \in requests :
       /\ Read(r) /\ r.from = c
       /\ check_access(r) /\ present
       /\ LET key == FirstEntry(Address[c], r.certificate)
          IN  children' = children \cup {[to |-> c, key |-> key, data |-> Window(key)]}
  /\ UNCHANGED <<acl, present, server, keys, pc, file, packets, stray, faults>>

(* The parent does not look at the result of fork. *)
ForkFails ==
  /\ CanFault /\ Fault
  /\ \E r \in requests : Read(r) /\ check_access(r) /\ present
  /\ UNCHANGED <<acl, present, server, keys, pc, file, children, packets, stray>>

(* SIGINT, which from the terminal ends the children too. *)
InterruptServer ==
  /\ server = "serving"
  /\ server' = "ended"
  /\ children' \in {children, {}}
  /\ UNCHANGED <<acl, present, keys, pc, file, requests, packets, stray, faults>>

-----------------------------------------------------------------------------
(* Children.  One record stands for all children with the same window.      *)

Packet(k) == [to |-> k.to, data |-> k.data]

(* Variant for mutation: the window is coded each time it is sent. *)
SendWindowRecoding(k) ==
  /\ packets' = packets \cup {Packet(k)}
  /\ children' = (children \ {k}) \cup
       {[k EXCEPT !.data = IF Coding THEN bbencode_data(k.data, k.key) ELSE k.data]}
  /\ UNCHANGED <<acl, present, server, keys, pc, file, requests, stray, faults>>

(* At first, and at each timeout of the acknowledgement. *)
SendWindow(k) ==
  /\ packets' = packets \cup {Packet(k)}
  /\ UNCHANGED <<acl, present, server, keys, pc, file, requests, children, stray, faults>>

(* The acknowledgement may come once the client has the file. *)
ChildEnds(k) ==
  /\ pc[k.to] = "done"
  /\ children' = children \ {k}
  /\ UNCHANGED <<acl, present, server, keys, pc, file, requests, packets, stray, faults>>

-----------------------------------------------------------------------------
Next ==
  \/ \E c \in Clients :
       \/ StartClient(c) \/ RequestFile(c) \/ RequestFileAstray(c) \/ RequestTimeout(c)
       \/ ReceivePacket(c) \/ InterruptClient(c) \/ ServeRequest(c)
  \/ StartServer \/ RejectRequest \/ ForkFails \/ InterruptServer \/ Lose
  \/ \E k \in children : SendWindow(k) \/ ChildEnds(k)

Spec == Init /\ [][Next]_vars

(***************************************************************************)
(* Processes keep running and timers go off; of the datagrams sent again    *)
(* and again one comes through, and packets also come while the client     *)
(* waits, which it nearly always does.                                     *)
(***************************************************************************)
FairSpec ==
  /\ Spec
  /\ WF_vars(StartServer)
  /\ \A c \in Clients :
       /\ WF_vars(RequestFile(c)) /\ WF_vars(RequestTimeout(c))
       /\ SF_vars(ServeRequest(c)) /\ SF_vars(ReceivePacket(c))
       /\ SF_vars(\E k \in children : k.to = c /\ pc[c] = "wait" /\ SendWindow(k))

-----------------------------------------------------------------------------
(* acl.dat lists an address with a key. *)
Pair(addr, key) ==
  /\ Len(acl) % 2 = 0
  /\ \E i \in 1 .. Len(acl) : i % 2 = 0 /\ acl[i - 1] = addr /\ acl[i] = key

(* It admits a client: the client's address is listed, with the client's key. *)
Listed(c) == Pair(Address[c], Key[c])

(* The client's key is listed with the address of another host. *)
ListedElsewhere(c) == \E addr \in Words \ {Address[c]} : Pair(addr, Key[c])

(***************************************************************************)
(* Whatever keys are listed before, the server finds the right one: what a *)
(* child codes with is the key of the client it sends to, and the list     *)
(* admits that client.  Two exceptions are the code's own.  A client whose *)
(* key is listed with another address is served too, as the address listed *)
(* is never read.  A client that made its certificate from an address not  *)
(* its own may be taken for another, and then gets that one's key.         *)
(***************************************************************************)
OwnKey ==
  \A k \in children :
    \/ k.key = Key[k.to] /\ (Listed(k.to) \/ ListedElsewhere(k.to))
    \/ k.to \in stray /\ \E addr \in Words : Pair(addr, k.key)

(* However often a window is sent, what a client stores is the file, unless *)
(* it made a certificate from an address that is not its own.               *)
FileDecoded == \A c \in Clients : file[c] \in {Absent, Content} \/ c \in stray

(* A client listed with its address and key that asks for a file there is    *)
(* gets it, whenever the server starts and whatever is lost, unless one of   *)
(* them is stopped.                                                         *)
ListedServed ==
  \A c \in Clients :
    pc[c] = "request" /\ Listed(c) /\ present
      ~> pc[c] \in {"done", "ended"} \/ server = "ended"
=============================================================================
