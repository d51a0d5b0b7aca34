------------------------- MODULE RequestServerProofs -------------------------
(***************************************************************************)
(* Proofs about RequestServer for any clients, addresses, keys and lists,  *)
(* any width of a word and of a byte, and any content.                     *)
(***************************************************************************)
EXTENDS RequestServer, SequenceTheorems, WellFoundedInduction, TLAPS

-----------------------------------------------------------------------------
(* Exclusive or, and the coding built on it. *)

LEMMA XorTwice ==
  ASSUME NEW x, NEW y
  PROVE  Xor(Xor(x, y), y) = x
  BY DEF Xor

(* What a certificate for an address is, only the one key opens. *)
LEMMA XorCancels ==
  ASSUME NEW x, NEW y, NEW z, Xor(Xor(x, y), z) = x
  PROVE  z = y
  BY DEF Xor

(* The bits above a byte do not matter: they are cut off on either side. *)
LEMMA CutTwice ==
  ASSUME NEW b \in SUBSET LowBits, NEW key
  PROVE  Xor(Xor(b, key) \cap LowBits, key) \cap LowBits = b
  BY DEF Xor

LEMMA CodedFacts ==
  ASSUME NEW data \in Bytes, NEW key
  PROVE  /\ bbencode_data(data, key) \in Bytes /\ bbdecode_data(data, key) \in Bytes
         /\ Len(bbencode_data(data, key)) = Len(data)
         /\ \A i \in 1 .. Len(data) :
              bbencode_data(data, key)[i] = Xor(data[i], key) \cap LowBits
  <1>1. Len(data) \in Nat
    BY DEF Bytes
  <1>2. /\ bbencode_data(data, key) \in [1 .. Len(data) -> SUBSET LowBits]
        /\ bbdecode_data(data, key) \in [1 .. Len(data) -> SUBSET LowBits]
    BY DEF bbencode_data, bbdecode_data
  <1>3. /\ bbencode_data(data, key) \in Bytes /\ bbdecode_data(data, key) \in Bytes
        /\ Len(bbencode_data(data, key)) = Len(data)
    BY <1>1, <1>2 DEF Bytes
  <1> QED
    BY <1>3 DEF bbencode_data, bbencode

(* Decoding undoes the coding, for any word as the key. *)
LEMMA DecodeEncode ==
  ASSUME NEW data \in Bytes, NEW key
  PROVE  bbdecode_data(bbencode_data(data, key), key) = data
  <1> DEFINE coded == bbencode_data(data, key)
  <1>1. Len(coded) = Len(data) /\ \A i \in 1 .. Len(data) : coded[i] = Xor(data[i], key) \cap LowBits
    BY CodedFacts
  <1>2. \A i \in 1 .. Len(data) : data[i] \in SUBSET LowBits
    BY DEF Bytes
  <1> HIDE DEF coded
  <1>3. \A i \in 1 .. Len(data) : Xor(coded[i], key) \cap LowBits = data[i]
    BY <1>1, <1>2, CutTwice
  <1>4. bbdecode_data(coded, key) = [i \in 1 .. Len(data) |-> data[i]]
    BY <1>1, <1>3 DEF bbdecode_data, bbdecode
  <1>5. data = [i \in 1 .. Len(data) |-> data[i]]
    BY DEF Bytes
  <1> QED
    BY <1>4, <1>5 DEF coded

-----------------------------------------------------------------------------
(* The search of the list. *)

LEMMA LessIsWellFounded ==
  \E R : /\ IsWellFoundedOn(R, Nat)
         /\ \A m, n \in Nat : n < m => <<n, m>> \in R
  <1>1. \A m, n \in Nat : n < m => <<n, m>> \in OpToRel(<, Nat)
    BY DEF OpToRel
  <1> QED
    BY <1>1, NatLessThanWellFounded, Zenon

LEMMA Smallest ==
  ASSUME NEW S, S \subseteq Nat, S # {}
  PROVE  \E m \in S : \A n \in S : m <= n
  <1>1. PICK R : /\ IsWellFoundedOn(R, Nat)
                 /\ \A m, n \in Nat : n < m => <<n, m>> \in R
    BY LessIsWellFounded
  <1>2. PICK m \in S : \A n \in S : ~ (<<n, m>> \in R)
    BY <1>1, WFMin, Zenon
  <1>3. ASSUME NEW n \in S PROVE ~ (n < m)
    BY <1>1, <1>2
  <1>4. ASSUME NEW n \in S PROVE m <= n
    BY <1>3
  <1> QED
    BY <1>4

(* An entry that matches is found, and the first one is an entry that matches. *)
LEMMA FirstEntryMatches ==
  ASSUME keys \in Seq(Words), NEW addr, NEW certificate, Entries(addr, certificate) # {}
  PROVE  \E i \in 1 .. Len(keys) :
           FirstEntry(addr, certificate) = keys[i] /\ bbencode(certificate, keys[i]) = addr
  <1> DEFINE match == Entries(addr, certificate)
             first == CHOOSE i \in match : \A j \in match : i <= j
  <1>1. match \subseteq Nat /\ match \subseteq 1 .. Len(keys)
    BY DEF Entries
  <1>2. \E i \in match : \A j \in match : i <= j
    BY <1>1, Smallest
  <1>3. first \in match
    BY <1>2
  <1>4. first \in 1 .. Len(keys) /\ bbencode(certificate, keys[first]) = addr
    BY <1>3 DEF Entries
  <1>5. FirstEntry(addr, certificate) = keys[first]
    BY DEF FirstEntry
  <1> QED
    BY <1>4, <1>5

-----------------------------------------------------------------------------
(* The inductive invariant. *)

(* The server searches the second column of a balanced list. *)
KeysInv ==
  \A i \in 1 .. Len(keys) :
    Len(acl) % 2 = 0 /\ 2 * i \in 1 .. Len(acl) /\ keys[i] = acl[2 * i]

(* A certificate is of the address of the client that made it. *)
RequestInv ==
  \A r \in requests :
    r.from \in stray \/ r.certificate = Xor(Address[r.from], Key[r.from])

(* A child's window is coded once, with its key. *)
ChildInv == \A k \in children : k.data = Window(k.key)

PacketInv == \A p \in packets : p.to \in stray \/ p.data = Window(Key[p.to])

IInv ==
  TypeOK /\ KeysInv /\ RequestInv /\ ChildInv /\ PacketInv /\ OwnKey /\ FileDecoded

(* acl never changes, so a client stays listed. *)
LEMMA OwnKeyStays ==
  ASSUME OwnKey, children' \subseteq children, stray \subseteq stray', UNCHANGED acl
  PROVE  OwnKey'
  BY DEF OwnKey, Listed, ListedElsewhere, Pair

(* A key the server holds is listed with some address. *)
LEMMA KeyHasPair ==
  ASSUME IInv, NEW i \in 1 .. Len(keys)
  PROVE  \E addr \in Words : Pair(addr, keys[i])
  <1>1. acl \in Seq(Words) /\ Len(keys) \in Nat
    BY ListsAssumption DEF IInv, TypeOK
  <1>2. Len(acl) % 2 = 0 /\ 2 * i \in 1 .. Len(acl) /\ keys[i] = acl[2 * i]
    BY DEF IInv, KeysInv
  <1>3. (2 * i) % 2 = 0 /\ 2 * i - 1 \in 1 .. Len(acl)
    BY <1>1, <1>2
  <1>4. acl[2 * i - 1] \in Words
    BY <1>1, <1>3
  <1> QED
    BY <1>2, <1>3, <1>4 DEF Pair

LEMMA InitIInv == Init => IInv
  <1> SUFFICES ASSUME Init PROVE IInv
    OBVIOUS
  <1> USE DEF Init
  <1>1. TypeOK
    BY SwitchAssumption DEF TypeOK
  <1>2. KeysInv /\ RequestInv /\ ChildInv /\ PacketInv /\ OwnKey /\ FileDecoded
    BY DEF KeysInv, RequestInv, ChildInv, PacketInv, OwnKey, FileDecoded
  <1> QED
    BY <1>1, <1>2 DEF IInv

LEMMA WindowFacts ==
  ASSUME NEW key
  PROVE  Window(key) \in Bytes
         /\ \A c \in Clients : key = Key[c] => Decoded(Window(key), c) = Content
  BY ContentAssumption, CodedFacts, DecodeEncode DEF Bytes, Window, Decoded

(* What a client decodes is the file, unless it went astray. *)
LEMMA ReceiveStep ==
  ASSUME IInv, NEW c \in Clients, ReceivePacket(c)
  PROVE  IInv'
  <1>1. PICK p \in packets : p.to = c /\ file' = [file EXCEPT ![c] = Decoded(p.data, c)]
    BY DEF ReceivePacket
  <1>2. p.data \in Bytes /\ file \in [Clients -> Bytes \cup {Absent}]
    BY DEF IInv, TypeOK
  <1>3. Decoded(p.data, c) \in Bytes
    BY <1>2, CodedFacts DEF Decoded
  <1>4. c \in stray \/ Decoded(p.data, c) = Content
    BY <1>1, WindowFacts DEF IInv, PacketInv
  <1>5. TypeOK'
    BY <1>1, <1>2, <1>3 DEF IInv, TypeOK, ReceivePacket
  <1>6. FileDecoded'
    BY <1>1, <1>2, <1>4 DEF IInv, FileDecoded, ReceivePacket
  <1>7. KeysInv' /\ RequestInv' /\ ChildInv' /\ PacketInv' /\ OwnKey'
    BY DEF IInv, ReceivePacket, KeysInv, RequestInv, ChildInv, PacketInv, OwnKey, Listed,
           ListedElsewhere, Pair
  <1> QED
    BY <1>5, <1>6, <1>7 DEF IInv

(* The child of a request knows the client by its key. *)
LEMMA ServeStep ==
  ASSUME IInv, NEW c \in Clients, ServeRequest(c)
  PROVE  IInv'
  <1>1. PICK r \in requests :
          /\ r.from = c /\ requests' \in {requests, requests \ {r}}
          /\ Entries(Address[c], r.certificate) # {}
          /\ children' = children \cup {[to |-> c, key |-> FirstEntry(Address[c], r.certificate),
                               data |-> Window(FirstEntry(Address[c], r.certificate))]}
    BY DEF ServeRequest, Read, check_access
  <1> DEFINE key == FirstEntry(Address[c], r.certificate)
             new == [to |-> c, key |-> key, data |-> Window(key)]
  <1>2. PICK i \in 1 .. Len(keys) : key = keys[i] /\ Xor(r.certificate, keys[i]) = Address[c]
    BY <1>1, FirstEntryMatches DEF IInv, TypeOK, bbencode
  <1>3. key \in Words
    BY <1>2 DEF IInv, TypeOK
  <1>4. PICK addr \in Words : Pair(addr, key)
    BY <1>2, KeyHasPair
  <1>5. c \in stray \/ key = Key[c]
    <2> SUFFICES ASSUME c \notin stray PROVE key = Key[c]
      OBVIOUS
    <2>1. Xor(Xor(Address[c], Key[c]), keys[i]) = Address[c]
      BY <1>1, <1>2 DEF IInv, RequestInv
    <2> QED
      BY <1>2, <2>1, XorCancels
  <1>6. key = Key[c] => Listed(c) \/ ListedElsewhere(c)
    BY <1>4 DEF Listed, ListedElsewhere
  <1>7. new.to = c /\ new.key = key /\ new.data = Window(key)
    OBVIOUS
  <1> HIDE DEF key, new
  <1>8. children' = children \cup {new}
    BY <1>1 DEF new, key
  <1>9. requests' \subseteq requests
    BY <1>1
  <1>10. TypeOK'
    BY <1>3, <1>7, <1>8, <1>9, WindowFacts DEF IInv, TypeOK, ServeRequest
  <1>11. ChildInv'
    BY <1>7, <1>8 DEF IInv, ChildInv, ServeRequest
  <1>12. OwnKey'
    <2>1. UNCHANGED <<acl, stray>>
      BY DEF ServeRequest
    <2> SUFFICES ASSUME NEW k \in children'
                 PROVE  \/ k.key = Key[k.to] /\ (Listed(k.to) \/ ListedElsewhere(k.to))
                        \/ k.to \in stray /\ \E a \in Words : Pair(a, k.key)
      BY <2>1 DEF OwnKey, Listed, ListedElsewhere, Pair
    <2>2. CASE k \in children
      BY <2>2 DEF IInv, OwnKey
    <2>3. CASE k = new
      BY <1>4, <1>5, <1>6, <1>7, <2>3
    <2> QED
      BY <1>8, <2>2, <2>3
  <1>13. KeysInv' /\ RequestInv' /\ PacketInv' /\ FileDecoded'
    BY <1>9 DEF IInv, ServeRequest, KeysInv, RequestInv, PacketInv, FileDecoded
  <1> QED
    BY <1>10, <1>11, <1>12, <1>13 DEF IInv

LEMMA StartServerStep ==
  ASSUME IInv, StartServer
  PROVE  IInv'
  <1>1. acl \in Seq(Words) /\ Len(acl) \in Nat
    BY ListsAssumption DEF IInv, TypeOK
  <1>2. KeysInv' /\ keys' \in Seq(Words)
    <2>1. CASE Unbalanced(acl)
      BY <2>1 DEF StartServer, IInv, KeysInv, TypeOK
    <2>2. CASE ~Unbalanced(acl)
      <3>1. keys' = [i \in 1 .. Len(acl) \div 2 |-> acl[2 * i]] /\ UNCHANGED acl
        BY <2>2 DEF StartServer, load_public_keys
      <3>2. Len(acl) % 2 = 0 /\ Len(acl) \div 2 \in Nat
        BY <1>1, <2>2 DEF Unbalanced
      <3>3. \A i \in 1 .. Len(acl) \div 2 : 2 * i \in 1 .. Len(acl) /\ acl[2 * i] \in Words
        BY <1>1, <3>2
      <3>4. keys' \in Seq(Words) /\ Len(keys') = Len(acl) \div 2
        BY <3>1, <3>2, <3>3
      <3> QED
        BY <3>1, <3>2, <3>3, <3>4 DEF KeysInv
    <2> QED
      BY <2>1, <2>2
  <1>3. TypeOK'
    BY <1>2 DEF IInv, TypeOK, StartServer
  <1>4. RequestInv' /\ ChildInv' /\ PacketInv' /\ OwnKey' /\ FileDecoded'
    BY DEF IInv, StartServer, RequestInv, ChildInv, PacketInv, OwnKey, FileDecoded, Listed,
           ListedElsewhere, Pair
  <1> QED
    BY <1>2, <1>3, <1>4 DEF IInv

(* A certificate is made from the own address, or the client went astray. *)
LEMMA RequestStep ==
  ASSUME IInv, NEW c \in Clients, RequestFile(c) \/ RequestFileAstray(c)
  PROVE  IInv'
  <1>1. PICK addr \in Words :
          /\ requests' = requests \cup {Request(c, addr)}
          /\ addr = Address[c] \/ c \in stray'
    BY HostsAssumption DEF RequestFile, RequestFileAstray
  <1>2. stray \subseteq stray' /\ stray' \subseteq Clients
        /\ UNCHANGED <<acl, present, server, keys, file, children, packets>>
    BY DEF IInv, TypeOK, RequestFile, RequestFileAstray
  <1> DEFINE new == Request(c, addr)
  <1>3. new = [from |-> c, certificate |-> Xor(addr, Key[c])] /\ Key[c] \in Words
    BY HostsAssumption DEF Request, bbdecode
  <1>4. new \in [from : Clients, certificate : Words]
    BY <1>1, <1>3 DEF Words, Xor
  <1>5. TypeOK'
    BY <1>1, <1>2, <1>4, SwitchAssumption
       DEF IInv, TypeOK, RequestFile, RequestFileAstray, CanFault, Fault
  <1>6. RequestInv'
    <2> SUFFICES ASSUME NEW r \in requests', r.from \notin stray'
                 PROVE  r.certificate = Xor(Address[r.from], Key[r.from])
      BY DEF RequestInv
    <2>1. CASE r \in requests
      BY <1>2, <2>1 DEF IInv, RequestInv
    <2>2. CASE r = new
      BY <1>1, <1>3, <2>2
    <2> QED
      BY <1>1, <2>1, <2>2
  <1>7. OwnKey'
    BY <1>2, OwnKeyStays DEF IInv
  <1>8. KeysInv' /\ ChildInv' /\ PacketInv' /\ FileDecoded'
    BY <1>2 DEF IInv, KeysInv, ChildInv, PacketInv, FileDecoded
  <1> QED
    BY <1>5, <1>6, <1>7, <1>8 DEF IInv

LEMMA SendStep ==
  ASSUME IInv, NEW k \in children, SendWindow(k)
  PROVE  IInv'
  <1>1. /\ packets' = packets \cup {Packet(k)}
        /\ UNCHANGED <<acl, present, server, keys, pc, file, requests, children, stray, faults>>
    BY DEF SendWindow
  <1>2. Packet(k).to = k.to /\ Packet(k).data = Window(k.key)
    BY DEF Packet, IInv, ChildInv
  <1>3. k.to \in stray \/ k.key = Key[k.to]
    BY DEF IInv, OwnKey
  <1>4. PacketInv'
    BY <1>1, <1>2, <1>3 DEF IInv, PacketInv
  <1>5. TypeOK'
    BY <1>1, <1>2, WindowFacts DEF IInv, TypeOK
  <1>6. KeysInv' /\ RequestInv' /\ ChildInv' /\ OwnKey' /\ FileDecoded'
    BY <1>1 DEF IInv, KeysInv, RequestInv, ChildInv, OwnKey, FileDecoded, Listed,
           ListedElsewhere, Pair
  <1> QED
    BY <1>4, <1>5, <1>6 DEF IInv

(* The steps that make no request, no child, no packet and no file. *)
LEMMA OtherStep ==
  ASSUME IInv,
         \/ \E c \in Clients : StartClient(c) \/ RequestTimeout(c) \/ InterruptClient(c)
         \/ RejectRequest \/ ForkFails \/ InterruptServer \/ Lose
         \/ \E k \in children : ChildEnds(k)
         \/ UNCHANGED vars
  PROVE  IInv'
  <1>1. /\ requests' \subseteq requests /\ children' \subseteq children /\ packets' \subseteq packets
        /\ UNCHANGED <<acl, present, keys, file, stray>>
    BY DEF StartClient, RequestTimeout, InterruptClient, RejectRequest, ForkFails, Read,
           InterruptServer, Lose, ChildEnds, vars
  <1>2. /\ pc' \in [Clients -> {"idle", "request", "wait", "done", "ended"}]
        /\ server' \in {"starting", "serving", "ended"}
        /\ faults' \in 0 .. MaxFaults
    BY SwitchAssumption
       DEF IInv, TypeOK, StartClient, RequestTimeout, InterruptClient, RejectRequest, ForkFails,
           InterruptServer, Lose, ChildEnds, vars, CanFault, Fault
  <1>3. TypeOK'
    BY <1>1, <1>2 DEF IInv, TypeOK
  <1>4. OwnKey'
    BY <1>1, OwnKeyStays DEF IInv
  <1>5. KeysInv' /\ RequestInv' /\ ChildInv' /\ PacketInv' /\ FileDecoded'
    BY <1>1 DEF IInv, KeysInv, RequestInv, ChildInv, PacketInv, FileDecoded
  <1> QED
    BY <1>3, <1>4, <1>5 DEF IInv

LEMMA NextIInv == IInv /\ [Next]_vars => IInv'
  BY ReceiveStep, ServeStep, StartServerStep, RequestStep, SendStep, OtherStep DEF Next

LEMMA Invariance == Spec => []IInv
  BY InitIInv, NextIInv, PTL DEF Spec

(***************************************************************************)
(* Type correctness: what is under way and what children hold is made of   *)
(* words and bytes of the right widths.                                    *)
(***************************************************************************)
THEOREM RequestTypeCorrect == Spec => []TypeOK
  <1>1. IInv => TypeOK
    BY DEF IInv
  <1> QED
    BY <1>1, Invariance, PTL

(***************************************************************************)
(* Whatever other keys are listed, and in whatever order requests arrive,  *)
(* are repeated or are lost, a child codes with the key of the client it   *)
(* sends to, and only for a client acl.dat lists, with its own address or  *)
(* with another; or with a listed key, for a client whose certificate is   *)
(* of an address not its own.                                              *)
(***************************************************************************)
THEOREM KeyIsClients == Spec => []OwnKey
  <1>1. IInv => OwnKey
    BY DEF IInv
  <1> QED
    BY <1>1, Invariance, PTL

(***************************************************************************)
(* What a client stores is the file of the server, coded or not, however   *)
(* often the window was sent.                                              *)
(***************************************************************************)
THEOREM ContentArrives == Spec => []FileDecoded
  <1>1. IInv => FileDecoded
    BY DEF IInv
  <1> QED
    BY <1>1, Invariance, PTL
=============================================================================
