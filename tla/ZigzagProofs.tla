---------------------------- MODULE ZigzagProofs ----------------------------
(***************************************************************************)
(* Proofs about ZigzagRouter for any number of routers and clients, any    *)
(* overlay tables and any ports taken by other programs.                   *)
(***************************************************************************)
EXTENDS ZigzagRouter, TLAPS

-----------------------------------------------------------------------------
(* The inductive invariant. *)

(* No descriptor is open that no variable of the router names. *)
Sound(k) ==
  /\ k \in SockType
  /\ \A s \in Sockets :
       k.fd[s] # NoFd => /\ k.bound[k.fd[s]] # 0
                         /\ \A t \in Sockets \ {s} : k.fd[s] # k.fd[t]
  /\ \A n \in FdNumbers : k.bound[n] # 0 => \E s \in Sockets : k.fd[s] = n

SocketInv == \A r \in Routers : Sound(sock[r])

(* The sockets still to be served in this turn. *)
Remaining(s) ==
  CASE s = "control" -> Sockets
    [] s = "forward" -> Paths
    [] s = "return"  -> {"return"}
    [] OTHER -> {}

(* A turn is only given to a socket marked ready; what is marked and was not  *)
(* replaced keeps its datagram until it is served.                            *)
TurnInv ==
  \A r \in Routers :
    /\ pc[r] \in Sockets => sock[r].fd[pc[r]] \in ready[r]
    /\ pc[r] = "control" => renewed[r] = {}
    /\ \A s \in Remaining(pc[r]) :
         sock[r].fd[s] \in ready[r] \ renewed[r] => sock[r].queue[sock[r].fd[s]] # <<>>

IInv == TypeOK /\ SocketInv /\ TurnInv /\ LearntFirst

-----------------------------------------------------------------------------
(* Descriptors. *)

LEMMA Constants ==
  /\ NoFd = -1 /\ NoFd \notin FdNumbers /\ FdNumbers = {3, 4, 5}
  /\ Sockets = {"control", "forward", "return"} /\ Paths = {"forward", "return"}
  /\ Unset = -1 /\ FillIn = 0
  /\ \A p \in Ports : p \in Nat /\ p # 0
  <1>1. NoFd = -1 /\ NoFd \notin FdNumbers /\ FdNumbers = {3, 4, 5}
    BY DEF NoFd, FdNumbers
  <1>2. /\ Sockets = {"control", "forward", "return"} /\ Paths = {"forward", "return"}
        /\ Unset = -1 /\ FillIn = 0
    BY DEF Sockets, Paths, Unset, FillIn
  <1>3. \A p \in Ports : p \in Nat /\ p # 0
    <2>1. Ports \subseteq 1 .. MaxPort
      BY OverlayAssumption, Zenon DEF OverlayAssumption
    <2>2. MaxPort \in Nat
      BY DEF MaxPort
    <2> QED
      BY <2>1, <2>2
  <1> QED
    BY <1>1, <1>2, <1>3

LEMMA CloseFacts ==
  ASSUME NEW k \in SockType, NEW s \in Sockets
  PROVE  /\ Close(k, s) \in SockType
         /\ Close(k, s).fd = k.fd
         /\ \A n \in FdNumbers :
              /\ Close(k, s).bound[n] = IF n = k.fd[s] THEN 0 ELSE k.bound[n]
              /\ n # k.fd[s] => Close(k, s).queue[n] = k.queue[n]
  <1>1. CASE k.fd[s] = NoFd
    BY <1>1, Constants DEF Close
  <1>2. CASE k.fd[s] # NoFd
    <2>1. k.fd[s] \in FdNumbers
      BY <1>2 DEF SockType
    <2> QED
      BY <1>2, <2>1 DEF Close, SockType
  <1> QED
    BY <1>1, <1>2

LEMMA FreeFacts ==
  ASSUME NEW k, NEW m \in FdNumbers, k.bound[m] = 0
  PROVE  LowestFree(k) \in FdNumbers /\ k.bound[LowestFree(k)] = 0
  <1> DEFINE free == FdNumbers \ Open(k)
  <1>1. m \in free /\ free \subseteq {3, 4, 5}
    BY Constants DEF Open
  <1>2. \E n \in free : \A j \in free : n <= j
    <2>1. CASE 3 \in free
      BY <1>1, <2>1
    <2>2. CASE 3 \notin free /\ 4 \in free
      BY <1>1, <2>2
    <2>3. CASE 3 \notin free /\ 4 \notin free
      BY <1>1, <2>3
    <2> QED
      BY <2>1, <2>2, <2>3
  <1>3. LowestFree(k) \in free
    BY <1>2 DEF LowestFree
  <1> QED
    BY <1>3 DEF Open

LEMMA BindFacts ==
  ASSUME NEW r, NEW k \in SockType, NEW s \in Sockets, NEW p \in Ports,
         NEW m \in FdNumbers, k.bound[m] = 0
  PROVE  /\ Bind(r, k, s, p) \in SockType
         /\ Bind(r, k, s, p).queue = k.queue
         /\ \A t \in Sockets \ {s} : Bind(r, k, s, p).fd[t] = k.fd[t]
         /\ \/ Bind(r, k, s, p).fd[s] = NoFd /\ Bind(r, k, s, p).bound = k.bound
            \/ \E n \in FdNumbers :
                 /\ k.bound[n] = 0 /\ Bind(r, k, s, p).fd[s] = n
                 /\ \A j \in FdNumbers :
                      Bind(r, k, s, p).bound[j] = IF j = n THEN p ELSE k.bound[j]
  <1> DEFINE n == LowestFree(k)
  <1>1. n \in FdNumbers /\ k.bound[n] = 0
    BY FreeFacts
  <1> HIDE DEF n
  <1>2. CASE p \in InUse(r, k)
    BY <1>2 DEF Bind, SockType
  <1>3. CASE p \notin InUse(r, k)
    <2>1. Bind(r, k, s, p) = [fd    |-> [k.fd EXCEPT ![s] = n],
                              bound |-> [k.bound EXCEPT ![n] = p],
                              queue |-> k.queue]
      BY <1>3 DEF Bind, n
    <2> QED
      BY <1>1, <2>1 DEF SockType
  <1> QED
    BY <1>2, <1>3

(* Rebinding one socket leaves the others alone, and finds a number. *)
LEMMA RebindFacts ==
  ASSUME NEW r, NEW k, Sound(k), NEW s \in Sockets, NEW p \in Ports
  PROVE  /\ Sound(Rebind(r, k, s, p))
         /\ \A t \in Sockets \ {s} :
              /\ Rebind(r, k, s, p).fd[t] = k.fd[t]
              /\ PortNumber(Rebind(r, k, s, p), t) = PortNumber(k, t)
              /\ k.fd[t] # NoFd =>
                   Rebind(r, k, s, p).queue[k.fd[t]] = k.queue[k.fd[t]]
         /\ PortNumber(k, s) = p => Rebind(r, k, s, p) = k
  <1>1. CASE PortNumber(k, s) = p
    BY <1>1 DEF Rebind
  <1>2. CASE PortNumber(k, s) # p
    <2> DEFINE c == Close(k, s)
               b == Bind(r, c, s, p)
    <2>1. Rebind(r, k, s, p) = b
      BY <1>2 DEF Rebind
    <2>2. k \in SockType
      BY DEF Sound
    <2>3. /\ c \in SockType /\ c.fd = k.fd
          /\ \A n \in FdNumbers :
               /\ c.bound[n] = IF n = k.fd[s] THEN 0 ELSE k.bound[n]
               /\ n # k.fd[s] => c.queue[n] = k.queue[n]
      BY <2>2, CloseFacts
    <2> HIDE DEF c
    <2>4. PICK m \in FdNumbers : c.bound[m] = 0
      <3>1. \A n \in FdNumbers : c.bound[n] # 0 => \E t \in Sockets \ {s} : k.fd[t] = n
        BY <2>3 DEF Sound
      <3>2. PICK t1, t2 \in Sockets : Sockets \ {s} \subseteq {t1, t2}
        <4>1. CASE s = "control"
          BY <4>1, Constants
        <4>2. CASE s = "forward"
          BY <4>2, Constants
        <4>3. CASE s = "return"
          BY <4>3, Constants
        <4> QED
          BY <4>1, <4>2, <4>3, Constants
      <3>3. \E m \in {3, 4, 5} : m # k.fd[t1] /\ m # k.fd[t2]
        OBVIOUS
      <3> QED
        BY <3>1, <3>2, <3>3, Constants
    <2>5. /\ b \in SockType /\ b.queue = c.queue
          /\ \A t \in Sockets \ {s} : b.fd[t] = c.fd[t]
          /\ \/ b.fd[s] = NoFd /\ b.bound = c.bound
             \/ \E n \in FdNumbers :
                  /\ c.bound[n] = 0 /\ b.fd[s] = n
                  /\ \A j \in FdNumbers : b.bound[j] = IF j = n THEN p ELSE c.bound[j]
      BY <2>3, <2>4, BindFacts
    <2> HIDE DEF b
    <2>6. \A t \in Sockets : k.fd[t] \in FdNumbers \cup {NoFd}
      BY <2>2 DEF SockType
    <2>7. p # 0 /\ NoFd \notin FdNumbers
      BY Constants
    <2>8. \A t \in Sockets \ {s} : k.fd[t] # NoFd =>
            k.fd[t] \in FdNumbers /\ k.fd[t] # k.fd[s] /\ c.bound[k.fd[t]] # 0
            /\ c.bound[k.fd[t]] = k.bound[k.fd[t]]
      BY <2>3, <2>6 DEF Sound
    <2>9. \A n \in FdNumbers : c.bound[n] # 0 => \E t \in Sockets \ {s} : k.fd[t] = n
      BY <2>3 DEF Sound
    <2>10. CASE b.fd[s] = NoFd /\ b.bound = c.bound
      <3>1. Sound(b)
        BY <2>3, <2>5, <2>7, <2>8, <2>9, <2>10 DEF Sound
      <3> QED
        BY <1>2, <2>1, <2>3, <2>5, <2>8, <2>10, <3>1 DEF PortNumber
    <2>11. ASSUME NEW n \in FdNumbers, c.bound[n] = 0, b.fd[s] = n,
                  \A j \in FdNumbers : b.bound[j] = IF j = n THEN p ELSE c.bound[j]
           PROVE  /\ Sound(b)
                  /\ \A t \in Sockets \ {s} :
                       b.fd[t] = k.fd[t] /\ PortNumber(b, t) = PortNumber(k, t)
                       /\ (k.fd[t] # NoFd => b.queue[k.fd[t]] = k.queue[k.fd[t]])
      <3>1. \A t \in Sockets \ {s} : k.fd[t] # n
        BY <2>7, <2>8, <2>11
      <3>2. \A t \in Sockets \ {s} : b.fd[t] = k.fd[t]
        BY <2>3, <2>5
      <3>3. \A t \in Sockets \ {s} : k.fd[t] # NoFd => b.bound[k.fd[t]] = k.bound[k.fd[t]]
        BY <2>8, <2>11, <3>1
      <3>4. \A t \in Sockets \ {s} : PortNumber(b, t) = PortNumber(k, t)
        BY <3>2, <3>3 DEF PortNumber
      <3>5. \A t \in Sockets \ {s} : k.fd[t] # NoFd => b.queue[k.fd[t]] = k.queue[k.fd[t]]
        BY <2>3, <2>5, <2>8
      <3>6. \A t \in Sockets : b.fd[t] # NoFd =>
              b.bound[b.fd[t]] # 0 /\ \A q \in Sockets \ {t} : b.fd[t] # b.fd[q]
        <4> TAKE t \in Sockets
        <4>1. CASE t = s
          BY <2>7, <2>11, <3>1, <3>2, <4>1
        <4>2. CASE t # s
          BY <2>8, <2>11, <3>1, <3>2, <4>2 DEF Sound
        <4> QED
          BY <4>1, <4>2
      <3>7. \A j \in FdNumbers : b.bound[j] # 0 => \E t \in Sockets : b.fd[t] = j
        <4> TAKE j \in FdNumbers
        <4>1. CASE j = n
          BY <2>11, <4>1
        <4>2. CASE j # n
          BY <2>9, <2>11, <3>2, <4>2
        <4> QED
          BY <4>1, <4>2
      <3> QED
        BY <2>5, <3>2, <3>4, <3>5, <3>6, <3>7 DEF Sound
    <2> QED
      BY <1>2, <2>1, <2>5, <2>10, <2>11
  <1> QED
    BY <1>1, <1>2

-----------------------------------------------------------------------------
(* The socket whose turn it is. *)

LEMMA ReceiveFacts ==
  ASSUME IInv, NEW r \in Routers, NEW s \in Sockets, Receive(r, s)
  PROVE  /\ sock[r].fd[s] \in FdNumbers
         /\ Received(r, s) \in Datagrams
         /\ Sound(Dequeue(r, s))
         /\ Dequeue(r, s).fd = sock[r].fd /\ Dequeue(r, s).bound = sock[r].bound
         /\ \A n \in FdNumbers : n # sock[r].fd[s] =>
              Dequeue(r, s).queue[n] = sock[r].queue[n]
  <1> DEFINE k == sock[r]
             n == k.fd[s]
  <1>1. Sound(k) /\ k \in SockType
    BY DEF IInv, SocketInv, Sound
  <1>2. n \in FdNumbers /\ k.queue[n] # <<>>
    BY <1>1 DEF IInv, TypeOK, TurnInv, Receive
  <1>3. k.queue[n] \in Seq(Datagrams)
    BY <1>1, <1>2 DEF SockType
  <1>4. Head(k.queue[n]) \in Datagrams /\ Tail(k.queue[n]) \in Seq(Datagrams)
    BY <1>2, <1>3
  <1>5. Dequeue(r, s) = [fd    |-> k.fd, bound |-> k.bound,
                         queue |-> [k.queue EXCEPT ![n] = Tail(k.queue[n])]]
    BY DEF Dequeue
  <1>6. Dequeue(r, s) \in SockType /\ Dequeue(r, s).fd = k.fd /\ Dequeue(r, s).bound = k.bound
        /\ \A j \in FdNumbers : j # n => Dequeue(r, s).queue[j] = k.queue[j]
    BY <1>1, <1>2, <1>4, <1>5 DEF SockType
  <1>7. Sound(Dequeue(r, s))
    BY <1>1, <1>6 DEF Sound
  <1> QED
    BY <1>2, <1>4, <1>6, <1>7 DEF Received

(* Where a turn goes on. *)
LEMMA TurnFacts ==
  ASSUME NEW k, NEW fds
  PROVE  /\ AfterForward(k, fds) \in {"return", "select"}
         /\ AfterForward(k, fds) = "return" => k.fd["return"] \in fds
         /\ AfterControl(k, fds) \in {"forward", "return", "select"}
         /\ AfterControl(k, fds) # "select" => k.fd[AfterControl(k, fds)] \in fds
         /\ AfterSelect(k, fds) \in {"control", "forward", "return", "select"}
         /\ AfterSelect(k, fds) # "select" => k.fd[AfterSelect(k, fds)] \in fds
  <1>1. /\ AfterForward(k, fds) \in {"return", "select"}
        /\ AfterForward(k, fds) = "return" => k.fd["return"] \in fds
    BY DEF AfterForward
  <1>2. /\ AfterControl(k, fds) \in {"forward", "return", "select"}
        /\ AfterControl(k, fds) # "select" => k.fd[AfterControl(k, fds)] \in fds
    BY <1>1 DEF AfterControl
  <1>3. /\ AfterSelect(k, fds) \in {"control", "forward", "return", "select"}
        /\ AfterSelect(k, fds) # "select" => k.fd[AfterSelect(k, fds)] \in fds
    BY <1>2 DEF AfterSelect
  <1> QED
    BY <1>1, <1>2, <1>3

LEMMA RemainingFacts ==
  /\ Remaining("control") = Sockets /\ Remaining("forward") = Paths
  /\ Remaining("return") = {"return"} /\ Remaining("select") = {}
  /\ Paths \subseteq Sockets
  BY DEF Remaining, Sockets, Paths

(* A next hop that is one is a port. *)
LEMMA ForwardFacts ==
  ASSUME IInv, NEW r \in Routers, NEW d \in Datagrams,
         NEW hop \in Ports \cup {FillIn, Unset}, Forward(r, d, hop)
  PROVE  net' \subseteq Datagrams
  <1>1. net \subseteq Datagrams
    BY DEF IInv, TypeOK
  <1>2. CASE hop \in {Unset, FillIn} \/ sock[r].fd["return"] = NoFd
    BY <1>1, <1>2 DEF Forward
  <1>3. CASE ~(hop \in {Unset, FillIn} \/ sock[r].fd["return"] = NoFd)
    <2> DEFINE from == PortNumber(sock[r], "return")
               e == [d EXCEPT !.to = hop, !.from = from]
    <2>1. sock[r] \in SockType /\ "return" \in Sockets
      BY Constants DEF IInv, TypeOK
    <2>2. sock[r].fd["return"] \in FdNumbers /\ sock[r].bound[sock[r].fd["return"]] # 0
      BY <1>3, <2>1 DEF IInv, SocketInv, Sound, SockType
    <2>3. from \in Ports
      BY <1>3, <2>1, <2>2 DEF PortNumber, SockType
    <2> HIDE DEF from
    <2>4. e \in Datagrams
      BY <1>3, <2>3 DEF Datagrams
    <2> QED
      BY <1>1, <1>3, <2>4 DEF Forward, from
  <1> QED
    BY <1>2, <1>3

-----------------------------------------------------------------------------
(* The invariant holds initially and is preserved by every action. *)

LEMMA InitIInv == Init => IInv
  <1> SUFFICES ASSUME Init PROVE IInv
    OBVIOUS
  <1>1. /\ FirstFd \in [Sockets -> FdNumbers]
        /\ \A s, t \in Sockets : s # t => FirstFd[s] # FirstFd[t]
        /\ \A n \in FdNumbers : \E s \in Sockets : FirstFd[s] = n
    <2>1. FirstFd["control"] = 3 /\ FirstFd["forward"] = 4 /\ FirstFd["return"] = 5
      BY DEF FirstFd
    <2>2. FirstFd \in [Sockets -> FdNumbers]
      BY DEF FirstFd, Sockets, Paths, FdNumbers
    <2> QED
      BY <2>1, <2>2, Constants
  <1>2. ASSUME NEW r \in Routers
        PROVE  \A s \in Sockets : StartPort[r][s] \in Ports /\ StartPort[r][s] # 0
    <2>1. StartPort \in [Routers -> [Sockets -> Ports]]
      BY OverlayAssumption, Zenon DEF OverlayAssumption
    <2> QED
      BY <1>2, <2>1, Constants
  <1> DEFINE Name(n) == CHOOSE s \in Sockets : FirstFd[s] = n
  <1>3. ASSUME NEW n \in FdNumbers
        PROVE  Name(n) \in Sockets /\ FirstFd[Name(n)] = n
    BY <1>1, <1>3
  <1> HIDE DEF Name
  <1>4. ASSUME NEW r \in Routers
        PROVE  /\ sock[r] \in SockType /\ sock[r].fd = FirstFd
               /\ \A n \in FdNumbers : sock[r].bound[n] # 0
    <2>1. sock[r] = [fd    |-> FirstFd,
                     bound |-> [n \in FdNumbers |-> StartPort[r][Name(n)]],
                     queue |-> [n \in FdNumbers |-> <<>>]]
      BY <1>4 DEF Init, Name
    <2>2. [n \in FdNumbers |-> StartPort[r][Name(n)]] \in [FdNumbers -> Ports \cup {0}]
      BY <1>2, <1>3, <1>4
    <2>3. [n \in FdNumbers |-> <<>>] \in [FdNumbers -> Seq(Datagrams)]
      OBVIOUS
    <2>4. \A n \in FdNumbers : sock[r].bound[n] # 0
      BY <1>2, <1>3, <1>4, <2>1
    <2> QED
      BY <1>1, <2>1, <2>2, <2>3, <2>4 DEF SockType
  <1>5. ASSUME NEW r \in Routers PROVE Sound(sock[r])
    BY <1>1, <1>4, <1>5, Constants DEF Sound
  <1>6. TypeOK
    <2>1. sock \in [Routers -> SockType]
      BY <1>4 DEF Init
    <2>2. runs \in 0 .. Len(Overlays)
      BY OverlayAssumption DEF Init, OverlayAssumption
    <2> QED
      BY <2>1, <2>2 DEF Init, TypeOK
  <1>7. TurnInv
    BY RemainingFacts, Constants DEF Init, TurnInv
  <1> QED
    BY <1>5, <1>6, <1>7 DEF Init, IInv, SocketInv, LearntFirst

LEMMA SelectStep ==
  ASSUME IInv, NEW r \in Routers, Select(r)
  PROVE  IInv'
  <1>1. /\ UNCHANGED <<sock, send, asked, heard, runs, answered, foreign, net>>
        /\ pc \in [Routers -> Sockets \cup {"select"}]
        /\ ready' = [ready EXCEPT ![r] = ReadyFds(r)] /\ ready \in [Routers -> SUBSET FdNumbers]
        /\ renewed' = [renewed EXCEPT ![r] = {}]
        /\ renewed \in [Routers -> SUBSET (FdNumbers \cup {NoFd})]
        /\ pc' = [pc EXCEPT ![r] = AfterSelect(sock[r], ReadyFds(r))]
    BY DEF IInv, TypeOK, Select, envVars
  <1>2. ReadyFds(r) \subseteq FdNumbers /\ \A n \in ReadyFds(r) : sock[r].queue[n] # <<>>
    BY DEF ReadyFds, Open
  <1>3. AfterSelect(sock[r], ReadyFds(r)) \in Sockets \cup {"select"}
    BY TurnFacts, Constants
  <1>4. TypeOK'
    BY <1>1, <1>2, <1>3 DEF IInv, TypeOK
  <1>5. SocketInv' /\ LearntFirst'
    BY <1>1 DEF IInv, SocketInv, LearntFirst
  <1>6. TurnInv'
    <2> SUFFICES ASSUME NEW q \in Routers
                 PROVE  /\ pc'[q] \in Sockets => sock'[q].fd[pc'[q]] \in ready'[q]
                        /\ pc'[q] = "control" => renewed'[q] = {}
                        /\ \A s \in Remaining(pc'[q]) :
                             sock'[q].fd[s] \in ready'[q] \ renewed'[q]
                               => sock'[q].queue[sock'[q].fd[s]] # <<>>
      BY DEF TurnInv
    <2>1. CASE q = r
      <3>1. pc'[r] = AfterSelect(sock[r], ReadyFds(r)) /\ ready'[r] = ReadyFds(r)
            /\ renewed'[r] = {} /\ sock' = sock
        BY <1>1
      <3>2. pc'[r] \in Sockets => pc'[r] # "select"
        BY Constants
      <3> QED
        BY <1>2, <2>1, <3>1, <3>2, TurnFacts
    <2>2. CASE q # r
      <3>1. pc'[q] = pc[q] /\ ready'[q] = ready[q] /\ renewed'[q] = renewed[q] /\ sock' = sock
        BY <1>1, <2>2
      <3> QED
        BY <3>1 DEF IInv, TurnInv
    <2> QED
      BY <2>1, <2>2
  <1> QED
    BY <1>4, <1>5, <1>6 DEF IInv

(* What a message of zigzagconf does to the sockets. *)
LEMMA InstallFacts ==
  ASSUME IInv, NEW r \in Routers, NEW u \in [Paths -> Hop],
         Receive(r, "control"), Install(r, u)
  PROVE  /\ sock' = [sock EXCEPT ![r] = sock'[r]] /\ Sound(sock'[r])
         /\ \A s \in Paths :
              sock'[r].fd[s] \in FdNumbers \ renewed'[r] =>
                /\ sock'[r].fd[s] = sock[r].fd[s]
                /\ sock'[r].queue[sock'[r].fd[s]] = sock[r].queue[sock[r].fd[s]]
         /\ renewed' = [renewed EXCEPT ![r] = renewed'[r]]
         /\ renewed'[r] \subseteq FdNumbers \cup {NoFd}
  <1> DEFINE k0 == Dequeue(r, "control")
             k1 == Rebind(r, k0, "forward", u["forward"].receive)
             k2 == Rebind(r, k1, "return", u["return"].receive)
  <1>1. /\ "control" \in Sockets /\ "forward" \in Sockets /\ "return" \in Sockets
        /\ "forward" \in Paths /\ "return" \in Paths
        /\ \A s \in Paths : s = "forward" \/ s = "return"
        /\ Paths \subseteq Sockets
    BY Constants
  <1>2. u["forward"].receive \in Ports /\ u["return"].receive \in Ports
    BY <1>1 DEF Hop
  <1>3. sock[r] \in SockType /\ Sound(sock[r])
    BY DEF IInv, SocketInv, Sound
  <1>4. /\ Sound(k0) /\ k0.fd = sock[r].fd /\ k0.bound = sock[r].bound
        /\ \A n \in FdNumbers : n # sock[r].fd["control"] => k0.queue[n] = sock[r].queue[n]
    BY <1>1, ReceiveFacts
  <1> HIDE DEF k0
  <1> HIDE DEF k1, k2
  <1>5. /\ Sound(k1)
        /\ \A t \in Sockets \ {"forward"} :
             /\ k1.fd[t] = k0.fd[t] /\ PortNumber(k1, t) = PortNumber(k0, t)
             /\ k0.fd[t] # NoFd => k1.queue[k0.fd[t]] = k0.queue[k0.fd[t]]
        /\ PortNumber(k0, "forward") = u["forward"].receive => k1 = k0
    <2> DEFINE p == u["forward"].receive
    <2>1. Sound(k0) /\ p \in Ports /\ "forward" \in Sockets
      BY <1>1, <1>2, <1>4
    <2>2. k1 = Rebind(r, k0, "forward", p)
      BY DEF k1
    <2> HIDE DEF p
    <2>3. /\ Sound(k1)
          /\ \A t \in Sockets \ {"forward"} :
               /\ k1.fd[t] = k0.fd[t] /\ PortNumber(k1, t) = PortNumber(k0, t)
               /\ k0.fd[t] # NoFd => k1.queue[k0.fd[t]] = k0.queue[k0.fd[t]]
          /\ PortNumber(k0, "forward") = p => k1 = k0
      BY <2>1, <2>2, RebindFacts
    <2> QED
      BY <2>3 DEF p
  <1> USE DEF k2
  <1>6. /\ Sound(k2)
        /\ \A t \in Sockets \ {"return"} :
             /\ k2.fd[t] = k1.fd[t] /\ PortNumber(k2, t) = PortNumber(k1, t)
             /\ k1.fd[t] # NoFd => k2.queue[k1.fd[t]] = k1.queue[k1.fd[t]]
        /\ PortNumber(k1, "return") = u["return"].receive => k2 = k1
    BY <1>1, <1>2, <1>5, RebindFacts
  <1> HIDE DEF k2
  <1>7. /\ sock' = [sock EXCEPT ![r] = k2] /\ sock \in [Routers -> SockType]
        /\ renewed' = [renewed EXCEPT ![r] =
              {k2.fd[s] : s \in {t \in Paths : PortNumber(sock[r], t) # u[t].receive}}]
        /\ renewed \in [Routers -> SUBSET (FdNumbers \cup {NoFd})]
    BY DEF Install, IInv, TypeOK, k0, k1, k2
  <1>8. /\ sock'[r] = k2
        /\ renewed'[r] =
             {k2.fd[s] : s \in {t \in Paths : PortNumber(sock[r], t) # u[t].receive}}
    BY <1>7
  <1>9. \A s \in Sockets : k2.fd[s] \in FdNumbers \cup {NoFd}
    BY <1>6 DEF Sound, SockType
  <1>10. renewed'[r] \subseteq FdNumbers \cup {NoFd}
    BY <1>1, <1>8, <1>9
  <1>11. \A t \in Sockets : PortNumber(k0, t) = PortNumber(sock[r], t)
    BY <1>4 DEF PortNumber
  <1>12. ASSUME NEW s \in Paths, k2.fd[s] \in FdNumbers \ renewed'[r]
         PROVE  k2.fd[s] = sock[r].fd[s] /\ k2.queue[k2.fd[s]] = sock[r].queue[sock[r].fd[s]]
    <2>1. PortNumber(sock[r], s) = u[s].receive
      BY <1>8, <1>12
    <2>2. NoFd \notin FdNumbers
      BY Constants
    <2>3. s # "control"
      BY <1>1
    <2>4. CASE s = "forward"
      <3>1. k1 = k0
        BY <1>1, <1>5, <1>11, <2>1, <2>4
      <3>2. k2.fd[s] = k0.fd[s]
        BY <1>1, <1>6, <2>4, <3>1
      <3>3. k0.fd[s] # NoFd /\ k0.fd[s] \in FdNumbers
        BY <1>12, <2>2, <3>2
      <3>4. k2.queue[k0.fd[s]] = k0.queue[k0.fd[s]]
        BY <1>1, <1>6, <2>4, <3>1, <3>3
      <3>5. k0.fd[s] # k0.fd["control"]
        BY <1>1, <1>4, <2>4, <3>3 DEF Sound
      <3> QED
        BY <1>4, <3>2, <3>3, <3>4, <3>5
    <2>5. CASE s = "return"
      <3>1. k2 = k1 /\ k1.fd[s] = k0.fd[s]
        BY <1>1, <1>5, <1>6, <1>11, <2>1, <2>5
      <3>2. k0.fd[s] # NoFd /\ k0.fd[s] \in FdNumbers
        BY <1>12, <2>2, <3>1
      <3>3. k2.queue[k0.fd[s]] = k0.queue[k0.fd[s]]
        BY <1>1, <1>5, <2>5, <3>1, <3>2
      <3>4. k0.fd[s] # k0.fd["control"]
        BY <1>1, <1>4, <2>5, <3>2 DEF Sound
      <3> QED
        BY <1>4, <3>1, <3>2, <3>3, <3>4
    <2> QED
      BY <1>1, <2>4, <2>5
  <1> QED
    BY <1>6, <1>7, <1>8, <1>10, <1>12

(* Whatever a turn does to router r leaves the turns of the others alone. *)
LEMMA OtherTurns ==
  ASSUME IInv, NEW r \in Routers, NEW q \in Routers, q # r,
         pc'[q] = pc[q], ready'[q] = ready[q], renewed'[q] = renewed[q], sock'[q] = sock[q]
  PROVE  /\ pc'[q] \in Sockets => sock'[q].fd[pc'[q]] \in ready'[q]
         /\ pc'[q] = "control" => renewed'[q] = {}
         /\ \A s \in Remaining(pc'[q]) :
              sock'[q].fd[s] \in ready'[q] \ renewed'[q]
                => sock'[q].queue[sock'[q].fd[s]] # <<>>
  BY DEF IInv, TurnInv

LEMMA GoToFacts ==
  ASSUME IInv, NEW r \in Routers, NEW s \in Sockets \cup {"select"}, GoTo(r, s)
  PROVE  /\ pc' \in [Routers -> Sockets \cup {"select"}]
         /\ ready' \in [Routers -> SUBSET FdNumbers]
         /\ pc'[r] = s
         /\ s # "select" => ready'[r] = ready[r]
         /\ \A q \in Routers : q # r => pc'[q] = pc[q] /\ ready'[q] = ready[q]
  BY DEF IInv, TypeOK, GoTo

LEMMA ControlStep ==
  ASSUME IInv, NEW r \in Routers, ServeControl(r)
  PROVE  IInv'
  <1> DEFINE t == AfterControl(sock'[r], ready[r])
             d == Received(r, "control")
             u == Overlays[d.run][r]
  <1>1. /\ "control" \in Sockets /\ Paths \subseteq Sockets /\ "select" \notin Sockets
        /\ "return" \in Paths /\ "forward" \in Paths /\ "control" \notin Paths
    BY Constants
  <1>2. Receive(r, "control") /\ pc[r] = "control"
    BY DEF ServeControl, Receive
  <1>3. UNCHANGED <<runs, answered, foreign, net>>
    BY DEF ServeControl, envVars
  <1>4. GoTo(r, t)
    BY DEF ServeControl
  <1>5. /\ t \in {"forward", "return", "select"}
        /\ t # "select" => sock'[r].fd[t] \in ready[r]
    BY TurnFacts
  <1> HIDE DEF t
  <1>6. /\ pc' \in [Routers -> Sockets \cup {"select"}]
        /\ ready' \in [Routers -> SUBSET FdNumbers]
        /\ pc'[r] = t
        /\ t # "select" => ready'[r] = ready[r]
        /\ \A q \in Routers : q # r => pc'[q] = pc[q] /\ ready'[q] = ready[q]
    BY <1>1, <1>4, <1>5, GoToFacts
  <1>7. d \in Datagrams
    BY <1>1, <1>2, ReceiveFacts
  <1>8. renewed[r] = {} /\ Remaining("control") = Sockets
    BY <1>2, RemainingFacts DEF IInv, TurnInv
  <1>9. /\ SocketInv' /\ sock' = [sock EXCEPT ![r] = sock'[r]] /\ sock'[r] \in SockType
        /\ \A s \in Paths :
             sock'[r].fd[s] \in FdNumbers \ renewed'[r] =>
               /\ sock'[r].fd[s] = sock[r].fd[s]
               /\ sock'[r].queue[sock'[r].fd[s]] = sock[r].queue[sock[r].fd[s]]
        /\ renewed' = [renewed EXCEPT ![r] = renewed'[r]]
        /\ renewed'[r] \subseteq FdNumbers \cup {NoFd}
        /\ send' \in [Routers -> [Paths -> Ports \cup {FillIn, Unset}]]
        /\ asked' \in [Routers -> BOOLEAN] /\ heard' \in [Routers -> Ports \cup {FillIn}]
        /\ LearntFirst'
    <2>1. CASE d.kind = "config"
      <3>1. Install(r, u)
        BY <2>1 DEF ServeControl
      <3>2. u \in [Paths -> Hop]
        <4>1. Overlays \in Seq([Routers -> [Paths -> Hop]])
          BY OverlayAssumption, Zenon DEF OverlayAssumption
        <4>2. d.run \in 1 .. Len(Overlays)
          BY <1>7, <2>1, <4>1 DEF Datagrams
        <4>3. Overlays[d.run] \in [Routers -> [Paths -> Hop]]
          BY <4>1, <4>2
        <4> QED
          BY <4>3
      <3> HIDE DEF u, d
      <3>3. /\ sock' = [sock EXCEPT ![r] = sock'[r]] /\ Sound(sock'[r])
            /\ \A s \in Paths :
                 sock'[r].fd[s] \in FdNumbers \ renewed'[r] =>
                   /\ sock'[r].fd[s] = sock[r].fd[s]
                   /\ sock'[r].queue[sock'[r].fd[s]] = sock[r].queue[sock[r].fd[s]]
            /\ renewed' = [renewed EXCEPT ![r] = renewed'[r]]
            /\ renewed'[r] \subseteq FdNumbers \cup {NoFd}
        BY <1>2, <3>1, <3>2, InstallFacts
      <3>4. SocketInv' /\ sock'[r] \in SockType
        <4>1. \A q \in Routers : q # r => sock'[q] = sock[q]
          BY <3>3 DEF IInv, TypeOK
        <4> QED
          BY <3>3, <4>1 DEF SocketInv, IInv, Sound
      <3>5. /\ send' = [send EXCEPT ![r] = [s \in Paths |-> u[s].send]]
            /\ asked' = [asked EXCEPT ![r] = u["return"].send = FillIn]
            /\ heard' = [heard EXCEPT ![r] = FillIn]
        BY <3>1 DEF Install
      <3>6. [s \in Paths |-> u[s].send] \in [Paths -> Ports \cup {FillIn, Unset}]
        BY <3>2 DEF Hop
      <3>7. /\ send \in [Routers -> [Paths -> Ports \cup {FillIn, Unset}]]
            /\ asked \in [Routers -> BOOLEAN] /\ heard \in [Routers -> Ports \cup {FillIn}]
        BY DEF IInv, TypeOK
      <3>8. send' \in [Routers -> [Paths -> Ports \cup {FillIn, Unset}]]
        BY <3>5, <3>6, <3>7
      <3>9. asked' \in [Routers -> BOOLEAN] /\ heard' \in [Routers -> Ports \cup {FillIn}]
        BY <3>5, <3>7
      <3>10. LearntFirst'
        <4> SUFFICES ASSUME NEW q \in Routers, asked'[q]
                     PROVE  send'[q]["return"] = heard'[q]
          BY DEF LearntFirst
        <4>1. CASE q = r
          <5>1. asked'[r] = (u["return"].send = FillIn)
            BY <3>5, <3>7
          <5>2. send'[r]["return"] = u["return"].send /\ heard'[r] = FillIn
            BY <1>1, <3>5, <3>7
          <5> QED
            BY <4>1, <5>1, <5>2
        <4>2. CASE q # r
          BY <3>5, <3>7, <4>2 DEF IInv, LearntFirst
        <4> QED
          BY <4>1, <4>2
      <3> QED
        BY <3>3, <3>4, <3>8, <3>9, <3>10
    <2>2. CASE d.kind # "config"
      <3>1. sock' = [sock EXCEPT ![r] = Dequeue(r, "control")]
            /\ UNCHANGED <<send, asked, heard, renewed>>
        BY <2>2 DEF ServeControl
      <3>2. /\ Sound(Dequeue(r, "control"))
            /\ Dequeue(r, "control").fd = sock[r].fd
            /\ \A n \in FdNumbers : n # sock[r].fd["control"] =>
                 Dequeue(r, "control").queue[n] = sock[r].queue[n]
        BY <1>1, <1>2, ReceiveFacts
      <3>3. /\ sock'[r] = Dequeue(r, "control")
            /\ \A q \in Routers : q # r => sock'[q] = sock[q]
            /\ sock' = [sock EXCEPT ![r] = sock'[r]]
        BY <3>1 DEF IInv, TypeOK
      <3>4. SocketInv' /\ sock'[r] \in SockType
        BY <3>2, <3>3 DEF SocketInv, IInv, Sound
      <3>5. \A s \in Paths : sock[r].fd[s] \in FdNumbers => sock[r].fd[s] # sock[r].fd["control"]
        BY <1>1, Constants DEF IInv, SocketInv, Sound
      <3> QED
        BY <3>1, <3>2, <3>3, <3>4, <3>5 DEF IInv, TypeOK, LearntFirst
    <2> QED
      BY <2>1, <2>2
  <1>10. TypeOK'
    BY <1>3, <1>6, <1>9 DEF IInv, TypeOK
  <1>11. TurnInv'
    <2> SUFFICES ASSUME NEW q \in Routers
                 PROVE  /\ pc'[q] \in Sockets => sock'[q].fd[pc'[q]] \in ready'[q]
                        /\ pc'[q] = "control" => renewed'[q] = {}
                        /\ \A s \in Remaining(pc'[q]) :
                             sock'[q].fd[s] \in ready'[q] \ renewed'[q]
                               => sock'[q].queue[sock'[q].fd[s]] # <<>>
      BY DEF TurnInv
    <2>1. CASE q = r
      <3>1. pc'[r] \in Sockets => sock'[r].fd[pc'[r]] \in ready'[r]
        BY <1>1, <1>5, <1>6
      <3>2. Remaining(pc'[r]) \subseteq Paths
        BY <1>1, <1>5, <1>6, RemainingFacts
      <3>3. \A s \in Paths :
              sock[r].fd[s] \in ready[r] => sock[r].queue[sock[r].fd[s]] # <<>>
        BY <1>1, <1>2, <1>8 DEF IInv, TurnInv
      <3>4. ASSUME NEW s \in Remaining(pc'[r]), sock'[r].fd[s] \in ready'[r] \ renewed'[r]
            PROVE  sock'[r].queue[sock'[r].fd[s]] # <<>>
        <4>1. t # "select" /\ s \in Paths
          BY <1>6, <3>2, <3>4, RemainingFacts
        <4>2. ready'[r] = ready[r] /\ ready[r] \subseteq FdNumbers
          BY <1>6, <4>1 DEF IInv, TypeOK
        <4>3. sock'[r].fd[s] \in FdNumbers \ renewed'[r]
          BY <3>4, <4>2
        <4>4. /\ sock'[r].fd[s] = sock[r].fd[s]
              /\ sock'[r].queue[sock'[r].fd[s]] = sock[r].queue[sock[r].fd[s]]
          BY <1>9, <4>1, <4>3
        <4> QED
          BY <3>3, <3>4, <4>1, <4>2, <4>4
      <3> QED
        BY <1>5, <1>6, <2>1, <3>1, <3>4
    <2>2. CASE q # r
      <3>1. sock'[q] = sock[q] /\ renewed'[q] = renewed[q]
        BY <1>9, <2>2 DEF IInv, TypeOK
      <3> QED
        BY <1>6, <2>2, <3>1, OtherTurns
    <2> QED
      BY <2>1, <2>2
  <1> QED
    BY <1>9, <1>10, <1>11 DEF IInv

(* The turn of a path: one datagram leaves its socket. *)
LEMMA DataTurn ==
  ASSUME IInv, NEW r \in Routers, NEW s \in Paths, Receive(r, s),
         NEW t \in {"return", "select"}, s = "return" => t = "select",
         t = "return" => sock[r].fd["return"] \in ready[r],
         sock' = [sock EXCEPT ![r] = Dequeue(r, s)], GoTo(r, t), UNCHANGED renewed
  PROVE  /\ TurnInv' /\ SocketInv' /\ sock' \in [Routers -> SockType]
         /\ pc' \in [Routers -> Sockets \cup {"select"}]
         /\ ready' \in [Routers -> SUBSET FdNumbers]
  <1>1. /\ Paths \subseteq Sockets /\ "select" \notin Sockets
        /\ "return" \in Paths /\ "return" \in Sockets /\ s \in Sockets
    BY Constants
  <1>2. /\ Sound(Dequeue(r, s)) /\ Dequeue(r, s).fd = sock[r].fd
        /\ \A n \in FdNumbers : n # sock[r].fd[s] => Dequeue(r, s).queue[n] = sock[r].queue[n]
    BY <1>1, ReceiveFacts
  <1>3. sock'[r] = Dequeue(r, s) /\ \A q \in Routers : q # r => sock'[q] = sock[q]
    BY DEF IInv, TypeOK
  <1>4. SocketInv'
    BY <1>2, <1>3 DEF SocketInv, IInv
  <1>5. sock' \in [Routers -> SockType]
    BY <1>2 DEF IInv, TypeOK, Sound
  <1>6. /\ pc' \in [Routers -> Sockets \cup {"select"}]
        /\ ready' \in [Routers -> SUBSET FdNumbers]
        /\ pc'[r] = t
        /\ t # "select" => ready'[r] = ready[r]
        /\ \A q \in Routers : q # r => pc'[q] = pc[q] /\ ready'[q] = ready[q]
    BY <1>1, GoToFacts
  <1>7. TurnInv'
    <2> SUFFICES ASSUME NEW q \in Routers
                 PROVE  /\ pc'[q] \in Sockets => sock'[q].fd[pc'[q]] \in ready'[q]
                        /\ pc'[q] = "control" => renewed'[q] = {}
                        /\ \A z \in Remaining(pc'[q]) :
                             sock'[q].fd[z] \in ready'[q] \ renewed'[q]
                               => sock'[q].queue[sock'[q].fd[z]] # <<>>
      BY DEF TurnInv
    <2>1. CASE q = r /\ t = "select"
      BY <1>1, <1>6, <2>1, RemainingFacts
    <2>2. CASE q = r /\ t = "return"
      <3>1. s = "forward" /\ pc[r] = "forward"
        BY <2>2, Constants DEF Receive
      <3>2. ready'[r] = ready[r] /\ sock[r].fd["return"] \in ready[r] /\ ready[r] \subseteq FdNumbers
        BY <1>6, <2>2 DEF IInv, TypeOK
      <3>3. sock[r].fd["return"] \notin renewed[r] =>
              sock[r].queue[sock[r].fd["return"]] # <<>>
        BY <1>1, <3>1, <3>2, RemainingFacts DEF IInv, TurnInv
      <3>4. sock[r].fd["return"] \in FdNumbers /\ sock[r].fd["return"] # NoFd
        BY <3>2, Constants
      <3>5. sock[r].fd["return"] # sock[r].fd["forward"]
        BY <1>1, <3>1, <3>4 DEF IInv, SocketInv, Sound
      <3>6. sock'[r].queue[sock[r].fd["return"]] = sock[r].queue[sock[r].fd["return"]]
        BY <1>2, <1>3, <3>1, <3>4, <3>5
      <3> QED
        BY <1>2, <1>3, <1>6, <2>2, <3>2, <3>3, <3>6, RemainingFacts
    <2>3. CASE q # r
      BY <1>3, <1>6, <2>3, OtherTurns
    <2> QED
      BY <2>1, <2>2, <2>3
  <1> QED
    BY <1>4, <1>5, <1>6, <1>7

LEMMA ForwardStep ==
  ASSUME IInv, NEW r \in Routers, ServeForward(r)
  PROVE  IInv'
  <1> DEFINE d == Received(r, "forward")
             t == AfterForward(sock[r], ready[r])
  <1>1. /\ Receive(r, "forward") /\ GoTo(r, t)
        /\ sock' = [sock EXCEPT ![r] = Dequeue(r, "forward")]
        /\ Forward(r, d, send[r]["forward"])
        /\ UNCHANGED <<asked, renewed, runs, answered, foreign>>
    BY DEF ServeForward, envVars
  <1>2. "forward" \in Paths /\ "return" \in Paths /\ "forward" \in Sockets
    BY Constants
  <1>3. t \in {"return", "select"} /\ (t = "return" => sock[r].fd["return"] \in ready[r])
    BY TurnFacts
  <1>4. d \in Datagrams
    BY <1>1, <1>2, ReceiveFacts
  <1>5. d.from \in Ports /\ d.from # FillIn
    BY <1>4, Constants DEF Datagrams
  <1>6. /\ send' = IF send[r]["return"] = FillIn
                   THEN [send EXCEPT ![r] = [send[r] EXCEPT !["return"] = d.from]] ELSE send
        /\ heard' = IF asked[r] /\ heard[r] = FillIn THEN [heard EXCEPT ![r] = d.from] ELSE heard
    BY Zenon DEF ServeForward, Learns
  <1> HIDE DEF t, d
  <1>7. /\ TurnInv' /\ SocketInv' /\ sock' \in [Routers -> SockType]
        /\ pc' \in [Routers -> Sockets \cup {"select"}]
        /\ ready' \in [Routers -> SUBSET FdNumbers]
    BY <1>1, <1>2, <1>3, DataTurn
  <1>8. net' \subseteq Datagrams
    BY <1>1, <1>2, <1>4, ForwardFacts DEF IInv, TypeOK
  <1>9. /\ send \in [Routers -> [Paths -> Ports \cup {FillIn, Unset}]]
        /\ heard \in [Routers -> Ports \cup {FillIn}]
    BY DEF IInv, TypeOK
  <1>10. /\ send' \in [Routers -> [Paths -> Ports \cup {FillIn, Unset}]]
         /\ heard' \in [Routers -> Ports \cup {FillIn}]
    BY <1>2, <1>5, <1>6, <1>9
  <1>11. TypeOK'
    BY <1>1, <1>7, <1>8, <1>10 DEF IInv, TypeOK
  <1>12. LearntFirst'
    <2> SUFFICES ASSUME NEW q \in Routers, asked[q]
                 PROVE  send'[q]["return"] = heard'[q]
      BY <1>1 DEF LearntFirst
    <2>1. send[q]["return"] = heard[q]
      BY DEF IInv, LearntFirst
    <2> QED
      BY <1>2, <1>6, <1>9, <2>1
  <1> QED
    BY <1>7, <1>11, <1>12 DEF IInv

LEMMA ReturnStep ==
  ASSUME IInv, NEW r \in Routers, ServeReturn(r)
  PROVE  IInv'
  <1>1. /\ Receive(r, "return") /\ GoTo(r, "select")
        /\ sock' = [sock EXCEPT ![r] = Dequeue(r, "return")]
        /\ Forward(r, Received(r, "return"), send[r]["return"])
        /\ UNCHANGED <<send, asked, heard, renewed, runs, answered, foreign>>
    BY DEF ServeReturn, envVars
  <1>2. "return" \in Paths /\ "return" \in Sockets
    BY Constants
  <1>3. /\ TurnInv' /\ SocketInv' /\ sock' \in [Routers -> SockType]
        /\ pc' \in [Routers -> Sockets \cup {"select"}]
        /\ ready' \in [Routers -> SUBSET FdNumbers]
    BY <1>1, <1>2, DataTurn
  <1>4. Received(r, "return") \in Datagrams
    BY <1>1, <1>2, ReceiveFacts
  <1>5. net' \subseteq Datagrams
    BY <1>1, <1>2, <1>4, ForwardFacts DEF IInv, TypeOK
  <1>6. TypeOK' /\ LearntFirst'
    BY <1>1, <1>3, <1>5 DEF IInv, TypeOK, LearntFirst
  <1> QED
    BY <1>3, <1>6 DEF IInv

(* A delivery adds to the queues of open sockets, or to none. *)
LEMMA DeliverStep ==
  ASSUME IInv, NEW p \in Ports, Deliver(p)
  PROVE  IInv'
  <1>1. UNCHANGED <<pc, ready, send, asked, heard, renewed, runs, foreign>>
    BY DEF Deliver
  <1>2. PICK d \in net :
          /\ d.to = p
          /\ \/ p = Server /\ DeliverToServer(d)
             \/ p \in Clients /\ DeliverToClient(d)
             \/ p \notin Clients \cup {Server} /\ DeliverToRouters(d)
    BY DEF Deliver
  <1>3. net \subseteq Datagrams /\ d \in Datagrams /\ sock \in [Routers -> SockType]
    BY DEF IInv, TypeOK
  <1>4. Server \in Ports
    BY OverlayAssumption, Zenon DEF OverlayAssumption
  <1>5. net' \subseteq Datagrams /\ answered' \subseteq Clients
    <2>1. CASE p = Server /\ DeliverToServer(d)
      <3>1. d.from \in Ports
        BY <1>3 DEF Datagrams
      <3>2. Overlays \in Seq([Routers -> [Paths -> Hop]])
        BY OverlayAssumption, Zenon DEF OverlayAssumption
      <3>3. Len(Overlays) \in Nat
        BY <3>2
      <3>4. [to |-> d.from, from |-> Server, kind |-> "pong", run |-> 0] \in Datagrams
        BY <1>4, <3>1, <3>3 DEF Datagrams
      <3> QED
        BY <1>3, <2>1, <3>4 DEF DeliverToServer, IInv, TypeOK
    <2>2. CASE p \in Clients /\ DeliverToClient(d)
      BY <1>2, <1>3, <2>2 DEF DeliverToClient, IInv, TypeOK
    <2>3. CASE DeliverToRouters(d)
      BY <1>3, <2>3 DEF DeliverToRouters, IInv, TypeOK
    <2> QED
      BY <1>2, <2>1, <2>2, <2>3
  <1>6. ASSUME NEW r \in Routers
        PROVE  /\ sock'[r] \in SockType /\ sock'[r].fd = sock[r].fd
               /\ sock'[r].bound = sock[r].bound
               /\ \A n \in FdNumbers : sock[r].queue[n] # <<>> => sock'[r].queue[n] # <<>>
    <2>1. CASE sock' = sock
      BY <1>3, <2>1
    <2>2. CASE DeliverToRouters(d)
      <3> DEFINE k == sock[r]
                 q == [n \in FdNumbers |->
                         IF n \in Bound(r, d.to) /\ Len(k.queue[n]) < QueueLimit
                         THEN Append(k.queue[n], d) ELSE k.queue[n]]
      <3>1. sock'[r] = [fd |-> k.fd, bound |-> k.bound, queue |-> q]
        BY <2>2 DEF DeliverToRouters
      <3>2. k \in SockType /\ \A n \in FdNumbers : k.queue[n] \in Seq(Datagrams)
        BY <1>3 DEF SockType
      <3>3. ASSUME NEW n \in FdNumbers
            PROVE  /\ Append(k.queue[n], d) \in Seq(Datagrams)
                   /\ Append(k.queue[n], d) # <<>>
        BY <1>3, <3>2
      <3>4. q \in [FdNumbers -> Seq(Datagrams)]
            /\ \A n \in FdNumbers : k.queue[n] # <<>> => q[n] # <<>>
        BY <3>2, <3>3
      <3> HIDE DEF q
      <3> QED
        BY <3>1, <3>2, <3>4 DEF SockType
    <2> QED
      BY <1>2, <2>1, <2>2 DEF DeliverToServer, DeliverToClient
  <1>7. sock' \in [Routers -> SockType]
    <2>1. CASE sock' = sock
      BY <1>3, <2>1
    <2>2. CASE DeliverToRouters(d)
      <3>1. DOMAIN sock' = Routers /\ sock' = [r \in Routers |-> sock'[r]]
        BY <2>2 DEF DeliverToRouters
      <3> QED
        BY <1>6, <3>1
    <2> QED
      BY <1>2, <2>1, <2>2 DEF DeliverToServer, DeliverToClient
  <1>8. SocketInv'
    BY <1>6 DEF IInv, SocketInv, Sound
  <1>9. TurnInv'
    <2> SUFFICES ASSUME NEW q \in Routers
                 PROVE  /\ pc'[q] \in Sockets => sock'[q].fd[pc'[q]] \in ready'[q]
                        /\ pc'[q] = "control" => renewed'[q] = {}
                        /\ \A z \in Remaining(pc'[q]) :
                             sock'[q].fd[z] \in ready'[q] \ renewed'[q]
                               => sock'[q].queue[sock'[q].fd[z]] # <<>>
      BY DEF TurnInv
    <2>1. sock'[q].fd = sock[q].fd /\ ready[q] \subseteq FdNumbers
          /\ \A n \in FdNumbers : sock[q].queue[n] # <<>> => sock'[q].queue[n] # <<>>
      BY <1>6 DEF IInv, TypeOK
    <2> QED
      BY <1>1, <2>1 DEF IInv, TurnInv
  <1>10. TypeOK' /\ LearntFirst'
    BY <1>1, <1>5, <1>7 DEF IInv, TypeOK, LearntFirst
  <1> QED
    BY <1>8, <1>9, <1>10 DEF IInv

(* The actions that touch no router. *)
LEMMA OutsideStep ==
  ASSUME IInv, UNCHANGED routerVars, net' \subseteq Datagrams,
         runs' \in 0 .. Len(Overlays), answered' \subseteq Clients, foreign' \subseteq Ports
  PROVE  IInv'
  <1>1. UNCHANGED <<pc, ready, sock, send, asked, heard, renewed>>
    BY DEF routerVars
  <1>2. TypeOK'
    BY <1>1 DEF IInv, TypeOK
  <1>3. SocketInv'
    BY <1>1 DEF IInv, SocketInv
  <1>4. TurnInv'
    BY <1>1 DEF IInv, TurnInv
  <1>5. LearntFirst'
    BY <1>1 DEF IInv, LearntFirst
  <1> QED
    BY <1>2, <1>3, <1>4, <1>5 DEF IInv

LEMMA ConfigureStep ==
  ASSUME IInv, Configure
  PROVE  IInv'
  <1>1. /\ StartPort \in [Routers -> [Sockets -> Ports]] /\ Conf \in Ports
        /\ Overlays \in Seq([Routers -> [Paths -> Hop]])
    BY OverlayAssumption, Zenon DEF OverlayAssumption
  <1>2. Len(Overlays) \in Nat /\ runs \in 0 .. Len(Overlays) /\ runs < Len(Overlays)
    BY <1>1 DEF Configure, IInv, TypeOK
  <1>3. runs + 1 \in 0 .. Len(Overlays) /\ runs + 1 > 0
    BY <1>2
  <1>4. ASSUME NEW r \in Routers
        PROVE  [to |-> StartPort[r]["control"], from |-> Conf,
                kind |-> "config", run |-> runs + 1] \in Datagrams
    BY <1>1, <1>3, Constants DEF Datagrams
  <1>5. net' \subseteq Datagrams
    BY <1>4 DEF Configure, IInv, TypeOK
  <1> QED
    BY <1>3, <1>5, OutsideStep DEF Configure, IInv, TypeOK

LEMMA PingStep ==
  ASSUME IInv, NEW c \in Clients, Ping(c)
  PROVE  IInv'
  <1>1. /\ Target \in [Clients -> Ports] /\ Clients \subseteq Ports
        /\ Overlays \in Seq([Routers -> [Paths -> Hop]])
    BY OverlayAssumption, Zenon DEF OverlayAssumption
  <1>2. Len(Overlays) \in Nat
    BY <1>1
  <1>3. [to |-> Target[c], from |-> c, kind |-> "ping", run |-> 0] \in Datagrams
    BY <1>1, <1>2 DEF Datagrams
  <1>4. net' \subseteq Datagrams
    BY <1>3 DEF Ping, IInv, TypeOK
  <1> QED
    BY <1>4, OutsideStep DEF Ping, envVars, IInv, TypeOK

LEMMA TakePortStep ==
  ASSUME IInv, TakePort
  PROVE  IInv'
  <1>1. Contested \subseteq Ports
    BY OverlayAssumption, Zenon DEF OverlayAssumption
  <1>2. foreign' \subseteq Ports
    BY <1>1 DEF TakePort, IInv, TypeOK
  <1> QED
    BY <1>2, OutsideStep DEF TakePort, IInv, TypeOK

LEMMA Invariance ==
  ASSUME IInv, [Next]_vars
  PROVE  IInv'
  <1>1. CASE \E r \in Routers : Serve(r)
    BY <1>1, SelectStep, ControlStep, ForwardStep, ReturnStep DEF Serve
  <1>2. CASE Configure
    BY <1>2, ConfigureStep
  <1>3. CASE TakePort
    BY <1>3, TakePortStep
  <1>4. CASE \E c \in Clients : Ping(c)
    BY <1>4, PingStep
  <1>5. CASE \E p \in Ports : Deliver(p)
    BY <1>5, DeliverStep
  <1>6. CASE UNCHANGED vars
    BY <1>6, OutsideStep DEF vars, envVars, IInv, TypeOK
  <1> QED
    BY <1>1, <1>2, <1>3, <1>4, <1>5, <1>6 DEF Next

LEMMA Inductive == Spec => []IInv
  BY InitIInv, Invariance, PTL DEF Spec

-----------------------------------------------------------------------------
(* Every state a router, the tools and the network reach is of its type. *)
THEOREM ZigzagTypeCorrect == Spec => []TypeOK
  <1>1. IInv => TypeOK
    BY DEF IInv
  <1> QED
    BY <1>1, Inductive, PTL

(***************************************************************************)
(* However often update_forwardings closes and rebinds, and whichever bind *)
(* fails, the descriptors of a router are open and different.              *)
(***************************************************************************)
THEOREM DescriptorsDistinct == Spec => []NoSharedSocket
  <1>1. IInv => NoSharedSocket
    BY DEF IInv, SocketInv, Sound, NoSharedSocket
  <1> QED
    BY <1>1, Inductive, PTL

(***************************************************************************)
(* A descriptor select has reported, and the control message of the turn   *)
(* has not replaced, has its datagram when run gets to it.                 *)
(***************************************************************************)
THEOREM ReadySound == Spec => []ReadyHasData
  <1>1. ASSUME IInv, NEW r \in Routers, NEW s \in Sockets,
               pc[r] = s, sock[r].fd[s] \notin renewed[r]
        PROVE  sock[r].queue[sock[r].fd[s]] # <<>>
    <2>1. s \in Remaining(s)
      BY RemainingFacts, Constants
    <2> QED
      BY <1>1, <2>1 DEF IInv, TurnInv
  <1>2. IInv => ReadyHasData
    BY <1>1 DEF ReadyHasData
  <1> QED
    BY <1>2, Inductive, PTL

(***************************************************************************)
(* A return hop to be filled in becomes, and stays, the sender of the first *)
(* datagram of the forward path.                                            *)
(***************************************************************************)
THEOREM FirstSenderLearnt == Spec => []LearntFirst
  <1>1. IInv => LearntFirst
    BY DEF IInv
  <1> QED
    BY <1>1, Inductive, PTL
=============================================================================
