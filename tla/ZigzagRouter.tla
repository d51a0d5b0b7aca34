---------------------------- MODULE ZigzagRouter ----------------------------
(***************************************************************************)
(* The overlay of lab6: zigzagrouter.c on every router, zigzagconf.c, and  *)
(* the ping client and server of lab2 at its ends.                         *)
(*                                                                         *)
(* A router serves three sockets with select: datagrams on the forward     *)
(* socket go to the next hop of the forward path, those on the return      *)
(* socket to that of the return path, and messages on the control socket   *)
(* replace both hops and rebind the sockets.  A hop configured as 0.0.0.0  *)
(* port 0 is filled in with the sender of the next datagram of the forward *)
(* path.  Everything runs on one host, so an address is a port; the field  *)
(* receive_port of a path, which is written and never read, is left out.   *)
(***************************************************************************)
EXTENDS Integers, Sequences, FiniteSets

CONSTANTS
  Routers,
  Clients,      \* the ports of the clients
  Server,       \* the port of the server
  Conf,         \* the port of zigzagconf
  Ports,        \* all ports
  StartPort,    \* StartPort[r][s]: the port socket s of r is bound to first
  Target,       \* Target[c]: the port client c pings
  Overlays,     \* the overlay tables zigzagconf sends, one in each run
  QueueLimit,   \* datagrams a socket keeps
  Contested,    \* the ports other programs may take
  MaxForeign    \* bound on how many they take

MaxPort   == 65535
FillIn    == 0                    \* 0.0.0.0 and port 0
Unset     == -1                   \* a hop before the first control message
NoFd      == -1
FdNumbers == 3 .. 5               \* behind stdin, stdout and stderr
Paths     == {"forward", "return"}
Sockets   == Paths \cup {"control"}
Hop       == [receive : Ports, send : Ports \cup {FillIn}]

Datagrams ==
  {d \in [to : Ports, from : Ports, kind : {"ping", "pong", "config"},
           run : 0 .. Len(Overlays)] :
     d.kind = "config" => d.run > 0}

ASSUME OverlayAssumption ==
  /\ Ports \subseteq 1 .. MaxPort
  /\ Clients \subseteq Ports /\ Server \in Ports /\ Conf \in Ports /\ Contested \subseteq Ports
  /\ StartPort \in [Routers -> [Sockets -> Ports]]
  /\ Target \in [Clients -> Ports]
  /\ Overlays \in Seq([Routers -> [Paths -> Hop]])
  /\ QueueLimit \in Nat /\ MaxForeign \in Nat

VARIABLES
  pc,        \* pc[r]: "select", or the socket whose turn it is
  ready,     \* ready[r]: the descriptors in read_fds
  sock,      \* sock[r]: control_fd, forward_fd, return_fd; what each descriptor
             \* is bound to (0: closed), and the datagrams waiting in it
  send,      \* send[r]: the next hop of each path
  net,       \* datagrams on their way; run: the table a message is from
  runs,      \* runs of zigzagconf so far
  answered,  \* clients that got an answer
  foreign,   \* ports other programs hold
  asked,     \* asked[r]: the last control message wants the return hop filled in
  heard,     \* heard[r]: who sent the first datagram of the forward path since
  renewed    \* renewed[r]: descriptors opened since select returned

routerVars == <<pc, ready, sock, send, asked, heard, renewed>>
envVars    == <<runs, answered, foreign>>
vars       == <<routerVars, envVars, net>>

-----------------------------------------------------------------------------
(* Descriptors.  k is the record sock[r]. *)

Open(k) == {n \in FdNumbers : k.bound[n] # 0}

(* get_port_number: (uint16_t)-1 if there is no socket. *)
PortNumber(k, s) == IF k.fd[s] = NoFd THEN MaxPort ELSE k.bound[k.fd[s]]

Close(k, s) ==
  IF k.fd[s] = NoFd THEN k
  ELSE [fd    |-> k.fd,
        bound |-> [k.bound EXCEPT ![k.fd[s]] = 0],
        queue |-> [k.queue EXCEPT ![k.fd[s]] = <<>>]]

LowestFree(k) ==
  CHOOSE n \in FdNumbers \ Open(k) : \A m \in FdNumbers \ Open(k) : n <= m

InUse(r, k) ==
  foreign \cup Clients \cup {Server, Conf} \cup {k.bound[n] : n \in FdNumbers}
    \cup UNION {{sock[q].bound[n] : n \in FdNumbers} : q \in Routers \ {r}}

(* Variant for mutation: a bind that fails leaves the number of the socket *)
(* closed before.                                                          *)
BindKeepsFd(r, k, s, p) ==
  IF p \in InUse(r, k) THEN k
  ELSE [fd    |-> [k.fd EXCEPT ![s] = LowestFree(k)],
        bound |-> [k.bound EXCEPT ![LowestFree(k)] = p],
        queue |-> k.queue]

(* create_and_bind_udp_socket *)
Bind(r, k, s, p) ==
  IF p \in InUse(r, k)
  THEN [fd |-> [k.fd EXCEPT ![s] = NoFd], bound |-> k.bound, queue |-> k.queue]
  ELSE [fd    |-> [k.fd EXCEPT ![s] = LowestFree(k)],
        bound |-> [k.bound EXCEPT ![LowestFree(k)] = p],
        queue |-> k.queue]

Rebind(r, k, s, p) == IF PortNumber(k, s) = p THEN k ELSE Bind(r, Close(k, s), s, p)

Received(r, s) == Head(sock[r].queue[sock[r].fd[s]])

Dequeue(r, s) ==
  LET k == sock[r] IN
  [fd |-> k.fd, bound |-> k.bound, queue |-> [k.queue EXCEPT ![k.fd[s]] = Tail(@)]]

-----------------------------------------------------------------------------
(* The order in which main opens the sockets. *)
FirstFd == [control |-> 3, forward |-> 4, return |-> 5]

Init ==
  /\ pc = [r \in Routers |-> "select"]
  /\ ready = [r \in Routers |-> {}]
  /\ sock = [r \in Routers |->
       [fd    |-> FirstFd,
        bound |-> [n \in FdNumbers |-> StartPort[r][CHOOSE s \in Sockets : FirstFd[s] = n]],
        queue |-> [n \in FdNumbers |-> <<>>]]]
  /\ send = [r \in Routers |-> [s \in Paths |-> Unset]]
  /\ net = {} /\ runs = 0 /\ answered = {} /\ foreign = {}
  /\ asked = [r \in Routers |-> FALSE]
  /\ heard = [r \in Routers |-> FillIn]
  /\ renewed = [r \in Routers |-> {}]

-----------------------------------------------------------------------------
(* A router: run, one turn of its loop in four steps. *)

(* Variant for mutation: a failure of select goes unnoticed, and leaves all *)
(* descriptors in the set.                                                  *)
ReadyFdsAll(r) == Open(sock[r])

ReadyFds(r) == {n \in Open(sock[r]) : sock[r].queue[n] # <<>>}

(* The socket whose turn is next; k.fd may have changed since select. *)

(* Variant for mutation: at most one data socket is served in a turn. *)
AfterForwardElse(k, fds) ==
  IF k.fd["return"] \in fds /\ k.fd["forward"] \notin fds THEN "return" ELSE "select"

AfterForward(k, fds) == IF k.fd["return"] \in fds THEN "return" ELSE "select"

AfterControl(k, fds) == IF k.fd["forward"] \in fds THEN "forward" ELSE AfterForward(k, fds)

AfterSelect(k, fds) == IF k.fd["control"] \in fds THEN "control" ELSE AfterControl(k, fds)

Select(r) ==
  /\ pc[r] = "select"
  /\ \E n \in Open(sock[r]) : sock[r].queue[n] # <<>>
  /\ ready' = [ready EXCEPT ![r] = ReadyFds(r)]
  /\ renewed' = [renewed EXCEPT ![r] = {}]
  /\ pc' = [pc EXCEPT ![r] = AfterSelect(sock[r], ReadyFds(r))]
  /\ UNCHANGED <<sock, send, asked, heard, envVars, net>>

(* On to s; read_fds lives for one turn of the loop. *)
GoTo(r, s) ==
  /\ pc' = [pc EXCEPT ![r] = s]
  /\ ready' = IF s = "select" THEN [ready EXCEPT ![r] = {}] ELSE ready

(* recvfrom blocks on an empty socket. *)
Receive(r, s) == pc[r] = s /\ sock[r].queue[sock[r].fd[s]] # <<>>

(* update_forwardings, for an entry u of the table. *)
Install(r, u) ==
  LET k1 == Rebind(r, Dequeue(r, "control"), "forward", u["forward"].receive)
      k2 == Rebind(r, k1, "return", u["return"].receive)
  IN  /\ sock' = [sock EXCEPT ![r] = k2]
      /\ send' = [send EXCEPT ![r] = [s \in Paths |-> u[s].send]]
      /\ asked' = [asked EXCEPT ![r] = u["return"].send = FillIn]
      /\ heard' = [heard EXCEPT ![r] = FillIn]
      /\ renewed' = [renewed EXCEPT ![r] =
           {k2.fd[s] : s \in {t \in Paths : PortNumber(sock[r], t) # u[t].receive}}]

(* A message that is not one of zigzagconf has the wrong size. *)
ServeControl(r) ==
  /\ Receive(r, "control")
  /\ IF Received(r, "control").kind = "config"
     THEN Install(r, Overlays[Received(r, "control").run][r])
     ELSE /\ sock' = [sock EXCEPT ![r] = Dequeue(r, "control")]
          /\ UNCHANGED <<send, asked, heard, renewed>>
  /\ GoTo(r, AfterControl(sock'[r], ready[r]))
  /\ UNCHANGED <<envVars, net>>

(* Variant for mutation: every datagram of the forward path sets the return hop. *)
LearnsAlways(r) == asked[r]

(* update_return_path *)
Learns(r) == send[r]["return"] = FillIn

(* Variant for mutation: a hop that was never configured is not noticed. *)
ForwardUnchecked(r, d, hop) ==
  net' = IF hop = FillIn \/ sock[r].fd["return"] = NoFd THEN net
         ELSE net \cup {[d EXCEPT !.to = hop, !.from = PortNumber(sock[r], "return")]}

(* The rest of forward_data: d leaves by the return socket, if the hop is    *)
(* known and there is a socket.                                              *)
Forward(r, d, hop) ==
  net' = IF hop \in {Unset, FillIn} \/ sock[r].fd["return"] = NoFd THEN net
         ELSE net \cup {[d EXCEPT !.to = hop, !.from = PortNumber(sock[r], "return")]}

ServeForward(r) ==
  /\ Receive(r, "forward")
  /\ LET d == Received(r, "forward") IN
     /\ Forward(r, d, send[r]["forward"])
     /\ send' = IF Learns(r) THEN [send EXCEPT ![r]["return"] = d.from] ELSE send
     /\ heard' = IF asked[r] /\ heard[r] = FillIn THEN [heard EXCEPT ![r] = d.from] ELSE heard
  /\ sock' = [sock EXCEPT ![r] = Dequeue(r, "forward")]
  /\ GoTo(r, AfterForward(sock[r], ready[r]))
  /\ UNCHANGED <<asked, renewed, envVars>>

ServeReturn(r) ==
  /\ Receive(r, "return")
  /\ Forward(r, Received(r, "return"), send[r]["return"])
  /\ sock' = [sock EXCEPT ![r] = Dequeue(r, "return")]
  /\ GoTo(r, "select")
  /\ UNCHANGED <<send, asked, heard, renewed, envVars>>

-----------------------------------------------------------------------------
(* zigzagconf, the clients, the server and the network. *)

(* send_overlay_configurations: one datagram to the control port of each router. *)
Configure ==
  /\ runs < Len(Overlays)
  /\ runs' = runs + 1
  /\ net' = net \cup {[to |-> StartPort[r]["control"], from |-> Conf,
                       kind |-> "config", run |-> runs + 1] : r \in Routers}
  /\ UNCHANGED <<routerVars, answered, foreign>>

Ping(c) ==
  LET d == [to |-> Target[c], from |-> c, kind |-> "ping", run |-> 0] IN
  /\ d \notin net
  /\ net' = net \cup {d}
  /\ UNCHANGED <<routerVars, envVars>>

Bound(r, p) == {n \in FdNumbers : sock[r].bound[n] = p}

(* A datagram without a socket to go to, or with a full one, is dropped. *)
DeliverToRouters(d) ==
  /\ sock' = [r \in Routers |->
       LET k == sock[r] IN
       [fd |-> k.fd, bound |-> k.bound, queue |-> [n \in FdNumbers |->
          IF n \in Bound(r, d.to) /\ Len(k.queue[n]) < QueueLimit
          THEN Append(k.queue[n], d) ELSE k.queue[n]]]]
  /\ net' = net \ {d}
  /\ UNCHANGED answered

(* The server answers the sender; a client counts its answer. *)
DeliverToServer(d) ==
  /\ net' = IF d.kind # "ping" THEN net \ {d}
            ELSE (net \ {d}) \cup {[to |-> d.from, from |-> Server, kind |-> "pong", run |-> 0]}
  /\ UNCHANGED <<sock, answered>>

DeliverToClient(d) ==
  /\ answered' = IF d.kind = "pong" THEN answered \cup {d.to} ELSE answered
  /\ net' = net \ {d}
  /\ UNCHANGED sock

Deliver(p) ==
  /\ \E d \in net :
       /\ d.to = p
       /\ \/ p = Server /\ DeliverToServer(d)
          \/ p \in Clients /\ DeliverToClient(d)
          \/ p \notin Clients \cup {Server} /\ DeliverToRouters(d)
  /\ UNCHANGED <<pc, ready, send, asked, heard, renewed, runs, foreign>>

(* Another program takes a port. *)
TakePort ==
  /\ Cardinality(foreign) < MaxForeign
  /\ \E p \in Contested :
       /\ p \notin foreign \cup Clients \cup {Server, Conf}
       /\ \A r \in Routers : Bound(r, p) = {}
       /\ foreign' = foreign \cup {p}
  /\ UNCHANGED <<routerVars, net, runs, answered>>

-----------------------------------------------------------------------------
Serve(r) == Select(r) \/ ServeControl(r) \/ ServeForward(r) \/ ServeReturn(r)

Next ==
  \/ \E r \in Routers : Serve(r)
  \/ Configure \/ TakePort
  \/ \E c \in Clients : Ping(c)
  \/ \E p \in Ports : Deliver(p)

Spec == Init /\ [][Next]_vars

(***************************************************************************)
(* Routers keep running, zigzagconf is run for every table, clients keep   *)
(* pinging, and what is sent to a port is not delayed for ever.            *)
(***************************************************************************)
FairSpec ==
  /\ Spec
  /\ \A r \in Routers : WF_vars(Serve(r))
  /\ WF_vars(Configure)
  /\ \A c \in Clients : WF_vars(Ping(c))
  /\ \A p \in Ports : WF_vars(Deliver(p))

-----------------------------------------------------------------------------
(* Types; every path has its socket or none. *)
SockType ==
  [fd    : [Sockets -> FdNumbers \cup {NoFd}],
   bound : [FdNumbers -> Ports \cup {0}],
   queue : [FdNumbers -> Seq(Datagrams)]]

TypeOK ==
  /\ pc \in [Routers -> Sockets \cup {"select"}]
  /\ ready \in [Routers -> SUBSET FdNumbers]
  /\ sock \in [Routers -> SockType]
  /\ send \in [Routers -> [Paths -> Ports \cup {FillIn, Unset}]]
  /\ net \subseteq Datagrams
  /\ runs \in 0 .. Len(Overlays)
  /\ answered \subseteq Clients /\ foreign \subseteq Ports
  /\ asked \in [Routers -> BOOLEAN]
  /\ heard \in [Routers -> Ports \cup {FillIn}]
  /\ renewed \in [Routers -> SUBSET (FdNumbers \cup {NoFd})]

(***************************************************************************)
(* However often the sockets are rebound, and whichever bind fails, no two *)
(* of control_fd, forward_fd and return_fd name one socket, and none names *)
(* a closed one, although the system gives out closed numbers again.       *)
(***************************************************************************)
NoSharedSocket ==
  \A r \in Routers : \A s \in Sockets :
    LET k == sock[r] IN
    /\ k.fd[s] # NoFd => k.bound[k.fd[s]] # 0
    /\ \A t \in Sockets \ {s} : k.fd[s] # NoFd => k.fd[s] # k.fd[t]

(***************************************************************************)
(* The router enters recvfrom for a socket select has reported only with a *)
(* datagram waiting in it, except for a socket the control message of this *)
(* round has replaced.                                                     *)
(***************************************************************************)
ReadyHasData ==
  \A r \in Routers : \A s \in Sockets :
    pc[r] = s /\ sock[r].fd[s] \notin renewed[r]
      => sock[r].queue[sock[r].fd[s]] # <<>>

(***************************************************************************)
(* A return hop that was to be filled in is the sender of the first        *)
(* datagram read from the forward socket since, and stays it until the     *)
(* next control message, whoever else sends.                               *)
(***************************************************************************)
LearntFirst == \A r \in Routers : asked[r] => send[r]["return"] = heard[r]

(***************************************************************************)
(* Once zigzagconf has run, some client gets an answer through the whole   *)
(* overlay and back, unless another program took a port.                   *)
(***************************************************************************)
Answered == <>(answered # {} \/ foreign # {})

(***************************************************************************)
(* lab6/v1/README.md:134: a control message received is installed.         *)
(***************************************************************************)
Pending(r) == sock[r].queue[sock[r].fd["control"]] # <<>>

ControlServed == \A r \in Routers : Pending(r) ~> ~Pending(r)
=============================================================================
