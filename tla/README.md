# A verification of the CS 536 labs in TLA+

The repository holds six independent lab assignments in C about operating
system processes, sockets and network protocols. This directory holds TLA+
models of the protocols and algorithms in them, TLC configurations that check
small instances, and proofs checked by TLAPS that hold for every value of the
constants. Paths below are relative to `src/`.

Contents: [inventory](#inventory), [plan](#plan),
[roadrunner](#lab4-the-roadrunner-file-transfer),
[audio queue](#lab5-the-playback-queue),
[audio stream](#lab5-the-streaming-protocol),
[zigzag router](#lab6-the-zigzag-router),
[command server](#lab1-the-command-server),
[remote command](#lab2-the-remote-command-server),
[file over TCP](#lab3-the-file-transfer-over-tcp),
[requests and keys](#lab4-requests-and-keys),
[algorithms](#the-sequential-algorithms), [runs](#runs),
[proofs](#proofs), [findings](#where-the-code-departs-from-what-it-says),
[limits](#what-is-not-shown).

## Inventory

What each component keeps, does and depends on, what is hard about it, and what
makes it correct.

**lab1, command parser and shell** (`lab1/lib/parse_command.c`, `lab1/v1`). State: a
table-driven scanner over a line of input and the argument vector it fills.
Sequential; what is hard is how quotes, escapes and blanks meet, above all at the end
of a line. Correct if the arguments are the words of the line, quoted parts included.

**lab1, command server over FIFOs** (`lab1/v2`, `lab1/v3`: `simsh1.c`,
`commandclient.c`). State: one server FIFO that all clients write, in `v3` one
FIFO per client, the forked child that executes a command. Clients and server run
concurrently; several requests can be read in one `read`, a client waits in
`open` for a child that may never open its FIFO, a child that fails returns
into `main` and removes the server's FIFO. Correct if every request is answered on the FIFO
of the client that sent it, and nobody waits for ever.

**lab2, ping** (`lab2/v1`). State: the client's message identifier, its one-shot
`alarm`, the server's read/delay/reply loop. The alarm races `recvfrom`, and the
feedback of an earlier message may arrive in the round of a later one. Correct
if a feedback is reported only for the message it answers.

**lab2, remote command** (`lab2/v2`). State: an iterative TCP server that tosses a
coin to ignore a command, a client that writes the command again on the same
connection after a timeout. A late answer meets a retry; a rejected connection
is not closed; an alarm may be set when it should not be, or not when it should.
Correct if a command runs at most once, the client prints its output, and the
server keeps accepting.

**lab3, file transfer over TCP** (`lab3/v1`). State: the client's file, the stream
position, the server's coin toss. Short reads, blocks cut anywhere, ignored
write errors, two runs in one directory. Correct if the file is the beginning of the
server's at any time and, at the end of a run that succeeds, all of it.

**lab4, roadrunner** (`lab4/lib`, `lab4/v1`): a reliable file transfer over UDP;
[below](#lab4-the-roadrunner-file-transfer).

**lab4, requests and keys** (`lab4/v2`, `lab4/v3`). A request carries a certificate, the
client's address coded with its key; the server looks for a key in `acl.dat` that gives
the address back, and in `v3` codes the file with it by exclusive or (`bbcodec.c`). The
transfer is roadrunner's code. A window is coded in place and then sent any number
of times; the certificate is made from the address of another socket. Correct if the
key found is the client's and what it stores is the file, coded or not.

**lab5, audio streaming** (`lab5`). Client: the circular queue, main (receive,
enqueue, send feedback), the SIGALRM handler (play a frame every 313 ms), a
request timer of 500 ms. Server: a parent that forks a sender per request, its
pacing interval, which feedback packets change, and an end of stream announced
by eight empty datagrams. Interleavings of main and handler on the queue;
repeated requests start two senders; the end of the stream can be lost. Correct
if the bytes played are the bytes accepted, in order, and the client ends.

**lab5, congestion control** (`congestion_controls.c`, `pspacing.c`, `v2/audiocli.c`).
State: the rate, updated for each packet stored from the load of the queue. Sequential
arithmetic with signs, a cut at zero and a conversion to 16 bits before the result is
clamped. Correct if the rate moves the way the load calls for and the interval the
server is told moves against it.

**lab6, zigzag router** (`lab6/v1`). State: two forwarding paths, the learnt return
path, three sockets served by one `select` loop, and a control protocol that
replaces paths and rebinds sockets while they are served. Correct if data goes
to the configured next hop and answers go back where data came from, after any
sequence of updates.

| component | modelled | modules |
|---|---|---|
| lab4 roadrunner | yes | `FileTransfer`, `RoadRunner`, `MCRoadRunner`, `RoadRunnerProofs` |
| lab5 playback queue, signal handler | yes | `AudioFifo`, `AudioQueue`, `MCAudioQueue`, `AudioClientProofs` |
| lab5 streaming protocol | yes | `AudioStream`, `MCAudioStream`, `AudioStreamProofs` |
| lab5 congestion control, packet spacing | yes | `CongestionControl`, `MCAlgorithms`, `AudioClientProofs` |
| lab6 router | yes | `ZigzagRouter`, `MCZigzagRouter`, `ZigzagProofs` |
| lab6 `zigzagconf`, lab2 ping | partly: as the ends of the overlay | the same |
| lab1 command server with answers (`v3`) | yes | `CommandFifo`, `MCCommandFifo`, `ShellProofs` |
| lab2 remote command | yes | `RemoteCommand`, `MCRemoteCommand`, `RemoteCommandProofs` |
| lab3 file transfer | yes | `FileOverTcp`, `MCFileOverTcp`, `FileOverTcpProofs` |
| lab4 request checks, access control, `bbcodec` | yes | `RequestServer`, `MCRequestServer`, `RequestServerProofs` |
| lab1 command parser, shell (`v1`) | yes | `ParseCommand`, `MCAlgorithms`, `ShellProofs` |
| lab1 command server without answers (`v2`) | no: an earlier version of `v3` | |
| lab5 logging, configuration, ALSA; socket helpers | no: plain I/O without protocol state | |

`PROJECT.json` lists the hazards of all components with their lines, those no
property covers yet included.

## Plan

In order of importance:

1. `RoadRunner` implementing `FileTransfer`, with proofs. Done.
2. `AudioQueue` implementing `AudioFifo`, with proofs. Done.
3. `AudioStream`: lab5's request timer, forked senders, feedback and end of
   stream, with proofs. Done.
4. `ZigzagRouter`: the select loop, updates and the return path, with the
   configuration tool and the ping programs at its ends, with proofs. Done.
5. `CommandFifo`: lab1's server, clients and children, with their waiting
   relation, with proofs. Done.
6. `RemoteCommand`: lab2's server, clients, retries, with proofs. Done.
7. `FileOverTcp`: lab3's server, clients and files, with proofs. Done.
8. `RequestServer`: lab4's certificates, keys and coding, with proofs. Done.
9. `ParseCommand` and `CongestionControl`: sequential algorithms, against a reference
   definition and against what they are for, with proofs. Done.
10. Left: ping's alarm and identifiers, which no module has.

Every module declares its parameters as CONSTANTS with a named assumption, has
one action per step between two blocking calls, and uses no RECURSIVE operator,
so that it can be both checked and proved about.

## lab4: the roadrunner file transfer

`rrunnerc` asks for a file; the parent `rrunners` forks a child per request; the
child cuts the file into blocks and windows of at most 64 blocks and sends a
window at a time, again from a new socket after each timeout, until it reads the
one acknowledgement that closes the window. The client collects a window,
appends it to the file and acknowledges it once, the last one eight times.
Sequence numbers are one byte, from a space of two windows.

`RoadRunner` keeps, with one variable for each piece of program state:

| variable | code |
|---|---|
| `client`, `armed`, `clientSeq`, `lastNum`, `isEof`, `slots` | locals of `receive_file_and_cancel_timeout` and `receive_window_and_cancel_timeout` (`roadrunner_client.c`), the interval timer of `run` |
| `file` | the file on disk, as a sequence of windows |
| `sent`, `requests` | requests sent, and those on their way |
| `child`, `window`, `serverSeq` | locals of `send_file` and `send_window` in each child (`roadrunner_server.c`) |
| `net`, `acks` | datagrams in flight; `cur` in a packet says whether the socket it came from is still open |
| `confirmed`, `faults` | history: windows a child got the acknowledgement of, faults so far |

A block is its window, its position and its length. Bytes are left out, but not
lengths, because the client finds the end of the file by length alone: a packet
that is not exactly one block long ends the file, and the server appends a dummy
byte to a last block that is full (`WireLen`).

Actions and handlers: `RequestFile`, `RequestTimeout` (`run` in `rrunnerc.c`),
`ReceivePacket` = `ReceiveStale` (repeat the previous acknowledgement),
`StoreBlock` or `CompleteWindow` (one `recvfrom` and all that follows until the
next), `ReceiveRequest` (fork), `SendWindow`, `AckTimeout`, `ReceiveAck` =
`AcceptAck` or `IgnoreAck`. `ReceiveFails` and `SendFails` are the error returns of
`fopen`, `fwrite`, `sendto`, `recvfrom` and `socket`; `send_file` ignores them for
the windows sent inside its loop, and so does the model (`FailureIgnored`).
`Lose`, the flag `again` and the order in which packets are taken from the set
`net` are the network.

Bounds, all CONSTANTS: `MaxRequests` on requests; `Budget` on losses, duplicates,
premature timeouts and failing calls; `Overtaking` says whether a packet may
arrive after one of a later window of the same child. The number of children is
the number of forks considered.

`FileTransfer` is the promise: deliver the next window, then learn of it. The
refinement mapping takes `written` to the client's file and `confirmed` to the
child's count.

*Fairness* (`FairSpec`): weak fairness of each process's own steps. Nothing else
is asked: a child always comes back from `sendto`, a timer that is set expires,
and a datagram that is not lost stays receivable. No fault is forced, and their
number is finite, without which no such protocol ends.

## lab5: the playback queue

`audiocli` runs main and a SIGALRM handler on one circular queue without a lock.
`AudioQueue` has one action per access of main to the read pointer, because the
handler runs whole between any two of them: `ReceivePacket`, `ComparePointers`
then `AcceptPacket` or `DropPacket` (the two reads of `tail` in `get_queue_load`,
called by `write_queue`), `CheckRoom`, `StoreByte`, `AdvanceHead` (the loop of
`enqueue`), `CompareForFeedback` and `ReportLoad` (the same two reads for
`send_feedback`), `ReceiveEof`, `DrainFrame` and `FinishDrain` (the last loop of
`start_client`), `CallFails` and `DeviceFails` (a failing call of main, a failing
device). `PlayFrame` is the handler. The Makefiles build without optimisation, so
every read of the pointer is a load from memory; the fields are not `volatile`.

A byte is the number of its acceptance, so order, loss and repetition show in
`played`. `callLoad` is a history variable. `MaxBytes` bounds the bytes received.

`AudioFifo` is the promise: bytes enter one at a time, leave a frame at a time,
in order. *Fairness*: the drain loop keeps running; nothing is asked of the
network or of the handler.

## lab5: the streaming protocol

`audiocli` sends a request and repeats it every 500 ms until a packet arrives;
`audiosrv` forks a child per request; a child sends the file block by block,
sleeps for its packet interval after each and then reads one feedback packet, if
there is one; it ends with eight empty packets. The first empty packet, of any
child, ends the stream for the client. `AudioStream` is about these processes and
the network between them; what becomes of a block in the client is `AudioQueue`.

| variable | code |
|---|---|
| `client` | where `start_client` is: `"receive"` before the first packet (request timer), `"stream"` after it (playback timer) |
| `received` | history: the packets `recvfrom` returned, with their sender |
| `sent`, `requests` | requests sent, and those on their way to the parent |
| `child`, `next` | where `send_file` is, and its position in the file |
| `interval` | `packet_interval_ms`, as the number of the packet whose feedback it came from |
| `data`, `feedback` | datagrams under way from and to each child's socket |
| `faults` | history: faults so far |

Actions: `RequestFile`, `RequestTimeout` (SIGALRM interrupts `recvfrom` before the
first packet), `ReceivePacket` = `ReceiveBlock` (which includes `send_feedback`) or
`ReceiveEof`, `ReceiveRequest` (`fork`), `SendBlock` (up to the sleep),
`PollFeedback` (after it), `SendEof`. `ClientFails`, `RequestFails` and `ChildFails` are
the error returns; nobody learns of a child that failed. Packets of one child
arrive in order, unless one overtakes those before it or is duplicated, which are
faults of the network like `Lose`; packets of different children interleave freely.

Bounds: `MaxRequests` on requests, `Budget` on faults of each kind, the number of
children and of blocks. *Fairness*: every process keeps running, a datagram that
is not lost is received, and the request timer, which is periodic, expires while
nothing is under way. Fewer datagrams are lost than empty packets are sent.

## lab6: the zigzag router

A router serves three sockets with `select`. A datagram on the forward socket goes
to the next hop of the forward path, one on the return socket to that of the return
path, and both leave by the return socket; a message on the control socket replaces
both hops and rebinds the sockets whose port it changes. A return hop of 0.0.0.0
port 0 is filled in with the sender of the next datagram of the forward path.
`ZigzagRouter` has any number of routers, `zigzagconf` and lab2's ping at the ends.

| variable | code |
|---|---|
| `pc`, `ready` | where `run` is in its turn, and `read_fds` |
| `sock[r].fd` | `control_fd`, `forward_fd`, `return_fd` |
| `sock[r].bound`, `sock[r].queue` | the kernel's side: the port of each descriptor, and the datagrams waiting |
| `send` | `send_ip` and `send_port` of both paths; `receive_port` is never read and left out |
| `net` | datagrams under way, with the table a control message belongs to |
| `runs`, `answered`, `foreign` | runs of `zigzagconf`, clients with an answer, ports other programs took |
| `asked`, `heard`, `renewed` | history: see `ZigzagRouter.tla` |

Actions: `Select`, `ServeControl` (`update_forwardings`, both rebinds included),
`ServeForward` and `ServeReturn` (`forward_data`): one turn of `run` is up to four
steps, between which datagrams arrive. `Configure` is a run of `zigzagconf`, `Ping` a
message of a client, `Deliver` the arrival of a datagram: at a router's socket, at
the server, which answers the sender, or at a client. `TakePort` is another program
binding a port. All programs run on one host, so an address is a port.

A closed descriptor's number is given out again, lowest first, as POSIX says; that
is what makes the readiness of a replaced socket look valid. `FD_SET` of a
descriptor of -1 is undefined; with the C library in use it sets a bit above those
`select` looks at, which `select` clears, so such a path is never served.

Bounds: `QueueLimit` on the datagrams a socket keeps, `MaxForeign` on ports taken,
the tables in `Overlays`. There is no action for a loss: for safety a datagram that
is never delivered is as good as lost. *Fairness*: routers run, `zigzagconf` is run
for each table, clients ping again and again, and what is sent to a port is
eventually delivered there or dropped for want of room.

## lab1: the command server

A client writes its pid and a command to the server's FIFO, then opens its own FIFO
and reads to the end of file. The server takes what one `read` gives it, up to
`PIPE_BUF` bytes, forks a child for the first request in it and waits for that child.
The child opens the FIFO named by the pid and executes the command with its output
there. Opening a FIFO blocks until somebody opens the other end.

| variable | code |
|---|---|
| `pc`, `size`, `sent` | where `start_client` is (`commandclient.c`), the length of its request, and how many it wrote |
| `answer` | history: the request whose output the client is reading or read last |
| `srv` | where `start_server` is (`simsh1.c`); `"wait"` is `waitpid` |
| `fifo` | whether the server's FIFO still has its name |
| `pipe`, `written`, `taken` | the FIFO's contents as requests, and the byte positions of its two ends |
| `child` | the server's child: before `open`, in it, or executing a command; for which request |
| `cut`, `faults` | history: a `read` took a part of a request; faults so far |

Actions: `Enter` and `Leave` (`fgets`), `OpenServer`, `Write`, `ReadAnswer` for a
client; `ReadRequest` (one round of `start_server` up to `waitpid`, with `Fork`,
`ForkFails` or `ParseFails` at its end) and `Reap` for the server; `ChildOpen`,
`ChildExit` for the child; `Connect` is the moment at which the client's and the
child's `open` return together. `Interrupt` and `InterruptServer` are SIGINT.

Bytes are left out, but not lengths, because a `read` takes bytes and not requests:
those that end within it after the first are dropped, since only what precedes the
first null byte is looked at, and the one it cuts leaves a rest in the FIFO that begins
with another pid, with the pid of nobody, or with no pid at all (`Leftover`). A child
inherits the server's descriptor, so that a client can write to a FIFO whose server has
gone (`HasReader`). The FIFOs themselves are the kernel's and external; they are
never full. `main`'s `open`, which waits for the first client, is part of `Init`.

Bounds: `Sizes` and `ReadSize` in units that stand for bytes, `MaxRequests` per
client, `Budget` on interrupts and on failing forks. *Fairness*: client, server and
child keep running and a command ends; no user has to enter or to leave.

## lab2: the remote command server

A client connects for each command it reads, writes the command and waits two seconds
for output; after that it writes the command again on the same connection, three times
in all. The server serves one connection at a time: it tosses a coin for what a `read`
returned and on heads reads again; on tails a child executes the command with its output
on the connection, the server waits for it and closes.

| variable | code |
|---|---|
| `pc`, `entry`, `attempt` | where `run` and `attempt_write_and_read` are (`rcommandclient.c`), the commands read, the loop's counter |
| `armed` | whether an `alarm` is pending |
| `why` | history: why the client ended |
| `conn[i]` | the connection of a client's nth command: what the server's end is, copies of the command not read, the output on its way, the client's close; history of writes and executions |
| `queue` | connections the kernel keeps for `accept` |
| `srv`, `cur`, `child` | where `run` is in `rcommandserver.c`, `sockfd_full`, and whether a child runs |
| `faults` | history: faults so far |

Actions of a client: `Enter`, `Leave` (`fgets`), `Connect`, `ConnectTimesOut`, `Write`,
`ReadOutput`, `ReadEof`, `ReadReset`, `Timeout` (SIGALRM in `read`), `StrayAlarm` (SIGALRM
in `fgets` or `connect`), `Interrupt`. Of the server: `Accept`, `ReadCommand` (one round of
the read loop, up to `waitpid`), `ReadNothing`, `Reap`, `ChildExit`, `InterruptServer`. What
TCP does on a close is written out, because it decides how a client ends: a descriptor
closed with unread input resets the connection, any other is an end of file. The branches
of the server that go on with `continue` leave the connection's descriptor open
(`"leaked"`), which takes one of `MaxFds`.

Bounds: `MaxEntries` commands of each client, `Backlog`, `MaxFds`, and `Budget` on alarms
that go off before `read` is entered, failing forks and interrupts. *Fairness*: processes
run, an alarm that is set goes off, commands end. The coin may come up heads for ever.

## lab3: the file transfer over TCP

A run of the client connects, writes a request, checks that there is no file of that
name, then reads blocks to the end of the stream and appends each to the file. The
server's parent reads one request at a time and closes the connection, for a bad request
or when a coin says so, or forks a child that sends the file and closes.

| variable | code |
|---|---|
| `pc`, `slot`, `result` | where `run` is in `myftpc.c`, its socket, what `print_statistics` reported |
| `conn[s]` | a connection: which process has the server's end, the request not read yet, units written and read, the client's close |
| `queue`, `srv`, `cur` | connections waiting for `accept`, where `run` is in `myftps.c`, `sockfd_full` |
| `file`, `made` | the file in each directory |
| `overlap`, `missing`, `faults` | history: directories two runs fetched into at a time; units read that `append_file` could not write; kinds of faults so far |

Actions of a client: `Start`, `WriteRequest`, `CheckFile`, `ReadBlock` (`read` and
`append_file`, whose failure is not looked at), `ReadEof`, `ReadReset`, `Interrupt`. Of the
parent: `Accept`, `RejectRequest`, `ServeRequest`, `InterruptServer`; of a child:
`SendBlock`, `FinishSend`, `ChildFails`. Blocks are cut by the server's block size,
which `send_file` takes as 16 bits (`Chunk`), and by what a `read` happens to return: TCP
keeps no boundary between them.

A connection both ends have closed is free again, so clients run any number of times in
finitely many states. Bounds: `NumSlots` connections at a time, `Backlog`, `MaxFaults`
on how many kinds of failure a behaviour has, each any number of times. *Fairness*:
processes run; for `Fetched` alone, a client is run again and again and the coin is not
against it each time.

## lab4: requests and keys

`RequestServer` is what `v2` and `v3` add around the transfer, and takes the transfer as
one packet. The client codes its address with its private key and repeats the
request until a packet arrives. The server takes the first key of its list that gives
the address back, and forks a child; in `v3` the child codes the window with that key
once and sends it until it is acknowledged, and the client decodes what it stores.

| variable | code |
|---|---|
| `acl`, `keys` | `acl.dat`, and `public_keys` as `load_public_keys` fills it: every second word; a list with a word left over ends the server |
| `present`, `server` | whether the file is there, and where `main` is in `rrunners.c` |
| `pc`, `file` | where `run` is in `rrunnerc.c`, and what it has written |
| `requests`, `packets` | datagrams under way; any may be lost, overtaken or read twice |
| `children` | children that send, with the key and the window as coded |
| `stray`, `faults` | history: clients whose address lookup failed or gave another address; failures so far |

A word is the set of its bits that are 1, so exclusive or is the symmetric difference and
holds its algebra at any width; a byte is a word cut to its low bits (`bbencode_data`).
`v2` and `v3` differ in `Coding`. Actions: `StartClient`, `RequestFile`,
`RequestFileAstray` (`get_udp_host_ip` fails unnoticed, or finds another address),
`RequestTimeout`, `ReceivePacket`, `InterruptClient`; `StartServer`, `RejectRequest`,
`ServeRequest`, `ForkFails`, `InterruptServer`; `SendWindow`, `ChildEnds`; `Lose`.

Children with the same window are one record, so a client may repeat its request
without bound. *Fairness*: processes run and timers go off; a datagram sent again and
again comes through, packets among them while the client waits, which it does
all the time but for the instant in which it repeats the request.

## The sequential algorithms

`ParseCommand` is lab1's shell and its parser, a character at a time through the
table `TRANSITIONS`. Its promise `Arguments(line)` is said of the line as a whole: which
characters are literal, quoted or separate words, and what the words are. Characters
are a few letters, the blank, the quote, the escape and the newline.

`CongestionControl` is the update of the rate and the interval sent to the server
(`send_feedback`). Rates are integers in units of 1/`Scale` bytes per second, with `Scale` a
multiple of all denominators, so the arithmetic is exact. The load is any value up to
`MaxLoad`, which is above the queue's capacity because `get_queue_load` can return more
than that (see `AudioQueue`). A rate whose interval does not fit 16 bits makes the
conversion undefined; then any of the low 16 bits, 0 and the longest interval may come
of it.

`MCAlgorithms` puts both in one run, in which one steps while the other is idle.

## Runs

| run | instance | shows |
|---|---|---|
| `rr_one` | one child, 4 windows of 2 blocks, full last block, 2 losses, 1 duplicate, 1 premature timeout, up to 3 requests, 3 final acknowledgements | `FileIntact`; `TransferImplemented` (refinement with liveness); `BothTerminate` |
| `rr_many` | two children (symmetric), 3 windows, a last window of one short block, overtaking, 1 premature timeout, 1 failing call | `NoRunAhead`, `ParityKept` |
| `rr_eof` | one window of 2 blocks, short last block, one loss | `FileIntact` is violated |
| `aq_queue` | queue of two frames of 2 bytes, packets of 1 to 3 bytes, 9 bytes | `NeverHalfWritten`, `FifoImplemented`, `DropExplained`, `DrainEnds` |
| `as_stream` | two children, 2 blocks, 2 empty packets, 2 requests, one fault of each kind (loss, duplicate, overtaking, premature timeout, failing call) | `SenderOrder`, `SomeoneComplete`, `OwnFeedback`, `StreamEnds` |
| `zz_overlay` | two routers, two clients, one table that moves one router's ports and keeps the other's, queues of 1, one port contested | `NoSharedSocket`, `LearntFirst`, `Answered` |
| `zz_blocked` | one router, one client, three tables of which the second moves the forward port | `ControlServed` is violated |
| `cf_server` | two clients, 2 requests each, sizes 1 to 3 where a read takes 2, one interrupt, one failing `fork` | `OwnAnswer`, `NameKept`, `LostBehindAnother`, `ServerFree`, `Answered` |
| `rc_retry` | a client admitted, 2 commands, and one refused, 1 command; 2 attempts; a queue of 1, 2 descriptors; one late alarm, failing fork and interrupt each | `TypeOK`, `ExecutedOnce`, `OutcomeExplained`, `LeakExplained`, `ClientReturns`, `QueueServed` |
| `ft_fetch` | two clients in one directory, one of which asks for whatever there is, 2 connections, a file of 2 units, server blocks of 1 and client blocks of 2, one kind of fault | `TypeOK`, `BeginningKept`, `ReportTrue`, `RunEnds`, `Fetched` |
| `rq_keys` | two clients, five lists (both after a foreign key; one with the other's key beside another address; one with the other's address beside another key; one cut short; none), the file there or not, words of 2 bits and bytes of 1, one failing call | `TypeOK`, `OwnKey`, `FileDecoded`, `ListedServed` |
| `al_both` | all lines up to 5 characters; 3 updates with each method from 3 rates, every load, 0 to 3 parameters given | `ArgumentsExact`, `ControlTypeOK`, `RateFollowsLoad`, `IntervalFollowsRate` |

The type invariants of the first five modules of the plan and of the parser, and
`LoadNeverLow` and `ReadyHasData`, are proved for every instance, and no run repeats
them. The runs of the others check theirs although they are proved as well.

Why the bounds are enough for the interesting cases. Four windows use every
sequence number twice over, so a packet delayed by two windows meets its own
number again. Two blocks to a window separate its first, its last and a
reordering inside it. Two losses may hit a packet and its retransmission, or a
packet and an acknowledgement; they are fewer than the three final
acknowledgements, which is what termination of the child needs. Two children are
the fewest that disagree; their run needs no losses, since a packet that is never
received is as good as lost where safety is concerned. The requests `rr_one` sends
beyond the first find no child left to serve them. In the queue, nine bytes go round an array of five almost twice, so
that either pointer wraps while the other has and has not; a packet may be
smaller than a frame, equal to it or larger. In the stream, two children of two
blocks each can be at any two places of the file when the other's end arrives, and
a lost request or a lost empty packet leaves exactly one to go on with. Two routers
are the fewest of which one learns its return hop and the other is told it; two
clients race to be the one learnt; the contested port makes the first rebind fail or
succeed. With sizes 1 to 3 and reads of 2, two short requests fit one read, a short and
a full one are cut, and a request of 3 is too long to be written; two requests each
let a client's second meet what is left of the other's first.

Two attempts are the fewest with a copy left unread; a second command is what an alarm
left over from the first can hit; two descriptors can both be leaked, by the client
refused and by the other, or by one of them twice. Two runs in one directory are the
fewest that both find no file, and a third run of either meets what they left; server
and client blocks differ, so a read returns less than a block, a whole one or two. In
`rq_keys` the first key of the longest list is nobody's, so the search has to
pass it; one client's key has no bit of its address and the other's has all. Five
characters hold a quote, an escape and a blank in any order with a letter before or after; three updates pass zero and come back.

What the properties mean:

- `FileIntact`: the client's file is at any time the beginning of the server's,
  lengths included.
- `TransferImplemented`: windows are delivered one by one and each is confirmed
  before the next, and the file is eventually complete.
- `BothTerminate`: the client always ends; the child ends too, if no timeout was
  premature. A premature timeout during the last window closes the socket that all
  final acknowledgements go to, and nobody answers the child any more.
- `NoRunAhead`: no child counts a window as received that the client has not
  written, with any number of children and overtaking.
- `ParityKept`: what the sequence space guarantees even with two children: a block
  lands at its own position, in a window an even number away from its own.
- `LoadNeverLow`, `NeverHalfWritten`: the load main computes errs only upwards,
  and a packet accepted is never cut off in the middle.
- `FifoImplemented`: the unlocked queue is a FIFO.
- `DropExplained`: a packet is dropped only if it does not fit, or if the handler has
  wrapped `tail` between the two reads of the load.
- `DrainEnds`: at the end of the stream everything is played but less than a frame,
  and the client ends unless such a rest is left.
- `SenderOrder`: the blocks of one child are received in file order and at most
  once, as long as the network neither duplicates nor reorders.
- `SomeoneComplete`: whichever child ends the stream, one of them has delivered
  the whole file by then, if nothing was lost or overtaken.
- `OwnFeedback`: two children never pace each other.
- `NoSharedSocket`: after any update, with whichever bind failing, the descriptors
  of a router are open and different.
- `ReadyHasData`: what `select` reported holds when the socket's turn comes, except
  for a socket the control message of the same turn replaced. `ControlServed` is
  what that exception breaks: a control message received is served.
- `LearntFirst`: the return hop is the first sender heard since it was asked for.
- `Answered`: some client's ping makes it through all routers to the server and
  back, unless a port was taken.
- `OwnAnswer`: what a client reads is the output of its own latest command, and not
  what is left of an earlier one or another client's, unless a request was cut.
- `NameKept`: no child takes the server's FIFO away from new clients, unless a
  client was stopped with its request under way or a request was cut.
- `ServerFree`: the server gets out of `waitpid`: the client it waits for through its
  child is on its way to read, although the two open the FIFO in either order.
- `Answered`: a request in the FIFO or with a child is answered, or dropped.
- `LostBehindAnother`: a client waits for a request that is nowhere only if the request was
  taken together with another's, or for a failed fork or the end of the server.
- `StreamEnds`: the client gets out of `recvfrom` unless a call failed.
- `ExecutedOnce`: a command entered once runs at most once, however often it was
  written, and only if the client and the command are allowed.
- `OutcomeExplained`: a client back at its prompt has its output or has given up; one that
  was reset had written a copy the server did not read; one that died of an alarm had a
  command without output before. A failing fork or the server's end excuse the rest.
- `LeakExplained`: only refused clients, refused commands and clients that gave up cost the
  server a descriptor; a command that was executed never does.
- `ClientReturns`, `QueueServed`: a client that writes gets back to its prompt, whoever else
  the server is busy with, and whoever waits is accepted, unless an alarm went off too
  early (client and server then wait in `read` for each other) or the descriptors are used up.
- `BeginningKept`: a directory holds a beginning of the server's file wherever the
  stream is cut, whoever fails and however often clients are run, unless two runs fetched
  into it at a time or the disk refused a block.
- `ReportTrue`: a run that reports bytes reports the whole file, unless a child failed or
  the server was stopped, which look like the end of the file to the client; and what it
  reports is in the file, each byte once and in order (`AllBut`), unless two runs fetched
  at a time. Nothing is missing from the file but blocks the disk refused, and no later
  run takes anything from it or adds to it.
- `RunEnds`, `Fetched`: every run ends, and some run in the end leaves the whole file.
- `OwnKey`: the key found for a certificate is its client's, even with other keys before
  it, and only clients the list admits are served, that is with their address and their key
  in one pair. Named exceptions are a client whose key is listed with another address
  (`ListedElsewhere`), and one whose certificate is of an address not its own (`stray`),
  which gets a listed key at most. A client whose address is listed with another key is
  not served.
- `FileDecoded`: what is stored is the file, however often a window was sent, unless the
  client coded another address than its own.
- `ListedServed`: a client listed with its address and its key gets the file, whenever the
  server starts.
- `ArgumentsExact`: the arguments are the words of the line, with the exception in the
  findings.
- `RateFollowsLoad`: with too little in the queue the rate does not fall, with too much it
  does not rise, as long as the term for the net influx does not say otherwise, and at the
  target a correction does not overshoot.
- `IntervalFollowsRate`: the interval never moves with the rate, zero and the longest
  interval included.

The runs switch deadlock checking off, because the programs end. Premature
ends are what `BothTerminate`, `TransferImplemented`, `DrainEnds`, `ClientReturns` and
`RunEnds` are about.

Each module has variants of some definitions, marked "for mutation": plausible bugs
(a sequence space of one window, an acknowledgement per packet, a timer whose
handler restarts the call, a queue without its free slot). Substituted for the
definition, each makes TLC report the property that `PROJECT.json` pairs with it.

## Proofs

All theorems hold for every value of the constants that satisfies the assumptions named
in its module: `ConfigAssumption`, `QueueAssumption`, `StreamAssumption`,
`OverlayAssumption`, `FifoAssumption`, `RemoteAssumption`, `FileAssumption`; `Bits`-,
`Hosts`-, `Lists`-, `Content`- and `SwitchAssumption` of `RequestServer`; `Sizes`-,
`Gains`-, `Start`- and `ScaleAssumption` of `CongestionControl`; and `MaxLenAssumption` of
`ParseCommand`.

`RoadRunnerProofs`: `TypeCorrect` and `ServerNeverRunsAhead`. `NoRunAhead` is not
inductive: that an acknowledgement stands for a written window depends on which numbers
can be on their way. `IInv` adds: a client that may still repeat its request is fresh
(`FreshInv`); both ends number their window by its parity (`SeqInv`); a child confirms
no more than the windows it left (`ProgressInv`); a packet that can still be answered
carries its child's current numbers (`PacketInv`), since a new socket and a new attempt
go together; and an acknowledgement inside a child's current window implies that the
client is ahead of that child (`AckInv`). The step from `AckInv` to `NoRunAhead` is
where the parity argument is used: equal counts would mean equal parity, and a client
that collects a window has only acknowledged the other half of the space.

`BlocksInPlace`, of any number of children, losses and failing calls, is `ParityKept`:
what is written at a place comes from that place of a window of the same parity. `KInv`
adds to `IInv` that the number of a packet tells its place and, while every call
succeeds, the parity of its window (`NumInv`); that what the client has collected was
numbered for its slot (`SlotInv`); and that without errors a child has confirmed just
the windows it left (`NoSkipInv`), so that a child's parity is that of its windows. A
call that fails makes a child skip a window, which is why the property keeps only the
place then.

The rest of `RoadRunnerProofs` is under `OneTransfer` (one child, no overtaking, no
failing call): `OrderKept` (`BlocksInOrder`: `FileIntact` without lengths),
`FileStaysIntact` (with `Exact`: the last block is full or alone in its window) and
`Implementation` (every step is a step of `FileTransfer` or a stutter). `JInv` adds to
`IInv` that client and child are at most one window apart (`LagInv`), that whatever is
in flight is of the client's window or the one before (`FlightInv`), what the buffer
holds and when the end of the file is known (`BufferInv`), and that what is written is
the source (`FileInv`). The conditions are necessary: a second child breaks the order
(`BlocksInPlace` is what remains of it), and `rr_eof` drops `Exact`.

`AudioClientProofs`: `QueueTypeCorrect`, `LoadIsSafe`, `PacketsStayWhole`,
`QueueIsFifo`. `QInv` says that the room left is enough for what is left of the packet
(`RoomInv`), that a comparison which found `head` not behind `tail` stays true as the
handler moves `tail` only towards `head` (`CompareInv`), and that the array between the
pointers holds consecutive numbers (`OrderInv`). The handler can only make room, which
is why reading `tail` without a lock is safe on one side. `DropsExplained` is
`DropExplained`: a packet is dropped if the queue had no room for it when `write_queue`
was called, or if the handler wrapped `tail` in between. It rests on `CallInv`: until
the decision the load is at most what it was at the call.

Of the congestion control it shows `ControlTypeCorrect`, `RateFollows` and
`IntervalFollows`, for the methods C, D and E and any gains. That the proofs do not need
the divisions of rates to be exact, only monotonic, comes from lemmas about floor
division (`DivFacts` to `DivOrder`), which say what a quotient is by what it is
multiplied to. `IntervalInv` says that between two updates the interval is that of the
rate, unless the conversion overflowed; without it the interval of the step before could
not be compared.

`AudioStreamProofs`: `StreamTypeCorrect`, `StreamOrdered`, `StreamComplete`,
`FeedbackIsOwn`. The invariant adds to the properties: before the first request no child
runs (`StartInv`); feedback under way answers a packet of the child it goes to
(`FeedbackInv`); what is under way from a child is in file order, behind what was
received from it, and behind it come only empty packets (`OrderInv`); while nothing is
lost, every block a child has sent is received or under way (`CompleteInv`). The empty
packet at the head of a channel then stands for a whole file received. That removing an
element keeps the order of the others (`WithoutOrder`) is the lemma losses and
overtaking rest on.

`ZigzagProofs`: `ZigzagTypeCorrect`, `DescriptorsDistinct`, `ReadySound`,
`FirstSenderLearnt`. `NoSharedSocket` is not inductive: without `Sound`'s last part,
that no socket is open which no variable names, an update might find no free number.
`TurnInv` strengthens `ReadyHasData` to all sockets still to be served in the turn
(`Remaining`), not only the next: serving one takes a datagram from its own queue alone,
because descriptors differ, and an update leaves the queue of a path whose port it keeps
alone (`RebindFacts`, `InstallFacts`). The control socket is served first, so nothing is
renewed before it. Deliveries only add to queues.

`ShellProofs`, of the server: `FifoTypeCorrect`, `AnswersAreOwn`, `NameIsKept`. While nothing was
cut, every request in the FIFO names its own client, is its client's latest and the only
one of that client about (`RequestInv`), and the same is true of the child's
(`ChildInv`); the client still waits for it, unless it was interrupted. So a child finds
the FIFO it looks for, and whoever opens it reads the answer to its latest request. A
read that cuts a request breaks the invariant, which is why both properties except it;
an interrupt takes the FIFO a child looks for away, and `NameKept` excepts that too.
`LossExplained` is `LostBehindAnother`: a request that is lost was in the FIFO behind
the one the server took, within the read. `EndsInv` says that the ends of the requests
grow along the FIFO up to what was written, and `LeftoverEnds` that cutting a request
keeps its end.

Of the parser `ShellProofs` shows `ParserTypeCorrect` and `ArgumentsAreWords`, for lines
of any length. `Arguments` says what the arguments are of the line as a whole, with a
recursive function (which characters are literal), a count (which are quoted) and sets
put in order; the parser goes through a table. `ReadInv` relates them at every position:
the state is that of the line (`StateOf`: whether the last character separates, escapes
and stands in quotes), and the words of the part read (`WordsTo`) are the arguments,
followed by the one the parser is in, if it is in one. `CharFacts` shows the table right
one entry at a time; `WordsSkip`, `WordsBegin` and `WordsGrow` say what a character does
to the words. Induction over the line is done by the steps of the parser; where a lemma
needs it (`LiteralExists`, `OrderExists`, `OneOrder`) it takes the least counterexample,
which `Smallest` provides.

`RemoteCommandProofs`: `RemoteTypeCorrect`, `AtMostOnce`, `OutcomesExplained`,
`LeaksExplained`. The three properties speak of a client's end and of the server's log;
`IInv` connects them through the connection. Of a connection, `ServedInv` and
`ClosedInv` say what its state means for the copies that are unread and for the output,
`RunsInv` and `LeakInv` are `ExecutedOnce` and `LeakExplained` of it; `ServerInv` says
what is true while the server waits for its child: another copy that is unread was
written after the one it executes. `QueueInv` says that a connection is accepted once,
without which it could run twice. Of a client, `WritesInv` counts the copies it wrote by
its attempts, `AlarmInv` and `EntryInv` say where an alarm and a connection were left
over from the entry before, and `OutcomeInv` is `OutcomeExplained` with what the client
knows when it gives up. `Excused` is stable, so that explanations stay true after the
client has ended.

`FileOverTcpProofs`: `FileTypeCorrect`, `BeginningStays`, `ReportsAreTrue`. That a file
is a beginning of the source needs that one run has appended all it read from its
connection, but for what the disk refused, and nobody else appended (`FileInv`), which
`overlap` excepts; that the connection is its own and it has not closed it (`OwnerInv`);
that nothing is read that
was not sent, and that a connection whose end is seen was closed after all of the file
or nothing, unless a child failed or was killed (`ConnInv`); and that no connection is
accepted twice (`QueueInv`). `ReportsAreTrue` needs the third part of `ConnInv`, as an
end of file looks the same after a whole file and after a child that died, `FileInv` at
the moment of the report, and `ReportInv` from then on: once bytes were reported there is
a file, so nobody fetches into the directory again. That a block appended extends what the
file has, and one refused extends what it lacks, are the lemmas `UnitsConcat`,
`UnitsAppended` and `UnitsAdded`.

`RequestServerProofs`: `RequestTypeCorrect`, `KeyIsClients`, `ContentArrives`. The
algebra is in four lemmas: exclusive or undoes itself (`XorTwice`); what a certificate
is of, only one key opens (`XorCancels`); bits above a byte do not matter (`CutTwice`);
decoding undoes coding for any word as a key (`DecodeEncode`). `FirstEntryMatches` says
that the server's search finds an entry that matches, `KeyHasPair` that a key found is
listed with some address, the client's own or another. `IInv` adds that the keys are the
second column of the list (`KeysInv`), that a certificate is of the address of who made
it (`RequestInv`), and that windows are coded once, with the key of the child and of the
client (`ChildInv`, `PacketInv`); clients that made a certificate from an address not
theirs (`stray`) are excepted.

Every safety invariant and action property of the passing runs is thus proved. Only
model-checked is everything temporal with fairness (`TransferImplemented`'s liveness,
`BothTerminate`, `DrainEnds`, `StreamEnds`, `ServerFree`, `ClientReturns`, `QueueServed`,
`RunEnds`, `Fetched`, `ListedServed` and both properties named `Answered`), which the
provers used cannot express.

## Where the code departs from what it says

1. `lab4/lib/roadrunner_client.c:124` (run `rr_eof`). The last block of a window is
   written with the length of the packet that completed the window. If a full block
   of the last window is lost and sent again after the short last block arrived,
   the file ends in bytes beyond the end of the source.
2. `lab6/v1/zigzagrouter.c:229` (run `zz_blocked`). A control message that moves a
   port replaces the socket while `run` still goes by the `read_fds` of the last
   `select`. If the old socket had a datagram, `forward_data` enters `recvfrom` on the
   new, empty one and blocks, and control messages wait with it until someone sends to
   the new port. `lab6/v1/README.md:134` has every control message received installed.

In the following places a passing run checks exactly what the code does, and the
property names the departure as its exception:

- `lab4/v1/rrunners.c:131` (`ParityKept`). A repeated request forks a second child.
  `lab4/v1/README.md:76` bases correctness on a sequence space of two windows, which
  is enough for one sender only: the slower child's window k is taken for k + 2.
- `lab5/lib/audio_client.c:240` (`DropExplained`). The comment above it calls the load
  "off by one (not up-to-date)" at worst. When the handler wraps `tail` between the
  comparison and the subtraction of `get_queue_load`, the load is too high by the
  length of the whole array and a packet that fits is dropped.
- `lab5/lib/audio_client.c:154` (`DrainEnds`). `lab5/v1/README.md:136-139` says
  that less than a frame counts as an empty queue. The drain loop waits for a load of
  0 and never ends when the stream leaves a rest.
- `lab1/v3/simsh1.c:39` (`LostBehindAnother`). The server executes the first request of what
  a `read` returned and drops the others, whose clients wait in `open` for ever.
  `lab1/v3/README.md:117-119` says that the reader consumes commands from multiple
  writers and writes the results back.
- `lab2/v2/rcommandserver.c:93`, `:107`, `:109` (`LeakExplained`). `continue` leaves the
  connection open; when the descriptors are used up nobody is served any more.
- `lab2/v2/rcommandserver.c:147`, `rcommandclient.c:49` (`OutcomeExplained`). A copy of a
  command that was written after the server's last `read` turns its `close` into a reset,
  which ends the client even if the command ran. After an end of file without output the
  alarm stays set and ends the client at its prompt.
- `lab1/lib/parse_command.c:125` (`ArgumentsExact`). After two blanks at the end of a line
  the last action is `IGNORE` and the last argument is added a second time.
- `lab5/lib/pspacing.c:8` (`IntervalFollowsRate`). The interval of a rate under one packet in
  65.5 s is converted to 16 bits before it is clamped.
- `lab4/lib/access_control.c:64` (`OwnKey`). `acl.dat` lists pairs of an address and a key,
  and `lab4/v2/README.md:109-112` and `:134-136` have a request dropped whose address is
  not listed. Only the keys are looked up, so a client whose key is listed with another
  address is served (`ListedElsewhere`).
- `lab3/v1/myftpc.c:102` (`ReportTrue`). The result of `append_file` is ignored. With the
  disk full a run goes on, reports the bytes it read and leaves them out of the file;
  `lab3/v1/README.md:17-20` takes the time of the report after the last byte was written to
  disk.

## What is not shown

- Contents of blocks and packets: a block is identified, not stored. That `memcpy`
  and `fread` move the right bytes is not modelled.
- Time: a timer may expire when nothing it waits for is under way, or prematurely
  within the budget. A timeout configured as 0 (no timer) is left out.
- Empty files: the type and `NoRunAhead` theorems cover them (`LastCount = 0`), the
  liveness runs do not. The code does not transfer them: a window of no packets waits
  for the acknowledgement 255, which nobody sends (`roadrunner_server.c:89`).
- Requests for a file that is not there: `RequestServer` and `FileOverTcp` reject them;
  the other models of lab4 and lab5 request a file that exists.
- The feedback's value in `AudioStream`, which says whose feedback a child uses;
  `CongestionControl` says what it is. The two are not composed. Rounding of long doubles
  and a method index out of range are left out.
- The order of audio packets: they carry no number, and one that is overtaken is played
  in the wrong place. `SenderOrder` excepts overtaking.
- A list of keys longer than 1024 bytes or 100 entries.
- The log: `is_first` is tested and cleared by main and by the handler
  (`lab5/lib/logger.c:10`).
- Ping's alarm, which may go off before `recvfrom` is entered, and the identifier of a
  datagram too short to decode (`lab2/v1/mypingcli.c:72-75`): a client here has neither.
- A table that asks for port 65535, which `get_port_number` returns for a path without a
  socket (`lab6/v1/socket_utils.c:84`).
- A lost control message, or two tables overtaking each other: `Answered` is about
  one table that arrives. The deadline and the message identifiers of ping are left
  out; a client here pings for ever.
- A request too long to be written (`commandclient.c:51`), whose client waits for ever,
  is in `CommandFifo` but no property promises anything for it. Commands that never
  end, or that read the terminal, are left out.
- Configuration files, argument parsing, printing, logging.
- Signal delivery inside library calls that are not async-signal-safe.
- lab1's `v2` server, an earlier version of `v3`: it splits a read into lines and its clients
  wait for nothing.
