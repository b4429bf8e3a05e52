# TLA+ models of the Microchip TCP/IP stack for the CH32V307

This directory holds TLA+ modules that model the program in `src/` from the Ethernet
driver's descriptors to the pages of the web server, TLC configurations that check
them on small instances, and TLAPS proofs, for all values of the constants, of every
safety property that is checked to hold. `PROJECT.json` maps each definition to the lines it
stands for, and lists components, runs, seeded faults, hazards, findings and theorems.

    tlc -config TCPSocket_transmit.cfg MCTCPSocket     # one run; see section 3
    tlapm TCPSocketProofs.tla                          # one set of proofs

## 1. The system

The stack runs on one core without an operating system. `main()` (`App/MainDemo.c`)
calls `StackTask()` and then `StackApplications()` forever; nothing else runs
except two interrupts (the tick timer and the Ethernet MAC's) and the DMA engine. Every
handler runs to completion. What makes it hard is not preemption but the order of calls
and frames: every function may find the state that any other sequence of calls,
segments and timeouts left, and several objects are shared by callers that do not
know of each other.

Configuration (`App/TCPIPConfig.h`): DHCP client, ICMP server, HTTP2 server with
two connections, NBNS, MPFS2 in serial flash; no SSL, no DNS, no HTTP authentication,
and `STACK_CLIENT_MODE` undefined, so all TCP sockets are servers and `SYN_SENT`,
`GET_DNS_MODULE`, `CLOSED_BUT_RESERVED` and the like cannot be reached.

| Component | State it keeps | Operations | Interacts with |
|---|---|---|---|
| TCP connection (`TCP.c`) | per socket a `TCB_STUB` in RAM and a `TCB` in "TCP RAM" | API (`TCPPut`, `TCPGet`, `TCPFlush`, `TCPDisconnect`, ...), `HandleTCPSeg`, `TCPTick`, `SendTCP`, `CloseSocket` | IP and MAC below, HTTP2 above, Tick for its timers |
| TCP receive FIFO (`TCP.c`) | ring pointers, one hole of out-of-order data, the border to the transmit FIFO | `HandleTCPSeg` (store), `TCPGetArray`, `TCPAdjustFIFOSize` | HTTP2 moves the border |
| TCP accept queue (`TCP.c`) | `TCBStubs[]` states and hashes, `SYNQueue[3]` | `FindMatchingSocket`, `TCPTick`, `TCPOpen`, `TCPDisconnect` | every remote node |
| DHCP client (`DHCP.c`) | `DHCPClient`: state, lease, server, temporary address | `DHCPTask`, `_DHCPReceive`, `DHCPReset`, `DHCPEnable`, `DHCPDisable` | a UDP socket, `AppConfig`, `StackTask` |
| Stack task (`StackTsk.c`) | `smStack`, `AppConfig`, the sender of the last frame | link check, DHCP step, timers, dispatch of frames | everything |
| UDP sockets (`UDP.c`) | port table; one `activeUDPSocket`, `UDPTxCount`, `SocketWithRxData` for all | `UDPOpen`, `UDPPut`, `UDPFlush`, `UDPProcess`, ... | DHCP, NBNS, applications, MAC |
| Ethernet MAC driver (`ETH32V307.c`) | two rings of descriptors shared with the DMA engine | `MACIsTxReady`, `MACFlush`, `MACGetHeader`, `MACDiscardRx` | DMA engine, IP, ARP |
| ARP (`ARP.c`) | two-state responder, remembered target | `ARPProcess`, `ARPPut` | MAC |
| IP, ICMP server, NBNS server | the length of the last IP header; NBNS its socket | `IPGetHeader`, `IPSetRxBuffer`, `ICMPProcess`, `NBNSTask` | MAC, UDP |
| Tick (`Tick.c`) | counter of the interrupt, 48-bit copy | `GetTickCopy`, ISR | every timer |
| HTTP2 server (`HTTP2.c`) | per connection `smHTTP`, timeouts, a record; one record in the work area | `HTTPServer`, `HTTPProcess`, `HTTPLoadConn`, `HTTPMPFSUpload` | TCP, MPFS2, callbacks of the application |
| MPFS2 (`MPFS2.c`) | file handles, the lock, the image | `MPFSOpen`, `MPFSGetArray`, `MPFSFormat`, `MPFSPutEnd`, ... | HTTP2, serial flash |
| Settings (`Parameters.c`) | a journal over the sectors of the flash, `AppConfig` | `InitAppConfig`, `SaveParameters`, `LoadParameters`, `ClearParameters` | serial flash, `HTTPPostConfig` |
| Helpers, board support, vendor library, modules switched off | | see section 7 | |

### What is hard, and what makes each part correct

* **TCP connection.** Segments may be lost, repeated, late and reordered; `MySEQ`,
  three FIFO pointers and two FIN flags must agree after every retransmission,
  fast retransmission and old acknowledgement; the timer must run whenever
  something is outstanding and be given up in the end; a socket is used again and
  again. Correct means: the remote node gets the application's bytes in order; what
  is acknowledged was received; states follow RFC 793; nothing of one connection
  reaches the next; a dead remote node does not keep a socket.
* **TCP receive FIFO.** One hole may stay open while text overlaps, repeats and
  wraps, and the border may move under it. Correct means: pointers stay in the
  buffer (the next socket's TCB lies behind `bufferEnd`), the bytes offered to the
  application are the bytes sent, none is lost by a resize.
* **TCP accept queue.** Sockets listen, connect and listen again inside the very
  loop that searches the queue. Correct means: neither a listening nor a connected
  socket is lost to the search, the queue stays compact and free of repetitions,
  and a request that is young and could be served is not dropped.
* **DHCP client.** Answers of several servers, and answers to other clients, may
  arrive in any of five waiting states, while the link comes and goes and UDP
  sockets run out. Correct means: the address in use was granted by the server
  asked, the socket is neither leaked nor used when closed, and no wait is endless.
* **UDP sockets, ARP, ICMP, NBNS in the main loop.** One transmit buffer and one
  received packet, with one position in each, serve every protocol. Correct means: a
  reader reads the packet that came for it, a datagram holds what its task wrote and
  nothing else, and a packet a socket took waits until its task has had a turn.
* **Ethernet MAC driver.** The DMA engine fetches and hands back descriptors between any
  two accesses of the program. Correct means: two queues of frames, in order, without
  loss or overwriting, and an engine that never sleeps while it has work.
* **Tick.** The timer may overflow between the reads of its two halves. Correct means:
  the time returned is a time that passed during the call.
* **HTTP2 and MPFS2.** Two connections take turns, each with a state machine that may be
  left in any state for want of data, room or a client, sharing one record, one pool of
  handles and one image that may be replaced while it is served. Correct means: a
  client receives exactly the answer to its request, handles belong to their
  connection, an image comes from one upload, every request ends.
* **Settings.** The power may fail between any two flash commands, during a repair as
  well. Correct means: a boot never brings anything but the last saved settings or those
  that were being saved.

## 2. The modules

| Module | Models | Extends |
|---|---|---|
| `TCPReassembly` | length and hole arithmetic of `HandleTCPSeg()`, pure operators shared by the next two | |
| `TCPSocket` | one server socket and its remote node | `TCPReassembly` |
| `TCPStates` | the state diagram of RFC 793 as `TCP.h` promises it: abstract specification of `TCPSocket` | |
| `TCPRxFifo` | the receive ring byte by byte, `TCPAdjustFIFOSize()`, and `HTTPServer()` as its caller | `TCPReassembly` |
| `TCPAccept` | all sockets and the SYN queue; the inside of a connection is one state | |
| `DHCPClient` | the client, the part of `StackTask()` that drives it, the network | |
| `UDPSockets` | the functions of `UDP.c` over their shared buffers, as operators | |
| `StackTask` | the main loop: DHCP, timers, dispatch to ARP, IP, ICMP, TCP and UDP, HTTP, NBNS, an application | `UDPSockets` |
| `MACRings` | the driver's two rings against the DMA engine | |
| `FrameQueues` | two queues of frames: abstract specification of `MACRings` | |
| `Tick` | the timer, its interrupt and `GetTickCopy()` | |
| `Parameters` | the settings in flash, with power failures | |
| `MPFS2` | file handles, reading, the lock, a new image, as operators | |
| `HTTP2` | both connections, the server's loop, the clients | `MPFS2` |
| `MCTCPSocket`, `MCStackTask`, `MCHTTP2` | values for TLC: symmetry, ports, pages | the module named |
| `MCTCPParts`, `MCUnits` | several parts that share no state, side by side: a behaviour follows one of them | `TCPRxFifo`, `TCPAccept`; `MACRings`, `Tick`, `Parameters`, `DHCPClient` |
| `TCPSocketProofs`, `TCPSequenceProofs` | proofs (section 5): types, timers, states, reuse; then sequence numbers | `TCPSocket` |
| `TCPPartsProofs` | proofs about the receive ring and the accept queue | `MCTCPParts` |
| `MACRingsProofs`, `StackTaskProofs`, `HTTP2Proofs` | proofs about the module named | that module |
| `HTTPAnswerProofs` | proofs about what the web server answers | `HTTP2Proofs` |
| `UnitsProofs` | proofs about the tick, the settings and the DHCP client, and of the types of all four units | `MCUnits`, `MACRingsProofs` |

`MCTCPParts` and `MCUnits` choose a part in the initial state and then take only its
steps; their state space is the sum of the parts' spaces, not the product, so every
property is checked exactly as in a run of its own.

Operators beginning "Seeded fault" in a comment are plausible mistakes in the code
next to them. Nothing uses them; each shows that some property can fail.

### TCPSocket

`tcb` is the control block with the fields of the C structures under their own
names; `peer` the remote node; `conns` counts connections. The correspondence:

| Code | Model |
|---|---|
| `HandleTCPSeg()` | one action per outcome: `ListenSYN`, `ListenOther`, `SegUnacceptable`, `SegReset`, `SegWithoutAck`, `SegBadSynAck`, `SegLastAck`, `SegAckTooHigh`, `SegClosing`, `SegFinWait2`, `SegProcessed`. Each is the whole handler, with every `SendTCP()` and `CloseSocket()` it makes: `AckFreed` (acknowledgement, timer, window), `FinAcked`, `Text`, `AckText`, `Fin` |
| `TCPTick()` | `TickServeSYN` and `Tick(x)`, x being the flushes and timers found ready; the retransmission switch is `TickRetry`, `TickGiveUp`, `TickAbort` |
| `SendTCP()` | operator `SendTCP`: flags cleared, timer and `retryCount` (a BYTE, with its underflow), effective window (a WORD, with its underflow), FIN attached or withheld |
| the API | one action per function; a buffer that gets full flushes inside it |

Abstractions:

* Sequence numbers are relative to both initial numbers. FIFO pointers are stream
  offsets; the ring itself is `TCPRxFifo`'s. The FIFO sizes stay constant here.
* `due` says that `eventTime` has passed; `TimePasses` sets it whenever something
  waits for it. The other timers (delayed ACK, automatic transmit, CLOSE_WAIT) may be
  found expired at any tick in which they run. So `retryInterval` and its doubling
  are not modelled: any relation of the timers to each other is possible.
* The remote node may send any segment it could ever have sent, now: every part of
  its stream, every acknowledgement number it has reached, any window of
  `PeerWindows`. This covers loss, delay, repetition and reordering without a
  network variable. It takes what we send in the same way, from `sent`, which keeps
  the segments that take sequence numbers. `PeerDies` silences it for good.
* The acceptability tests of the code reduce to their last comparison for FIFOs
  that are small against 32767; truncation to SHORT is not modelled. Sizes of the
  keep-alive's garbage byte are not either.
* The wait for the MAC in `SendTCP()` (2250) is taken to end.

### TCPRxFifo

`skt` holds both pointers, the border, the hole and the memory itself: byte i of the
stream is stored as the number i, everything else is `Junk`. `CloseSocket()` and the
transmit area turn memory into `Junk`, so reading what should have been moved shows.
`HandleTCPSeg` delivers any part of the stream at any time. `HTTPServer()` is the
reset handling at its head (`AfterReset`) followed by one outcome of `HTTPProcess()`
as an action: `HTTPIdle`, `HTTPParse`, `HTTPServeHeaders`, `HTTPTimeout`,
`HTTPDisconnect`; `Parsing` is the resize on the way from IDLE to parsing. `overHole` is
history: the headers were served, and received data dropped, while a hole was open; from
then on the property `RingIntact` says nothing until the connection ends. The arguments of
`TCPAdjustFIFOSize()` are those its callers use: at least 1 byte for reception and 0
for transmission. The handshakes are collapsed: `Connect`, `ConnectionEnds`.

### TCPAccept

A socket is CLOSED, LISTEN or BOUND (any connected state); a segment or a timeout may
end a connection at any time. A hash is the pair it is computed from: a collision
costs the code one comparison. `ToConnection`, `ToListener` and `ToQueue` are the
three parts of `FindMatchingSocket()`, with what `HandleTCPSeg()` then does to the
state. `TCPTick` is the whole round: each socket in turn times out or takes a queued
SYN (`Round`), then the queue expires. The clock is a WORD that wraps (shrunk to
`WORD` values); `age` is the true age of a request, for the properties only.

### DHCPClient

`StackTask(linked, put, open, m)` is one call of `StackTask()` up to the DHCP block's
end: the link found up or down, the MAC free or busy, a UDP socket available or not,
and at most one message of `Inbox` (the code reads one per call). `Inbox` holds every answer to
anything ever asked, so messages may be late, repeated and out of order, and
acknowledgements for another client at any time. Addresses are named after the server that
leases them; mask, gateway and DNS server are stored and used exactly as the address
is and left out. The missing server-identifier option (uninitialised `tempServerID`,
513 and 766) is not modelled: servers send that option.

### UDPSockets and StackTask

`UDPSockets` has one operator per function of `UDP.c`. A datagram under construction is
`txBuf` with the MAC's write position `txAt`, a received one `rxPacket` with `rxAt`.
A position outside the datagram, because another protocol built a frame or the IP layer
remembers the header length of another packet, is `Astray`: what is then read or
written is not the user's. A packet has two lengths, as in the code: `len`, what there is,
and `field`, what the datagram's own header says; `UDPRxCount` is the second less eight, in a
WORD (`SaidLength`; `UDP.c:931, 971`), so a user may read behind the packet's end. Packets
for port 0 come too, which a closed socket takes (`UDP.c:1036`). `StackTask` goes round the main loop by `turn`: `dhcp`,
`tick` (`TCPTick`, `UDPTask`), `rx` (the dispatch loop), `http`, `nbns`, `app`.

| Code | Model |
|---|---|
| DHCP client and an application as users of UDP | in its turn a user makes any sequence of `Open`, `Close`, `AskToPut`, `Put`, `TurnBack`, `Send`, `AskToGet`, `Get`, `Seek`, `Discard`, `EndTurn` that the preconditions in `UDP.c` allow; `Discover` is the broadcast of `DHCPTask()` |
| `StackTask()`, the loop over frames | `NoMoreFrames`, `ARPProcess` (with the reply a non-request falls into), `IPFrame` (ICMP, and what `IPGetHeader()` refuses: the frame stays in the MAC buffer until the next pass), `TCPProcess`, `UDPFrame` (with `FindMatchingSocket()`, `Rebound`) |
| `NBNSTask()` | `NBNSOpen`, `NBNSWaits`, `NBNSListen`; whether the query asks for our name is a choice |
| `TCPTick()`, `HTTPServer()` | may send a frame of another protocol |

Checksums are right and payloads are positions: a byte is known by its packet and place,
which is what the properties ask.

### MACRings and FrameQueues

Each driver function is split where it first touches a descriptor and then the engine's
status register: `MACFlush`/`MACFlushResume`, `MACDiscardRx`/`MACDiscardRxResume`. The engine
(external) may receive, transmit or suspend in between. `MACGetHeader` has its three
outcomes: the last frame still to be dropped, a damaged frame, a frame for the stack. A frame
that spans descriptors is not modelled: a buffer has 1520 bytes.
`FrameQueues` is what the stack relies on. The refinement `Queues` reads the receive queue
from the program's place in its ring and the transmit queue from the engine's place in the other.

### Tick

Each access `GetTickCopy()` makes is an action (`AskTick`, `CloseWindow`, `ReadLow`,
`ReadHigh`, `ReadAgain` or `ReadDone`), since the timer and its interrupt run
beside them. `periods` and `asked` are history. The timer overflows again only after the
interrupt of the last overflow was served: it is off for a few instructions, a period is
2^24 cycles.

### Parameters

One action per flash command: `SaveErases`, `SavePrograms`, `SaveErasesLast`, the boot
(`LoadOne`, `LoadNewer`, `LoadDefaultParameters`), its repair `LoadErasesOlder`, and
`PowerFails` between any two of them. A command is atomic: a sector whose programming was
cut short fails the check sum, as an erased one does. `HTTPPostConfig` writes its own form of
record at address 0. `promised` is the set of settings the next boot may bring.

### MPFS2 and HTTP2

`MPFS2` has one operator per function, from a state `fs` to the next. `HTTP2` has one action
per case of the switch in `HTTPProcess()`. `turn` is the connection whose record is in `curHTTP`
and whose `isDone` is FALSE, or `Stack` between two passes, when clients act:
`Connect`, `Send`, `SendMore`, `Drain`, `HalfClose`, `Gone`. `HTTPLoadConn()` swaps `curHTTP`
with `http_memory`. A request is a sequence of tokens (lines, the start and tag of an image,
its data), a page one of chunks, an answer the sequence of what was put; FIFOs hold `RxSize`
tokens and `TxSize` chunks. An image is `ImageLen` tokens; a `Content-Length` counts it and
the line in front of it (`ContentLength`). `watch` is the time left of a connection's watchdog. Approximations:

* `callbackPos` serves two purposes in the code and is two fields here, `lastReady` for
  the data seen in the last pass and `callbackPos` for the position of a dynamic variable;
  `callbackID` (the watchdog) likewise, `watch` and `callbackID`.
* A record is forgotten when its connection ends; nothing reads it before it is written again.
* `byteCount` wraps (`Minus`) and its lines are not counted against it; `MaxCount` = 8 bounds it.
* `spoilt` becomes TRUE when a page is requested while the image is locked, or an image is
  replaced under an open page: pages are then cut short or missing, as the code means them to be,
  so answers and handles are compared only before. Clients stop connecting once it is TRUE.
* `mixed` becomes TRUE when two connections write an image at the same time, each through the
  one position of the flash. `MPFSFormat()` allows it, and what comes of it is no image.
* `UploadRefused` stands for a count below 100 bytes or above 2^31 by a count of zero or below;
  an upload whose first data is shorter than its tag, from which `HTTP2.c:1746` takes four bytes off
  unseen, does not occur, since a token is the least that a FIFO holds of it.
* `HTTP_USE_AUTHENTICATION` and `HTTP_SSL` are not compiled in. `HTTPPostMD5()`, whose hash
  is one static variable for all connections (`CustomHTTPApp.c:682`), is not modelled. The one dynamic
  variable of the page includes a file: `HTTPPrint.h` as delivered has none, but the
  MPFS2 generator emits them and `HTTPIncFile()` serves them.

## 3. Runs

| Run | Distinct states | Question |
|---|---|---|
| `tcp_transmit` | 121,420 | transmit side with windows 0 and 4: retransmission, fast retransmission, old acknowledgements, active close |
| `tcp_receive` | 83,744 | receive side: text of 3 bytes in any pieces into a FIFO of 2, one byte sent; refinement of `TCPStates` |
| `tcp_reuse` | 43,036 | two connections through one socket, urgent segments, acknowledgements left over from another connection |
| `tcp_giveup` | 15,902 | liveness: a dead remote node frees the socket |
| `tcp_parts` | 99,005 | the receive ring with its resizes; and the accept queue with three remote nodes, two ports, two sockets, two slots |
| `units` | 59,562 | the driver's rings, with the refinement of `FrameQueues` and liveness; the tick; the settings under power failures; the DHCP client with liveness |
| `stack` | 10,499,970 | the main loop: three users of UDP among frames of five protocols, with IP options, wrong lengths and port 0 |
| `http` | 448,898 | two connections, uploads of images after and beside each other, every kind of request and of client; liveness |
| `tcp_refit`, `tcp_resize`, `http_lock`, `params_posted` | | disagreements of code and comments (section 4) |

**What the properties say.** Each is stated in words above its definition.

| Run | Properties |
|---|---|
| `tcp_transmit` | `TypeOK`; `StreamIntact`: end to end, across every retransmission; `SeqTracksFifo`: `MySEQ` and the FIFO never drift apart; `UnackedIsTimed`, `SentFinIsTimed`: nothing outstanding without a timer; `NothingTakenBack`: no pointer moves backwards within a connection |
| `tcp_receive` | `FifoOrder`, `HoleFits`: pointers ordered, the hole and what lies behind it inside the free space; `ReceivedIsAcknowledged`, `AcksOnlySent`: acknowledgements neither forgotten nor made up, also when a hole is filled; `StatesOfRFC793`: refinement |
| `tcp_reuse` | `ListenIsClean`: nothing survives `CloseSocket()` except named fields that are written before they are read; `OverlappedTimersExclusive`: `delayedACKTime` and `closeWaitTime` share storage and are never both live |
| `tcp_giveup` | `DeadPeerFreesSocket` |
| `tcp_parts` | `PartsTypeOK`; `RingIntact`: pointers in the buffer, bytes in order, in front of and behind the hole; `NoReceivedByteLost` by a resize that promises to preserve; `HashFollowsState`, `QueueCompact`, `NoneWaitsBesideListener`, `FreshRequestKept` |
| `units` | `UnitsTypeOK`; `TickWasTheTime`; `EngineNeverSleepsOnWork`; `RingsAreQueues` (refinement); `EveryFrameGetsThrough`; `SavedSettingsSurvive`; `SocketHeldWhileAsking`, `AddressWasGranted`, `NoEndlessWait`, `RenewalEnds` |
| `stack` | `StackTypeOK`; `ReadsItsOwnPacket`; `DatagramIsWhole`; `DatagramIsOffered` |
| `http` | `HTTPTypeOK`; `AnswerIsWhole`: nobody gets another connection's answer, or part of one; `HandlesAreHeld`; `ImageIsWhole`; `RequestEnds` |

`DeadPeerFreesSocket` holds in `tcp_giveup` for windows that stay positive and a remote
node that sends no text. With a zero window the persist probe goes on forever, as
RFC 1122 asks for; with text, see FIN_WAIT_2 in section 4. `EveryFrameGetsThrough` excepts a
damaged frame at the head of the ring, `ReadsItsOwnPacket` a packet for port 0, a header length
that IP has forgotten and what lies behind the packet's end, `RingIntact` a response that
begins with a hole open, `ImageIsWhole` two uploads that have written at once, `RequestEnds` the requests in `Posts` and a locked image,
each for a reason given in section 4. `FinWait2FinReceived`, `RenewsOwnAddress` and `EveryRequestEnds`
state what section 4 reports as not holding, `SpareHandle` what does not hold with the fewest handles
the build accepts; no run lists them.

**Bounds.**

* TCP: FIFOs of 2 bytes with 2 or 3 bytes of stream give every relation the code
  distinguishes: empty, partly acknowledged, partly sent, full, and a hole with data
  behind it; a segment can start before, at or behind the next byte expected and end
  inside or beyond the window. `MSS` 4 is never the limit of a segment. One retry, one SYN
  retry and one keep-alive reach the "limit not reached" and the "limit reached" branch of
  every counter. `MaxConns = 2` is needed only where the next connection matters (`tcp_reuse`).
* `TCPRxFifo` needs a longer memory so that data wraps, is moved down and outlives a
  border: 10 addresses and 10 bytes, so that the stream is as long as the block.
  The headers may be served with a hole open; `tcp_resize` asks of the same states what
  `RingIntact` excepts there.
* Two sockets and two slots with three remote nodes let the queue fill, hold entries of
  different ports in both orders, and be compacted from the front; the clock with 4
  values wraps inside every entry's life.
* `MACRings`: rings of 2 descriptors and 4 frames each way, so that each ring fills, wraps
  and is found full; frame 3 is damaged and meets a ring that has wrapped once.
* `Tick`: a period of 3 counts, 2 values of the high half and 14 counts: the high half wraps
  twice, and a read may be overtaken by a whole period and start again more than once.
* `Parameters`: four sectors, so that the journal wraps and "last sector, first sector"
  differs from a pair in the middle; three settings, so that old, new and default differ.
* `DHCPClient`: leases of 1 second and none given (the code assumes one; here 2) put the
  client on both sides of the comparisons; `elapsed` is counted to the timeout, 2.
* `StackTask`: two frames received, one other node, payloads and datagrams of 2 bytes and as many
  sockets as users: with fewer, NBNS, which never closes its own, leaves one to the other two, and
  they could not meet. A second node changes who is answered, and no property asks for that. Two frames are what an interference needs
  (one to be read, one that comes between); the main loop goes round without bound. Packets
  have headers with and without options. A datagram says that it has 10 bytes with its
  header, which is right, or 7, which makes 65535 to be read of 2; `MaxReads` 3 lets a user
  read one byte too many.
* `HTTP2`: FIFOs of 2 tokens and 2 chunks: a line arrives in two parts, a page needs several
  passes, a request without a line end fills the FIFO. `Timeout` 2 distinguishes "in time" from
  "late". Kinds in `Alone` are asked only while the other connection is idle; pages and uploads come
  on either connection and beside each other, two uploads at once too; `ImageLen` 2 lets an image be cut in the middle. Six handles
  are one more than two connections need (`HandlesSuffice`, section 5).

**Deadlock** is allowed where the bounds may leave nothing to do: in the `TCPSocket` runs (a
listening socket nobody connects to), in `units` (the rings stop when each frame of a run has
been seen, the tick at `MaxNow`), and in `http`, where clients stop connecting after `spoilt`.

**Fairness.** `main()` calls `StackTask()` and `HTTPServer()` forever; nothing is assumed of
an application, and of the network only what is named.

* `TCPSocket`: weak fairness of `TimePasses` and of the tick that finds every running timer
  expired.
* `DHCPClient`: weak fairness of `TimePasses` and of calls with a link, a free MAC, a free
  UDP socket and no message waiting; the action is always enabled, so this says that such
  a call happens again and again. Without that a link that never comes up, or a network that
  sends foreign replies in every call, keeps the client waiting, as it should.
* `MACRings`: weak fairness of `MACGetHeader`, which `StackTask()` calls in every pass, of the
  second halves of driver calls, and of the engine's `DMATransmit`.
* `HTTP2`: weak fairness of the main loop and of the step of the connection whose turn it
  is; strong fairness of a client's `Drain`, and of its `Gone` once the server closes. The
  last two stand for TCP, which acknowledges, or gives a dead remote node up.

## 4. Findings

Each has a run whose counterexample TLC prints.

* `tcp_refit`: after a FIN was sent, a retransmission that a small window cuts short
  before the FIN is numbered one too high (`TCP.c:2421`): the remote node gets the
  bytes shifted by one.
* `tcp_resize`: a resize that drops received data keeps the size of the hole
  (`TCP.c:3620`, called from `HTTP2.c:819`); when the hole is filled, bytes that are
  gone are acknowledged and `rxHead` lies behind the buffer.
* `http_lock`: when the client of an upload vanishes, nothing unlocks the image
  (`MPFS2.c:476` closes the handle only): no page can be opened until somebody uploads
  a whole image.
* `params_posted`: the settings page writes a record that `CheckAppConfig()` refuses
  (`CustomHTTPApp.c:612`): after the restart it asks for, the board has the old settings, or
  the defaults if the record in use lay in the sector it erased.

Met while modelling, and recorded as hazards or left in the models without a run:

* TCP: a FIN that a zero window withheld counts as acknowledged (`TCP.c:3165`,
  `FinWait2FinReceived`); in FIN_WAIT_2 a FIN ahead of lost text stops the timer
  (3139) and the socket may wait forever; giving up in CLOSE_WAIT leads to
  FIN_WAIT_1 (1958; `TCPStates` has it as an action of its own); `retryCount` underflows when a
  window update is sent with data in flight (2382-2387); a SYN-queue entry stamped just before the
  clock wraps never gets too old (2063); `TCPDisconnect()` in LISTEN is not without effect
  (754, against the comment at 677); with a full SYN queue a repeated SYN is not refreshed (2627).
* DHCP: a reply broadcast to another client replaces the address the client asks for in its next
  renewal (`DHCP.c:538`, `RenewsOwnAddress`).
* UDP and IP: `IPSetRxBuffer()` uses the header length of the last header built or read
  (`IP.c:295`): with options, a frame sent before a task reads its packet moves the
  reading position. The length of a datagram is taken from its header and never compared with
  the packet's (`UDP.c:971`): a task may read on into what an earlier frame left. A packet for
  port 0 is taken by a closed socket (`UDP.c:1036`). `InReach` names these three.
  `UDPIsGetReady()` returns the length of the packet, not what is left of it (`UDP.c:768`).
* ARP: any packet that is not a request is answered, to the node of the last request (`ARP.c:266`).
* MAC driver: a damaged frame is never given back (`ETH32V307.c:387`: `MACDiscardRx()` returns
  at once, since `WasDiscarded` is still TRUE); reception stops.
* HTTP2: the watchdog of a POST is set again in every pass that needs data (`HTTP2.c:770`,
  `EveryRequestEnds`): a client that stops in the middle of its data keeps the connection.
* MPFS2: `MPFSFormat()` takes a second upload while the first goes on, and both write through one
  position (`MPFS2.c:831`); `ImageIsWhole` ends there (`mixed`).
* MPFS2: `TCPIP.h:262` asks for two handles per connection "plus one spare", but `MPFSOpen()` never
  hands out the last one (`MPFS2.c:271`), so with that number two pages leave none (with
  `MAX_MPFS_HANDLES` = 5 TLC finds `SpareHandle` violated), and a file that a page includes at a
  variable that is not its last is missing from it. Delivered are 7 for two connections, which
  is enough (`SpareHandleIsLeft`, section 5).

## 5. Proofs

TLAPS checks 40 theorems listed in `PROJECT.json`; 36 of them state a property that a run checks.
The run shows it on a small instance, the theorem for every value of the constants that
the assumptions allow.

### From which assumptions

Each module names its assumption, and TLC evaluates it in the runs. None relates one
size to another unless the code does:

| Assumption | Says | Because |
|---|---|---|
| `SizesAssumption` (`TCPSocket`) | sizes, windows and limits are numbers; `MaxUnackedKeepAlives` fits 3 bits | the width of the field |
| `FifoAssumption` (`TCPRxFifo`) | the block has at least three addresses; `Junk` is no byte | both FIFOs have a byte at least |
| `AcceptAssumption` (`TCPAccept`) | a queue of at least one slot, a clock of at least one value, ports above 0 | port 0 marks a socket as unused |
| `DHCPAssumption` | names of nodes differ; `elapsed` is counted at least to `DHCP_TIMEOUT` | the bound must not hide the timeout |
| `RingsAssumption`, `TickAssumption` | rings, periods and wraps are positive | |
| `ParametersAssumption` | more than two sectors | with two, erasing the next sector erases the record in use |
| `UDPAssumption`, `StackAssumption` | at least one socket and one place; ports of the users differ and are not 0 | the preconditions of `UDPOpen()` |
| `MPFSAssumption`, `HTTPAssumption`, `KindsAssumption` | 2 to 254 handles; only a file that has one behind it has an index; a FIFO holds more than one token | handles are BYTEs and 255 is invalid |
| `LengthAssumption` (`HTTP2`) | the length that a request names is below `Wrapped`, the value of a count below zero | `byteCount` is a DWORD, and no image has 2^32 bytes |

Some theorems have a hypothesis of their own, each because the property is false without it:

* `DatagramsAreOffered` assumes that no datagram says it is empty (`HeaderSize \notin Fields`):
  `UDPIsGetReady()` cannot tell an empty one from none.
* `AnswersAreWhole` assumes `HandlesSuffice`, that is, `MAX_MPFS_HANDLES` as `TCPIP.h:265` demands it
  of the build, and `PagesOK`: the page that is asked for, its index, the file that it includes and the
  one for the settings are in the image, and `nothing` is not. `AnswerIsWhole` compares with the one page of
  the model, in an image of any other files.
* `SpareHandleIsLeft` assumes one handle more than `HandlesSuffice`; the delivered configuration has 7 >= 6.

The run `http` satisfies the hypotheses about the web server (`HandlesSuffice`, `PagesOK`).

The other theorems hold for every behaviour of their model. Where the code has a flaw
that a property would meet, the statement names the state in which it ends, and the behaviours that
reach it stay in the model and in the runs:

* `WholeStreamArrives` and `FinEndsStream` end with the first segment in which text was sent again
  without the FIN that had gone out (the history field `cut`, `NoneCut`), the segment that
  `SendTCP()` numbers one too high (`TCP.c:2421`). They hold for any windows, and for a TX FIFO of any
  number of segments, as `HTTP2.c:819` makes it. `OpenStreamArrives` says that nothing of the kind
  happens before our side is closed.
* `RingStaysIntact` and `PartsTypeCorrect` end, until the connection does, with a response that begins
  while a hole is open (`overHole`): there `tcp_resize` is the counterexample. `EveryByteIsOffered` has
  no exception.
* `ReadsInOrder` has the three of `InReach`, which the property names.
* `WholeImagesAreRead` ends with two connections that write an image at once (`mixed`); its
  part about the lock does not.

`HandlesAreHeld` itself ends where `spoilt` begins: a new image closes all files of whoever reads.

### What is proved

| Module | Theorems, with the property each states |
|---|---|
| `TCPSocketProofs` | `TypeCorrect` (`TypeOK`), `RetransmissionTimed` (`UnackedIsTimed`), `FinTimed` (`SentFinIsTimed`), `FifosBounded` (`FifoOrder`), `FutureDataFits` (`HoleFits`), `ImplementsRFC793` (`StatesOfRFC793`, refinement), `ReuseIsClean` (`ListenIsClean`) |
| `TCPSequenceProofs` | `SequenceNumbersTrack` (`SeqTracksFifo`), `EverythingIsAcknowledged` (`ReceivedIsAcknowledged`), `SharedTimerHasOneUse` (`OverlappedTimersExclusive`), `OnlySentIsAcknowledged` (`AcksOnlySent`), `AcknowledgedStays` (`NothingTakenBack`), `OpenStreamArrives` and `WholeStreamArrives` (`StreamIntact`), `FinEndsStream` |
| `TCPPartsProofs` | `SocketsAreFound` (`HashFollowsState`), `QueueStaysCompact` (`QueueCompact`), `NobodyWaitsInVain` (`NoneWaitsBesideListener`), `FreshRequestsStay` (`FreshRequestKept`), `RingStaysIntact` (`RingIntact`), `EveryByteIsOffered` (`NoReceivedByteLost`), `PartsTypeCorrect` (`PartsTypeOK`) |
| `MACRingsProofs` | `NoLostWakeup` (`EngineNeverSleepsOnWork`), `RingsImplementQueues` (`RingsAreQueues`, refinement) |
| `UnitsProofs` | `TickIsNeverTorn` (`TickWasTheTime`), `SettingsSurvive` (`SavedSettingsSurvive`), `SocketIsHeldWhileAsking` (`SocketHeldWhileAsking`), `OnlyGrantedAddresses` (`AddressWasGranted`), `UnitsTypeCorrect` (`UnitsTypeOK`) |
| `StackTaskProofs` | `StackTypeCorrect` (`StackTypeOK`), `DatagramsAreWhole` (`DatagramIsWhole`), `ReadsInOrder` (`ReadsItsOwnPacket`), `DatagramsAreOffered` (`DatagramIsOffered`) |
| `HTTP2Proofs` | `HTTPTypes` (`HTTPTypeOK`), `OpenHandlesAreHeld` (`HandlesAreHeld`), `NothingIsReadWhileLocked`, `RequestsAreHeard`, `WholeImagesAreRead` (`ImageIsWhole`) |
| `HTTPAnswerProofs` | `AnswersAreWhole` (`AnswerIsWhole`), `SpareHandleIsLeft` |

### Along which argument

Each safety property follows from an inductive invariant that is stronger, which TLC checked
on a run before it was proved. A lemma says for each operator of a model what it keeps,
actions follow from chains of these lemmas, and one last lemma splits the next-state relation.

* **`Inv`** of `TCPSocketProofs` is the type invariant with `Sound(tcb)`: FIFO pointers ordered
  and bounded, data in flight timed, a sent FIN pending and timed, the hole with its future
  data inside the free space. The parts need each other: an acknowledgement may stop the timer
  only because an empty FIFO means that nothing is in flight, which needs the order of the
  pointers; and that `AckTooHigh` was refused keeps `txTail` behind `txHead`. For the
  states, `ProcessedState` follows a segment through acknowledgement, text and FIN and
  `NextMoves` shows that an action is at most one step of the diagram, which, if it ends in
  LISTEN, went through `CloseSocket()`. `CleanInv` adds that an unbound socket is idle:
  `ListenIsClean` alone is not inductive, since CLOSED precedes LISTEN.
* **`SeqInv`** says of a connected socket (`Conn`) that `MySEQ` is ahead of the data sent by the
  SYN, and by the FIN once it was sent (`Numbered`), together with what is pending, what was
  received and what was acknowledged. One invariant serves four properties, since each needs
  a part of what the others state. `NothingTakenBack` follows from `CarriesOn`, a relation
  between a socket before and after a step that each operator keeps and that is transitive.
* **`StreamInv`** joins the two ends. `SeqInv` has for it that every segment in `sent` is numbered
  as its bytes lie in the stream, and has a FIN only at its end (`Streamed`, `Placed`); it must hold
  of all that was ever sent, since any of it may still arrive. So a segment that continues what the
  remote node has taken continues the stream (`TakenGrows`), a FIN taken means that all was taken,
  and nothing can follow it. Behind our FIN, a retransmission is `Placed` if it carries the FIN
  again; one that does not is marked `cut`, and all of `Streamed` is stated while there is none.
* **`AcceptInv`**: types, a queue without gap or repetition, each request for a port somebody has
  open (`Served`), and a request that is still fresh (`age <= Timeout`) never found older by the
  clock than it is (`Young`: `now - wTimestamp <= age`). The code's loop over the sockets is carried
  by `RoundFacts(r, k)`, what the passes of the first `k` sockets have done: the sockets behind `k`
  are untouched, ports stay, every request is still queued or was served by one of the `k`, and none
  of these `k` that still listens has a request waiting.
* **`FifoInv`** describes the contents of the ring by the distance from `rxTail`: so far the bytes received,
  then the hole, then future data, then nothing that is known. Once `overHole`, what is left of it is types and the states in which the server can then
  be (`Stale`). A resize keeps the statement
  because it copies what lies at a distance to where that distance will be. What the
  application took and what it is still offered add up to `RemoteSEQ`.
* **`RingsInv`**: the descriptors that wait are a run (`Filled`) from the place of the side that
  empties the ring to the place of the side that fills it, and the bus sleeps on work only while a
  resume is pending. The run read off in order is the abstract queue.
* **`TickInv`**: the flag of the timer is set for one period that the interrupt has not counted,
  the counter is the number of periods counted modulo its width, and at each access the reader
  holds halves that belong to one time since it was asked, or is bound to read again.
* **`JournalInv`** says for every value of `at` which sectors hold a record and which record a
  boot would choose, with the journal in any sector and any number of sectors.
* **`DHCPInv`**: the socket is held in exactly the states that ask or wait (`ClientOK`), and from
  the moment an address is asked for, the stored server is the one it was asked of and leases it
  (`Granted`). What answers may change depends on the state: that no message touches
  either between request and acknowledgement is the heart of it.
* **`StackInv`**: a socket with a port belongs to a user (`Held`); what `UDPTxCount` and `wPutOffset`
  say is where the MAC writes, or the user has lost the buffer and cannot send before it asks again
  (`Asked`, `Written`, `Abandoned`); `SocketWithRxData` is the user for whom the packet is (`Delivered`).
* **`HTTPInv`**: the record of the connection at work is in `curHTTP` and nowhere else; a connection
  that is idle, parses its request or was reset has no file yet, and its whole request
  still before it (`Fresh`, `Unread`); no position lies behind the end of its file, the last
  handle is never handed out and nothing is open while the image is locked (`FilesOK`); until
  `spoilt`, the open handles are the disjoint union of those the records hold (`Shared`).
  `Moves` states what one connection's step may do to its own handles, and `SharedMoves`
  that all else follows. That a handle is left (`TwoForEach`, `HandleLeft`) is then a matter of
  counting: a map from the handles into the two places of each record cannot be one to one.
* **`RequestInv`** follows the request of a client that is there: what waits in its FIFO (`rx`) and
  what it has yet to send (`ask`) are together the rest of its own request, from a place that the
  state and `byteCount` name (`Followed`: `AtHeaders`, `AtBody`, `AtPost`). A client that has gone
  leaves at most tokens that end no line (`Deaf`), so that nothing is begun on its account.
* **`WritingInv`** needs that: while a connection writes an image, the image is locked and holds what
  `byteCount` says was written of it (`Uploaded`), and since the count is that of the request, the
  last token to be written is the last one of the image. `TagInv` says that the file system that
  is mounted always starts with its tag, so that the number of files is that of the image.
* **`AnswerInv`** says how far the answer is in each state (`Stage`): nothing is sent before the
  headers, a page is before its variable, at it or behind it (`BeforePage`, `AtVariable`,
  `BehindVariable`), and the positions of its two files, `byteCount`, `nextCallback` and
  `callbackPos` agree with what the client has. This must survive what the other connections do:
  they open and close handles of their own only (`Apart`, `Kept`), which is where `Shared` is used
  again; a new image makes `spoilt` true if anybody reads a page. A client that has gone has had
  nothing, or all of it (`Left`).

Loops of the code (`TCPTick()` over sockets and queue, searches for the first free
entry) are recursive functions or choices of a least number; what they compute is proved from the
fact that a set of numbers that is not empty has a least element (`NatLessThanWellFounded`
with `WFMin`).

### What is only model-checked

* Liveness and anything else under fairness: `DeadPeerFreesSocket`, `EveryFrameGetsThrough`,
  `NoEndlessWait`, `RenewalEnds`, `RequestEnds`. The provers have no rule for it.
* `StreamIntact` behind our FIN without the exception of `NoneCut`: it holds in `tcp_transmit`, with
  windows 0 and 4, and for which windows and FIFOs in general is not proved; `tcp_refit` is the
  counterexample for others.
* What no theorem says of an answer: that it comes at all (`RequestEnds`), and what it is once
  `spoilt`.

## 6. Plan

Modelled, in this order: TCP connection, receive FIFO, accept queue and DHCP first, because a
TCP fault reaches every user of the device and its state space is the least testable; then
what TCP and DHCP stand on (UDP, the main loop, the driver, the tick) and what stands on them
(web server, file system, settings). Then the proofs of section 5, in about the same order.

Next, proofs: for which windows and segment sizes no retransmission is cut (`NoneCut`); and
`AnswersAreWhole` for pages of any form, which needs a definition of the answer that follows the
index of the page.

Next, modelling: `TCPSocket` with resizes of the transmit FIFO (`TCP.c:3678`), and
`HTTPPostMD5()` with its shared hash.

## 7. Not modelled, and why

* **Helpers** (`Helpers.c`, `Delay.c`, hashes): checksums, conversions and delays, without
  state that the other parts depend on.
* **Board support, LEDs, the PHY, start-up**: register writes and pure I/O; the link state is a
  choice in `MACRings` and `DHCPClient`.
* **Parts of modelled components**: the bytes of headers, the values in `HTTPPostConfig()`, the
  variables of `HTTPPrint.h` other than an included file, the search of MPFS2 by hash and its read
  cache, `TCPFindArrayEx()`, array and string variants of `UDPPut()` and `UDPGet()`.
* **Modules not compiled in** (`TCPIPConfig.h` switches them off): DNS, SNTP, SMTP, FTP, TFTP,
  SNMP, SSL, Telnet, the UART bridge, the DHCP server, the Berkeley API, zero configuration and
  the drivers of other MACs. They are the larger part of `TCPIP Stack/`, and no
  state of the program is theirs.
* **Vendor library** (`Peripheral`, `Core`, `Startup`, `Debug`): the chip maker's; the driver's
  use of the DMA engine and of the timer is in `MACRings` and `Tick`, marked external.

The last two make up most of the repository's lines, which is why the map covers a small share
of them.
