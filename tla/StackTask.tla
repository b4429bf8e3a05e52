------------------------------ MODULE StackTask ------------------------------
(***************************************************************************)
(* The main loop (MainDemo.c): StackTask() with DHCPTask(), TCPTick() and  *)
(* UDPTask() first and then the dispatch of received frames to ARP, IP,    *)
(* ICMP, TCP and UDP; then HTTPServer(), NBNSTask() and an application     *)
(* that uses a UDP socket.  The tasks never run beside each other, but     *)
(* they share the global remoteNode, the ARP reply that is under way and   *)
(* all that UDPSockets.tla shares.  A task that uses UDP makes any         *)
(* sequence of calls that the preconditions of UDP.c allow.                *)
(***************************************************************************)
EXTENDS UDPSockets

CONSTANTS
  Port,       \* the port of each user of UDP
  PeerPort,   \* the ports packets come from
  Lengths,    \* the lengths of the payloads that come
  Fields,     \* the lengths that the headers of their datagrams say
  Headers,    \* the lengths of the IP header of packets that come
  MaxFrames,  \* bound of a run: frames that are received
  MaxReads,   \* bound of a run: bytes that are read of a packet
  DHCP, NBNS, App, None

Users == {DHCP, NBNS, App}
Callers == {DHCP, App}   \* the users whose calls are modelled one by one

ASSUME StackAssumption ==
  /\ Port \in [Users -> Nat \ {INVALID_UDP_PORT}]
  /\ \A u, v \in Users : Port[u] = Port[v] => u = v
  /\ PeerPort \subseteq Nat /\ Lengths \subseteq Nat /\ Fields \subseteq WORDs
  /\ Headers \subseteq {"plain", "options"}
  /\ MaxFrames \in Nat /\ MaxReads \in Nat /\ None \notin Users
  /\ DHCP # App /\ NBNS \notin Callers

VARIABLES
  turn,        \* the task of the main loop that runs
  remoteNode,  \* the sender of the last frame that was dispatched
  target,      \* ARPProcess(): the node a reply goes to
  handle,      \* the socket each user holds
  may,         \* history: what the user whose turn it is has asked for
  meant,       \* history: what it has put since it asked
  addressee,   \* history: the user the packet in the MAC buffer came for
  offered,     \* history: that user had its turn since
  got,         \* history: the last byte read
  wire,        \* history: the last frame sent
  frames       \* frames received so far

stackVars == <<udpVars, turn, remoteNode, target, handle, may, meant, addressee,
               offered, got, wire, frames>>
history == <<may, meant, addressee, offered>>

Nothing == [kind |-> "none", from |-> None, to |-> NoNode, payload |-> <<>>]
NoByte == [by |-> None, of |-> None, at |-> 0, from |-> 0]
(* got and wire tell what the last step read and sent.                      *)
Quiet == got' = NoByte /\ wire' = Nothing

Init ==
  /\ UDPInit
  /\ turn = "dhcp" /\ remoteNode = NoNode /\ target = NoNode
  /\ handle = [u \in Users |-> NoSocket]
  /\ may = {} /\ meant = <<>> /\ addressee = None /\ offered = TRUE
  /\ got = NoByte /\ wire = Nothing /\ frames = 0

-----------------------------------------------------------------------------
(* A user's turn.  It holds a socket, asks for room or for data, and puts   *)
(* or gets while the answer is good, that is until its turn ends.           *)

Turn(u) == IF u = DHCP THEN turn = "dhcp" ELSE turn = "app"
Mine(u) == Turn(u) /\ handle[u] # NoSocket

loopVars == <<turn, remoteNode, target, frames>>
Unread(u) == GetReady(handle[u])

Open(u) ==
  /\ Turn(u) /\ handle[u] = NoSocket
  /\ \E p \in PeerPort : UDPOpen(Port[u], Broadcast, p)
  /\ handle' = [handle EXCEPT ![u] = FirstClosed]
  /\ Quiet /\ UNCHANGED <<loopVars, history>>

(* No user closes a socket with data it has not discarded or not sent.      *)
Close(u) ==
  /\ Mine(u) /\ ~Unread(u) /\ ("put" \in may => meant = <<>>)
  /\ UDPClose(handle[u])
  /\ handle' = [handle EXCEPT ![u] = NoSocket]
  /\ may' = {}
  /\ Quiet /\ UNCHANGED <<loopVars, meant, addressee, offered>>

AskToPut(u) ==
  /\ Mine(u)
  /\ UDPIsPutReady(handle[u])
  /\ may' = may \cup {"put"}
  /\ meant' = IF "put" \in may THEN meant ELSE <<>>
  /\ Quiet /\ UNCHANGED <<loopVars, handle, addressee, offered>>

(* A user that looks for data in the middle of a message looks at its own   *)
(* socket only, and may turn back in it to fill in a length.                *)
Put(u) ==
  /\ Mine(u) /\ "put" \in may
  /\ UDPPut(u)
  /\ meant' = [i \in DOMAIN meant \cup {wPutOffset} |-> u]
  /\ Quiet /\ UNCHANGED <<loopVars, handle, may, addressee, offered>>

TurnBack(u) ==
  /\ Mine(u) /\ "put" \in may /\ DOMAIN meant # {}
  /\ UDPSetTxBuffer(0)
  /\ Quiet /\ UNCHANGED <<loopVars, handle, history>>

Send(u) ==
  /\ Mine(u) /\ "put" \in may
  /\ UDPFlush
  /\ wire' = [kind |-> "udp", from |-> u, to |-> Datagram.to,
              payload |-> [sent |-> Datagram.payload, meant |-> meant]]
  /\ may' = may \ {"put"}
  /\ got' = NoByte
  /\ UNCHANGED <<loopVars, handle, meant, addressee, offered>>

(* DHCPTask() sends its discoveries to everybody, whoever its socket has    *)
(* talked to.                                                               *)
SetBroadcast(s) == UDPSocketInfo' = [UDPSocketInfo EXCEPT ![s].node = Broadcast]
Discover ==
  /\ Mine(DHCP) /\ "put" \in may /\ DOMAIN meant # {}
  /\ SetBroadcast(handle[DHCP])
  /\ wire' = [kind |-> "discover", from |-> DHCP, to |-> UDPSocketInfo'[handle[DHCP]].node,
              payload |-> [sent |-> Datagram.payload, meant |-> meant]]
  /\ Flushed
  /\ may' = may \ {"put"} /\ got' = NoByte
  /\ UNCHANGED <<wPutOffset, activeUDPSocket, getVars, loopVars, handle, meant, addressee,
                 offered>>

AskToGet(u) ==
  /\ Mine(u)
  /\ UDPIsGetReady(handle[u])
  /\ may' = may \cup {"get"}
  /\ offered' = (offered \/ addressee = u)
  /\ Quiet /\ UNCHANGED <<loopVars, handle, meant, addressee>>

(* The byte at a place of the MAC buffer is one of the packet in it, or was *)
(* left there by an earlier frame.                                          *)
Origin(place) == IF place \in 0 .. rxPacket.len - 1 THEN addressee ELSE None

Get(u) ==
  /\ Mine(u) /\ "get" \in may
  /\ wGetOffset < MaxReads
  /\ UDPGet
  /\ got' = [by |-> u, of |-> Origin(rxAt), at |-> wGetOffset, from |-> rxAt]
  /\ wire' = Nothing
  /\ UNCHANGED <<loopVars, handle, may, meant, addressee, offered>>

Seek(u) ==
  /\ Mine(u) /\ "get" \in may /\ GetReady(handle[u])
  /\ UDPSetRxBuffer(0)
  /\ Quiet /\ UNCHANGED <<loopVars, handle, history>>

Discard(u) ==
  /\ Mine(u) /\ "get" \in may /\ SocketWithRxData = handle[u]
  /\ UDPDiscard
  /\ Quiet /\ UNCHANGED <<loopVars, handle, history>>

EndTurn(u) ==
  /\ Turn(u)
  /\ turn' = IF u = DHCP THEN "tick" ELSE "dhcp"
  /\ may' = {} /\ meant' = <<>>
  /\ offered' = (offered \/ addressee = u)
  /\ Quiet
  /\ UNCHANGED <<udpVars, remoteNode, target, frames, handle, addressee>>

UserStep(u) ==
  \/ Open(u) \/ Close(u) \/ AskToPut(u) \/ Put(u) \/ TurnBack(u) \/ Send(u)
  \/ AskToGet(u) \/ Get(u) \/ Seek(u) \/ Discard(u) \/ EndTurn(u)

-----------------------------------------------------------------------------
(* TCP may send segments while its timers run and while the HTTP server     *)
(* writes: the frames of another protocol.                                  *)
TCPMaySend ==
  \/ UNCHANGED <<putVars, IPHeaderLen>> /\ wire' = Nothing
  \/ /\ OtherFrame /\ IPHeaderLen' = "plain"
     /\ wire' = [Nothing EXCEPT !.kind = "tcp"]

(* TCPTick() and then UDPTask().                                            *)
Tick ==
  /\ turn = "tick" /\ turn' = "rx"
  /\ \/ UNCHANGED <<txBuf, txAt, IPHeaderLen>> /\ wire' = Nothing
     \/ /\ txBuf' = EmptyBuffer /\ txAt' = Astray /\ IPHeaderLen' = "plain"
        /\ wire' = [Nothing EXCEPT !.kind = "tcp"]
  /\ UDPTask /\ got' = NoByte
  /\ UNCHANGED <<UDPTxCount, wPutOffset, socketVars, getVars, remoteNode, target,
                 frames, handle, may, meant, addressee, offered>>

HTTPServer ==
  /\ turn = "http" /\ turn' = "nbns"
  /\ TCPMaySend /\ got' = NoByte
  /\ UNCHANGED <<socketVars, getVars, remoteNode, target, frames, handle, may,
                 meant, addressee, offered>>

-----------------------------------------------------------------------------
(* The loop over received frames.  Each pass drops what UDP still has; then *)
(* MACGetHeader() finds a frame, no frame, or the last frame still there    *)
(* (IP and ICMP leave theirs), which it only drops.                         *)

Arrives == turn = "rx" /\ frames < MaxFrames /\ frames' = frames + 1
RxFree == rxPacket = NoPacket \/ ~bWasDiscarded

AfterUDPDiscard ==
  /\ UDPRxCount' = (IF bWasDiscarded THEN UDPRxCount ELSE 0)
  /\ bWasDiscarded' = TRUE
  /\ UNCHANGED <<SocketWithRxData, wGetOffset, bFirstRead>>

NoMoreFrames ==
  /\ turn = "rx" /\ turn' = "http"
  /\ AfterUDPDiscard /\ MACDiscardRx
  /\ addressee' = None /\ Quiet
  /\ UNCHANGED <<socketVars, putVars, IPHeaderLen, remoteNode, target, frames,
                 handle, may, meant, offered>>

(* ARPProcess(): a request for our address is answered; any other operation *)
(* but a request is answered too, to the node of the last request.  A frame *)
(* that is not of Ethernet and IP (ARP.c:238-243) ends like a request for   *)
(* another address: it is dropped, and only remoteNode has changed.         *)
ARPProcess ==
  /\ Arrives /\ RxFree /\ got' = NoByte
  /\ AfterUDPDiscard /\ MACDiscardRx /\ addressee' = None
  /\ \E sender \in Nodes, op \in {"request for us", "request for other", "other"} :
       /\ remoteNode' = sender
       /\ target' = IF op = "request for us" THEN sender ELSE target
       /\ IF op = "request for other"
          THEN wire' = Nothing /\ UNCHANGED putVars
          ELSE /\ OtherFrame
               /\ wire' = [Nothing EXCEPT !.kind = "arp", !.to = target']
  /\ UNCHANGED <<socketVars, IPHeaderLen, turn, handle, may, meant, offered>>

(* An IP packet that IPGetHeader() refuses, or an echo request, is left in  *)
(* the MAC buffer.  ICMPProcess() answers a request to us or to everybody   *)
(* whose header has no options: it takes the checksum from offset 20.       *)
Leftover(h) == [NoPacket EXCEPT !.src = remoteNode', !.header = h]
IPFrame ==
  /\ Arrives /\ RxFree /\ got' = NoByte
  /\ AfterUDPDiscard /\ addressee' = None
  /\ \E sender \in Nodes, h \in Headers : \E answered \in {FALSE, h = "plain"} :
       /\ remoteNode' = sender
       /\ rxPacket' = Leftover(h) /\ rxAt' = Astray
       /\ IF answered
          THEN /\ OtherFrame /\ IPHeaderLen' = "plain"
               /\ wire' = [Nothing EXCEPT !.kind = "echo", !.to = sender]
          ELSE IPHeaderLen' = h /\ wire' = Nothing /\ UNCHANGED putVars
  /\ UNCHANGED <<socketVars, turn, target, handle, may, meant, offered>>

(* TCPProcess() drops the frame when it is done, and may answer.            *)
TCPProcess ==
  /\ Arrives /\ RxFree /\ got' = NoByte
  /\ AfterUDPDiscard /\ MACDiscardRx /\ addressee' = None
  /\ \E sender \in Nodes : remoteNode' = sender
  /\ \/ TCPMaySend
     \/ \E h \in Headers : IPHeaderLen' = h /\ wire' = Nothing /\ UNCHANGED putVars
  /\ UNCHANGED <<socketVars, turn, target, handle, may, meant, offered>>

(* A UDP packet ends the loop when a socket takes it: one for port 0 may be *)
(* taken by a socket that is closed, and is then nobody's.                  *)
Packets == [src : Nodes, sport : PeerPort,
            dport : {Port[u] : u \in Users} \cup {INVALID_UDP_PORT},
            bcast : BOOLEAN, header : Headers, len : Lengths, field : Fields]
Holder(s) == IF \E u \in Users : handle[u] = s
             THEN CHOOSE u \in Users : handle[u] = s ELSE None
(* Seeded fault: the loop goes on after a packet that a socket took. *)
LoopGoesOn(taken) == FALSE
LoopEnds(taken) == taken
UDPFrame ==
  /\ Arrives /\ RxFree
  /\ \E p \in Packets :
       /\ remoteNode' = p.src
       /\ UDPProcess(p)
       /\ IF Accepts(p)
          THEN addressee' = Holder(FindMatchingSocket(p)) /\ offered' = FALSE
          ELSE addressee' = None /\ offered' = TRUE
       /\ turn' = IF LoopEnds(Accepts(p)) THEN "http" ELSE "rx"
  /\ Quiet /\ UNCHANGED <<target, handle, may, meant>>

-----------------------------------------------------------------------------
(* NBNSTask(): opens its socket, and answers the queries it reads to the    *)
(* node that the last frame came from.  A query that is not for our name,   *)
(* or comes from another subnet, is dropped.                                *)
NBNSOpen ==
  /\ turn = "nbns" /\ turn' = "app"
  /\ handle[NBNS] = NoSocket
  /\ UDPOpen(Port[NBNS], Broadcast, Port[NBNS])
  /\ handle' = [handle EXCEPT ![NBNS] = FirstClosed]
  /\ Quiet /\ UNCHANGED <<remoteNode, target, frames, history>>

NBNSWaits ==
  /\ turn = "nbns" /\ turn' = "app"
  /\ handle[NBNS] # NoSocket /\ ~GetReady(handle[NBNS])
  /\ activeUDPSocket' = handle[NBNS]
  /\ Quiet
  /\ UNCHANGED <<UDPSocketInfo, putVars, getVars, IPHeaderLen, remoteNode, target,
                 frames, handle, history>>

NBNSListen ==
  /\ turn = "nbns" /\ turn' = "app"
  /\ handle[NBNS] # NoSocket /\ GetReady(handle[NBNS])
  /\ activeUDPSocket' = handle[NBNS]
  /\ offered' = TRUE
  /\ got' = [by |-> NBNS, of |-> Origin(PlaceInPayload(0)), at |-> 0,
             from |-> PlaceInPayload(0)]
  /\ \/ UNCHANGED <<UDPSocketInfo, putVars, IPHeaderLen>> /\ wire' = Nothing
     \/ /\ UDPSocketInfo' = [UDPSocketInfo EXCEPT ![handle[NBNS]].node = remoteNode]
        /\ wire' = [kind |-> "answer", from |-> NBNS, to |-> remoteNode,
                    payload |-> rxPacket.src]
        /\ wPutOffset' = Room /\ Flushed
  /\ MACDiscardRx
  /\ UDPRxCount' = 0 /\ bWasDiscarded' = TRUE
  /\ bFirstRead' = FALSE /\ wGetOffset' = UDPRxCount
  /\ UNCHANGED <<SocketWithRxData, remoteNode, target, frames, handle, may, meant,
                 addressee>>

Next ==
  \/ \E u \in Callers : UserStep(u)
  \/ Discover \/ Tick \/ NoMoreFrames
  \/ ARPProcess \/ IPFrame \/ TCPProcess \/ UDPFrame
  \/ HTTPServer \/ NBNSOpen \/ NBNSWaits \/ NBNSListen

Spec == Init /\ [][Next]_stackVars

-----------------------------------------------------------------------------
StackTypeOK ==
  /\ UDPTypeOK
  /\ turn \in {"dhcp", "tick", "rx", "http", "nbns", "app"}
  /\ remoteNode \in Nodes \cup {NoNode} /\ target \in Nodes \cup {NoNode}
  /\ handle \in [Users -> Sockets \cup {NoSocket}]
  /\ frames \in 0 .. MaxFrames

(* A byte that a user reads is the next byte of the packet that came for    *)
(* it: not of a packet for another user, nor of one the MAC has given back. *)
(* The code promises it within three limits: the packet was not sent to     *)
(* port 0 (UDP.c:1036); the IP layer still remembers the length of this     *)
(* packet's header, which it forgets when a frame is sent (IP.c:295); and   *)
(* the user has not read to the packet's end, behind which it reads on if   *)
(* the datagram's header says more than there is (UDP.c:971).               *)
InReach(n) ==
  /\ rxPacket.dport # INVALID_UDP_PORT
  /\ IPHeaderLen = rxPacket.header
  /\ n < rxPacket.len
ReadsItsOwnPacket ==
  [][got' # NoByte /\ InReach(got'.at)
       => got'.of = got'.by /\ got'.from = got'.at]_stackVars

(* A datagram holds exactly what its user put since it asked for room: no   *)
(* byte of a message another task left unsent, none lost to a frame that    *)
(* was built in the same buffer meanwhile.                                  *)
DatagramIsWhole ==
  wire.kind \in {"udp", "discover"} => wire.payload.sent = wire.payload.meant

(* A datagram that a socket took stays until its user has had a turn.       *)
DatagramIsOffered ==
  [][addressee # None /\ handle[addressee] # NoSocket /\ addressee' # addressee
       => offered]_stackVars
=============================================================================
