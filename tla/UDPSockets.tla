----------------------------- MODULE UDPSockets -----------------------------
(***************************************************************************)
(* The UDP sockets (UDP.c).  All sockets share one transmit buffer, one    *)
(* received packet and one position in each, and a set of flags that tell  *)
(* whose turn with them it is.  Each operator below is one function of the *)
(* module; StackTask.tla calls them in the order of the main loop.         *)
(***************************************************************************)
EXTENDS Naturals, FiniteSetsExt

CONSTANTS
  MAX_UDP_SOCKETS,
  Nodes,      \* hosts of the network
  Broadcast,  \* the node 0xFFFFFFFF / FF-FF-FF-FF-FF-FF
  NoNode,     \* the node 0.0.0.0 of a closed socket
  Room,       \* bytes of payload that fit into a datagram
  Junk,       \* what a cell of a transmit buffer holds that was not written
  Astray,     \* the MAC's position when it is not in the datagram
  NoSocket    \* INVALID_UDP_SOCKET

ASSUME UDPAssumption ==
  /\ MAX_UDP_SOCKETS \in Nat \ {0} /\ Room \in Nat \ {0}
  /\ NoSocket \notin Nat /\ Astray \notin Nat
  /\ Broadcast \notin Nodes /\ NoNode \notin Nodes /\ Broadcast # NoNode

VARIABLES
  UDPSocketInfo, activeUDPSocket,
  LastPutSocket, UDPTxCount, wPutOffset,
  SocketWithRxData, UDPRxCount, wGetOffset, bFirstRead, bWasDiscarded,
  txBuf,        \* the MAC's transmit buffer, the payload of the datagram
  txAt,         \* the MAC's write position in it
  rxPacket,     \* the packet in the MAC's receive buffer
  rxAt,         \* the MAC's read position in its payload
  IPHeaderLen   \* the length the IP layer remembers: "plain" or "options"

socketVars == <<UDPSocketInfo, activeUDPSocket>>
putVars == <<LastPutSocket, UDPTxCount, wPutOffset, txBuf, txAt>>
getVars == <<SocketWithRxData, UDPRxCount, wGetOffset, bFirstRead, bWasDiscarded,
             rxPacket, rxAt>>
udpVars == <<UDPSocketInfo, activeUDPSocket, LastPutSocket, UDPTxCount,
             wPutOffset, txBuf, txAt, SocketWithRxData, UDPRxCount, wGetOffset,
             bFirstRead, bWasDiscarded, rxPacket, rxAt, IPHeaderLen>>

Sockets == 0 .. MAX_UDP_SOCKETS - 1
INVALID_UDP_PORT == 0
HeaderSize == 8   \* sizeof(UDP_HEADER)
WORDs == {n \in Nat : n < 65536}
(* A packet has len bytes of payload; its header says how long the datagram *)
(* is with its own header, and the two need not agree.                      *)
NoPacket == [src |-> NoNode, sport |-> 0, dport |-> 0, bcast |-> FALSE,
             header |-> "plain", len |-> 0, field |-> HeaderSize]
ClosedSocket(rport) == [local |-> INVALID_UDP_PORT, node |-> NoNode, rport |-> rport]
EmptyBuffer == [i \in 0 .. Room - 1 |-> Junk]

UDPInit ==
  /\ UDPSocketInfo = [s \in Sockets |-> ClosedSocket(0)]
  /\ activeUDPSocket = 0
  /\ LastPutSocket = NoSocket /\ UDPTxCount = 0 /\ wPutOffset = 0
  /\ txBuf = EmptyBuffer /\ txAt = Astray
  /\ SocketWithRxData = NoSocket /\ UDPRxCount = 0 /\ wGetOffset = 0
  /\ bFirstRead = FALSE /\ bWasDiscarded = TRUE
  /\ rxPacket = NoPacket /\ rxAt = Astray /\ IPHeaderLen = "plain"

-----------------------------------------------------------------------------
(* Sockets.                                                                 *)

Closed == {s \in Sockets : UDPSocketInfo[s].local = INVALID_UDP_PORT}
FirstClosed == IF Closed = {} THEN NoSocket ELSE Min(Closed)

(* UDPOpen() of a port that the caller names; NULL stands for Broadcast.    *)
UDPOpen(port, node, rport) ==
  /\ IF Closed = {} THEN UNCHANGED socketVars
     ELSE /\ UDPSocketInfo' = [UDPSocketInfo EXCEPT ![FirstClosed] =
                                [local |-> port, node |-> node, rport |-> rport]]
          /\ activeUDPSocket' = FirstClosed
  /\ UNCHANGED <<putVars, getVars, IPHeaderLen>>

UDPClose(s) ==
  /\ UDPSocketInfo' = [UDPSocketInfo EXCEPT ![s] = ClosedSocket(@.rport)]
  /\ UNCHANGED <<activeUDPSocket, putVars, getVars, IPHeaderLen>>

-----------------------------------------------------------------------------
(* Transmission.                                                            *)

(* A frame of another protocol is built in the same buffer and sent: the    *)
(* MAC goes on to its next buffer, and the IP layer forgets the length of   *)
(* the header it received last (MACFlush(), IPPutHeader()).                 *)
OtherFrame ==
  /\ txBuf' = EmptyBuffer /\ txAt' = Astray
  /\ UNCHANGED <<LastPutSocket, UDPTxCount, wPutOffset>>

(* Seeded fault: the last task's transmission is taken for a new one. *)
UDPTaskIdle == UNCHANGED LastPutSocket
UDPTask == LastPutSocket' = NoSocket

UDPIsPutReady(s) ==
  /\ IF LastPutSocket = s THEN UNCHANGED putVars
     ELSE /\ LastPutSocket' = s /\ UDPTxCount' = 0
          /\ wPutOffset' = 0 /\ txAt' = 0
          /\ UNCHANGED txBuf
  /\ activeUDPSocket' = s
  /\ UNCHANGED <<UDPSocketInfo, getVars, IPHeaderLen>>

UDPSetTxBuffer(offset) ==
  /\ wPutOffset' = offset /\ txAt' = offset
  /\ UNCHANGED <<LastPutSocket, UDPTxCount, txBuf, socketVars, getVars, IPHeaderLen>>

(* Seeded fault: the end of the buffer is not seen. *)
UDPPutUnbounded(v) ==
  /\ txBuf' = IF txAt \in DOMAIN txBuf THEN [txBuf EXCEPT ![txAt] = v] ELSE txBuf
  /\ txAt' = IF txAt = Astray THEN Astray ELSE txAt + 1
  /\ wPutOffset' = wPutOffset + 1
  /\ UDPTxCount' = Max({UDPTxCount, wPutOffset + 1})
  /\ UNCHANGED <<LastPutSocket, socketVars, getVars, IPHeaderLen>>

(* UDPPut(): nothing is written beyond Room.                                *)
UDPPut(v) ==
  /\ wPutOffset < Room
  /\ txBuf' = IF txAt \in DOMAIN txBuf THEN [txBuf EXCEPT ![txAt] = v] ELSE txBuf
  /\ txAt' = IF txAt = Astray THEN Astray ELSE txAt + 1
  /\ wPutOffset' = wPutOffset + 1
  /\ UDPTxCount' = Max({UDPTxCount, wPutOffset + 1})
  /\ UNCHANGED <<LastPutSocket, socketVars, getVars, IPHeaderLen>>

(* UDPFlush(): what leaves for whom; the buffer is then the MAC's next one. *)
Datagram == [to |-> UDPSocketInfo[activeUDPSocket].node,
             port |-> UDPSocketInfo[activeUDPSocket].rport,
             payload |-> [i \in 0 .. UDPTxCount - 1 |-> txBuf[i]]]

Flushed ==
  /\ IPHeaderLen' = "plain"
  /\ txBuf' = EmptyBuffer /\ txAt' = Astray
  /\ UDPTxCount' = 0 /\ LastPutSocket' = NoSocket
UDPFlush == Flushed /\ UNCHANGED <<wPutOffset, socketVars, getVars>>

-----------------------------------------------------------------------------
(* Reception.                                                               *)

(* IPSetRxBuffer(): the place in the packet follows from the length that    *)
(* the IP layer remembers, which is that of this packet or not.             *)
PlaceInPayload(offset) == IF IPHeaderLen = rxPacket.header THEN offset ELSE Astray

UDPSetRxBuffer(offset) ==
  /\ rxAt' = PlaceInPayload(offset)
  /\ wGetOffset' = offset
  /\ UNCHANGED <<SocketWithRxData, UDPRxCount, bFirstRead, bWasDiscarded,
                 rxPacket, socketVars, putVars, IPHeaderLen>>

UDPIsGetReady(s) ==
  /\ activeUDPSocket' = s
  /\ IF SocketWithRxData = s /\ bFirstRead
     THEN /\ bFirstRead' = FALSE
          /\ rxAt' = PlaceInPayload(0) /\ wGetOffset' = 0
          /\ UNCHANGED <<SocketWithRxData, UDPRxCount, bWasDiscarded, rxPacket>>
     ELSE UNCHANGED getVars
  /\ UNCHANGED <<UDPSocketInfo, putVars, IPHeaderLen>>

GetReady(s) == SocketWithRxData = s /\ UDPRxCount > 0

(* Seeded fault: any socket reads the packet. *)
UDPGetAny ==
  /\ wGetOffset < UDPRxCount
  /\ rxAt' = IF rxAt = Astray THEN Astray ELSE rxAt + 1
  /\ wGetOffset' = wGetOffset + 1
  /\ UNCHANGED <<SocketWithRxData, UDPRxCount, bFirstRead, bWasDiscarded,
                 rxPacket, socketVars, putVars, IPHeaderLen>>

UDPGet ==
  /\ wGetOffset < UDPRxCount /\ SocketWithRxData = activeUDPSocket
  /\ rxAt' = IF rxAt = Astray THEN Astray ELSE rxAt + 1
  /\ wGetOffset' = wGetOffset + 1
  /\ UNCHANGED <<SocketWithRxData, UDPRxCount, bFirstRead, bWasDiscarded,
                 rxPacket, socketVars, putVars, IPHeaderLen>>

(* MACDiscardRx(): the next read would be of another buffer.                *)
MACDiscardRx == rxPacket' = NoPacket /\ rxAt' = Astray

UDPDiscard ==
  /\ IF bWasDiscarded THEN UNCHANGED getVars
     ELSE /\ MACDiscardRx
          /\ UDPRxCount' = 0 /\ bWasDiscarded' = TRUE
          /\ UNCHANGED <<SocketWithRxData, wGetOffset, bFirstRead>>
  /\ UNCHANGED <<socketVars, putVars, IPHeaderLen>>

(* FindMatchingSocket(): the first socket that talks to this very peer, or  *)
(* else the last one on this port, which talks to this peer from now on.    *)
OnPort(p) == {s \in Sockets : UDPSocketInfo[s].local = p.dport}
ForPeer(p) == {s \in OnPort(p) : /\ UDPSocketInfo[s].rport = p.sport
                                 /\ UDPSocketInfo[s].node = p.src \/ p.bcast}
FindMatchingSocket(p) ==
  IF ForPeer(p) # {} THEN Min(ForPeer(p))
  ELSE IF OnPort(p) # {} THEN Max(OnPort(p)) ELSE NoSocket
Rebound(p) ==
  IF ForPeer(p) # {} \/ OnPort(p) = {} THEN UDPSocketInfo
  ELSE [UDPSocketInfo EXCEPT ![Max(OnPort(p))].node = p.src,
                             ![Max(OnPort(p))].rport = p.sport]

(* UDPProcess() of a packet whose checksum is right: TRUE (in Accepts) if a *)
(* socket takes it, which is the only case in which the packet stays.  What *)
(* may be read is what its header says, less eight bytes in a WORD: that is *)
(* not compared with the length of the packet, and wraps below eight.       *)
Accepts(p) == FindMatchingSocket(p) # NoSocket
SaidLength(p) == (p.field + 65536 - HeaderSize) % 65536

UDPProcess(p) ==
  /\ UDPSocketInfo' = Rebound(p)
  /\ SocketWithRxData' = FindMatchingSocket(p)
  /\ rxAt' = Astray
  /\ IF Accepts(p)
     THEN /\ rxPacket' = p /\ UDPRxCount' = SaidLength(p)
          /\ bFirstRead' = TRUE /\ bWasDiscarded' = FALSE
     ELSE /\ rxPacket' = NoPacket /\ UDPRxCount' = 0
          /\ UNCHANGED <<bFirstRead, bWasDiscarded>>
  /\ IPHeaderLen' = p.header
  /\ UNCHANGED <<wGetOffset, activeUDPSocket, putVars>>

-----------------------------------------------------------------------------
UDPTypeOK ==
  /\ UDPSocketInfo \in [Sockets -> [local : Nat, node : Nodes \cup {Broadcast, NoNode},
                                    rport : Nat]]
  /\ activeUDPSocket \in Sockets
  /\ LastPutSocket \in Sockets \cup {NoSocket}
  /\ UDPTxCount \in 0 .. Room /\ wPutOffset \in 0 .. Room
  /\ txAt \in (0 .. Room) \cup {Astray}
  /\ SocketWithRxData \in Sockets \cup {NoSocket}
  /\ UDPRxCount \in WORDs /\ wGetOffset \in WORDs
  /\ bFirstRead \in BOOLEAN /\ bWasDiscarded \in BOOLEAN
  /\ rxAt \in Nat \cup {Astray}
  /\ IPHeaderLen \in {"plain", "options"}
=============================================================================
