--------------------------- MODULE StackTaskProofs ---------------------------
(***************************************************************************)
(* Proofs about the tasks that share UDP.c: for any number of sockets and  *)
(* nodes, any ports, any room in a datagram and any lengths of packets,    *)
(* what a task sends is what it put, and what it reads came for it.        *)
(***************************************************************************)
EXTENDS StackTask, Integers, WellFoundedInduction, TLAPS

-----------------------------------------------------------------------------
(* The invariant.                                                          *)

Whose == IF turn = "dhcp" THEN DHCP ELSE App

\* Sockets with a port are those the users hold, each under its own port.
Held ==
  /\ \A u \in Users : handle[u] # NoSocket => UDPSocketInfo[handle[u]].local = Port[u]
  /\ \A s \in Sockets :
       UDPSocketInfo[s].local # INVALID_UDP_PORT => \E u \in Users : handle[u] = s

\* Only a user whose turn it is has asked for something, and what UDPGet() reads
\* is its socket's.
Asked ==
  /\ may \subseteq {"put", "get"}
  /\ may # {} => turn \in {"dhcp", "app"} /\ handle[Whose] # NoSocket
  /\ "get" \in may => activeUDPSocket = handle[Whose]

\* While a user puts, the buffer begins with what it has put, and the position of
\* the MAC is that of UDP.c.
Written ==
  "put" \in may =>
    /\ LastPutSocket = handle[Whose]
    /\ wPutOffset <= UDPTxCount /\ txAt = wPutOffset
    /\ meant = [i \in 0 .. UDPTxCount - 1 |-> Whose]
    /\ \A i \in 0 .. UDPTxCount - 1 : txBuf[i] = Whose

\* A socket that LastPutSocket names although its user has not asked: UDPTask()
\* is still to come, or it is the application's while DHCPTask() runs, or
\* nothing was put.
Abandoned ==
  "put" \notin may /\ LastPutSocket # NoSocket =>
    \/ turn = "tick"
    \/ turn = "dhcp" /\ LastPutSocket = handle[App]
    \/ turn \in {"dhcp", "app"} /\ UDPTxCount = 0 /\ wPutOffset = 0 /\ txAt = 0

\* A packet that may be read is the addressee's.
Delivered ==
  /\ addressee \in Users \cup {None}
  /\ bWasDiscarded => UDPRxCount = 0
  /\ UDPRxCount > 0 => SocketWithRxData # NoSocket
  /\ UDPRxCount > 0 /\ addressee # None => handle[addressee] = SocketWithRxData

BufferOK == txBuf \in [0 .. Room - 1 -> Users \cup {Junk}]

StackInv ==
  /\ StackTypeOK /\ BufferOK /\ Held /\ Asked /\ Written /\ Abandoned /\ Delivered
  /\ DatagramIsWhole

\* Where the next byte comes from: only a packet for port 0 came for nobody, the
\* length of its header is forgotten for a plain one only, and until then the MAC
\* stands where UDP.c counts.
ReadInPlace ==
  /\ rxPacket.len \in Nat
  /\ UDPRxCount > 0 =>
       /\ addressee = None => rxPacket.dport = INVALID_UDP_PORT
       /\ rxPacket.header = "plain" => IPHeaderLen = "plain"
       /\ IPHeaderLen = rxPacket.header /\ ~bFirstRead => rxAt = wGetOffset
  /\ "get" \in may /\ SocketWithRxData = activeUDPSocket /\ UDPRxCount > 0 => ~bFirstRead

\* Who is still to be offered a packet that is not empty, and when.
StillOffered ==
  /\ offered \in BOOLEAN
  /\ addressee = NBNS => handle[NBNS] # NoSocket
  /\ addressee # None /\ handle[addressee] # NoSocket /\ ~offered =>
       \/ turn \in {"http", "nbns"} /\ UDPRxCount > 0
       \/ turn = "app" /\ addressee \in {DHCP, App}
       \/ turn = "dhcp" /\ addressee = DHCP

-----------------------------------------------------------------------------
(* Numbers and sets of sockets.                                            *)

Below == {ss \in Nat \X Nat : ss[1] < ss[2]}

\* A set of numbers that is not empty has a least element.
LEMMA LeastNumber ==
    ASSUME NEW S, S \subseteq Nat, S # {}
    PROVE \E x \in S : \A y \in S : x =< y
  <1>1. IsWellFoundedOn(Below, Nat)
    BY NatLessThanWellFounded DEF OpToRel, Below
  <1>2. \E x \in S : \A y \in S : ~ (<<y, x>> \in Below)  BY <1>1, WFMin
  <1>3. \A x \in S, y \in S : ~ (<<y, x>> \in Below) => x =< y  BY DEF Below
  <1> QED  BY <1>2, <1>3

\* A set of numbers with a bound that is not empty has a greatest element.
LEMMA GreatestNumber ==
    ASSUME NEW S, S \subseteq Nat, S # {}, NEW n \in Nat, \A x \in S : x =< n
    PROVE \E x \in S : \A y \in S : x >= y
  <1> DEFINE Bounds == {b \in Nat : \A y \in S : y =< b}
  <1>1. Bounds \subseteq Nat /\ Bounds # {}  OBVIOUS
  <1>2. PICK b \in Bounds : \A c \in Bounds : b =< c  BY <1>1, LeastNumber
  <1>3. b \in S
    <2> SUFFICES ASSUME b \notin S PROVE FALSE  OBVIOUS
    <2>1. \A y \in S : y =< b /\ y # b /\ y \in Nat /\ b \in Nat  BY <1>2
    <2>2. PICK z \in S : TRUE  OBVIOUS
    <2>3. b > 0 /\ \A y \in S : y =< b - 1  BY <2>1, <2>2
    <2>4. b - 1 \in Bounds  BY <2>1, <2>3
    <2> QED  BY <1>2, <2>1, <2>4
  <1> QED  BY <1>2, <1>3

\* Min() of a set of sockets is one of them.
LEMMA FirstSocket ==
    ASSUME NEW S, S \subseteq Sockets, S # {} PROVE Min(S) \in S
  <1>1. S \subseteq Nat  BY UDPAssumption DEF Sockets
  <1>2. \E x \in S : \A y \in S : x =< y  BY <1>1, LeastNumber
  <1> QED  BY <1>2 DEF Min

\* Max() of a set of sockets is one of them.
LEMMA LastSocket ==
    ASSUME NEW S, S \subseteq Sockets, S # {} PROVE Max(S) \in S
  <1>1. MAX_UDP_SOCKETS \in Nat /\ S \subseteq Nat /\ \A x \in S : x =< MAX_UDP_SOCKETS
    BY UDPAssumption DEF Sockets
  <1>2. \E x \in S : \A y \in S : x >= y  BY <1>1, GreatestNumber
  <1> QED  BY <1>2 DEF Max

\* Max() of two numbers.
LEMMA GreaterOfTwo ==
    ASSUME NEW a \in Nat, NEW b \in Nat
    PROVE Max({a, b}) = IF a >= b THEN a ELSE b
  <1>1. \E x \in {a, b} : \A y \in {a, b} : x >= y  OBVIOUS
  <1>2. Max({a, b}) \in {a, b} /\ \A y \in {a, b} : Max({a, b}) >= y
    BY <1>1, Zenon DEF Max
  <1> HIDE DEF Max
  <1> QED  BY <1>2

\* NoSocket and Astray are no numbers of sockets or bytes, and the three tasks
\* are three.
LEMMA Names ==
    /\ NoSocket \notin Sockets /\ Astray \notin Nat /\ Room \in Nat /\ Room > 0
    /\ DHCP # App /\ NBNS # DHCP /\ NBNS # App /\ None \notin Users
    /\ 0 \in Sockets
  BY UDPAssumption, StackAssumption DEF Sockets, Users, Callers

\* UDPOpen() finds a closed socket or none.
LEMMA FirstClosedIs ==
    \/ Closed = {} /\ FirstClosed = NoSocket
    \/ /\ Closed # {} /\ FirstClosed \in Sockets
       /\ UDPSocketInfo[FirstClosed].local = INVALID_UDP_PORT
  <1>1. Closed \subseteq Sockets  BY DEF Closed
  <1>2. Closed # {} => Min(Closed) \in Closed  BY <1>1, FirstSocket
  <1> QED  BY <1>2 DEF FirstClosed, Closed

-----------------------------------------------------------------------------
(* Who holds which socket.                                                 *)

Infos == [local : Nat, node : Nodes \cup {Broadcast, NoNode}, rport : Nat]
TableOK ==
  /\ UDPSocketInfo \in [Sockets -> Infos]
  /\ handle \in [Users -> Sockets \cup {NoSocket}]

\* No two users hold the same socket.
LEMMA OneHolder ==
    ASSUME Held, NEW u \in Users, NEW v \in Users,
           handle[u] = handle[v], handle[u] # NoSocket
    PROVE u = v
  BY StackAssumption DEF Held

\* The first conjunct of Held keeps a user's socket from being closed.
LEMMA HeldIsOpen ==
    ASSUME Held, TableOK, NEW u \in Users, handle[u] # NoSocket
    PROVE handle[u] \in Sockets /\ UDPSocketInfo[handle[u]].local = Port[u]
          /\ Port[u] # INVALID_UDP_PORT
  BY StackAssumption DEF Held, TableOK

\* A step that opens and closes nothing.
LEMMA HeldStays ==
    ASSUME Held, UNCHANGED <<UDPSocketInfo, handle>> PROVE Held'
  BY DEF Held

\* A step that changes the remote node or port of a socket only.
LEMMA HeldRebound ==
    ASSUME Held, TableOK, UNCHANGED handle, NEW s \in Sockets,
           UDPSocketInfo' \in [Sockets -> Infos],
           \A t \in Sockets : UDPSocketInfo'[t].local = UDPSocketInfo[t].local
    PROVE Held'
  BY DEF Held, TableOK

\* A user opens a socket, or finds none closed.
LEMMA HeldOpen ==
    ASSUME Held, TableOK, NEW u \in Users, handle[u] = NoSocket,
           NEW node \in Nodes \cup {Broadcast, NoNode}, NEW rport \in Nat,
           UDPOpen(Port[u], node, rport),
           handle' = [handle EXCEPT ![u] = FirstClosed]
    PROVE Held' /\ TableOK' /\ (activeUDPSocket \in Sockets => activeUDPSocket' \in Sockets)
  <1>1. CASE Closed = {}
    <2>1. FirstClosed = NoSocket  BY <1>1, FirstClosedIs
    <2>2. UNCHANGED <<UDPSocketInfo, activeUDPSocket>>  BY <1>1 DEF UDPOpen, socketVars
    <2>3. handle' = handle  BY <2>1 DEF TableOK
    <2> QED  BY <2>2, <2>3, HeldStays DEF TableOK
  <1>2. CASE Closed # {}
    <2> DEFINE f == FirstClosed
               r == [local |-> Port[u], node |-> node, rport |-> rport]
    <2>1. f \in Sockets /\ UDPSocketInfo[f].local = INVALID_UDP_PORT
      BY <1>2, FirstClosedIs
    <2>2. UDPSocketInfo' = [UDPSocketInfo EXCEPT ![f] = r] /\ activeUDPSocket' = f
      BY <1>2, Zenon DEF UDPOpen
    <2>3. r \in Infos /\ r.local = Port[u] /\ Port[u] # INVALID_UDP_PORT
      BY StackAssumption DEF Infos
    <2>4. handle' = [handle EXCEPT ![u] = f]  OBVIOUS
    <2> HIDE DEF f, r
    <2>5. TableOK'  BY <2>1, <2>2, <2>3, <2>4 DEF TableOK
    <2>6. \A s \in Sockets : UDPSocketInfo'[s] = IF s = f THEN r ELSE UDPSocketInfo[s]
      BY <2>1, <2>2 DEF TableOK
    <2>7. \A v \in Users : handle'[v] = IF v = u THEN f ELSE handle[v]
      BY <2>4 DEF TableOK
    <2>8. \A v \in Users : handle'[v] # NoSocket => UDPSocketInfo'[handle'[v]].local = Port[v]
      BY <2>1, <2>3, <2>6, <2>7, HeldIsOpen
    <2>9. ASSUME NEW s \in Sockets, UDPSocketInfo'[s].local # INVALID_UDP_PORT
          PROVE \E v \in Users : handle'[v] = s
      <3>1. CASE s = f  BY <3>1, <2>7
      <3>2. CASE s # f
        <4>1. PICK v \in Users : handle[v] = s  BY <2>6, <2>9, <3>2 DEF Held
        <4>2. v # u  BY <4>1, Names
        <4> QED  BY <4>1, <4>2, <2>7
      <3> QED  BY <3>1, <3>2
    <2> QED  BY <2>1, <2>2, <2>5, <2>8, <2>9 DEF Held
  <1> QED  BY <1>1, <1>2

\* A user closes its socket.
LEMMA HeldClose ==
    ASSUME Held, TableOK, NEW u \in Users, handle[u] # NoSocket, UDPClose(handle[u]),
           handle' = [handle EXCEPT ![u] = NoSocket]
    PROVE Held' /\ TableOK'
  <1> DEFINE h == handle[u]
             r == ClosedSocket(UDPSocketInfo[h].rport)
  <1>1. h \in Sockets /\ UDPSocketInfo[h] \in Infos  BY HeldIsOpen DEF TableOK
  <1>2. UDPSocketInfo' = [UDPSocketInfo EXCEPT ![h] = r]  BY Zenon DEF UDPClose
  <1>3. r \in Infos /\ r.local = INVALID_UDP_PORT
    BY <1>1 DEF ClosedSocket, Infos, INVALID_UDP_PORT
  <1> HIDE DEF r
  <1>4. TableOK'  BY <1>1, <1>2, <1>3 DEF TableOK
  <1>5. \A s \in Sockets : UDPSocketInfo'[s] = IF s = h THEN r ELSE UDPSocketInfo[s]
    BY <1>1, <1>2 DEF TableOK
  <1>6. \A v \in Users : handle'[v] = IF v = u THEN NoSocket ELSE handle[v]
    BY DEF TableOK
  <1>7. \A v \in Users : handle'[v] # NoSocket =>
           handle[v] # h /\ handle'[v] = handle[v] /\ v # u
    BY <1>6, OneHolder
  <1>8. \A v \in Users : handle'[v] # NoSocket => UDPSocketInfo'[handle'[v]].local = Port[v]
    BY <1>5, <1>7, HeldIsOpen
  <1>9. ASSUME NEW s \in Sockets, UDPSocketInfo'[s].local # INVALID_UDP_PORT
        PROVE \E v \in Users : handle'[v] = s
    <2>1. s # h /\ UDPSocketInfo'[s] = UDPSocketInfo[s]  BY <1>3, <1>5, <1>9
    <2>2. PICK v \in Users : handle[v] = s  BY <1>9, <2>1 DEF Held
    <2> QED  BY <2>1, <2>2, <1>6
  <1> QED  BY <1>4, <1>8, <1>9 DEF Held

\* One socket gets another remote node and port.
LEMMA RebindOne ==
    ASSUME TableOK, NEW s \in Sockets, NEW r \in Infos, r.local = UDPSocketInfo[s].local,
           UDPSocketInfo' = [UDPSocketInfo EXCEPT ![s] = r]
    PROVE /\ UDPSocketInfo' \in [Sockets -> Infos]
          /\ \A t \in Sockets : UDPSocketInfo'[t].local = UDPSocketInfo[t].local
  BY DEF TableOK

-----------------------------------------------------------------------------
(* The calls of a user.                                                    *)

\* The user whose turn it is.
LEMMA TurnIs ==
    ASSUME NEW u \in Callers, Turn(u)
    PROVE /\ u \in Users /\ u = Whose /\ turn \in {"dhcp", "app"}
          /\ u = DHCP <=> turn = "dhcp"
  BY Names DEF Callers, Users, Turn, Whose

\* The types of what a call of UDP.c leaves alone.
LoopTypes ==
  /\ turn \in {"dhcp", "tick", "rx", "http", "nbns", "app"}
  /\ remoteNode \in Nodes \cup {NoNode} /\ target \in Nodes \cup {NoNode}
  /\ frames \in 0 .. MaxFrames
PutTypes ==
  /\ LastPutSocket \in Sockets \cup {NoSocket}
  /\ UDPTxCount \in 0 .. Room /\ wPutOffset \in 0 .. Room
  /\ txAt \in (0 .. Room) \cup {Astray}
  /\ BufferOK
GetTypes ==
  /\ SocketWithRxData \in Sockets \cup {NoSocket}
  /\ UDPRxCount \in WORDs /\ wGetOffset \in WORDs
  /\ bFirstRead \in BOOLEAN /\ bWasDiscarded \in BOOLEAN
  /\ rxAt \in Nat \cup {Astray}
HeaderOK == IPHeaderLen \in {"plain", "options"}
ActiveOK == activeUDPSocket \in Sockets

\* The types, part by part.
LEMMA TypesAre ==
    ASSUME StackTypeOK, BufferOK
    PROVE TableOK /\ LoopTypes /\ PutTypes /\ GetTypes /\ HeaderOK /\ ActiveOK
  BY DEF StackTypeOK, UDPTypeOK, TableOK, Infos, LoopTypes, PutTypes, GetTypes,
         HeaderOK, ActiveOK

\* The parts make the types of the next state.
LEMMA TypesNext ==
    ASSUME TableOK', LoopTypes', PutTypes', GetTypes', HeaderOK', ActiveOK'
    PROVE StackTypeOK' /\ BufferOK'
  BY DEF StackTypeOK, UDPTypeOK, TableOK, Infos, LoopTypes, PutTypes, GetTypes,
         HeaderOK, ActiveOK

\* A WORD is a number, and what a header says is one.
LEMMA WordIs == 0 \in WORDs /\ \A n \in WORDs : n \in Nat
  BY DEF WORDs
LEMMA SaidIs ==
    ASSUME NEW p, p.field \in WORDs
    PROVE SaidLength(p) \in WORDs /\ (p.field # HeaderSize => SaidLength(p) > 0)
  <1> DEFINE f == p.field
  <1>1. f \in Nat /\ f < 65536  BY DEF WORDs
  <1>2. SaidLength(p) = (f + 65536 - 8) % 65536  BY DEF SaidLength, HeaderSize
  <1> HIDE DEF f
  <1>3. (f + 65536 - 8) % 65536 \in Nat /\ (f + 65536 - 8) % 65536 < 65536  BY <1>1
  <1>4. f # 8 => (f + 65536 - 8) % 65536 > 0  BY <1>1
  <1> QED  BY <1>2, <1>3, <1>4 DEF f, WORDs, HeaderSize

\* A step that sends no datagram.
LEMMA NoDatagram == Quiet => DatagramIsWhole'
  BY DEF Quiet, Nothing, DatagramIsWhole

\* UDPOpen() by a user that has no socket.
LEMMA OpenKeeps ==
    ASSUME StackInv, NEW u \in Callers, Open(u) PROVE StackInv'
  <1>1. u \in Users /\ u = Whose /\ turn \in {"dhcp", "app"} /\ (u = DHCP <=> turn = "dhcp")
    BY TurnIs DEF Open
  <1>2. /\ handle[u] = NoSocket
        /\ handle' = [handle EXCEPT ![u] = FirstClosed]
        /\ UNCHANGED <<turn, remoteNode, target, frames, may, meant, addressee, offered>>
        /\ Quiet
        /\ UNCHANGED <<putVars, getVars, IPHeaderLen>>
        /\ \E p \in PeerPort : UDPOpen(Port[u], Broadcast, p)
    BY DEF Open, loopVars, history, UDPOpen
  <1>3. /\ TableOK /\ LoopTypes /\ PutTypes /\ GetTypes /\ HeaderOK /\ ActiveOK
        /\ Held /\ Asked /\ Abandoned /\ Delivered
    BY TypesAre DEF StackInv
  <1>4. Held' /\ TableOK' /\ ActiveOK'
    <2>1. PICK p \in PeerPort : UDPOpen(Port[u], Broadcast, p)  BY <1>2
    <2>2. p \in Nat  BY StackAssumption
    <2> QED  BY <1>1, <1>2, <1>3, <2>1, <2>2, HeldOpen DEF ActiveOK
  <1>5. may = {} /\ may' = {}  BY <1>1, <1>2, <1>3 DEF Asked
  <1>6. StackTypeOK' /\ BufferOK'
    <2>1. LoopTypes' /\ PutTypes' /\ GetTypes' /\ HeaderOK'
      BY <1>2, <1>3 DEF LoopTypes, PutTypes, GetTypes, HeaderOK, putVars, getVars, BufferOK
    <2> QED  BY <1>4, <2>1, TypesNext
  <1>7. Asked' /\ Written'  BY <1>5 DEF Asked, Written
  <1>8. \A v \in Users : v # u => handle'[v] = handle[v]  BY <1>2, <1>3 DEF TableOK
  <1>9. Abandoned'
    BY <1>1, <1>2, <1>3, <1>5, <1>8, Names DEF Abandoned, putVars, Users
  <1>10. Delivered'
    BY <1>1, <1>2, <1>3, <1>8 DEF Delivered, getVars
  <1> QED  BY <1>2, <1>4, <1>6, <1>7, <1>9, <1>10, NoDatagram DEF StackInv

\* UDPClose() by a user that has nothing unread and nothing unsent.
LEMMA CloseKeeps ==
    ASSUME StackInv, NEW u \in Callers, Close(u) PROVE StackInv'
  <1>1. u \in Users /\ u = Whose /\ turn \in {"dhcp", "app"} /\ (u = DHCP <=> turn = "dhcp")
    BY TurnIs DEF Close, Mine
  <1>2. /\ handle[u] # NoSocket /\ ~GetReady(handle[u])
        /\ "put" \in may => meant = <<>>
        /\ UDPClose(handle[u])
        /\ handle' = [handle EXCEPT ![u] = NoSocket] /\ may' = {}
        /\ UNCHANGED <<turn, remoteNode, target, frames, meant, addressee, offered>>
        /\ Quiet
        /\ UNCHANGED <<activeUDPSocket, putVars, getVars, IPHeaderLen>>
    BY DEF Close, Mine, Unread, loopVars, UDPClose
  <1>3. /\ TableOK /\ LoopTypes /\ PutTypes /\ GetTypes /\ HeaderOK /\ ActiveOK
        /\ Held /\ Asked /\ Abandoned /\ Delivered /\ Written
    BY TypesAre DEF StackInv
  <1>4. Held' /\ TableOK'  BY <1>1, <1>2, <1>3, HeldClose
  <1>6. StackTypeOK' /\ BufferOK'
    <2>1. LoopTypes' /\ PutTypes' /\ GetTypes' /\ HeaderOK' /\ ActiveOK'
      BY <1>2, <1>3 DEF LoopTypes, PutTypes, GetTypes, HeaderOK, ActiveOK, putVars,
                        getVars, BufferOK
    <2> QED  BY <1>4, <2>1, TypesNext
  <1>7. Asked' /\ Written'  BY <1>2 DEF Asked, Written
  <1>8. \A v \in Users : v # u => handle'[v] = handle[v]  BY <1>2, <1>3 DEF TableOK
  <1>9. Abandoned'
    <2>1. CASE "put" \in may
      <3>1. DOMAIN meant = 0 .. UDPTxCount - 1 /\ wPutOffset <= UDPTxCount
            /\ txAt = wPutOffset
        BY <2>1, <1>3 DEF Written
      <3>2. DOMAIN meant = {}  BY <1>2, <2>1
      <3>3. UDPTxCount = 0 /\ wPutOffset = 0
        BY <1>3, <3>1, <3>2 DEF PutTypes
      <3> QED  BY <1>1, <1>2, <3>1, <3>3 DEF Abandoned, putVars
    <2>2. CASE "put" \notin may
      <3>1. turn = "dhcp" => handle'[App] = handle[App]
        BY <1>1, <1>8, Names DEF Users
      <3> QED  BY <1>1, <1>2, <1>3, <2>2, <3>1 DEF Abandoned, putVars
    <2> QED  BY <2>1, <2>2
  <1>10. Delivered'
    <2>1. UDPRxCount > 0 => SocketWithRxData # handle[u]  BY <1>2 DEF GetReady
    <2> QED  BY <1>1, <1>2, <1>3, <1>8, <2>1 DEF Delivered, getVars
  <1> QED  BY <1>2, <1>4, <1>6, <1>7, <1>9, <1>10, NoDatagram DEF StackInv

\* A step that leaves what is to be sent alone.
LEMMA PutStays ==
    ASSUME UNCHANGED <<LastPutSocket, UDPTxCount, wPutOffset, txBuf, txAt, meant, turn, handle>>,
           "put" \in may' <=> "put" \in may, PutTypes, Written, Abandoned
    PROVE PutTypes' /\ Written' /\ Abandoned'
  <1>1. Whose' = Whose  BY DEF Whose
  <1>2. PutTypes'  BY DEF PutTypes, BufferOK
  <1>3. Written'  BY <1>1 DEF Written
  <1>4. Abandoned'  BY DEF Abandoned
  <1> QED  BY <1>2, <1>3, <1>4

\* A step that leaves what was received alone.
LEMMA GetStays ==
    ASSUME UNCHANGED <<SocketWithRxData, UDPRxCount, wGetOffset, bFirstRead,
                       bWasDiscarded, rxPacket, rxAt, addressee, handle>>,
           GetTypes, Delivered
    PROVE GetTypes' /\ Delivered'
  BY DEF GetTypes, Delivered

\* A user asks for room: it goes on with what it has put, or starts anew.
LEMMA AskToPutKeeps ==
    ASSUME StackInv, NEW u \in Callers, AskToPut(u) PROVE StackInv'
  <1>1. u \in Users /\ u = Whose /\ turn \in {"dhcp", "app"} /\ (u = DHCP <=> turn = "dhcp")
    BY TurnIs DEF AskToPut, Mine
  <1>2. /\ handle[u] # NoSocket /\ UDPIsPutReady(handle[u])
        /\ may' = may \cup {"put"}
        /\ meant' = IF "put" \in may THEN meant ELSE <<>>
        /\ UNCHANGED <<turn, remoteNode, target, frames, handle, addressee, offered>>
        /\ Quiet /\ activeUDPSocket' = handle[u]
        /\ UNCHANGED <<UDPSocketInfo, SocketWithRxData, UDPRxCount, wGetOffset,
                       bFirstRead, bWasDiscarded, rxPacket, rxAt, IPHeaderLen>>
    BY DEF AskToPut, Mine, loopVars, UDPIsPutReady, getVars
  <1>3. /\ TableOK /\ LoopTypes /\ PutTypes /\ GetTypes /\ HeaderOK /\ ActiveOK
        /\ Held /\ Asked /\ Abandoned /\ Delivered /\ Written
    BY TypesAre DEF StackInv
  <1>4. handle[u] \in Sockets /\ Whose' = Whose  BY <1>1, <1>2, <1>3, HeldIsOpen DEF Whose
  <1>5. GetTypes' /\ Delivered'  BY <1>2, <1>3, GetStays
  <1>6. TableOK' /\ LoopTypes' /\ HeaderOK' /\ ActiveOK'
    BY <1>2, <1>3, <1>4 DEF TableOK, LoopTypes, HeaderOK, ActiveOK
  <1>7. Held' /\ Asked'
    BY <1>1, <1>2, <1>3, <1>4, HeldStays DEF Asked
  <1>8. Abandoned'  BY <1>2 DEF Abandoned
  <1>9. PutTypes' /\ Written'
    <2>1. CASE LastPutSocket = handle[u]
      <3>1. UNCHANGED <<LastPutSocket, UDPTxCount, wPutOffset, txBuf, txAt>>
        BY <1>2, <2>1 DEF UDPIsPutReady, putVars
      <3>2. PutTypes'  BY <1>3, <3>1 DEF PutTypes, BufferOK
      <3>3. CASE "put" \in may
        <4>1. meant' = meant  BY <1>2, <3>3
        <4> QED  BY <1>2, <1>3, <1>4, <3>1, <3>2, <3>3, <4>1 DEF Written
      <3>4. CASE "put" \notin may
        <4>1. handle[u] # handle[App] \/ u = App
          BY <1>1, <1>2, <1>3, OneHolder DEF Users
        <4>2. UDPTxCount = 0 /\ wPutOffset = 0 /\ txAt = 0
          BY <1>1, <1>2, <1>3, <2>1, <3>4, <4>1, Names DEF Abandoned
        <4>3. meant' = <<>>  BY <1>2, <3>4
        <4>4. meant' = [i \in 0 .. UDPTxCount' - 1 |-> Whose']  BY <3>1, <4>2, <4>3
        <4> QED  BY <1>1, <1>2, <1>4, <2>1, <3>1, <3>2, <4>2, <4>4 DEF Written
      <3> QED  BY <3>3, <3>4
    <2>2. CASE LastPutSocket # handle[u]
      <3>1. /\ LastPutSocket' = handle[u] /\ UDPTxCount' = 0
            /\ wPutOffset' = 0 /\ txAt' = 0 /\ txBuf' = txBuf
        BY <1>2, <2>2 DEF UDPIsPutReady
      <3>2. PutTypes'  BY <1>3, <1>4, <3>1, Names DEF PutTypes, BufferOK
      <3>3. "put" \notin may  BY <1>1, <1>3, <2>2 DEF Written
      <3>4. meant' = [i \in 0 .. UDPTxCount' - 1 |-> Whose']  BY <1>2, <3>1, <3>3
      <3> QED  BY <1>1, <1>2, <1>4, <3>1, <3>2, <3>4 DEF Written
    <2> QED  BY <2>1, <2>2
  <1>10. StackTypeOK' /\ BufferOK'  BY <1>5, <1>6, <1>9, TypesNext
  <1> QED  BY <1>2, <1>5, <1>7, <1>8, <1>9, <1>10, NoDatagram DEF StackInv

\* A user puts a byte.
LEMMA PutKeeps ==
    ASSUME StackInv, NEW u \in Callers, Put(u) PROVE StackInv'
  <1>1. u \in Users /\ u = Whose /\ turn \in {"dhcp", "app"} /\ (u = DHCP <=> turn = "dhcp")
    BY TurnIs DEF Put, Mine
  <1>2. /\ handle[u] # NoSocket /\ "put" \in may /\ UDPPut(u)
        /\ meant' = [i \in DOMAIN meant \cup {wPutOffset} |-> u]
        /\ UNCHANGED <<turn, remoteNode, target, frames, handle, may, addressee, offered>>
        /\ Quiet
        /\ UNCHANGED <<UDPSocketInfo, activeUDPSocket, SocketWithRxData, UDPRxCount,
                       wGetOffset, bFirstRead, bWasDiscarded, rxPacket, rxAt, IPHeaderLen>>
    BY DEF Put, Mine, loopVars, UDPPut, getVars, socketVars
  <1>3. /\ TableOK /\ LoopTypes /\ PutTypes /\ GetTypes /\ HeaderOK /\ ActiveOK
        /\ Held /\ Asked /\ Abandoned /\ Delivered /\ Written
    BY TypesAre DEF StackInv
  <1>4. Whose' = Whose  BY <1>2 DEF Whose
  <1>5. GetTypes' /\ Delivered'  BY <1>2, <1>3, GetStays
  <1>6. TableOK' /\ LoopTypes' /\ HeaderOK' /\ ActiveOK'
    BY <1>2, <1>3, <1>4 DEF TableOK, LoopTypes, HeaderOK, ActiveOK
  <1>7. Held' /\ Asked'  BY <1>2, <1>3, <1>4, HeldStays DEF Asked
  <1>8. Abandoned'  BY <1>2 DEF Abandoned
  <1>9. /\ LastPutSocket = handle[u] /\ wPutOffset <= UDPTxCount /\ txAt = wPutOffset
        /\ meant = [i \in 0 .. UDPTxCount - 1 |-> u]
        /\ \A i \in 0 .. UDPTxCount - 1 : txBuf[i] = u
    BY <1>1, <1>2, <1>3 DEF Written
  <1>10. /\ wPutOffset < Room /\ wPutOffset \in Nat /\ UDPTxCount \in Nat
         /\ UDPTxCount <= Room /\ Room \in Nat
         /\ txBuf \in [0 .. Room - 1 -> Users \cup {Junk}]
    BY <1>2, <1>3, Names DEF UDPPut, PutTypes, BufferOK
  <1>11. txAt \in DOMAIN txBuf /\ txAt # Astray
    BY <1>9, <1>10, Names
  <1>12. /\ txBuf' = [txBuf EXCEPT ![wPutOffset] = u]
         /\ txAt' = wPutOffset + 1 /\ wPutOffset' = wPutOffset + 1
         /\ UDPTxCount' = IF UDPTxCount >= wPutOffset + 1 THEN UDPTxCount ELSE wPutOffset + 1
         /\ LastPutSocket' = LastPutSocket
    <2>1. Max({UDPTxCount, wPutOffset + 1})
            = IF UDPTxCount >= wPutOffset + 1 THEN UDPTxCount ELSE wPutOffset + 1
      BY <1>10, GreaterOfTwo
    <2> QED  BY <1>2, <1>9, <1>11, <2>1 DEF UDPPut
  <1>13. PutTypes'
    <2>1. BufferOK'  BY <1>1, <1>10, <1>12 DEF BufferOK
    <2> QED  BY <1>3, <1>10, <1>12, <2>1 DEF PutTypes
  <1>14. Written'
    <2>1. wPutOffset' <= UDPTxCount'  BY <1>10, <1>12
    <2>2. DOMAIN meant \cup {wPutOffset} = 0 .. UDPTxCount' - 1
      BY <1>9, <1>10, <1>12
    <2>3. \A i \in 0 .. UDPTxCount' - 1 : txBuf'[i] = u
      BY <1>9, <1>10, <1>12
    <2> QED  BY <1>1, <1>2, <1>4, <1>9, <1>12, <2>1, <2>2, <2>3 DEF Written
  <1>15. StackTypeOK' /\ BufferOK'
    <2>1. ActiveOK'  BY <1>2, <1>3 DEF ActiveOK
    <2> QED  BY <1>5, <1>6, <1>13, <2>1, TypesNext
  <1> QED  BY <1>2, <1>5, <1>7, <1>8, <1>14, <1>15, NoDatagram DEF StackInv

\* A user turns back to the beginning of what it has put.
LEMMA TurnBackKeeps ==
    ASSUME StackInv, NEW u \in Callers, TurnBack(u) PROVE StackInv'
  <1>1. u \in Users /\ u = Whose /\ turn \in {"dhcp", "app"}
    BY TurnIs DEF TurnBack, Mine
  <1>2. /\ "put" \in may /\ wPutOffset' = 0 /\ txAt' = 0 /\ Quiet
        /\ UNCHANGED <<LastPutSocket, UDPTxCount, txBuf, UDPSocketInfo, activeUDPSocket,
                       SocketWithRxData, UDPRxCount, wGetOffset, bFirstRead,
                       bWasDiscarded, rxPacket, rxAt, IPHeaderLen, turn, remoteNode, target,
                       frames, handle, may, meant, addressee, offered>>
    BY DEF TurnBack, Mine, UDPSetTxBuffer, loopVars, history, socketVars, getVars
  <1>3. /\ TableOK /\ LoopTypes /\ PutTypes /\ GetTypes /\ HeaderOK /\ ActiveOK
        /\ Held /\ Asked /\ Abandoned /\ Delivered /\ Written
    BY TypesAre DEF StackInv
  <1>4. Whose' = Whose  BY <1>2 DEF Whose
  <1>5. GetTypes' /\ Delivered'  BY <1>2, <1>3, GetStays
  <1>6. TableOK' /\ LoopTypes' /\ HeaderOK' /\ ActiveOK'
    BY <1>2, <1>3, <1>4 DEF TableOK, LoopTypes, HeaderOK, ActiveOK
  <1>7. Held' /\ Asked'  BY <1>2, <1>3, <1>4, HeldStays DEF Asked
  <1>8. Abandoned'  BY <1>2 DEF Abandoned
  <1>9. PutTypes' /\ Written'
    <2>1. PutTypes'  BY <1>2, <1>3, Names DEF PutTypes, BufferOK
    <2>2. 0 <= UDPTxCount  BY <1>3 DEF PutTypes
    <2> QED  BY <1>2, <1>3, <1>4, <2>1, <2>2 DEF Written
  <1>10. StackTypeOK' /\ BufferOK'  BY <1>5, <1>6, <1>9, TypesNext
  <1> QED  BY <1>2, <1>5, <1>7, <1>8, <1>9, <1>10, NoDatagram DEF StackInv

\* Once the buffer is sent nothing is put and nobody is named.
LEMMA FlushedIs ==
    ASSUME PutTypes, LastPutSocket' = NoSocket, UDPTxCount' = 0, wPutOffset' \in 0 .. Room,
           txBuf' = EmptyBuffer, txAt' = Astray
    PROVE PutTypes' /\ Abandoned'
  <1>1. BufferOK'  BY DEF BufferOK, EmptyBuffer
  <1> QED  BY <1>1, Names DEF PutTypes, Abandoned

\* While a user puts, the datagram is what it has put.
LEMMA DatagramIsMeant ==
    ASSUME StackInv, "put" \in may PROVE Datagram.payload = meant
  <1>1. /\ meant = [i \in 0 .. UDPTxCount - 1 |-> Whose]
        /\ \A i \in 0 .. UDPTxCount - 1 : txBuf[i] = Whose
    BY DEF StackInv, Written
  <1>2. Datagram.payload = [i \in 0 .. UDPTxCount - 1 |-> txBuf[i]]
    BY DEF Datagram
  <1> QED  BY <1>1, <1>2

\* UDPFlush().
LEMMA SendKeeps ==
    ASSUME StackInv, NEW u \in Callers, Send(u) PROVE StackInv'
  <1>1. u \in Users /\ u = Whose /\ turn \in {"dhcp", "app"}
    BY TurnIs DEF Send, Mine
  <1>2. /\ "put" \in may /\ may' = may \ {"put"} /\ handle[u] # NoSocket
        /\ wire'.payload.sent = Datagram.payload /\ wire'.payload.meant = meant
        /\ IPHeaderLen' = "plain" /\ txBuf' = EmptyBuffer /\ txAt' = Astray
        /\ UDPTxCount' = 0 /\ LastPutSocket' = NoSocket
        /\ UNCHANGED <<wPutOffset, UDPSocketInfo, activeUDPSocket,
                       SocketWithRxData, UDPRxCount, wGetOffset, bFirstRead,
                       bWasDiscarded, rxPacket, rxAt, turn, remoteNode, target,
                       frames, handle, meant, addressee, offered>>
    BY DEF Send, Mine, UDPFlush, Flushed, loopVars, socketVars, getVars
  <1>3. /\ TableOK /\ LoopTypes /\ PutTypes /\ GetTypes /\ HeaderOK /\ ActiveOK
        /\ Held /\ Asked /\ Abandoned /\ Delivered /\ Written
    BY TypesAre DEF StackInv
  <1>4. Whose' = Whose  BY <1>2 DEF Whose
  <1>5. GetTypes' /\ Delivered'  BY <1>2, <1>3, GetStays
  <1>6. TableOK' /\ LoopTypes' /\ HeaderOK' /\ ActiveOK'
    BY <1>2, <1>3, <1>4 DEF TableOK, LoopTypes, HeaderOK, ActiveOK
  <1>7. Held' /\ Asked'  BY <1>1, <1>2, <1>3, <1>4, HeldStays DEF Asked
  <1>8. PutTypes' /\ Abandoned'
    <2>1. wPutOffset' \in 0 .. Room  BY <1>2, <1>3 DEF PutTypes
    <2> QED  BY <1>2, <1>3, <2>1, FlushedIs
  <1>9. Written'  BY <1>2 DEF Written
  <1>10. StackTypeOK' /\ BufferOK'  BY <1>5, <1>6, <1>8, TypesNext
  <1>11. DatagramIsWhole'  BY <1>2, DatagramIsMeant DEF DatagramIsWhole
  <1> QED  BY <1>5, <1>7, <1>8, <1>9, <1>10, <1>11 DEF StackInv

\* UDPFlush() by DHCPTask(), which sends to everybody.
LEMMA DiscoverKeeps ==
    ASSUME StackInv, Discover PROVE StackInv'
  <1>1. DHCP \in Callers /\ DHCP \in Users  BY DEF Callers, Users
  <1>2. DHCP = Whose /\ turn \in {"dhcp", "app"}
    BY <1>1, TurnIs DEF Discover, Mine
  <1>3. /\ "put" \in may /\ may' = may \ {"put"} /\ handle[DHCP] # NoSocket
        /\ SetBroadcast(handle[DHCP])
        /\ wire'.payload.sent = Datagram.payload /\ wire'.payload.meant = meant
        /\ IPHeaderLen' = "plain" /\ txBuf' = EmptyBuffer /\ txAt' = Astray
        /\ UDPTxCount' = 0 /\ LastPutSocket' = NoSocket
        /\ UNCHANGED <<wPutOffset, activeUDPSocket,
                       SocketWithRxData, UDPRxCount, wGetOffset, bFirstRead,
                       bWasDiscarded, rxPacket, rxAt, turn, remoteNode, target,
                       frames, handle, meant, addressee, offered>>
    BY DEF Discover, Mine, Flushed, loopVars, getVars
  <1>4. /\ TableOK /\ LoopTypes /\ PutTypes /\ GetTypes /\ HeaderOK /\ ActiveOK
        /\ Held /\ Asked /\ Abandoned /\ Delivered /\ Written
    BY TypesAre DEF StackInv
  <1>5. Whose' = Whose  BY <1>3 DEF Whose
  <1>6. GetTypes' /\ Delivered'  BY <1>3, <1>4, GetStays
  <1>7. Held' /\ TableOK'
    <2> DEFINE h == handle[DHCP]
               r == [UDPSocketInfo[h] EXCEPT !.node = Broadcast]
    <2>1. h \in Sockets  BY <1>1, <1>3, <1>4, HeldIsOpen
    <2>2. UDPSocketInfo[h] \in Infos  BY <1>4, <2>1 DEF TableOK
    <2>3. r \in Infos /\ r.local = UDPSocketInfo[h].local  BY <2>2 DEF Infos
    <2>4. UDPSocketInfo' = [UDPSocketInfo EXCEPT ![h] = r]
      BY <1>3, Zenon DEF SetBroadcast
    <2> HIDE DEF r, h
    <2>5. /\ UDPSocketInfo' \in [Sockets -> Infos]
          /\ \A t \in Sockets : UDPSocketInfo'[t].local = UDPSocketInfo[t].local
      BY <1>4, <2>1, <2>3, <2>4, RebindOne
    <2> QED  BY <1>3, <1>4, <2>1, <2>5, HeldRebound DEF TableOK
  <1>8. LoopTypes' /\ HeaderOK' /\ ActiveOK'
    BY <1>3, <1>4 DEF LoopTypes, HeaderOK, ActiveOK
  <1>9. Asked'  BY <1>2, <1>3, <1>4, <1>5 DEF Asked
  <1>10. PutTypes' /\ Abandoned'
    <2>1. wPutOffset' \in 0 .. Room  BY <1>3, <1>4 DEF PutTypes
    <2> QED  BY <1>3, <1>4, <2>1, FlushedIs
  <1>11. Written'  BY <1>3 DEF Written
  <1>12. StackTypeOK' /\ BufferOK'  BY <1>6, <1>7, <1>8, <1>10, TypesNext
  <1>13. DatagramIsWhole'  BY <1>3, DatagramIsMeant DEF DatagramIsWhole
  <1> QED  BY <1>6, <1>7, <1>9, <1>10, <1>11, <1>12, <1>13 DEF StackInv

\* UDPIsGetReady() by a user.
LEMMA AskToGetKeeps ==
    ASSUME StackInv, NEW u \in Callers, AskToGet(u) PROVE StackInv'
  <1>1. u \in Users /\ u = Whose /\ turn \in {"dhcp", "app"}
    BY TurnIs DEF AskToGet, Mine
  <1>2. /\ handle[u] # NoSocket /\ may' = may \cup {"get"} /\ activeUDPSocket' = handle[u]
        /\ UNCHANGED <<UDPSocketInfo, LastPutSocket, UDPTxCount, wPutOffset, txBuf, txAt,
                       SocketWithRxData, UDPRxCount, bWasDiscarded, IPHeaderLen,
                       turn, remoteNode, target, frames, handle, meant, addressee>>
        /\ Quiet
        /\ \/ UNCHANGED <<bFirstRead, rxAt, wGetOffset>>
           \/ bFirstRead' = FALSE /\ rxAt' = PlaceInPayload(0) /\ wGetOffset' = 0
    BY DEF AskToGet, Mine, UDPIsGetReady, loopVars, putVars, getVars
  <1>3. /\ TableOK /\ LoopTypes /\ PutTypes /\ GetTypes /\ HeaderOK /\ ActiveOK
        /\ Held /\ Asked /\ Abandoned /\ Delivered /\ Written
    BY TypesAre DEF StackInv
  <1>4. Whose' = Whose /\ handle[u] \in Sockets  BY <1>1, <1>2, <1>3, HeldIsOpen DEF Whose
  <1>5. GetTypes' /\ Delivered'
    <2>1. rxAt' \in Nat \cup {Astray} /\ wGetOffset' \in WORDs
      BY <1>2, <1>3, WordIs DEF GetTypes, PlaceInPayload
    <2>2. bFirstRead' \in BOOLEAN  BY <1>2, <1>3, Zenon DEF GetTypes
    <2>3. GetTypes'  BY <1>2, <1>3, <2>1, <2>2, Zenon DEF GetTypes
    <2> QED  BY <1>2, <1>3, <2>3 DEF Delivered
  <1>6. TableOK' /\ LoopTypes' /\ HeaderOK' /\ ActiveOK'
    BY <1>2, <1>3, <1>4 DEF TableOK, LoopTypes, HeaderOK, ActiveOK
  <1>7. Held' /\ Asked'  BY <1>1, <1>2, <1>3, <1>4, HeldStays DEF Asked
  <1>8. PutTypes' /\ Written' /\ Abandoned'  BY <1>2, <1>3, PutStays
  <1>9. StackTypeOK' /\ BufferOK'  BY <1>5, <1>6, <1>8, TypesNext
  <1> QED  BY <1>2, <1>5, <1>7, <1>8, <1>9, NoDatagram DEF StackInv

\* UDPGet(), and the step back to the first byte.
LEMMA GetKeeps ==
    ASSUME StackInv, NEW u \in Callers, Get(u) \/ Seek(u) PROVE StackInv'
  <1>1. /\ UNCHANGED <<UDPSocketInfo, activeUDPSocket, LastPutSocket, UDPTxCount,
                       wPutOffset, txBuf, txAt, SocketWithRxData, UDPRxCount, bFirstRead,
                       bWasDiscarded, rxPacket, IPHeaderLen, turn, remoteNode, target,
                       frames, handle, may, meant, addressee>>
        /\ wire' = Nothing
        /\ \/ /\ rxAt' = IF rxAt = Astray THEN Astray ELSE rxAt + 1
              /\ wGetOffset' = wGetOffset + 1
              /\ wGetOffset < UDPRxCount
           \/ rxAt' = PlaceInPayload(0) /\ wGetOffset' = 0
    BY DEF Get, Seek, UDPGet, UDPSetRxBuffer, loopVars, history, socketVars, putVars, Quiet
  <1>2. /\ TableOK /\ LoopTypes /\ PutTypes /\ GetTypes /\ HeaderOK /\ ActiveOK
        /\ Held /\ Asked /\ Abandoned /\ Delivered /\ Written
    BY TypesAre DEF StackInv
  <1>3. GetTypes' /\ Delivered'
    BY <1>1, <1>2 DEF GetTypes, Delivered, PlaceInPayload, WORDs
  <1>4. TableOK' /\ LoopTypes' /\ HeaderOK' /\ ActiveOK' /\ Held' /\ Asked'
    BY <1>1, <1>2, HeldStays DEF TableOK, LoopTypes, HeaderOK, ActiveOK, Asked, Whose
  <1>5. PutTypes' /\ Written' /\ Abandoned'  BY <1>1, <1>2, PutStays
  <1>6. StackTypeOK' /\ BufferOK'  BY <1>3, <1>4, <1>5, TypesNext
  <1>7. DatagramIsWhole'  BY <1>1 DEF DatagramIsWhole, Nothing
  <1> QED  BY <1>3, <1>4, <1>5, <1>6, <1>7 DEF StackInv

\* UDPDiscard() by a user.
LEMMA DiscardKeeps ==
    ASSUME StackInv, NEW u \in Callers, Discard(u) PROVE StackInv'
  <1>1. /\ UNCHANGED <<UDPSocketInfo, activeUDPSocket, LastPutSocket, UDPTxCount,
                       wPutOffset, txBuf, txAt, SocketWithRxData, wGetOffset, bFirstRead,
                       IPHeaderLen, turn, remoteNode, target,
                       frames, handle, may, meant, addressee>>
        /\ Quiet
        /\ \/ UNCHANGED <<UDPRxCount, bWasDiscarded, rxAt>>
           \/ UDPRxCount' = 0 /\ bWasDiscarded' = TRUE /\ rxAt' = Astray
    BY DEF Discard, UDPDiscard, MACDiscardRx, loopVars, history, socketVars, putVars, getVars
  <1>2. /\ TableOK /\ LoopTypes /\ PutTypes /\ GetTypes /\ HeaderOK /\ ActiveOK
        /\ Held /\ Asked /\ Abandoned /\ Delivered /\ Written
    BY TypesAre DEF StackInv
  <1>3. GetTypes' /\ Delivered'
    <2>1. UDPRxCount' \in WORDs /\ rxAt' \in Nat \cup {Astray}
      BY <1>1, <1>2, WordIs DEF GetTypes
    <2>2. bWasDiscarded' \in BOOLEAN  BY <1>1, <1>2, Zenon DEF GetTypes
    <2>3. GetTypes'  BY <1>1, <1>2, <2>1, <2>2, Zenon DEF GetTypes
    <2>4. Delivered'
      <3>1. CASE UNCHANGED <<UDPRxCount, bWasDiscarded>>  BY <1>1, <1>2, <3>1 DEF Delivered
      <3>2. CASE UDPRxCount' = 0  BY <1>1, <1>2, <3>2 DEF Delivered
      <3> QED  BY <1>1, <3>1, <3>2
    <2> QED  BY <2>3, <2>4
  <1>4. TableOK' /\ LoopTypes' /\ HeaderOK' /\ ActiveOK' /\ Held' /\ Asked'
    BY <1>1, <1>2, HeldStays DEF TableOK, LoopTypes, HeaderOK, ActiveOK, Asked, Whose
  <1>5. PutTypes' /\ Written' /\ Abandoned'  BY <1>1, <1>2, PutStays
  <1>6. StackTypeOK' /\ BufferOK'  BY <1>3, <1>4, <1>5, TypesNext
  <1> QED  BY <1>1, <1>3, <1>4, <1>5, <1>6, NoDatagram DEF StackInv

\* A user's turn ends.
LEMMA EndTurnKeeps ==
    ASSUME StackInv, NEW u \in Callers, EndTurn(u) PROVE StackInv'
  <1>1. u \in Users /\ u = Whose /\ turn \in {"dhcp", "app"} /\ (u = DHCP <=> turn = "dhcp")
    BY TurnIs DEF EndTurn
  <1>2. /\ UNCHANGED <<UDPSocketInfo, activeUDPSocket, LastPutSocket, UDPTxCount,
                       wPutOffset, txBuf, txAt, SocketWithRxData, UDPRxCount, wGetOffset,
                       bFirstRead, bWasDiscarded, rxPacket, rxAt, IPHeaderLen,
                       remoteNode, target, frames, handle, addressee>>
        /\ turn' = IF u = DHCP THEN "tick" ELSE "dhcp"
        /\ may' = {} /\ Quiet
    BY DEF EndTurn, udpVars
  <1>3. /\ TableOK /\ LoopTypes /\ PutTypes /\ GetTypes /\ HeaderOK /\ ActiveOK
        /\ Held /\ Asked /\ Abandoned /\ Delivered /\ Written
    BY TypesAre DEF StackInv
  <1>4. GetTypes' /\ Delivered'  BY <1>2, <1>3, GetStays
  <1>5. TableOK' /\ LoopTypes' /\ HeaderOK' /\ ActiveOK' /\ Held' /\ PutTypes'
    BY <1>2, <1>3, HeldStays
       DEF TableOK, LoopTypes, HeaderOK, ActiveOK, PutTypes, BufferOK
  <1>6. Asked' /\ Written'  BY <1>2 DEF Asked, Written
  <1>7. Abandoned'
    <2>1. CASE u = DHCP  BY <1>2, <2>1 DEF Abandoned
    <2>2. CASE u # DHCP
      <3>1. u = App /\ turn = "app" /\ turn' = "dhcp"  BY <1>1, <1>2, <2>2 DEF Callers
      <3>2. "put" \in may => LastPutSocket = handle[App]
        BY <1>1, <1>3, <3>1 DEF Written
      <3> QED  BY <1>2, <1>3, <3>1, <3>2 DEF Abandoned
    <2> QED  BY <2>1, <2>2
  <1>8. StackTypeOK' /\ BufferOK'  BY <1>4, <1>5, TypesNext
  <1> QED  BY <1>2, <1>4, <1>5, <1>6, <1>7, <1>8, NoDatagram DEF StackInv

-----------------------------------------------------------------------------
(* The steps of the main loop.                                             *)

\* Between UDPTask() and the application nobody has asked for anything, and
\* LastPutSocket names nobody.
LEMMA LoopTurn ==
    ASSUME StackInv, turn \in {"rx", "http", "nbns"}
    PROVE may = {} /\ LastPutSocket = NoSocket
  <1>1. may = {}  BY DEF StackInv, Asked
  <1> QED  BY <1>1 DEF StackInv, Abandoned

\* What is left to show of a step while nobody has asked for anything.
LEMMA LoopStep ==
    ASSUME StackInv, may' = {}, LastPutSocket' = NoSocket,
           TableOK', LoopTypes', PutTypes', GetTypes', HeaderOK', ActiveOK',
           Held', Delivered', wire'.kind \notin {"udp", "discover"}
    PROVE StackInv'
  <1>1. StackTypeOK' /\ BufferOK'  BY TypesNext
  <1>2. Asked' /\ Written' /\ Abandoned' /\ DatagramIsWhole'
    BY DEF Asked, Written, Abandoned, DatagramIsWhole
  <1> QED  BY <1>1, <1>2 DEF StackInv

\* A frame of another protocol, or none.
FrameSent ==
  /\ UNCHANGED <<LastPutSocket, UDPTxCount, wPutOffset>>
  /\ \/ UNCHANGED <<txBuf, txAt>>
     \/ txBuf' = EmptyBuffer /\ txAt' = Astray
LEMMA FrameSentTypes == ASSUME PutTypes, FrameSent PROVE PutTypes'
  <1>1. BufferOK'  BY DEF PutTypes, FrameSent, BufferOK, EmptyBuffer
  <1> QED  BY <1>1 DEF PutTypes, FrameSent

\* TCPTick() and UDPTask().
LEMMA TickKeeps == ASSUME StackInv, Tick PROVE StackInv'
  <1>1. /\ turn = "tick" /\ turn' = "rx" /\ LastPutSocket' = NoSocket
        /\ UNCHANGED <<UDPTxCount, wPutOffset, UDPSocketInfo, activeUDPSocket,
                       SocketWithRxData, UDPRxCount, wGetOffset, bFirstRead,
                       bWasDiscarded, rxPacket, rxAt, remoteNode, target,
                       frames, handle, may, meant, addressee>>
        /\ \/ UNCHANGED <<txBuf, txAt, IPHeaderLen>> /\ wire' = Nothing
           \/ /\ txBuf' = EmptyBuffer /\ txAt' = Astray /\ IPHeaderLen' = "plain"
              /\ wire' = [Nothing EXCEPT !.kind = "tcp"]
    BY DEF Tick, UDPTask, socketVars, getVars
  <1>2. /\ TableOK /\ LoopTypes /\ PutTypes /\ GetTypes /\ HeaderOK /\ ActiveOK
        /\ Held /\ Asked /\ Delivered
    BY TypesAre DEF StackInv
  <1>3. may' = {}  BY <1>1, <1>2 DEF Asked
  <1>4. GetTypes' /\ Delivered' /\ Held'  BY <1>1, <1>2, GetStays, HeldStays
  <1>5. PutTypes'
    <2>1. BufferOK'  BY <1>1, <1>2 DEF PutTypes, BufferOK, EmptyBuffer
    <2>2. txAt' \in (0 .. Room) \cup {Astray}  BY <1>1, <1>2 DEF PutTypes
    <2> QED  BY <1>1, <1>2, <2>1, <2>2 DEF PutTypes
  <1>6. TableOK' /\ LoopTypes' /\ HeaderOK' /\ ActiveOK'
    BY <1>1, <1>2 DEF TableOK, LoopTypes, HeaderOK, ActiveOK
  <1>7. wire'.kind \notin {"udp", "discover"}  BY <1>1 DEF Nothing
  <1> QED  BY <1>1, <1>3, <1>4, <1>5, <1>6, <1>7, LoopStep

\* TCPMaySend and what it does to the rest.
LEMMA MaySendIs ==
    ASSUME TCPMaySend
    PROVE FrameSent /\ IPHeaderLen' \in {IPHeaderLen, "plain"} /\ wire'.kind \in {"none", "tcp"}
  BY DEF TCPMaySend, FrameSent, OtherFrame, putVars, Nothing

\* HTTPServer(), as far as it sends.
LEMMA HTTPServerKeeps == ASSUME StackInv, HTTPServer PROVE StackInv'
  <1>1. /\ turn = "http" /\ turn' = "nbns" /\ TCPMaySend
        /\ UNCHANGED <<UDPSocketInfo, activeUDPSocket,
                       SocketWithRxData, UDPRxCount, wGetOffset, bFirstRead,
                       bWasDiscarded, rxPacket, rxAt, remoteNode, target,
                       frames, handle, may, meant, addressee>>
    BY DEF HTTPServer, socketVars, getVars
  <1>2. /\ TableOK /\ LoopTypes /\ PutTypes /\ GetTypes /\ HeaderOK /\ ActiveOK
        /\ Held /\ Delivered
    BY TypesAre DEF StackInv
  <1>3. may' = {} /\ LastPutSocket = NoSocket  BY <1>1, LoopTurn
  <1>4. FrameSent /\ HeaderOK' /\ wire'.kind \notin {"udp", "discover"}
    BY <1>1, <1>2, MaySendIs DEF HeaderOK
  <1>5. GetTypes' /\ Delivered' /\ Held'  BY <1>1, <1>2, GetStays, HeldStays
  <1>6. PutTypes' /\ LastPutSocket' = NoSocket
    BY <1>2, <1>3, <1>4, FrameSentTypes DEF FrameSent
  <1>7. TableOK' /\ LoopTypes' /\ ActiveOK'
    BY <1>1, <1>2 DEF TableOK, LoopTypes, ActiveOK
  <1> QED  BY <1>3, <1>4, <1>5, <1>6, <1>7, LoopStep

\* The end of UDP's turn with a packet.
LEMMA DiscardedIs ==
    ASSUME StackInv, AfterUDPDiscard, addressee' \in Users \cup {None},
           rxAt' \in Nat \cup {Astray}
    PROVE GetTypes' /\ Delivered' /\ UDPRxCount' = 0
  <1>1. GetTypes /\ Delivered  BY TypesAre DEF StackInv
  <1>2. UDPRxCount' = 0
    <2>1. CASE bWasDiscarded  BY <1>1, <2>1 DEF AfterUDPDiscard, Delivered
    <2>2. CASE ~bWasDiscarded  BY <2>2 DEF AfterUDPDiscard
    <2> QED  BY <2>1, <2>2
  <1>3. /\ bWasDiscarded' = TRUE
        /\ UNCHANGED <<SocketWithRxData, wGetOffset, bFirstRead>>
    BY DEF AfterUDPDiscard
  <1>4. UDPRxCount' \in WORDs  BY <1>2, WordIs
  <1>5. GetTypes'  BY <1>1, <1>3, <1>4, Zenon DEF GetTypes
  <1>6. Delivered'  BY <1>2 DEF Delivered
  <1> QED  BY <1>2, <1>5, <1>6

\* No frame is left.
LEMMA NoMoreFramesKeeps == ASSUME StackInv, NoMoreFrames PROVE StackInv'
  <1>1. /\ turn = "rx" /\ turn' = "http" /\ AfterUDPDiscard /\ rxAt' = Astray
        /\ addressee' = None /\ Quiet
        /\ UNCHANGED <<UDPSocketInfo, activeUDPSocket, LastPutSocket, UDPTxCount,
                       wPutOffset, txBuf, txAt, IPHeaderLen, remoteNode, target,
                       frames, handle, may>>
    BY DEF NoMoreFrames, MACDiscardRx, socketVars, putVars
  <1>2. TableOK /\ LoopTypes /\ PutTypes /\ HeaderOK /\ ActiveOK /\ Held
    BY TypesAre DEF StackInv
  <1>3. may' = {} /\ LastPutSocket' = NoSocket  BY <1>1, LoopTurn
  <1>4. GetTypes' /\ Delivered'  BY <1>1, DiscardedIs
  <1>5. Held' /\ PutTypes'  BY <1>1, <1>2, HeldStays, FrameSentTypes DEF FrameSent
  <1>6. TableOK' /\ LoopTypes' /\ ActiveOK' /\ HeaderOK'
    BY <1>1, <1>2 DEF TableOK, LoopTypes, ActiveOK, HeaderOK
  <1>7. wire'.kind \notin {"udp", "discover"}  BY <1>1 DEF Quiet, Nothing
  <1> QED  BY <1>3, <1>4, <1>5, <1>6, <1>7, LoopStep

\* A frame that is not UDP's: what ARPProcess(), IPFrame and TCPProcess() have in
\* common.
LEMMA OtherFrameKeeps ==
    ASSUME StackInv, Arrives, AfterUDPDiscard, addressee' = None, rxAt' = Astray,
           FrameSent, HeaderOK', remoteNode' \in Nodes, target' \in Nodes \cup {NoNode},
           wire'.kind \notin {"udp", "discover"},
           UNCHANGED <<UDPSocketInfo, activeUDPSocket, turn, handle, may>>
    PROVE StackInv'
  <1>1. turn = "rx" /\ frames < MaxFrames /\ frames' = frames + 1  BY DEF Arrives
  <1>2. TableOK /\ LoopTypes /\ PutTypes /\ ActiveOK /\ Held
    BY TypesAre DEF StackInv
  <1>3. may' = {} /\ LastPutSocket' = NoSocket  BY <1>1, LoopTurn DEF FrameSent
  <1>4. GetTypes' /\ Delivered'  BY DiscardedIs
  <1>5. Held' /\ PutTypes'  BY <1>2, HeldStays, FrameSentTypes
  <1>6. LoopTypes'
    <2>1. frames' \in 0 .. MaxFrames  BY <1>1, <1>2, StackAssumption DEF LoopTypes
    <2> QED  BY <1>1, <1>2, <2>1 DEF LoopTypes
  <1>7. TableOK' /\ ActiveOK'  BY <1>2 DEF TableOK, ActiveOK
  <1> QED  BY <1>3, <1>4, <1>5, <1>6, <1>7, LoopStep

\* ARPProcess().
LEMMA ARPKeeps == ASSUME StackInv, ARPProcess PROVE StackInv'
  <1>1. /\ Arrives /\ AfterUDPDiscard /\ addressee' = None /\ rxAt' = Astray
        /\ UNCHANGED <<UDPSocketInfo, activeUDPSocket, turn, handle, may, IPHeaderLen>>
    BY DEF ARPProcess, MACDiscardRx, socketVars
  <1>2. LoopTypes /\ HeaderOK  BY TypesAre DEF StackInv
  <1>3. PICK sender \in Nodes, op \in {"request for us", "request for other", "other"} :
           /\ remoteNode' = sender
           /\ target' = IF op = "request for us" THEN sender ELSE target
           /\ IF op = "request for other"
              THEN wire' = Nothing /\ UNCHANGED putVars
              ELSE /\ OtherFrame
                   /\ wire' = [Nothing EXCEPT !.kind = "arp", !.to = target']
    BY Zenon DEF ARPProcess
  <1>4. FrameSent /\ wire'.kind \in {"none", "arp"}
    <2>1. CASE op = "request for other"
      <3>1. wire' = Nothing /\ UNCHANGED putVars  BY <1>3, <2>1, Zenon
      <3> QED  BY <3>1 DEF FrameSent, putVars, Nothing
    <2>2. CASE op # "request for other"  BY <1>3, <2>2 DEF FrameSent, OtherFrame, Nothing
    <2> QED  BY <2>1, <2>2
  <1>5. remoteNode' \in Nodes /\ target' \in Nodes \cup {NoNode}
    BY <1>2, <1>3 DEF LoopTypes
  <1>6. HeaderOK'  BY <1>1, <1>2 DEF HeaderOK
  <1> QED  BY <1>1, <1>4, <1>5, <1>6, OtherFrameKeeps

\* IPGetHeader() refuses, or ICMPProcess() answers.
LEMMA IPFrameKeeps == ASSUME StackInv, IPFrame PROVE StackInv'
  <1>1. /\ Arrives /\ AfterUDPDiscard /\ addressee' = None
        /\ UNCHANGED <<UDPSocketInfo, activeUDPSocket, turn, handle, may, target>>
    BY DEF IPFrame, socketVars
  <1>2. LoopTypes  BY TypesAre DEF StackInv
  <1>3. PICK sender \in Nodes, h \in Headers, answered \in BOOLEAN :
           /\ remoteNode' = sender /\ rxAt' = Astray
           /\ IF answered
              THEN /\ OtherFrame /\ IPHeaderLen' = "plain"
                   /\ wire' = [Nothing EXCEPT !.kind = "echo", !.to = sender]
              ELSE IPHeaderLen' = h /\ wire' = Nothing /\ UNCHANGED putVars
    <2>1. PICK sender \in Nodes, h \in Headers : \E answered \in {FALSE, h = "plain"} :
           /\ remoteNode' = sender /\ rxAt' = Astray
           /\ IF answered
              THEN /\ OtherFrame /\ IPHeaderLen' = "plain"
                   /\ wire' = [Nothing EXCEPT !.kind = "echo", !.to = sender]
              ELSE IPHeaderLen' = h /\ wire' = Nothing /\ UNCHANGED putVars
      BY Zenon DEF IPFrame
    <2>2. {FALSE, h = "plain"} \subseteq BOOLEAN  OBVIOUS
    <2> QED  BY <2>1, <2>2, Zenon
  <1>4. FrameSent /\ wire'.kind \in {"none", "echo"}
    <2>1. CASE answered  BY <1>3, <2>1 DEF FrameSent, OtherFrame, Nothing
    <2>2. CASE ~answered  BY <1>3, <2>2 DEF FrameSent, putVars, Nothing
    <2> QED  BY <2>1, <2>2
  <1>5. HeaderOK'
    <2>1. CASE answered  BY <1>3, <2>1 DEF HeaderOK
    <2>2. CASE ~answered  BY <1>3, <2>2, StackAssumption DEF HeaderOK
    <2> QED  BY <2>1, <2>2
  <1>6. remoteNode' \in Nodes /\ target' \in Nodes \cup {NoNode} /\ rxAt' = Astray
    BY <1>1, <1>2, <1>3 DEF LoopTypes
  <1> QED  BY <1>1, <1>4, <1>5, <1>6, OtherFrameKeeps

\* TCPProcess(), as far as it sends.
LEMMA TCPProcessKeeps == ASSUME StackInv, TCPProcess PROVE StackInv'
  <1>1. /\ Arrives /\ AfterUDPDiscard /\ addressee' = None /\ rxAt' = Astray
        /\ UNCHANGED <<UDPSocketInfo, activeUDPSocket, turn, handle, may, target>>
        /\ remoteNode' \in Nodes
        /\ \/ TCPMaySend
           \/ \E h \in Headers : IPHeaderLen' = h /\ wire' = Nothing /\ UNCHANGED putVars
    BY DEF TCPProcess, MACDiscardRx, socketVars
  <1>2. LoopTypes /\ HeaderOK  BY TypesAre DEF StackInv
  <1>3. target' \in Nodes \cup {NoNode}  BY <1>1, <1>2 DEF LoopTypes
  <1>4. FrameSent /\ HeaderOK' /\ wire'.kind \notin {"udp", "discover"}
    <2>1. CASE TCPMaySend  BY <1>2, <2>1, MaySendIs DEF HeaderOK
    <2>2. CASE \E h \in Headers : IPHeaderLen' = h /\ wire' = Nothing /\ UNCHANGED putVars
      BY <2>2, StackAssumption DEF HeaderOK, FrameSent, putVars, Nothing
    <2> QED  BY <1>1, <2>1, <2>2
  <1> QED  BY <1>1, <1>3, <1>4, OtherFrameKeeps

\* FindMatchingSocket() finds a socket with the port of the packet, or none.
LEMMA MatchIs ==
    ASSUME NEW p
    PROVE /\ FindMatchingSocket(p) # NoSocket =>
               /\ FindMatchingSocket(p) \in Sockets
               /\ UDPSocketInfo[FindMatchingSocket(p)].local = p.dport
          /\ OnPort(p) # {} => Max(OnPort(p)) \in OnPort(p) /\ Max(OnPort(p)) \in Sockets
  <1>1. ForPeer(p) \subseteq OnPort(p) /\ OnPort(p) \subseteq Sockets
    BY DEF ForPeer, OnPort
  <1>2. OnPort(p) # {} => Max(OnPort(p)) \in OnPort(p)  BY <1>1, LastSocket
  <1>3. ForPeer(p) # {} => Min(ForPeer(p)) \in ForPeer(p)  BY <1>1, FirstSocket
  <1>4. FindMatchingSocket(p) # NoSocket => FindMatchingSocket(p) \in OnPort(p)
    BY <1>1, <1>2, <1>3 DEF FindMatchingSocket
  <1> QED  BY <1>1, <1>2, <1>4 DEF OnPort

\* A packet changes the remote node and port of one socket at most.
LEMMA ReboundIs ==
    ASSUME TableOK, NEW p, p.src \in Nodes, p.sport \in Nat,
           UDPSocketInfo' = Rebound(p)
    PROVE /\ UDPSocketInfo' \in [Sockets -> Infos]
          /\ \A t \in Sockets : UDPSocketInfo'[t].local = UDPSocketInfo[t].local
  <1> DEFINE s == Max(OnPort(p))
             i == UDPSocketInfo[s]
             r == [[i EXCEPT !.node = p.src] EXCEPT !.rport = p.sport]
  <1>1. CASE ForPeer(p) # {} \/ OnPort(p) = {}
    BY <1>1 DEF Rebound, TableOK
  <1>2. CASE ~ (ForPeer(p) # {} \/ OnPort(p) = {})
    <2>1. s \in Sockets  BY <1>2, MatchIs
    <2>2. i \in Infos  BY <2>1 DEF TableOK
    <2> HIDE DEF i
    <2>3. r \in Infos /\ r.local = i.local  BY <2>2 DEF Infos
    <2>4. UDPSocketInfo' = [UDPSocketInfo EXCEPT ![s].node = p.src, ![s].rport = p.sport]
      BY <1>2 DEF Rebound
    <2> HIDE DEF s
    <2>5. UDPSocketInfo' = [UDPSocketInfo EXCEPT ![s] = r]
      BY <2>1, <2>4 DEF TableOK, i
    <2> HIDE DEF r
    <2> QED  BY <2>1, <2>3, <2>5, RebindOne DEF i
  <1> QED  BY <1>1, <1>2

\* A socket with the port of a user is held by it.
LEMMA HolderIs ==
    ASSUME Held, TableOK, NEW s \in Sockets, UDPSocketInfo[s].local # INVALID_UDP_PORT
    PROVE Holder(s) \in Users /\ handle[Holder(s)] = s
  <1>1. \E u \in Users : handle[u] = s  BY DEF Held
  <1> QED  BY <1>1 DEF Holder

\* UDPProcess().
LEMMA UDPFrameKeeps == ASSUME StackInv, UDPFrame PROVE StackInv'
  <1>1. PICK p \in Packets :
           /\ remoteNode' = p.src /\ UDPProcess(p)
           /\ IF Accepts(p)
              THEN addressee' = Holder(FindMatchingSocket(p)) /\ offered' = FALSE
              ELSE addressee' = None /\ offered' = TRUE
           /\ turn' = IF LoopEnds(Accepts(p)) THEN "http" ELSE "rx"
    BY Zenon DEF UDPFrame
  <1>2. /\ p.src \in Nodes /\ p.sport \in Nat /\ p.field \in WORDs
        /\ p.header \in {"plain", "options"}
    BY StackAssumption DEF Packets
  <1>3. /\ turn = "rx" /\ frames < MaxFrames /\ frames' = frames + 1 /\ Quiet
        /\ UNCHANGED <<target, handle, may>>
    BY DEF UDPFrame, Arrives
  <1>4. /\ UDPSocketInfo' = Rebound(p) /\ SocketWithRxData' = FindMatchingSocket(p)
        /\ rxAt' = Astray /\ IPHeaderLen' = p.header
        /\ UNCHANGED <<wGetOffset, activeUDPSocket, LastPutSocket, UDPTxCount,
                       wPutOffset, txBuf, txAt>>
    BY <1>1 DEF UDPProcess, putVars
  <1>5. TableOK /\ LoopTypes /\ PutTypes /\ GetTypes /\ ActiveOK /\ Held /\ Delivered
    BY TypesAre DEF StackInv
  <1>6. may' = {} /\ LastPutSocket' = NoSocket  BY <1>3, <1>4, LoopTurn
  <1>7. /\ UDPSocketInfo' \in [Sockets -> Infos]
        /\ \A t \in Sockets : UDPSocketInfo'[t].local = UDPSocketInfo[t].local
    BY <1>2, <1>4, <1>5, ReboundIs
  <1>8. Held' /\ TableOK'
    <2>1. TableOK'  BY <1>3, <1>5, <1>7 DEF TableOK
    <2> QED  BY <1>3, <1>5, <1>7, <2>1, Names, HeldRebound
  <1>9. PutTypes'  BY <1>4, <1>5, FrameSentTypes DEF FrameSent
  <1>10. HeaderOK' /\ ActiveOK'  BY <1>2, <1>4, <1>5 DEF HeaderOK, ActiveOK
  <1>11. LoopTypes'
    <2>1. frames' \in 0 .. MaxFrames  BY <1>3, <1>5, StackAssumption DEF LoopTypes
    <2> QED  BY <1>1, <1>2, <1>3, <1>5, <2>1 DEF LoopTypes
  <1>12. CASE Accepts(p)
    <2>1. /\ FindMatchingSocket(p) \in Sockets /\ FindMatchingSocket(p) # NoSocket
          /\ UDPSocketInfo[FindMatchingSocket(p)].local = p.dport
      BY <1>12, MatchIs DEF Accepts
    <2>2. LET h == Holder(FindMatchingSocket(p))
          IN  h \in Users \cup {None} /\ (h # None => handle[h] = FindMatchingSocket(p))
      BY DEF Holder
    <2>3. /\ rxPacket' = p /\ UDPRxCount' = SaidLength(p) /\ bFirstRead' = TRUE
          /\ bWasDiscarded' = FALSE /\ addressee' = Holder(FindMatchingSocket(p))
      BY <1>1, <1>12 DEF UDPProcess
    <2>4. GetTypes'
      <3>1. SocketWithRxData' \in Sockets \cup {NoSocket} /\ UDPRxCount' \in WORDs
            /\ wGetOffset' \in WORDs /\ rxAt' \in Nat \cup {Astray}
        BY <1>2, <1>4, <1>5, <2>1, <2>3, SaidIs DEF GetTypes
      <3>2. bFirstRead' \in BOOLEAN /\ bWasDiscarded' \in BOOLEAN  BY <2>3, Zenon
      <3> QED  BY <3>1, <3>2, Zenon DEF GetTypes
    <2>5. Delivered'
      BY <1>3, <1>4, <2>1, <2>2, <2>3, Names DEF Delivered
    <2>6. wire'.kind \notin {"udp", "discover"}  BY <1>3 DEF Quiet, Nothing
    <2> QED  BY <1>6, <1>8, <1>9, <1>10, <1>11, <2>4, <2>5, <2>6, LoopStep
  <1>13. CASE ~Accepts(p)
    <2>1. /\ UDPRxCount' = 0 /\ addressee' = None
          /\ UNCHANGED <<bFirstRead, bWasDiscarded>>
      BY <1>1, <1>13 DEF UDPProcess
    <2>2. GetTypes'
      <3>1. SocketWithRxData' \in Sockets \cup {NoSocket} /\ UDPRxCount' \in WORDs
            /\ wGetOffset' \in WORDs /\ rxAt' \in Nat \cup {Astray}
        BY <1>4, <1>5, <1>13, <2>1, WordIs DEF GetTypes, Accepts
      <3>2. bFirstRead' \in BOOLEAN /\ bWasDiscarded' \in BOOLEAN
        BY <1>5, <2>1, Zenon DEF GetTypes
      <3> QED  BY <3>1, <3>2, Zenon DEF GetTypes
    <2>3. Delivered'  BY <2>1 DEF Delivered
    <2>4. wire'.kind \notin {"udp", "discover"}  BY <1>3 DEF Quiet, Nothing
    <2> QED  BY <1>6, <1>8, <1>9, <1>10, <1>11, <2>2, <2>3, <2>4, LoopStep
  <1> QED  BY <1>12, <1>13

\* NBNSTask() opens its socket.
LEMMA NBNSOpenKeeps == ASSUME StackInv, NBNSOpen PROVE StackInv'
  <1>1. /\ turn = "nbns" /\ turn' = "app" /\ handle[NBNS] = NoSocket
        /\ UDPOpen(Port[NBNS], Broadcast, Port[NBNS])
        /\ handle' = [handle EXCEPT ![NBNS] = FirstClosed]
        /\ UNCHANGED <<remoteNode, target, frames, may, addressee>> /\ Quiet
        /\ UNCHANGED <<LastPutSocket, UDPTxCount, wPutOffset, txBuf, txAt,
                       SocketWithRxData, UDPRxCount, wGetOffset, bFirstRead,
                       bWasDiscarded, rxPacket, rxAt, IPHeaderLen>>
    BY DEF NBNSOpen, history, UDPOpen, putVars, getVars
  <1>2. /\ TableOK /\ LoopTypes /\ PutTypes /\ GetTypes /\ HeaderOK /\ ActiveOK
        /\ Held /\ Delivered
    BY TypesAre DEF StackInv
  <1>3. NBNS \in Users  BY DEF Users
  <1>4. Held' /\ TableOK' /\ ActiveOK'
    <2>1. Port[NBNS] \in Nat  BY <1>3, StackAssumption
    <2> QED  BY <1>1, <1>2, <1>3, <2>1, HeldOpen DEF ActiveOK
  <1>5. may' = {} /\ LastPutSocket' = NoSocket  BY <1>1, LoopTurn
  <1>6. PutTypes'  BY <1>1, <1>2, FrameSentTypes DEF FrameSent
  <1>7. LoopTypes' /\ HeaderOK' /\ GetTypes'
    BY <1>1, <1>2 DEF LoopTypes, HeaderOK, GetTypes
  <1>8. \A v \in Users : v # NBNS => handle'[v] = handle[v]  BY <1>1, <1>2 DEF TableOK
  <1>9. Delivered'  BY <1>1, <1>2, <1>8 DEF Delivered
  <1>10. wire'.kind \notin {"udp", "discover"}  BY <1>1 DEF Quiet, Nothing
  <1> QED  BY <1>4, <1>5, <1>6, <1>7, <1>9, <1>10, LoopStep

\* NBNSTask() finds no query.
LEMMA NBNSWaitsKeeps == ASSUME StackInv, NBNSWaits PROVE StackInv'
  <1>1. /\ turn = "nbns" /\ turn' = "app" /\ handle[NBNS] # NoSocket
        /\ activeUDPSocket' = handle[NBNS] /\ Quiet
        /\ UNCHANGED <<UDPSocketInfo, LastPutSocket, UDPTxCount, wPutOffset, txBuf, txAt,
                       SocketWithRxData, UDPRxCount, wGetOffset, bFirstRead,
                       bWasDiscarded, rxPacket, rxAt, IPHeaderLen, remoteNode, target,
                       frames, handle, may, addressee>>
    BY DEF NBNSWaits, history, putVars, getVars
  <1>2. /\ TableOK /\ LoopTypes /\ PutTypes /\ GetTypes /\ HeaderOK /\ ActiveOK
        /\ Held /\ Delivered
    BY TypesAre DEF StackInv
  <1>3. may' = {} /\ LastPutSocket' = NoSocket  BY <1>1, LoopTurn
  <1>4. GetTypes' /\ Delivered' /\ Held'  BY <1>1, <1>2, GetStays, HeldStays
  <1>5. PutTypes'  BY <1>1, <1>2, FrameSentTypes DEF FrameSent
  <1>6. TableOK' /\ LoopTypes' /\ HeaderOK'  BY <1>1, <1>2 DEF TableOK, LoopTypes, HeaderOK
  <1>7. ActiveOK'
    <2>1. NBNS \in Users  BY DEF Users
    <2> QED  BY <1>1, <1>2, <2>1, HeldIsOpen DEF ActiveOK
  <1>8. wire'.kind \notin {"udp", "discover"}  BY <1>1 DEF Quiet, Nothing
  <1> QED  BY <1>3, <1>4, <1>5, <1>6, <1>7, <1>8, LoopStep

\* NBNSTask() reads a query, and answers it or not.
LEMMA NBNSListenKeeps == ASSUME StackInv, NBNSListen PROVE StackInv'
  <1>1. /\ turn = "nbns" /\ turn' = "app" /\ handle[NBNS] # NoSocket
        /\ activeUDPSocket' = handle[NBNS] /\ rxAt' = Astray
        /\ UDPRxCount' = 0 /\ bWasDiscarded' = TRUE /\ bFirstRead' = FALSE
        /\ wGetOffset' = UDPRxCount
        /\ UNCHANGED <<SocketWithRxData, remoteNode, target, frames, handle, may, addressee>>
        /\ \/ UNCHANGED <<UDPSocketInfo, putVars, IPHeaderLen>> /\ wire' = Nothing
           \/ /\ UDPSocketInfo' = [UDPSocketInfo EXCEPT ![handle[NBNS]].node = remoteNode]
              /\ wire'.kind = "answer" /\ wPutOffset' = Room /\ Flushed
    BY DEF NBNSListen, MACDiscardRx
  <1>2. /\ TableOK /\ LoopTypes /\ PutTypes /\ GetTypes /\ HeaderOK /\ ActiveOK
        /\ Held /\ Delivered
    BY TypesAre DEF StackInv
  <1>3. may' = {} /\ LastPutSocket = NoSocket  BY <1>1, LoopTurn
  <1>4. handle[NBNS] \in Sockets
    <2>1. NBNS \in Users  BY DEF Users
    <2> QED  BY <1>1, <1>2, <2>1, HeldIsOpen
  <1>5. GetTypes'
    <2>1. wGetOffset' \in WORDs /\ UDPRxCount' \in WORDs /\ rxAt' \in Nat \cup {Astray}
          /\ SocketWithRxData' \in Sockets \cup {NoSocket}
      BY <1>1, <1>2, WordIs DEF GetTypes
    <2>2. bWasDiscarded' \in BOOLEAN /\ bFirstRead' \in BOOLEAN  BY <1>1, Zenon
    <2> QED  BY <2>1, <2>2, Zenon DEF GetTypes
  <1>6. Delivered'  BY <1>1, <1>2 DEF Delivered
  <1>7. LoopTypes' /\ ActiveOK'  BY <1>1, <1>2, <1>4 DEF LoopTypes, ActiveOK
  <1>8. CASE UNCHANGED <<UDPSocketInfo, putVars, IPHeaderLen>> /\ wire' = Nothing
    <2>1. UNCHANGED <<LastPutSocket, UDPTxCount, wPutOffset, txBuf, txAt>>
      BY <1>8 DEF putVars
    <2>2. PutTypes'  BY <1>2, <2>1, FrameSentTypes DEF FrameSent
    <2>3. TableOK' /\ HeaderOK' /\ Held'
      BY <1>1, <1>2, <1>8, HeldStays DEF TableOK, HeaderOK
    <2>4. wire'.kind \notin {"udp", "discover"}  BY <1>8 DEF Nothing
    <2> QED  BY <1>3, <1>5, <1>6, <1>7, <2>1, <2>2, <2>3, <2>4, LoopStep
  <1>9. CASE /\ UDPSocketInfo' = [UDPSocketInfo EXCEPT ![handle[NBNS]].node = remoteNode]
             /\ wire'.kind = "answer" /\ wPutOffset' = Room /\ Flushed
    <2>1. PutTypes' /\ LastPutSocket' = NoSocket /\ HeaderOK'
      <3>1. /\ LastPutSocket' = NoSocket /\ UDPTxCount' = 0 /\ IPHeaderLen' = "plain"
            /\ txBuf' = EmptyBuffer /\ txAt' = Astray
        BY <1>9 DEF Flushed
      <3>2. wPutOffset' \in 0 .. Room  BY <1>9, Names
      <3> QED  BY <1>2, <3>1, <3>2, FlushedIs DEF HeaderOK
    <2>2. Held' /\ TableOK'
      <3> DEFINE h == handle[NBNS]
                 r == [UDPSocketInfo[h] EXCEPT !.node = remoteNode]
      <3>1. UDPSocketInfo[h] \in Infos /\ remoteNode \in Nodes \cup {NoNode}
        BY <1>2, <1>4 DEF TableOK, LoopTypes
      <3>2. r \in Infos /\ r.local = UDPSocketInfo[h].local  BY <3>1 DEF Infos
      <3>3. UDPSocketInfo' = [UDPSocketInfo EXCEPT ![h] = r]  BY <1>9, Zenon
      <3>4. h \in Sockets  BY <1>4
      <3> HIDE DEF r, h
      <3>5. /\ UDPSocketInfo' \in [Sockets -> Infos]
            /\ \A t \in Sockets : UDPSocketInfo'[t].local = UDPSocketInfo[t].local
        BY <1>2, <3>2, <3>3, <3>4, RebindOne
      <3> QED  BY <1>1, <1>2, <3>4, <3>5, HeldRebound DEF TableOK
    <2>3. wire'.kind \notin {"udp", "discover"}  BY <1>9
    <2> QED  BY <1>3, <1>5, <1>6, <1>7, <2>1, <2>2, <2>3, LoopStep
  <1> QED  BY <1>1, <1>8, <1>9

-----------------------------------------------------------------------------
(* The theorems.                                                           *)

\* The main loop begins with nothing open, put or received.
LEMMA StackInvInit == ASSUME Init PROVE StackInv
  <1>1. \A s \in Sockets : UDPSocketInfo[s].local = INVALID_UDP_PORT
    BY DEF Init, UDPInit, ClosedSocket
  <1>2. Held  BY <1>1 DEF Init, Held
  <1>3. BufferOK  BY DEF Init, UDPInit, BufferOK, EmptyBuffer
  <1>4. StackTypeOK
    <2>1. ClosedSocket(0) \in Infos  BY DEF ClosedSocket, Infos, INVALID_UDP_PORT
    <2>2. UDPSocketInfo \in [Sockets -> Infos]  BY <2>1 DEF Init, UDPInit
    <2>3. /\ activeUDPSocket \in Sockets /\ LastPutSocket \in Sockets \cup {NoSocket}
          /\ UDPTxCount \in 0 .. Room /\ wPutOffset \in 0 .. Room
          /\ txAt \in (0 .. Room) \cup {Astray}
          /\ SocketWithRxData \in Sockets \cup {NoSocket}
          /\ UDPRxCount \in WORDs /\ wGetOffset \in WORDs
          /\ rxAt \in Nat \cup {Astray} /\ IPHeaderLen \in {"plain", "options"}
      BY Names, WordIs DEF Init, UDPInit
    <2>4. bFirstRead \in BOOLEAN /\ bWasDiscarded \in BOOLEAN
      BY Zenon DEF Init, UDPInit
    <2>5. /\ turn \in {"dhcp", "tick", "rx", "http", "nbns", "app"}
          /\ remoteNode \in Nodes \cup {NoNode} /\ target \in Nodes \cup {NoNode}
          /\ handle \in [Users -> Sockets \cup {NoSocket}]
          /\ frames \in 0 .. MaxFrames
      BY StackAssumption DEF Init
    <2>6. UDPTypeOK  BY <2>2, <2>3, <2>4, Zenon DEF UDPTypeOK, Infos
    <2> QED  BY <2>5, <2>6 DEF StackTypeOK
  <1>5. Asked /\ Written /\ Abandoned /\ DatagramIsWhole /\ Delivered
    BY DEF Init, UDPInit, Asked, Written, Abandoned, DatagramIsWhole, Delivered, Nothing
  <1> QED  BY <1>2, <1>3, <1>4, <1>5 DEF StackInv

\* Nothing happens.
LEMMA StackStutters == ASSUME StackInv, UNCHANGED stackVars PROVE StackInv'
  BY DEF StackInv, stackVars, udpVars, StackTypeOK, UDPTypeOK, BufferOK, Held, Asked,
         Written, Abandoned, Delivered, DatagramIsWhole, Whose

\* Every step keeps the invariant.
LEMMA StackStep == ASSUME StackInv, [Next]_stackVars PROVE StackInv'
  <1>1. ASSUME NEW u \in Callers, UserStep(u) PROVE StackInv'
    BY <1>1, OpenKeeps, CloseKeeps, AskToPutKeeps, PutKeeps, TurnBackKeeps, SendKeeps,
       AskToGetKeeps, GetKeeps, DiscardKeeps, EndTurnKeeps DEF UserStep
  <1>2. CASE Next
    BY <1>1, <1>2, DiscoverKeeps, TickKeeps, NoMoreFramesKeeps, ARPKeeps, IPFrameKeeps,
       TCPProcessKeeps, UDPFrameKeeps, HTTPServerKeeps, NBNSOpenKeeps, NBNSWaitsKeeps,
       NBNSListenKeeps DEF Next
  <1> QED  BY <1>2, StackStutters

\* What the tasks share fits together after any calls and any frames.
THEOREM StackInvariance == Spec => []StackInv
  BY StackInvInit, StackStep, PTL DEF Spec

\* The tasks' and UDP.c's variables keep their types: no position or count leaves
\* the datagram, whoever asks, puts and turns back.
THEOREM StackTypeCorrect == Spec => []StackTypeOK
  <1>1. StackInv => StackTypeOK  BY DEF StackInv
  <1> QED  BY <1>1, StackInvariance, PTL

\* A datagram holds what its user put since it asked for room, no byte of what
\* another task left unsent and none lost to a frame that TCP, ARP or ICMP built
\* in the same buffer.
THEOREM DatagramsAreWhole == Spec => []DatagramIsWhole
  <1>1. StackInv => DatagramIsWhole  BY DEF StackInv
  <1> QED  BY <1>1, StackInvariance, PTL

-----------------------------------------------------------------------------
(* What a user reads.                                                      *)

\* A user whose socket a packet for a port came to is the addressee.
LEMMA AddresseeIs ==
    ASSUME StackInv, NEW u \in Users, handle[u] # NoSocket, SocketWithRxData = handle[u],
           UDPRxCount > 0, addressee # None
    PROVE addressee = u
  <1>1. addressee \in Users /\ handle[addressee] = SocketWithRxData
    BY DEF StackInv, Delivered
  <1> QED  BY <1>1, OneHolder DEF StackInv

\* No step but UDPGet() and NBNSTask() reads.
LEMMA WhoReads ==
    ASSUME StackInv, Next
    PROVE \/ got' = NoByte
          \/ \E u \in Callers : Get(u)
          \/ NBNSListen
  BY DEF Next, UserStep, Quiet, Open, Close, AskToPut, Put, TurnBack, Send, Discover,
         AskToGet, Seek, Discard, EndTurn, Tick, NoMoreFrames, ARPProcess, IPFrame,
         TCPProcess, UDPFrame, HTTPServer, NBNSOpen, NBNSWaits

\* A place of the MAC buffer within the packet holds a byte of it.
LEMMA OriginIs ==
    ASSUME ReadInPlace, NEW n \in Nat, n < rxPacket.len PROVE Origin(n) = addressee
  <1>1. rxPacket.len \in Nat  BY DEF ReadInPlace
  <1>2. n \in 0 .. rxPacket.len - 1  BY <1>1
  <1> QED  BY <1>2 DEF Origin

\* UDPGet() reads what its socket has.
LEMMA GetReads ==
    ASSUME StackInv, NEW u \in Callers, Get(u)
    PROVE /\ got' = [by |-> u, of |-> Origin(rxAt), at |-> wGetOffset, from |-> rxAt]
          /\ "get" \in may /\ UDPRxCount > 0 /\ SocketWithRxData = activeUDPSocket
          /\ u \in Users /\ handle[u] # NoSocket /\ SocketWithRxData = handle[u]
          /\ wGetOffset \in Nat
  <1>1. u \in Users /\ u = Whose  BY TurnIs DEF Get, Mine
  <1>2. /\ handle[u] # NoSocket /\ "get" \in may
        /\ wGetOffset < UDPRxCount /\ SocketWithRxData = activeUDPSocket
        /\ got' = [by |-> u, of |-> Origin(rxAt), at |-> wGetOffset, from |-> rxAt]
    BY DEF Get, Mine, UDPGet
  <1>3. UDPRxCount \in Nat /\ wGetOffset \in Nat
    BY DEF StackInv, StackTypeOK, UDPTypeOK, WORDs
  <1>4. SocketWithRxData = handle[u]  BY <1>1, <1>2 DEF StackInv, Asked
  <1> QED  BY <1>1, <1>2, <1>3, <1>4

\* What a step reads within reach is the next byte of the reader's packet.
LEMMA ReadsOwn ==
    ASSUME StackInv, ReadInPlace, Next, got' # NoByte, InReach(got'.at)
    PROVE got'.of = got'.by /\ got'.from = got'.at
  <1>1. ASSUME NEW u \in Callers, Get(u) PROVE got'.of = got'.by /\ got'.from = got'.at
    <2>1. /\ got'.by = u /\ got'.of = Origin(rxAt) /\ got'.at = wGetOffset /\ got'.from = rxAt
          /\ "get" \in may /\ UDPRxCount > 0 /\ SocketWithRxData = activeUDPSocket
          /\ u \in Users /\ handle[u] # NoSocket /\ SocketWithRxData = handle[u]
          /\ wGetOffset \in Nat
      BY <1>1, GetReads
    <2>2. /\ rxPacket.dport # INVALID_UDP_PORT /\ IPHeaderLen = rxPacket.header
          /\ wGetOffset < rxPacket.len
      BY <2>1 DEF InReach
    <2>3. rxAt = wGetOffset /\ addressee # None  BY <2>1, <2>2 DEF ReadInPlace
    <2>4. Origin(rxAt) = addressee  BY <2>1, <2>2, <2>3, OriginIs
    <2> QED  BY <2>1, <2>3, <2>4, AddresseeIs
  <1>2. CASE NBNSListen
    <2>1. /\ got'.by = NBNS /\ got'.of = Origin(PlaceInPayload(0)) /\ got'.at = 0
          /\ got'.from = PlaceInPayload(0)
          /\ handle[NBNS] # NoSocket /\ SocketWithRxData = handle[NBNS] /\ UDPRxCount > 0
      BY <1>2 DEF NBNSListen, GetReady
    <2>2. /\ rxPacket.dport # INVALID_UDP_PORT /\ IPHeaderLen = rxPacket.header
          /\ 0 < rxPacket.len
      BY <2>1 DEF InReach
    <2>3. PlaceInPayload(0) = 0  BY <2>2 DEF PlaceInPayload
    <2>4. addressee # None  BY <2>1, <2>2 DEF ReadInPlace
    <2>5. Origin(0) = addressee  BY <2>2, OriginIs
    <2>6. NBNS \in Users  BY DEF Users
    <2> QED  BY <2>1, <2>3, <2>4, <2>5, <2>6, AddresseeIs
  <1> QED  BY <1>1, <1>2, WhoReads

\* A step that leaves what was received alone, and asks for nothing: a frame that is
\* sent makes the IP layer forget the length of a header with options only.
LEMMA ReadStays ==
    ASSUME ReadInPlace,
           UNCHANGED <<SocketWithRxData, UDPRxCount, wGetOffset, bFirstRead, rxAt, rxPacket,
                       addressee>>,
           IPHeaderLen' \in {IPHeaderLen, "plain"},
           "get" \in may' => "get" \in may /\ activeUDPSocket' = activeUDPSocket
    PROVE ReadInPlace'
  BY DEF ReadInPlace

\* A step after which nothing is left to read.
LEMMA ReadGone ==
    ASSUME UDPRxCount' = 0, rxPacket'.len \in Nat PROVE ReadInPlace'
  BY DEF ReadInPlace
LEMMA NothingLeft == NoPacket.len \in Nat /\ \A h : (Leftover(h)).len \in Nat
  BY DEF NoPacket, Leftover

\* UDP drops what it has at the beginning of a pass of the receive loop.
LEMMA AfterDiscard ==
    ASSUME StackInv, AfterUDPDiscard PROVE UDPRxCount' = 0
  BY DEF AfterUDPDiscard, StackInv, Delivered

\* A call of a user reads on, begins at the first byte, or leaves the place alone.
LEMMA UserReadStep ==
    ASSUME StackInv, ReadInPlace, NEW u \in Callers, UserStep(u)
    PROVE ReadInPlace'
  <1>1. CASE Open(u)
    <2>1. u = Whose  BY <1>1, TurnIs DEF Open
    <2>2. /\ handle[u] = NoSocket /\ may' = may
          /\ UNCHANGED <<SocketWithRxData, UDPRxCount, wGetOffset, bFirstRead, rxAt, rxPacket,
                         addressee, IPHeaderLen>>
      BY <1>1 DEF Open, history, UDPOpen, getVars
    <2>3. may = {}  BY <2>1, <2>2 DEF StackInv, Asked
    <2> QED  BY <2>2, <2>3, ReadStays
  <1>2. CASE Close(u) \/ EndTurn(u)
    <2>1. /\ may' = {}
          /\ UNCHANGED <<SocketWithRxData, UDPRxCount, wGetOffset, bFirstRead, rxAt, rxPacket,
                         addressee, IPHeaderLen>>
      BY <1>2 DEF Close, EndTurn, UDPClose, getVars, udpVars
    <2> QED  BY <2>1, ReadStays
  <1>3. CASE AskToPut(u)
    <2>1. u = Whose  BY <1>3, TurnIs DEF AskToPut, Mine
    <2>2. /\ may' = may \cup {"put"} /\ activeUDPSocket' = handle[u]
          /\ UNCHANGED <<SocketWithRxData, UDPRxCount, wGetOffset, bFirstRead, rxAt, rxPacket,
                         addressee, IPHeaderLen>>
      BY <1>3 DEF AskToPut, UDPIsPutReady, getVars
    <2>3. "get" \in may => activeUDPSocket = handle[u]
      BY <2>1 DEF StackInv, Asked
    <2> QED  BY <2>2, <2>3, ReadStays
  <1>4. CASE Put(u) \/ TurnBack(u) \/ Send(u)
    <2>1. /\ may' \in {may, may \ {"put"}} /\ IPHeaderLen' \in {IPHeaderLen, "plain"}
          /\ UNCHANGED <<SocketWithRxData, UDPRxCount, wGetOffset, bFirstRead, rxAt, rxPacket,
                         addressee, activeUDPSocket>>
      BY <1>4 DEF Put, TurnBack, Send, history, UDPPut, UDPSetTxBuffer, UDPFlush, Flushed,
                  socketVars, getVars
    <2> QED  BY <2>1, ReadStays
  <1>5. CASE AskToGet(u)
    <2>1. /\ activeUDPSocket' = handle[u]
          /\ UNCHANGED <<SocketWithRxData, UDPRxCount, rxPacket, addressee, IPHeaderLen>>
          /\ IF SocketWithRxData = handle[u] /\ bFirstRead
             THEN bFirstRead' = FALSE /\ rxAt' = PlaceInPayload(0) /\ wGetOffset' = 0
             ELSE UNCHANGED <<bFirstRead, rxAt, wGetOffset>>
      BY <1>5 DEF AskToGet, UDPIsGetReady, getVars
    <2>2. CASE SocketWithRxData = handle[u] /\ bFirstRead
      <3>1. IPHeaderLen = rxPacket.header => PlaceInPayload(0) = 0  BY DEF PlaceInPayload
      <3> QED  BY <2>1, <2>2, <3>1 DEF ReadInPlace
    <2>3. CASE ~ (SocketWithRxData = handle[u] /\ bFirstRead)
      <3>1. UNCHANGED <<bFirstRead, rxAt, wGetOffset>>  BY <2>1, <2>3
      <3> QED  BY <2>1, <2>3, <3>1 DEF ReadInPlace
    <2> QED  BY <2>2, <2>3
  <1>6. CASE Get(u)
    <2>1. "get" \in may /\ UDPRxCount > 0 /\ SocketWithRxData = activeUDPSocket
      BY <1>6, GetReads
    <2>2. /\ rxAt' = (IF rxAt = Astray THEN Astray ELSE rxAt + 1)
          /\ wGetOffset' = wGetOffset + 1
          /\ UNCHANGED <<SocketWithRxData, UDPRxCount, bFirstRead, activeUDPSocket, may,
                         rxPacket, addressee, IPHeaderLen>>
      BY <1>6 DEF Get, UDPGet, socketVars
    <2>3. wGetOffset # Astray
      BY Names, WordIs DEF StackInv, StackTypeOK, UDPTypeOK
    <2>4. IPHeaderLen = rxPacket.header => rxAt' = wGetOffset'
      BY <2>1, <2>2, <2>3 DEF ReadInPlace
    <2> QED  BY <2>2, <2>4 DEF ReadInPlace
  <1>7. CASE Seek(u)
    <2>1. /\ rxAt' = PlaceInPayload(0) /\ wGetOffset' = 0
          /\ UNCHANGED <<SocketWithRxData, UDPRxCount, bFirstRead, activeUDPSocket, may,
                         rxPacket, addressee, IPHeaderLen>>
      BY <1>7 DEF Seek, UDPSetRxBuffer, history, socketVars
    <2>2. IPHeaderLen = rxPacket.header => PlaceInPayload(0) = 0  BY DEF PlaceInPayload
    <2> QED  BY <2>1, <2>2 DEF ReadInPlace
  <1>8. CASE Discard(u)
    <2>1. /\ may' = may /\ activeUDPSocket' = activeUDPSocket
          /\ UNCHANGED <<addressee, IPHeaderLen>>
      BY <1>8 DEF Discard, UDPDiscard, history, socketVars
    <2>2. CASE bWasDiscarded
      <3>1. UNCHANGED <<SocketWithRxData, UDPRxCount, wGetOffset, bFirstRead, rxAt, rxPacket>>
        BY <1>8, <2>2 DEF Discard, UDPDiscard, getVars
      <3> QED  BY <2>1, <3>1, ReadStays
    <2>3. CASE ~bWasDiscarded
      <3>1. UDPRxCount' = 0 /\ rxPacket' = NoPacket
        BY <1>8, <2>3 DEF Discard, UDPDiscard, MACDiscardRx
      <3> QED  BY <3>1, NothingLeft, ReadGone
    <2> QED  BY <2>2, <2>3
  <1> QED  BY <1>1, <1>2, <1>3, <1>4, <1>5, <1>6, <1>7, <1>8 DEF UserStep

\* A packet that a socket took has an addressee unless it came for port 0.
LEMMA AddresseeOf ==
    ASSUME Held, TableOK, NEW p, Accepts(p), p.dport # INVALID_UDP_PORT
    PROVE /\ FindMatchingSocket(p) \in Sockets
          /\ Holder(FindMatchingSocket(p)) \in Users
          /\ handle[Holder(FindMatchingSocket(p))] = FindMatchingSocket(p)
  <1>1. /\ FindMatchingSocket(p) \in Sockets
        /\ UDPSocketInfo[FindMatchingSocket(p)].local = p.dport
    BY MatchIs DEF Accepts
  <1> QED  BY <1>1, HolderIs

\* Every step leaves the next byte in its place.
LEMMA ReadStep ==
    ASSUME StackInv, ReadInPlace, [Next]_stackVars PROVE ReadInPlace'
  <1>1. CASE UNCHANGED stackVars
    BY <1>1 DEF stackVars, udpVars, ReadInPlace
  <1>2. ASSUME NEW u \in Callers, UserStep(u) PROVE ReadInPlace'  BY <1>2, UserReadStep
  <1>3. CASE Discover
    <2>1. /\ may' = may \ {"put"} /\ IPHeaderLen' = "plain"
          /\ UNCHANGED <<SocketWithRxData, UDPRxCount, wGetOffset, bFirstRead, rxAt, rxPacket,
                         addressee, activeUDPSocket>>
      BY <1>3 DEF Discover, Flushed, getVars
    <2> QED  BY <2>1, ReadStays
  <1>4. CASE Tick \/ HTTPServer
    <2>1. /\ may' = may /\ IPHeaderLen' \in {IPHeaderLen, "plain"}
          /\ UNCHANGED <<SocketWithRxData, UDPRxCount, wGetOffset, bFirstRead, rxAt, rxPacket,
                         addressee, activeUDPSocket>>
      BY <1>4 DEF Tick, HTTPServer, TCPMaySend, socketVars, getVars
    <2> QED  BY <2>1, ReadStays
  <1>5. CASE NoMoreFrames \/ ARPProcess \/ IPFrame \/ TCPProcess
    <2>1. AfterUDPDiscard /\ (rxPacket' = NoPacket \/ \E h \in Headers : rxPacket' = Leftover(h))
      BY <1>5 DEF NoMoreFrames, ARPProcess, IPFrame, TCPProcess, MACDiscardRx
    <2> QED  BY <2>1, AfterDiscard, NothingLeft, ReadGone
  <1>6. CASE UDPFrame
    <2>1. PICK p \in Packets :
             /\ UDPProcess(p)
             /\ Accepts(p) => addressee' = Holder(FindMatchingSocket(p))
      BY <1>6, Zenon DEF UDPFrame
    <2>2. turn = "rx" /\ may' = may  BY <1>6 DEF UDPFrame, Arrives
    <2>3. may' = {}  BY <2>2, LoopTurn
    <2>4. CASE Accepts(p)
      <3>1. bFirstRead' = TRUE /\ rxPacket' = p /\ IPHeaderLen' = p.header
        BY <2>1, <2>4 DEF UDPProcess
      <3>2. p.len \in Nat  BY StackAssumption DEF Packets
      <3>3. p.dport # INVALID_UDP_PORT => addressee' # None
        BY <2>1, <2>4, AddresseeOf, TypesAre, Names DEF StackInv
      <3> QED  BY <2>3, <3>1, <3>2, <3>3 DEF ReadInPlace
    <2>5. CASE ~Accepts(p)
      <3>1. UDPRxCount' = 0 /\ rxPacket' = NoPacket  BY <2>1, <2>5 DEF UDPProcess
      <3> QED  BY <3>1, NothingLeft, ReadGone
    <2> QED  BY <2>4, <2>5
  <1>7. CASE NBNSOpen \/ NBNSWaits
    <2>1. /\ may' = may /\ turn = "nbns"
          /\ UNCHANGED <<SocketWithRxData, UDPRxCount, wGetOffset, bFirstRead, rxAt, rxPacket,
                         addressee, IPHeaderLen>>
      BY <1>7 DEF NBNSOpen, NBNSWaits, UDPOpen, history, getVars
    <2>2. may' = {}  BY <2>1, LoopTurn
    <2> QED  BY <2>1, <2>2, ReadStays
  <1>8. CASE NBNSListen
    <2>1. UDPRxCount' = 0 /\ rxPacket' = NoPacket  BY <1>8 DEF NBNSListen, MACDiscardRx
    <2> QED  BY <2>1, NothingLeft, ReadGone
  <1> QED  BY <1>1, <1>2, <1>3, <1>4, <1>5, <1>6, <1>7, <1>8 DEF Next

\* A byte that a user reads is the next byte of the packet that came for it, for
\* every length a header may say and headers with options too: within the packet,
\* while the IP layer remembers the length of its header, and unless it was sent to
\* port 0.
THEOREM ReadsInOrder == Spec => ReadsItsOwnPacket
  <1>1. Init => ReadInPlace
    BY NothingLeft DEF Init, UDPInit, ReadInPlace
  <1>2. StackInv /\ ReadInPlace /\ [Next]_stackVars => ReadInPlace'  BY ReadStep
  <1>3. StackInv /\ ReadInPlace /\ [Next]_stackVars =>
          [got' # NoByte /\ InReach(got'.at)
             => got'.of = got'.by /\ got'.from = got'.at]_stackVars
    BY ReadsOwn
  <1> QED  BY <1>1, <1>2, <1>3, StackInvariance, PTL DEF Spec, ReadsItsOwnPacket

-----------------------------------------------------------------------------
(* Whom a packet is offered to.                                            *)

\* A call of a user does not change whom the packet came for, and its last one
\* in a turn is an offer.
LEMMA UserOffers ==
    ASSUME StackInv, StillOffered, NEW u \in Callers, UserStep(u)
    PROVE /\ Turn(u) /\ addressee' = addressee
          /\ \A v \in Users : v # u => handle'[v] = handle[v]
          /\ \/ turn' = turn /\ offered' = offered
             \/ turn' = turn /\ offered' = (offered \/ addressee = u)
             \/ EndTurn(u)
  <1>1. handle \in [Users -> Sockets \cup {NoSocket}]  BY DEF StackInv, StackTypeOK
  <1>2. Turn(u) /\ addressee' = addressee
    BY DEF UserStep, Open, Close, AskToPut, Put, TurnBack, Send, AskToGet, Get, Seek,
           Discard, EndTurn, Mine, history
  <1>3. \A v \in Users : v # u => handle'[v] = handle[v]
    <2>1. CASE Open(u) \/ Close(u)  BY <1>1, <2>1 DEF Open, Close
    <2>2. CASE ~ (Open(u) \/ Close(u))
      BY <2>2 DEF UserStep, AskToPut, Put, TurnBack, Send, AskToGet, Get, Seek,
                  Discard, EndTurn
    <2> QED  BY <2>1, <2>2
  <1>4. \/ turn' = turn /\ offered' = offered
        \/ turn' = turn /\ offered' = (offered \/ addressee = u)
        \/ EndTurn(u)
    BY Zenon DEF UserStep, Open, Close, AskToPut, Put, TurnBack, Send, AskToGet, Get, Seek,
           Discard, history, loopVars
  <1> QED  BY <1>2, <1>3, <1>4

\* A call of a user leaves a packet to be offered, or offers it.
LEMMA UserOfferStep ==
    ASSUME StackInv, StillOffered, NEW u \in Callers, UserStep(u) PROVE StillOffered'
  <1>1. /\ Turn(u) /\ addressee' = addressee
        /\ \A v \in Users : v # u => handle'[v] = handle[v]
    BY UserOffers
  <1>2. u \in Users /\ turn \in {"dhcp", "app"} /\ (u = DHCP <=> turn = "dhcp")
    BY <1>1, TurnIs
  <1>3. addressee \in Users \cup {None} /\ u \in {DHCP, App} /\ u # NBNS /\ NBNS \in Users
    BY Names DEF StackInv, Delivered, Callers, Users
  <1>4. CASE turn' = turn /\ (offered' = offered \/ offered' = (offered \/ addressee = u))
    <2>1. offered' \in BOOLEAN /\ (offered => offered')  BY <1>4, Zenon DEF StillOffered
    <2>2. addressee' = NBNS => handle'[NBNS] # NoSocket  BY <1>1, <1>3 DEF StillOffered
    <2>3. CASE addressee = u  BY <1>1, <1>2, <1>3, <1>4, <2>1, <2>2, <2>3 DEF StillOffered
    <2>4. CASE addressee # u
      <3>1. addressee' # None => handle'[addressee'] = handle[addressee]
        BY <1>1, <1>3, <2>4
      <3> QED  BY <1>1, <1>2, <1>3, <1>4, <2>1, <2>2, <2>4, <3>1 DEF StillOffered
    <2> QED  BY <2>3, <2>4
  <1>5. CASE EndTurn(u)
    <2>1. /\ turn' = IF u = DHCP THEN "tick" ELSE "dhcp"
          /\ offered' = (offered \/ addressee = u) /\ handle' = handle
      BY <1>5 DEF EndTurn
    <2>2. offered' \in BOOLEAN /\ (offered => offered') /\ (addressee = u => offered')
      BY <2>1, Zenon
    <2>3. addressee' = NBNS => handle'[NBNS] # NoSocket
      BY <1>1, <2>1 DEF StillOffered
    <2>4. ASSUME addressee # None, handle[addressee] # NoSocket, ~offered'
          PROVE turn' = "dhcp" /\ addressee = DHCP
      <3>1. ~offered /\ addressee # u  BY <2>2, <2>4
      <3>2. \/ turn = "app" /\ addressee \in {DHCP, App}
            \/ turn = "dhcp" /\ addressee = DHCP
        BY <1>2, <2>4, <3>1 DEF StillOffered
      <3> QED  BY <1>2, <1>3, <2>1, <3>1, <3>2
    <2> QED  BY <1>1, <2>1, <2>2, <2>3, <2>4 DEF StillOffered
  <1> QED  BY <1>4, <1>5, UserOffers

\* Every step leaves a packet that is not empty to be offered.
LEMMA OfferStep ==
    ASSUME HeaderSize \notin Fields, StackInv, StillOffered, [Next]_stackVars PROVE StillOffered'
  <1>1. CASE UNCHANGED stackVars
    BY <1>1 DEF stackVars, udpVars, StillOffered
  <1>2. ASSUME NEW u \in Callers, UserStep(u) PROVE StillOffered'
    BY <1>2, UserOfferStep
  <1>3. CASE Discover \/ HTTPServer
    <2>1. /\ UNCHANGED <<addressee, offered, handle, UDPRxCount>>
          /\ turn' = turn \/ (turn = "http" /\ turn' = "nbns")
      BY <1>3 DEF Discover, HTTPServer, loopVars, getVars
    <2> QED  BY <2>1 DEF StillOffered
  <1>4. CASE Tick
    BY <1>4 DEF Tick, StillOffered, getVars
  <1>5. CASE NoMoreFrames \/ ARPProcess \/ IPFrame \/ TCPProcess
    <2>1. addressee' = None /\ UNCHANGED <<offered, handle>>
      BY <1>5 DEF NoMoreFrames, ARPProcess, IPFrame, TCPProcess
    <2>2. None # NBNS  BY Names DEF Users
    <2> QED  BY <2>1, <2>2 DEF StillOffered
  <1>6. CASE UDPFrame
    <2>1. PICK p \in Packets :
             /\ UDPProcess(p)
             /\ IF Accepts(p)
                THEN addressee' = Holder(FindMatchingSocket(p)) /\ offered' = FALSE
                ELSE addressee' = None /\ offered' = TRUE
             /\ turn' = IF LoopEnds(Accepts(p)) THEN "http" ELSE "rx"
      BY <1>6, Zenon DEF UDPFrame
    <2>2. handle' = handle /\ turn = "rx"  BY <1>6 DEF UDPFrame, Arrives
    <2>3. SaidLength(p) > 0
      <3>1. p.field \in Fields  BY DEF Packets
      <3> QED  BY <3>1, SaidIs, StackAssumption
    <2>4. CASE Accepts(p)
      <3>1. addressee' = Holder(FindMatchingSocket(p)) /\ FindMatchingSocket(p) # NoSocket
        BY <2>1, <2>4 DEF Accepts
      <3>2. addressee' # None => handle'[addressee'] # NoSocket  BY <2>2, <3>1 DEF Holder
      <3>3. turn' = "http" /\ UDPRxCount' > 0
        BY <2>1, <2>3, <2>4 DEF UDPProcess, LoopEnds
      <3>4. offered' \in BOOLEAN  BY <2>1, <2>4, Zenon
      <3>5. NBNS # None  BY Names DEF Users
      <3> QED  BY <3>2, <3>3, <3>4, <3>5 DEF StillOffered
    <2>5. CASE ~Accepts(p)
      <3>1. addressee' = None /\ None # NBNS  BY <2>1, <2>5, Names DEF Users
      <3>2. offered' \in BOOLEAN  BY <2>1, <2>5, Zenon
      <3> QED  BY <3>1, <3>2 DEF StillOffered
    <2> QED  BY <2>4, <2>5
  <1>7. CASE NBNSOpen
    <2>1. /\ turn = "nbns" /\ turn' = "app" /\ UNCHANGED <<addressee, offered>>
          /\ handle[NBNS] = NoSocket /\ handle' = [handle EXCEPT ![NBNS] = FirstClosed]
      BY <1>7 DEF NBNSOpen, history
    <2>2. addressee # NBNS  BY <2>1 DEF StillOffered
    <2>3. addressee \in Users \cup {None}  BY DEF StackInv, Delivered
    <2> QED  BY <2>1, <2>2, <2>3 DEF StillOffered, Users
  <1>8. CASE NBNSWaits
    <2>1. /\ turn = "nbns" /\ turn' = "app" /\ UNCHANGED <<addressee, offered, handle>>
          /\ handle[NBNS] # NoSocket /\ ~GetReady(handle[NBNS])
      BY <1>8 DEF NBNSWaits, history
    <2>2. addressee \in Users \cup {None}  BY DEF StackInv, Delivered
    <2>3. ASSUME addressee = NBNS PROVE offered
      <3>1. NBNS # None  BY Names DEF Users
      <3>2. UDPRxCount > 0 => handle[NBNS] = SocketWithRxData
        BY <2>3, <3>1 DEF StackInv, Delivered
      <3>3. ~ (UDPRxCount > 0)  BY <2>1, <3>2 DEF GetReady
      <3> QED  BY <2>1, <2>3, <3>1, <3>3 DEF StillOffered
    <2> QED  BY <2>1, <2>2, <2>3 DEF StillOffered, Users
  <1>9. CASE NBNSListen
    <2>1. /\ handle[NBNS] # NoSocket /\ handle' = handle
      BY <1>9 DEF NBNSListen
    <2>2. offered' \in BOOLEAN /\ offered'  BY <1>9, Zenon DEF NBNSListen
    <2> QED  BY <2>1, <2>2 DEF StillOffered
  <1> QED
    BY <1>1, <1>2, <1>3, <1>4, <1>5, <1>6, <1>7, <1>8, <1>9 DEF Next

\* A packet leaves only in the receive loop, when its addressee has had a turn.
LEMMA OnlyOfferedLeave ==
    ASSUME StackInv, StillOffered, [Next]_stackVars, addressee # None,
           handle[addressee] # NoSocket, addressee' # addressee
    PROVE offered
  <1>1. \A u \in Callers : ~UserStep(u)  BY UserOffers
  <1>2. turn = "rx"
    BY <1>1 DEF Next, Discover, Tick, NoMoreFrames, ARPProcess, IPFrame, TCPProcess,
       UDPFrame, HTTPServer, NBNSOpen, NBNSWaits, NBNSListen, Arrives, history, stackVars
  <1> QED  BY <1>2 DEF StillOffered

\* A datagram that a socket took stays in the MAC until its user has had a turn:
\* neither the next frame nor another task drops it.  An empty datagram is left
\* out: NBNSTask() cannot tell it from none.
THEOREM DatagramsAreOffered == ASSUME HeaderSize \notin Fields PROVE Spec => DatagramIsOffered
  <1>1. Init => StillOffered
    <2>1. Init => offered \in BOOLEAN  BY Zenon DEF Init
    <2> QED  BY <2>1, Names DEF Init, StillOffered, Users
  <1>2. StackInv /\ StillOffered /\ [Next]_stackVars => StillOffered'  BY OfferStep
  <1>3. StackInv /\ StillOffered /\ [Next]_stackVars =>
          [addressee # None /\ handle[addressee] # NoSocket /\ addressee' # addressee
             => offered]_stackVars
    BY OnlyOfferedLeave
  <1> QED  BY <1>1, <1>2, <1>3, StackInvariance, PTL DEF Spec, DatagramIsOffered
=============================================================================
