----------------------------- MODULE TCPRxFifo -----------------------------
(***************************************************************************)
(* The receive FIFO of a TCP socket (TCP.c) byte by byte: the ring that    *)
(* shares one block of memory with the transmit FIFO, the segments that    *)
(* HandleTCPSeg() stores in it, in order and beyond a hole, the reads, and *)
(* TCPAdjustFIFOSize(), which moves the border between the two FIFOs while *)
(* data is waiting.  HTTP2.c is its only caller, so the application here   *)
(* is HTTPServer() with the three resizes and the disconnects of           *)
(* HTTPProcess().                                                          *)
(*                                                                         *)
(* Addresses count from bufferTxStart = 0.  A byte is named by its place   *)
(* in the stream of the remote node; Junk is anything else.  The timers,   *)
(* the transmit side and the closing handshake are TCPSocket's.            *)
(***************************************************************************)
EXTENDS TCPReassembly

CONSTANTS
    BufferEnd,      \* MyTCBStub.bufferEnd
    MaxRx,          \* bound: bytes the remote node sends in one connection
    Junk

Bytes == 0..MaxRx-1

ASSUME FifoAssumption ==
    BufferEnd \in Nat /\ BufferEnd >= 2 /\ MaxRx \in Nat /\ Junk \notin Bytes

VARIABLES
    skt,        \* the socket: TCB, TCB stub and memory
    smHTTP,     \* state of the HTTP connection
    taken,      \* bytes the application has read from this connection
    overHole    \* history: the border moved, and dropped the data, while out-of-order
                \* data waited in this connection

fifoVars == <<skt, smHTTP, taken, overHole>>
-----------------------------------------------------------------------------
(* The ring from "start" to BufferEnd                                      *)

Wrap(start, p) == IF p > BufferEnd THEN p - (BufferEnd - start + 1) ELSE p

\* TCPIsGetReady()
Ready(s) ==
    IF s.rxHead >= s.rxTail THEN s.rxHead - s.rxTail
    ELSE (BufferEnd - s.rxTail + 1) + (s.rxHead - s.bufferRxStart)

FreeFifo(s) ==
    IF s.rxHead >= s.rxTail
    THEN (BufferEnd - s.bufferRxStart) - (s.rxHead - s.rxTail)
    ELSE s.rxTail - s.rxHead - 1

\* n bytes of the stream, from q on, are copied to the ring at p.
CopyIn(s, p, q, n) ==
    LET at == [i \in 0..n-1 |-> Wrap(s.bufferRxStart, p + i)]
    IN  [a \in 0..BufferEnd |->
            IF \E i \in 0..n-1 : at[i] = a THEN q + (CHOOSE i \in 0..n-1 : at[i] = a)
                                           ELSE s.mem[a]]

\* Emptied: nothing is in the FIFO.
Emptied(s) == [s EXCEPT !.rxTail = s.rxHead]

\* CloseSocket(): all sockets are servers.  What is left in memory is junk.
CloseSocketFifo(s) ==
    [s EXCEPT !.smState = "LISTEN", !.rxHead = s.bufferRxStart, !.rxTail = s.bufferRxStart,
              !.bSocketReset = TRUE, !.sHoleSize = NoHole, !.RemoteSEQ = 0,
              !.mem = [a \in 0..BufferEnd |-> Junk]]

TCPDisconnectFifo(s) ==
    IF s.smState = "ESTABLISHED" THEN [Emptied(s) EXCEPT !.smState = "FIN_WAIT"]
                                 ELSE CloseSocketFifo(s)

\* TCPGetArray()
Get(s, n) == [s EXCEPT !.rxTail = Wrap(s.bufferRxStart, s.rxTail + n)]
-----------------------------------------------------------------------------
(* HandleTCPSeg(): a segment with the bytes q .. q+len-1                   *)

Acceptable(missing, len, free) == free > 0 /\ missing < free /\ missing + len > 0

\* Text not ahead of RemoteSEQ goes to rxHead, which then passes over the
\* future data if that closes the hole.
TextInOrder(s, missing, len) ==
    LET n == InOrderLen(missing, len, FreeFifo(s))
        f == FillHole(s.sHoleSize, s.wFutureDataSize, n)
        h == Wrap(s.bufferRxStart, s.rxHead + n)
    IN  [s EXCEPT !.mem = CopyIn(s, s.rxHead, s.RemoteSEQ, n),
                  !.RemoteSEQ = @ + n + f.jump,
                  !.rxHead = Wrap(s.bufferRxStart, h + f.jump),
                  !.sHoleSize = f.hole]

\* Text ahead is stored beyond the hole.
TextAhead(s, missing, len) ==
    LET n == AheadLen(missing, len, FreeFifo(s))
        r == RecordHole(s.sHoleSize, s.wFutureDataSize, missing, n)
    IN  [s EXCEPT !.mem = CopyIn(s, s.rxHead + missing, s.RemoteSEQ + missing, n),
                  !.sHoleSize = r.hole, !.wFutureDataSize = r.future]

\* A closing socket throws away what it has just stored.
Text(s, missing, len) ==
    LET t == IF missing <= 0 THEN TextInOrder(s, missing, len) ELSE TextAhead(s, missing, len)
    IN  IF s.smState = "ESTABLISHED" THEN t ELSE Emptied(t)
-----------------------------------------------------------------------------
(* TCPAdjustFIFOSize(hTCP, 1, 0, flags)                                    *)

Flags == {"PRESERVE_RX", "GIVE_REST_TO_RX", "GIVE_REST_TO_TX"}

\* The first byte of the receive FIFO: one byte for it, the rest as asked.
NewRxStart(flags) ==
    LET rest == BufferEnd - 2
        tx   == IF "GIVE_REST_TO_TX" \in flags /\ "GIVE_REST_TO_RX" \notin flags THEN rest
                ELSE IF "GIVE_REST_TO_TX" \notin flags /\ "GIVE_REST_TO_RX" \in flags THEN 0
                ELSE rest \div 2
    IN  tx + 1

\* Seeded fault: out-of-order data is forgotten.
LastHeadInOrder(s) == s.rxHead

\* Behind the last byte to keep: future data counts.
LastHead(s) ==
    IF s.sHoleSize = NoHole THEN s.rxHead
    ELSE Wrap(s.bufferRxStart, s.rxHead + s.sHoleSize + s.wFutureDataSize)

\* Seeded fault: only data that wraps is taken to be lost.
LosesWrapped(s, start) == s.rxTail > LastHead(s) /\ start > s.bufferRxStart

\* Would received data lie outside the new receive FIFO?
Loses(s, start) ==
    \/ s.rxTail < LastHead(s) /\ start > s.rxTail
    \/ s.rxTail > LastHead(s) /\ start > s.bufferRxStart

\* The pointers move when there is nothing to keep, or it is not kept.
\* sHoleSize and wFutureDataSize stay what they were.
Moved(s, start) ==
    IF Loses(s, start) \/ s.rxTail = LastHead(s)
    THEN [s EXCEPT !.rxTail = start, !.rxHead = start]
    ELSE s

\* Data that wrapped is copied down to the new start.  The test compares the old
\* head with the new tail.
CopiedDown(s, m, start) ==
    LET n == LastHead(s) - s.bufferRxStart
    IN  [m EXCEPT !.rxHead = IF @ < m.rxTail THEN @ - (s.bufferRxStart - start) ELSE @,
                  !.mem = [a \in 0..BufferEnd |->
                              IF a \in start..start+n-1 THEN s.mem[a - start + s.bufferRxStart]
                              ELSE s.mem[a]]]

\* Seeded fault: data that does not fit is dropped although it was to be kept.
AdjustRegardless(s, flags) ==
    LET start == NewRxStart(flags)
        m == Moved(s, start)
        c == IF "PRESERVE_RX" \in flags /\ LastHead(s) < m.rxTail THEN CopiedDown(s, m, start) ELSE m
    IN  [c EXCEPT !.bufferRxStart = start,
                  !.mem = [a \in 0..BufferEnd |-> IF a < start THEN Junk ELSE c.mem[a]]]

\* The transmit FIFO is emptied, and its memory is junk from now on.
TCPAdjustFIFOSize(s, flags) ==
    LET start == NewRxStart(flags)
        m == Moved(s, start)
        c == IF "PRESERVE_RX" \in flags /\ LastHead(s) < m.rxTail THEN CopiedDown(s, m, start) ELSE m
    IN  IF "PRESERVE_RX" \in flags /\ Loses(s, start) THEN s
        ELSE [c EXCEPT !.bufferRxStart = start,
                       !.mem = [a \in 0..BufferEnd |-> IF a < start THEN Junk ELSE c.mem[a]]]
-----------------------------------------------------------------------------
(* The remote node                                                         *)

Connect ==
    /\ skt.smState = "LISTEN"
    /\ skt' = [skt EXCEPT !.smState = "ESTABLISHED"]
    /\ taken' = 0
    /\ UNCHANGED <<smHTTP, overHole>>

\* Any part of the stream arrives, at any time and as often as it likes.
HandleTCPSeg(q, len) ==
    /\ skt.smState \in {"ESTABLISHED", "FIN_WAIT"}
    /\ Acceptable(q - skt.RemoteSEQ, len, FreeFifo(skt))
    /\ skt' = Text(skt, q - skt.RemoteSEQ, len)
    /\ UNCHANGED <<smHTTP, taken, overHole>>

\* A reset, the end of the closing handshake, or a timeout of TCPTick().
ConnectionEnds ==
    /\ skt.smState # "LISTEN"
    /\ skt' = CloseSocketFifo(skt) /\ overHole' = FALSE
    /\ UNCHANGED <<smHTTP, taken>>
-----------------------------------------------------------------------------
(* HTTPServer(): one call for this connection                              *)

\* A reset connection is forgotten first, the FIFOs are made equal.
AfterReset ==
    IF skt.bSocketReset
    THEN TCPAdjustFIFOSize([skt EXCEPT !.bSocketReset = FALSE], {"PRESERVE_RX"})
    ELSE skt

StateAfterReset == IF skt.bSocketReset THEN "IDLE" ELSE smHTTP

\* Nothing has arrived.
HTTPIdle ==
    /\ StateAfterReset = "IDLE" /\ Ready(AfterReset) = 0
    /\ skt' = AfterReset /\ smHTTP' = "IDLE"
    /\ UNCHANGED <<taken, overHole>>

\* With the first bytes of a request the receive FIFO gets all the room.
Parsing ==
    IF StateAfterReset = "IDLE"
    THEN TCPAdjustFIFOSize(AfterReset, {"PRESERVE_RX", "GIVE_REST_TO_RX"})
    ELSE AfterReset

\* n bytes of the request are parsed, and more is needed.
HTTPParse(n) ==
    /\ \/ StateAfterReset = "IDLE" /\ Ready(AfterReset) > 0
       \/ StateAfterReset = "PARSE"
    /\ n <= Ready(Parsing)
    /\ skt' = Get(Parsing, n) /\ taken' = taken + n /\ smHTTP' = "PARSE"
    /\ UNCHANGED overHole

\* n bytes complete the request, or it does not fit: the rest is dropped, and
\* the transmit FIFO gets all the room.  A hole keeps the size it had.
HTTPServeHeaders(n) ==
    /\ \/ StateAfterReset = "IDLE" /\ Ready(AfterReset) > 0
       \/ StateAfterReset = "PARSE"
    /\ n <= Ready(Parsing)
    /\ skt' = TCPAdjustFIFOSize(Get(Parsing, n), {"GIVE_REST_TO_TX"})
    /\ taken' = taken + n /\ smHTTP' = "SERVE"
    /\ overHole' = (Parsing.sHoleSize # NoHole)

\* The request was not completed in time: TCPDisconnect() is called twice.
HTTPTimeout ==
    /\ StateAfterReset = "PARSE"
    /\ skt' = TCPDisconnectFifo(TCPDisconnectFifo(Parsing)) /\ smHTTP' = "IDLE"
    /\ UNCHANGED <<taken, overHole>>

\* The response is written.
HTTPDisconnect ==
    /\ StateAfterReset = "SERVE"
    /\ skt' = TCPDisconnectFifo(AfterReset) /\ smHTTP' = "IDLE"
    /\ UNCHANGED <<taken, overHole>>
-----------------------------------------------------------------------------
\* TCPInit(): a new server socket counts as reset.
InitialRxStart == (BufferEnd + 1) \div 2     \* FIFOs of one size, TCPIPConfig.h

FifoInit ==
    /\ skt = [smState |-> "LISTEN", bufferRxStart |-> InitialRxStart,
              rxTail |-> InitialRxStart, rxHead |-> InitialRxStart, RemoteSEQ |-> 0,
              sHoleSize |-> NoHole, wFutureDataSize |-> 0, bSocketReset |-> TRUE,
              mem |-> [a \in 0..BufferEnd |-> Junk]]
    /\ smHTTP = "IDLE"
    /\ taken = 0
    /\ overHole = FALSE

HTTPServer ==
    \/ HTTPIdle
    \/ \E n \in 0..MaxRx : HTTPParse(n) \/ HTTPServeHeaders(n)
    \/ HTTPTimeout
    \/ HTTPDisconnect

FifoNext ==
    \/ Connect
    \/ \E q \in Bytes, len \in 1..MaxRx : q + len <= MaxRx /\ HandleTCPSeg(q, len)
    \/ ConnectionEnds
    \/ HTTPServer

FifoSpec == FifoInit /\ [][FifoNext]_fifoVars
-----------------------------------------------------------------------------
\* Both pointers stay in the receive FIFO: the TCB of the next socket lies behind
\* its last byte, the transmit FIFO before its first.
RxPointersInBuffer == {skt.rxTail, skt.rxHead} \subseteq skt.bufferRxStart..BufferEnd

\* The types of the variables.  The pointers stay in the buffer until a border is
\* moved over a hole: filling the hole then takes rxHead out of it.
FifoTypeOK ==
    /\ skt \in [smState : {"LISTEN", "ESTABLISHED", "FIN_WAIT"}, bufferRxStart : 1..BufferEnd-1,
                rxTail : Nat, rxHead : Nat, RemoteSEQ : 0..MaxRx, sHoleSize : {NoHole} \cup Nat,
                wFutureDataSize : Nat, bSocketReset : BOOLEAN,
                mem : [0..BufferEnd -> Bytes \cup {Junk}]]
    /\ overHole \in BOOLEAN /\ (~ overHole => RxPointersInBuffer)
    /\ smHTTP \in {"IDLE", "PARSE", "SERVE"}
    /\ taken \in 0..MaxRx

\* What the application would read is what the remote node sent, in order: the
\* bytes that RemoteSEQ acknowledges last.
RxDataIntact ==
    \A i \in 0..Ready(skt)-1 :
        skt.mem[Wrap(skt.bufferRxStart, skt.rxTail + i)] = skt.RemoteSEQ - Ready(skt) + i

\* The future data is where, and what, sHoleSize and wFutureDataSize say, so that
\* filling the hole acknowledges only bytes that arrived.
FutureDataIntact ==
    skt.sHoleSize # NoHole =>
        \A i \in 0..skt.wFutureDataSize-1 :
            skt.mem[Wrap(skt.bufferRxStart, skt.rxHead + skt.sHoleSize + i)]
                = skt.RemoteSEQ + skt.sHoleSize + i

\* Every byte of the ring that counts as received, or as received ahead, is the
\* one the remote node sent there, wherever the border of the ring was moved, but
\* after the headers were served over a hole.
RingIntact == ~ overHole => RxDataIntact /\ FutureDataIntact

\* Until the response is written, the application is offered every byte that
\* was acknowledged: no resize drops one on the way.
NoReceivedByteLost ==
    skt.smState = "ESTABLISHED" /\ smHTTP # "SERVE"
        => taken + Ready(skt) = skt.RemoteSEQ
=============================================================================
