------------------------------ MODULE TCPSocket ------------------------------
(***************************************************************************)
(* One server socket of the TCP module (src/TCPIP Stack/TCP.c): its        *)
(* control block, the segment handler HandleTCPSeg(), the periodic         *)
(* TCPTick(), the transmitter SendTCP() and the application's API, against *)
(* a remote node whose segments may be lost, delayed, repeated, reordered, *)
(* or stop altogether.                                                     *)
(*                                                                         *)
(* Sequence numbers are relative: MySEQ counts from our ISS and RemoteSEQ  *)
(* from the remote one, so byte i (from 0) of a stream has number i + 1.   *)
(* The FIFOs are stream offsets (txTail, txUnackedTail, txHead) and a      *)
(* count (rxCount).  "due" abstracts the clock: eventTime has passed.      *)
(***************************************************************************)
EXTENDS Integers, Sequences, TCPReassembly

CONSTANTS
    TxSize, RxSize,         \* FIFO capacities (wTXBufferSize, wRXBufferSize)
    MSS,                    \* TCP_MAX_SEG_SIZE
    MaxRetries,             \* TCP_MAX_RETRIES
    MaxSynRetries,          \* TCP_MAX_SYN_RETRIES
    MaxUnackedKeepAlives,   \* TCP_MAX_UNACKED_KEEP_ALIVES
    PeerWindows,            \* windows the remote node may advertise
    Urgent,                 \* whether it uses the URG flag
    StaleAcks,              \* ACK numbers left over from another connection
    Calls,                  \* API functions the application uses
    MaxTx,                  \* bound: bytes the application writes per connection
    MaxRx,                  \* bound: bytes the remote node sends per connection
    MaxConns                \* bound: connections accepted

ASSUME SizesAssumption ==
    /\ TxSize \in Nat /\ RxSize \in Nat /\ MSS \in Nat
    /\ PeerWindows \subseteq Nat /\ StaleAcks \subseteq Nat /\ Urgent \in BOOLEAN
    /\ MaxRetries \in Nat /\ MaxSynRetries \in Nat
    /\ MaxUnackedKeepAlives \in 0..7
    /\ MaxTx \in Nat /\ MaxRx \in Nat /\ MaxConns \in Nat

VARIABLES
    tcb,    \* TCB_STUB and TCB of the socket, with the segments it has sent
    peer,   \* the remote node of the current connection
    conns   \* connections accepted so far

vars == <<tcb, peer, conns>>

States == {"CLOSED", "LISTEN", "SYN_RECEIVED", "ESTABLISHED", "FIN_WAIT_1",
           "FIN_WAIT_2", "CLOSING", "CLOSE_WAIT", "LAST_ACK"}

WORD == 65536
BYTE == 256

One(b) == IF b THEN 1 ELSE 0
-----------------------------------------------------------------------------
(* The socket                                                              *)

InFlight(s) == s.txUnackedTail - s.txTail
Unsent(s)   == s.txHead - s.txUnackedTail
Free(s)     == FreeRx(RxSize, s.rxCount)

\* Seeded fault: a pending FIN outlives the connection.
CloseSocketKeepsFIN(s) ==
    [s EXCEPT !.smState = "LISTEN", !.vUnackedKeepalives = 0,
              !.bTimerEnabled = FALSE, !.bTimer2Enabled = FALSE,
              !.bDelayedACKTimerEnabled = FALSE, !.bOneSegmentReceived = FALSE,
              !.bHalfFullFlush = FALSE, !.bTXASAP = FALSE,
              !.bTXASAPWithoutTimerReset = FALSE,
              !.bSocketReset = TRUE, !.bFINSent = FALSE, !.bSYNSent = FALSE,
              !.bRXNoneACKed1 = FALSE, !.bRXNoneACKed2 = FALSE,
              !.txHead = 0, !.txTail = 0, !.txUnackedTail = 0, !.rxCount = 0,
              !.MySEQ = 0, !.sHoleSize = NoHole, !.remoteWindow = 1,
              !.sent = {}]

\* CloseSocket(): RemoteSEQ, retryCount and wFutureDataSize keep their values.
CloseSocket(s) ==
    [s EXCEPT !.smState = "LISTEN", !.vUnackedKeepalives = 0,
              !.bTimerEnabled = FALSE, !.bTimer2Enabled = FALSE,
              !.bDelayedACKTimerEnabled = FALSE, !.bOneSegmentReceived = FALSE,
              !.bHalfFullFlush = FALSE, !.bTXASAP = FALSE,
              !.bTXASAPWithoutTimerReset = FALSE, !.bTXFIN = FALSE,
              !.bSocketReset = TRUE, !.bFINSent = FALSE, !.bSYNSent = FALSE,
              !.bRXNoneACKed1 = FALSE, !.bRXNoneACKed2 = FALSE,
              !.txHead = 0, !.txTail = 0, !.txUnackedTail = 0, !.rxCount = 0,
              !.MySEQ = 0, !.sHoleSize = NoHole, !.remoteWindow = 1,
              !.sent = {}]

\* The socket after TCPInit(): every field as CloseSocket() leaves it.
InitialTCB ==
    [smState |-> "CLOSED", vUnackedKeepalives |-> 0,
     bTimerEnabled |-> FALSE, bTimer2Enabled |-> FALSE,
     bDelayedACKTimerEnabled |-> FALSE, bOneSegmentReceived |-> FALSE,
     bHalfFullFlush |-> FALSE, bTXASAP |-> FALSE,
     bTXASAPWithoutTimerReset |-> FALSE, bTXFIN |-> FALSE,
     bSocketReset |-> TRUE, bFINSent |-> FALSE, bSYNSent |-> FALSE,
     bRXNoneACKed1 |-> FALSE, bRXNoneACKed2 |-> FALSE,
     txHead |-> 0, txTail |-> 0, txUnackedTail |-> 0, rxCount |-> 0,
     MySEQ |-> 0, RemoteSEQ |-> 0, sHoleSize |-> NoHole, wFutureDataSize |-> 0,
     remoteWindow |-> 1, retryCount |-> 0, due |-> FALSE,
     sent |-> {}, lastAck |-> 0]

\* The window left for new data, a WORD: it wraps when less than the data in
\* flight is advertised.
EffectiveWindow(s) == (s.remoteWindow - InFlight(s)) % WORD

DataLen(s) == LesserOf(LesserOf(Unsent(s), EffectiveWindow(s)), MSS)

\* SendTCP() attaches the pending FIN only behind the last byte it can send.
CarriesFIN(s) ==
    /\ s.bTXFIN
    /\ IF Unsent(s) = 0 THEN s.remoteWindow # 0
                        ELSE DataLen(s) \notin {EffectiveWindow(s), MSS}

\* Seeded fault: a sent ACK leaves the delayed one pending.
SynchedKeepsDelayedACK(s, flags) ==
    [s EXCEPT !.bTXFIN = @ \/ "FIN" \in flags,
              !.bTimer2Enabled = FALSE, !.bOneSegmentReceived = FALSE, !.bTXASAP = FALSE,
              !.bTXASAPWithoutTimerReset = FALSE, !.bHalfFullFlush = FALSE]

\* The flags SendTCP() clears before it builds a segment.
Synched(s, flags) ==
    [s EXCEPT !.bTXFIN = @ \/ "FIN" \in flags,
              !.bTimer2Enabled = FALSE, !.bDelayedACKTimerEnabled = FALSE,
              !.bOneSegmentReceived = FALSE, !.bTXASAP = FALSE,
              !.bTXASAPWithoutTimerReset = FALSE, !.bHalfFullFlush = FALSE]

\* retryCount after a segment that takes "space" sequence numbers: set to zero,
\* or, by a mere ACK while the timer runs, taken back by one; a BYTE.
RetryCount(s, space, mode) ==
    IF mode = "RESET_TIMERS" THEN (IF space > 0 THEN 0 ELSE s.retryCount)
                             ELSE (IF space > 0 THEN s.retryCount ELSE (s.retryCount - 1) % BYTE)

\* Retransmission bookkeeping of that segment.
Armed(s, space, mode) ==
    IF space > 0
    THEN [s EXCEPT !.bTimerEnabled = TRUE, !.due = FALSE,
                   !.retryCount = RetryCount(s, space, mode)]
    ELSE IF mode = "KEEP_ALIVE"
    THEN [s EXCEPT !.vUnackedKeepalives = (@ + 1) % 8]
    ELSE IF s.bTimerEnabled
    THEN [s EXCEPT !.due = FALSE, !.retryCount = RetryCount(s, space, mode)]
    ELSE s

\* SendTCP(): flags is a subset of {"SYN", "ACK", "FIN", "RST"}, mode is the
\* vSendFlags argument.  Only segments that take sequence numbers are kept in
\* "sent"; cut (history) says that this is text which was sent before, and now
\* without the FIN behind it: its number is one too high, since only a segment
\* with the FIN takes back the number of the last; lastAck is the latest
\* acknowledgement number.
SendTCP(s0, flags, mode) ==
    LET s   == Synched(s0, flags)
        dat == flags \intersect {"SYN", "RST"} = {}
        syn == "SYN" \in flags
        fin == dat /\ CarriesFIN(s)
        len == IF dat THEN DataLen(s) ELSE 0
        seq == s.MySEQ - One(syn /\ s.bSYNSent) - One(fin /\ s.bFINSent)
        seg == [seq |-> seq, off |-> s.txUnackedTail, len |-> len, syn |-> syn, fin |-> fin,
                cut |-> len > 0 /\ s.bFINSent /\ ~fin]
        a   == Armed(s, len + One(syn) + One(fin), mode)
    IN  [a EXCEPT !.MySEQ = @ + len + One(syn /\ ~s.bSYNSent) + One(fin /\ ~s.bFINSent),
                  !.txUnackedTail = @ + len,
                  !.bSYNSent = @ \/ syn,
                  !.bFINSent = @ \/ fin,
                  !.bTXASAPWithoutTimerReset =
                      dat /\ LesserOf(Unsent(s), EffectiveWindow(s)) > MSS,
                  !.lastAck = s.RemoteSEQ,
                  !.sent = IF len > 0 \/ syn \/ fin THEN @ \union {seg} ELSE @]

\* Seeded fault: the data is rolled back, its sequence number is not.
RollBackKeepsSEQ(s) == [s EXCEPT !.txUnackedTail = s.txTail]

\* Roll txUnackedTail back so that the next SendTCP() retransmits.
RollBack(s) == [s EXCEPT !.MySEQ = @ - InFlight(s), !.txUnackedTail = s.txTail]
-----------------------------------------------------------------------------
(* The remote node.  It sends the bytes 1..peer.len and a FIN, receives    *)
(* our segments in any order, and every segment it ever could have sent    *)
(* may arrive now: losses, delays, repetitions and reorderings.            *)

\* nxt is the next number it expects, got what it received, acks every value
\* nxt has had (an old acknowledgement may arrive late), len its own stream.
NewPeer(n) == [alive |-> TRUE, nxt |-> 0, acks |-> {}, got |-> <<>>,
               fin |-> FALSE, len |-> n]

Segment(kind, seq, len, fin, ackno, wnd) ==
    [kind |-> kind, seq |-> seq, len |-> len, fin |-> fin, ackno |-> ackno, wnd |-> wnd]

\* Segments with the ACK flag ("URG" with the URG flag too).  Once it has our
\* SYN the remote node may send data and its FIN.
AckSegments ==
    {h \in {Segment(k, q, n, f, a, w) :
                k \in IF Urgent THEN {"ACK", "URG"} ELSE {"ACK"}, q \in 1..(peer.len + 2), n \in 0..peer.len,
                f \in BOOLEAN, a \in peer.acks \union StaleAcks, w \in PeerWindows} :
        /\ h.len > 0 => h.seq + h.len <= peer.len + 1
        /\ h.fin => h.seq + h.len = peer.len + 1
        /\ h.len > 0 \/ h.fin => peer.nxt > 0}

\* The SYN again (seq 0) or a new one, a reset, or a segment with no flag.
OtherSegments ==
    {Segment(k, q, 0, FALSE, 0, 0) : k \in {"SYN", "RST", "NONE"}, q \in 0..(peer.len + 2)}

\* The remote node takes the part of a segment it has not received yet.
PeerReceives ==
    /\ peer.alive
    /\ \E seg \in tcb.sent :
         LET data == seg.seq + One(seg.syn)              \* number of the first byte
             skip == IF seg.syn THEN 0 ELSE peer.nxt - data
         IN  /\ seg.seq <= peer.nxt
             /\ peer.nxt < data + seg.len + One(seg.fin)
             /\ peer' = [peer EXCEPT
                    !.nxt = data + seg.len + One(seg.fin),
                    !.acks = @ \union {data + seg.len + One(seg.fin)},
                    !.got = @ \o [i \in 1..(IF skip < seg.len THEN seg.len - skip ELSE 0)
                                    |-> seg.off + skip + i - 1],
                    !.fin = seg.fin]
    /\ UNCHANGED <<tcb, conns>>

PeerDies ==
    /\ peer.alive
    /\ tcb.smState \notin {"CLOSED", "LISTEN"}
    /\ peer' = [peer EXCEPT !.alive = FALSE]
    /\ UNCHANGED <<tcb, conns>>
-----------------------------------------------------------------------------
(* HandleTCPSeg()                                                          *)

\* Any segment shows the remote node is there.
Heard(s) == [s EXCEPT !.vUnackedKeepalives = 0,
                      !.due = IF s.bTimerEnabled THEN @ ELSE FALSE]

SegLen(h) == h.len + One(h.fin) + One(h.kind = "SYN")
Missing(s, h) == h.seq - s.RemoteSEQ

Acceptable(s, h) ==
    LET missing == Missing(s, h)
    IN  IF SegLen(h) > 0
        THEN /\ Free(s) > 0
             /\ missing < Free(s)
             /\ missing + SegLen(h) > 0
        ELSE missing = 0 \/ (missing >= 0 /\ Free(s) > missing)

\* A segment reaches the socket while it is past LISTEN.
Arrives(h) ==
    /\ peer.alive
    /\ tcb.smState \notin {"CLOSED", "LISTEN"}
    /\ UNCHANGED <<peer, conns>>

\* ... is acceptable, and its ACK number is looked at.
AckArrives(h) ==
    /\ Arrives(h)
    /\ h.kind \in {"ACK", "URG"}
    /\ Acceptable(tcb, h)

\* The highest number the TX FIFO could have sent is MySEQ + Unsent.
AckTooHigh(s, h) == h.ackno > s.MySEQ + Unsent(s)

\* Bytes newly acknowledged; a FIN that was sent is in MySEQ, not in the FIFO.
Acked(s, h) == h.ackno - (s.MySEQ - InFlight(s))

\* Seeded fault: an ACK beyond txUnackedTail moves the pointer but not MySEQ.
FreeAckedKeepsSEQ(s, h) ==
    LET tail == s.txTail + Acked(s, h)
    IN  [s EXCEPT !.bRXNoneACKed1 = FALSE, !.bRXNoneACKed2 = FALSE,
                  !.bHalfFullFlush = FALSE, !.txTail = tail,
                  !.txUnackedTail = IF tail > @ THEN tail ELSE @]

FreeAcked(s, h) ==
    LET tail == s.txTail + Acked(s, h)
    IN  [s EXCEPT !.bRXNoneACKed1 = FALSE, !.bRXNoneACKed2 = FALSE,
                  !.bHalfFullFlush = FALSE, !.txTail = tail,
                  !.MySEQ = IF tail > s.txUnackedTail THEN @ + tail - s.txUnackedTail ELSE @,
                  !.txUnackedTail = IF tail > @ THEN tail ELSE @]

\* The third acknowledgement that frees nothing starts a fast retransmission.
DuplicateAck(s) ==
    LET r == IF s.bRXNoneACKed1 /\ s.bRXNoneACKed2
             THEN [RollBack(s) EXCEPT !.bTXASAPWithoutTimerReset = TRUE] ELSE s
    IN  IF InFlight(s) = 0 THEN s
        ELSE [r EXCEPT !.bRXNoneACKed1 = TRUE, !.bRXNoneACKed2 = @ \/ s.bRXNoneACKed1]

\* Seeded faults: any ACK stops the timer; a FIN does not keep it.
StopTimerOnAnyAck(s, h) ==
    IF s.bTXFIN /\ s.MySEQ # h.ackno THEN s
    ELSE [s EXCEPT !.bTimerEnabled = FALSE, !.bTXFIN = FALSE,
                   !.bFINSent = IF s.bTXFIN THEN FALSE ELSE @]

StopTimerDespiteFIN(s, h) ==
    IF s.txTail # s.txHead THEN s ELSE [s EXCEPT !.bTimerEnabled = FALSE]

\* Everything written is acknowledged: stop the timer, unless a FIN is pending
\* whose number has not been reached.
StopTimer(s, h) ==
    IF s.txTail # s.txHead \/ (s.bTXFIN /\ s.MySEQ # h.ackno) THEN s
    ELSE [s EXCEPT !.bTimerEnabled = FALSE,
                   !.bTXFIN = FALSE,
                   !.bFINSent = IF s.bTXFIN THEN FALSE ELSE @]

WindowUpdate(s, h) ==
    [s EXCEPT !.bTXASAP = @ \/ (s.remoteWindow = 0 /\ h.wnd > 0),
              !.remoteWindow = h.wnd]

FinAcked(s, h) ==
    IF s.smState = "FIN_WAIT_1" /\ s.MySEQ = h.ackno
    THEN [s EXCEPT !.smState = "FIN_WAIT_2", !.bTimerEnabled = TRUE, !.due = FALSE]
    ELSE s

\* Seeded fault: an old ACK number is not told from a new one.
AckFreedByOldAck(s, h) ==
    LET e == IF s.smState = "SYN_RECEIVED" THEN [s EXCEPT !.smState = "ESTABLISHED"] ELSE s
        a == IF 0 # Acked(e, h) THEN FreeAcked(e, h) ELSE DuplicateAck(e)
    IN  WindowUpdate(StopTimer(a, h), h)

\* The ACK field up to the window update.
AckFreed(s, h) ==
    LET e == IF s.smState = "SYN_RECEIVED" THEN [s EXCEPT !.smState = "ESTABLISHED"] ELSE s
        a == IF 0 < Acked(e, h) /\ Acked(e, h) <= TxSize + 1 THEN FreeAcked(e, h)
                                                             ELSE DuplicateAck(e)
    IN  WindowUpdate(StopTimer(a, h), h)

\* The text of a segment that starts at or before RemoteSEQ.
TextInOrder(s, h) ==
    LET n == InOrderLen(Missing(s, h), h.len, Free(s))
        f == FillHole(s.sHoleSize, s.wFutureDataSize, n)
    IN  [s EXCEPT !.RemoteSEQ = @ + n + f.jump, !.rxCount = @ + n + f.jump,
                  !.sHoleSize = f.hole]

\* The text of a segment that starts beyond RemoteSEQ.
TextAhead(s, h) ==
    LET n == AheadLen(Missing(s, h), h.len, Free(s))
        f == RecordHole(s.sHoleSize, s.wFutureDataSize, Missing(s, h), n)
    IN  [s EXCEPT !.sHoleSize = f.hole, !.wFutureDataSize = f.future]

Text(s, h) ==
    IF h.len = 0 THEN s
    ELSE IF Missing(s, h) <= 0 THEN TextInOrder(s, h) ELSE TextAhead(s, h)

\* Seeded fault: the delayed ACK is noted but its timer is not started.
AckTextUntimed(s, h) ==
    LET d == IF s.smState = "ESTABLISHED" THEN s ELSE [s EXCEPT !.rxCount = 0]
    IN  IF SegLen(h) = 0 THEN s
        ELSE IF d.bOneSegmentReceived THEN SendTCP(d, {"ACK"}, "RESET_TIMERS")
        ELSE [d EXCEPT !.bOneSegmentReceived = TRUE]

\* Acknowledge every second segment at once, the others after a delay.
AckText(s, h) ==
    LET d == IF s.smState = "ESTABLISHED" THEN s ELSE [s EXCEPT !.rxCount = 0]
    IN  IF SegLen(h) = 0 THEN s
        ELSE IF d.bOneSegmentReceived THEN SendTCP(d, {"ACK"}, "RESET_TIMERS")
        ELSE [d EXCEPT !.bOneSegmentReceived = TRUE, !.bDelayedACKTimerEnabled = TRUE]

\* Seeded fault: the remote FIN ends the wait for the acknowledgement of ours.
FinTakenForItsAck(s, h) ==
    LET r == [s EXCEPT !.RemoteSEQ = @ + 1]
    IN  IF ~h.fin \/ s.RemoteSEQ # h.seq + h.len THEN s
        ELSE IF s.smState = "FIN_WAIT_2" \/ (s.smState = "FIN_WAIT_1" /\ s.MySEQ = h.ackno)
        THEN CloseSocket(SendTCP(r, {"ACK"}, "NONE"))
        ELSE SendTCP([r EXCEPT !.smState = IF @ = "LAST_ACK" THEN @ ELSE "CLOSE_WAIT"],
                     {"ACK"}, "RESET_TIMERS")

\* A FIN counts only when everything before it has arrived.
Fin(s, h) ==
    LET r == [s EXCEPT !.RemoteSEQ = @ + 1]
    IN  IF ~h.fin \/ s.RemoteSEQ # h.seq + h.len THEN s
        ELSE IF s.smState = "FIN_WAIT_2" \/ (s.smState = "FIN_WAIT_1" /\ s.MySEQ = h.ackno)
        THEN CloseSocket(SendTCP(r, {"ACK"}, "NONE"))
        ELSE SendTCP([r EXCEPT !.smState = CASE @ = "ESTABLISHED" -> "CLOSE_WAIT"
                                             [] @ = "FIN_WAIT_1"  -> "CLOSING"
                                             [] OTHER             -> @],
                     {"ACK"}, "RESET_TIMERS")

\* LISTEN: a SYN opens a connection, anything else unbinds the socket again.
ListenSYN ==
    /\ tcb.smState = "LISTEN" /\ conns < MaxConns
    /\ tcb' = [SendTCP([Heard(tcb) EXCEPT !.RemoteSEQ = 1], {"SYN", "ACK"}, "RESET_TIMERS")
                 EXCEPT !.smState = "SYN_RECEIVED"]
    /\ \E n \in 0..MaxRx : peer' = NewPeer(n)
    /\ conns' = conns + 1

ListenOther ==
    /\ tcb.smState = "LISTEN"
    /\ \/ tcb' = CloseSocket(Heard(tcb))                                \* RST, or no flag
       \/ \E ackno \in 0..MaxTx :                                       \* ACK
            tcb' = CloseSocket(SendTCP([Heard(tcb) EXCEPT !.MySEQ = ackno], {"RST"}, "NONE"))
    /\ UNCHANGED <<peer, conns>>

SegUnacceptable(h) ==
    /\ Arrives(h)
    /\ ~Acceptable(tcb, h)
    /\ tcb' = IF h.kind = "RST" THEN Heard(tcb)
                                ELSE SendTCP(Heard(tcb), {"ACK"}, "RESET_TIMERS")

SegReset(h) ==
    /\ Arrives(h)
    /\ h.kind \in {"RST", "SYN"}
    /\ Acceptable(tcb, h)
    /\ tcb' = CloseSocket(Heard(tcb))

SegWithoutAck(h) ==
    /\ Arrives(h)
    /\ h.kind = "NONE"
    /\ Acceptable(tcb, h)
    /\ tcb' = Heard(tcb)

\* Not the answer to our SYN: reset it, keep the connection.
SegBadSynAck(h) ==
    /\ AckArrives(h)
    /\ tcb.smState = "SYN_RECEIVED"
    /\ h.ackno # tcb.MySEQ
    /\ tcb' = [SendTCP([Heard(tcb) EXCEPT !.MySEQ = h.ackno], {"RST"}, "RESET_TIMERS")
                 EXCEPT !.MySEQ = tcb.MySEQ]

SegLastAck(h) ==
    /\ AckArrives(h)
    /\ tcb.smState = "LAST_ACK"
    /\ tcb' = IF tcb.MySEQ = h.ackno THEN CloseSocket(Heard(tcb)) ELSE Heard(tcb)

\* The states whose ACK field is processed in full.
AckProcessed(h) ==
    /\ AckArrives(h)
    /\ tcb.smState # "LAST_ACK"
    /\ tcb.smState = "SYN_RECEIVED" => h.ackno = tcb.MySEQ

SegAckTooHigh(h) ==
    /\ AckProcessed(h)
    /\ AckTooHigh(tcb, h)
    /\ tcb' = SendTCP(Heard(tcb), {"ACK"}, "NONE")

SegClosing(h) ==
    /\ AckProcessed(h)
    /\ ~AckTooHigh(tcb, h)
    /\ tcb.smState = "CLOSING"
    /\ tcb' = LET s == AckFreed(Heard(tcb), h)
              IN  IF s.MySEQ = h.ackno THEN CloseSocket(s) ELSE s

\* After our FIN is acknowledged only a FIN is accepted.
SegFinWait2(h) ==
    /\ AckProcessed(h)
    /\ ~AckTooHigh(tcb, h)
    /\ tcb.smState = "FIN_WAIT_2" /\ ~h.fin
    /\ tcb' = CloseSocket(SendTCP([AckFreed(Heard(tcb), h) EXCEPT !.MySEQ = h.ackno],
                                  {"RST", "ACK"}, "NONE"))

\* Everything else: acknowledgement, text, delayed ACK, FIN.
SegProcessed(h) ==
    /\ AckProcessed(h)
    /\ ~AckTooHigh(tcb, h)
    /\ tcb.smState # "CLOSING"
    /\ tcb.smState = "FIN_WAIT_2" => h.fin
    /\ tcb' = LET s == FinAcked(AckFreed(Heard(tcb), h), h)
              IN  IF h.kind = "URG" \/ s.smState = "CLOSE_WAIT" THEN s
                  ELSE Fin(AckText(Text(s, h), h), h)

HandleTCPSeg ==
    \/ ListenSYN
    \/ ListenOther
    \/ \E h \in AckSegments \union OtherSegments :
         \/ SegUnacceptable(h) \/ SegReset(h) \/ SegWithoutAck(h) \/ SegBadSynAck(h)
         \/ SegLastAck(h) \/ SegAckTooHigh(h) \/ SegClosing(h) \/ SegFinWait2(h)
         \/ SegProcessed(h)
-----------------------------------------------------------------------------
(* TCPTick()                                                               *)

\* What TickSend() may act on: flushes waiting for the MAC, running timers.
Running(s) ==
    {t \in {"ASAP", "Timer2", "DelayedACK", "CloseWait"} :
        CASE t = "ASAP"       -> s.bTXASAP \/ s.bTXASAPWithoutTimerReset
          [] t = "Timer2"     -> s.bTimer2Enabled
          [] t = "DelayedACK" -> s.bDelayedACKTimerEnabled
          [] t = "CloseWait"  -> s.smState = "CLOSE_WAIT"}

\* The first SendTCP() of a tick that finds x ready or expired.
TickSend(s, x) ==
    LET mode == IF "ASAP" \in x /\ s.bTXASAPWithoutTimerReset THEN "NONE" ELSE "RESET_TIMERS"
    IN  IF x = {} THEN s
        ELSE IF "CloseWait" \in x
        THEN SendTCP([s EXCEPT !.smState = "LAST_ACK"], {"FIN", "ACK"}, mode)
        ELSE SendTCP(s, {"ACK"}, mode)

\* Seeded fault: retransmissions are not counted.
RetryUncounted(s, flags) == SendTCP(RollBack(s), flags, "NONE")

\* A retransmission of everything not acknowledged.
Retry(s, flags) ==
    SendTCP(RollBack([s EXCEPT !.retryCount = (@ + 1) % BYTE]), flags, "NONE")

Abort(s) == CloseSocket(SendTCP(s, {"RST", "ACK"}, "RESET_TIMERS"))

\* TCPDisconnect() of a socket in any state.
Disconnect(s0) ==
    LET s == [s0 EXCEPT !.rxCount = 0]
    IN  CASE s.smState \in {"SYN_RECEIVED", "ESTABLISHED"} ->
               [SendTCP(s, {"FIN", "ACK"}, "RESET_TIMERS") EXCEPT !.smState = "FIN_WAIT_1"]
          [] s.smState = "CLOSE_WAIT" ->
               [SendTCP(s, {"FIN", "ACK"}, "RESET_TIMERS") EXCEPT !.smState = "LAST_ACK"]
          [] OTHER -> CloseSocket(SendTCP(s, {"RST", "ACK"}, "NONE"))

\* One pass of TCPTick() over the socket, whose first part leaves s.
Ticks(x, s) == /\ tcb.smState # "CLOSED"
               /\ s = TickSend(tcb, x)
               /\ UNCHANGED <<peer, conns>>

KeepAliveDue(s) == ~s.bTimerEnabled /\ s.smState = "ESTABLISHED" /\ s.due
TimedOut(s)     == s.bTimerEnabled /\ s.due

TickOnly(x) == LET s == TickSend(tcb, x)
               IN  /\ Ticks(x, s) /\ ~KeepAliveDue(s) /\ ~TimedOut(s)
                   /\ tcb' = s

TickKeepAlive(x) ==
    LET s == TickSend(tcb, x)
    IN  /\ Ticks(x, s) /\ KeepAliveDue(s)
        /\ s.vUnackedKeepalives # MaxUnackedKeepAlives
        /\ tcb' = [SendTCP(s, {"ACK"}, "KEEP_ALIVE") EXCEPT !.due = FALSE]

\* Disconnecting twice sends a FIN and a RST and listens again.
TickPeerLost(x) ==
    LET s == TickSend(tcb, x)
    IN  /\ Ticks(x, s) /\ KeepAliveDue(s)
        /\ s.vUnackedKeepalives = MaxUnackedKeepAlives
        /\ tcb' = Disconnect(Disconnect(s))

TickRetry(x) ==
    LET s == TickSend(tcb, x)
    IN  /\ Ticks(x, s) /\ TimedOut(s)
        /\ \/ /\ s.smState = "SYN_RECEIVED" /\ s.retryCount < MaxSynRetries
              /\ tcb' = Retry(s, {"SYN", "ACK"})
           \/ /\ s.smState \in {"ESTABLISHED", "CLOSE_WAIT", "CLOSING"}
              /\ s.retryCount < MaxRetries
              /\ tcb' = Retry(s, {"ACK"})
           \/ /\ s.smState \in {"FIN_WAIT_1", "LAST_ACK"}
              /\ s.retryCount < MaxRetries
              /\ tcb' = Retry(s, {"FIN", "ACK"})

\* Nobody acknowledges the data: close from our side.
TickGiveUp(x) ==
    LET s == TickSend(tcb, x)
    IN  /\ Ticks(x, s) /\ TimedOut(s)
        /\ s.smState \in {"ESTABLISHED", "CLOSE_WAIT"} /\ s.retryCount >= MaxRetries
        /\ tcb' = SendTCP([s EXCEPT !.smState = "FIN_WAIT_1"], {"FIN", "ACK"}, "RESET_TIMERS")

TickAbort(x) ==
    LET s == TickSend(tcb, x)
    IN  /\ Ticks(x, s) /\ TimedOut(s)
        /\ \/ s.smState = "SYN_RECEIVED" /\ s.retryCount >= MaxSynRetries
           \/ s.smState \in {"FIN_WAIT_1", "CLOSING", "LAST_ACK"} /\ s.retryCount >= MaxRetries
           \/ s.smState = "FIN_WAIT_2"
        /\ tcb' = Abort(s)

\* A listening socket takes a SYN that waited in the SYN queue.
TickServeSYN ==
    /\ tcb.smState = "LISTEN" /\ conns < MaxConns
    /\ tcb' = SendTCP([tcb EXCEPT !.RemoteSEQ = 1, !.smState = "SYN_RECEIVED"],
                      {"SYN", "ACK"}, "RESET_TIMERS")
    /\ \E n \in 0..MaxRx : peer' = NewPeer(n)
    /\ conns' = conns + 1

Tick(x) == \/ TickOnly(x) \/ TickKeepAlive(x) \/ TickPeerLost(x)
           \/ TickRetry(x) \/ TickGiveUp(x) \/ TickAbort(x)

TCPTick == TickServeSYN \/ \E x \in SUBSET Running(tcb) : Tick(x)

\* eventTime passes while something waits for it.
TimePasses ==
    /\ tcb.bTimerEnabled \/ tcb.smState = "ESTABLISHED"
    /\ ~tcb.due
    /\ tcb' = [tcb EXCEPT !.due = TRUE]
    /\ UNCHANGED <<peer, conns>>
-----------------------------------------------------------------------------
(* The application                                                         *)

Called(f) == f \in Calls /\ UNCHANGED <<peer, conns>>

TCPOpen == /\ UNCHANGED <<peer, conns>>
           /\ tcb.smState = "CLOSED"
           /\ tcb' = [tcb EXCEPT !.smState = "LISTEN"]

TCPDisconnect == /\ Called("TCPDisconnect")
                 /\ tcb.smState # "CLOSED"
                 /\ tcb' = Disconnect(tcb)

TCPWasReset == /\ Called("TCPWasReset")
               /\ tcb.bSocketReset
               /\ tcb' = [tcb EXCEPT !.bSocketReset = FALSE]

Flush(s) == IF Unsent(s) > 0 THEN SendTCP(s, {"ACK"}, "RESET_TIMERS") ELSE s

TCPFlush == /\ Called("TCPFlush")
            /\ tcb' = Flush(tcb)

IsPutReady(s) == IF s.smState \in {"ESTABLISHED", "CLOSE_WAIT"}
                 THEN TxSize - (s.txHead - s.txTail) ELSE 0

\* The first byte beyond half full sends what is there.
HalfFull(s, space) == IF ~s.bHalfFullFlush /\ space <= (TxSize + 1) \div 2
                      THEN [Flush(s) EXCEPT !.bHalfFullFlush = TRUE] ELSE s

Timer2(s) == [s EXCEPT !.bTimer2Enabled = TRUE]

Wrote(s, n) == [s EXCEPT !.txHead = @ + n]

TCPPut ==
    LET space == IsPutReady(tcb)
        first == IF space = 1 THEN Flush(tcb) ELSE tcb
        s     == Wrote(HalfFull(first, space), 1)
    IN  /\ Called("TCPPut")
        /\ space > 0 /\ tcb.txHead < MaxTx
        /\ tcb' = IF space = 1 THEN Flush(s) ELSE Timer2(s)

TCPPutArray(len) ==
    LET space == IsPutReady(tcb)
        s     == Wrote(HalfFull(tcb, space), LesserOf(space, len))
    IN  /\ Called("TCPPutArray")
        /\ space > 0 => tcb.txHead + LesserOf(space, len) <= MaxTx
        /\ tcb' = IF space = 0 THEN Flush(tcb)
                  ELSE IF space <= len THEN Flush(s) ELSE Timer2(s)

\* Reading asks for a window update, at once when little is left to read.
Read(s, n) ==
    LET r == [s EXCEPT !.rxCount = @ - n]
    IN  IF s.rxCount - n <= n THEN [r EXCEPT !.bTXASAPWithoutTimerReset = TRUE] ELSE Timer2(r)

\* Seeded fault: an empty RX FIFO is read.
TCPGetUnguarded ==
    /\ Called("TCPGet")
    /\ tcb' = LET r == [tcb EXCEPT !.rxCount = @ - 1]
              IN  IF tcb.rxCount = 1 THEN [r EXCEPT !.bTXASAPWithoutTimerReset = TRUE]
                                     ELSE Timer2(r)

TCPGet == /\ Called("TCPGet")
          /\ tcb.rxCount > 0
          /\ tcb' = LET r == [tcb EXCEPT !.rxCount = @ - 1]
                    IN  IF tcb.rxCount = 1 THEN [r EXCEPT !.bTXASAPWithoutTimerReset = TRUE]
                                           ELSE Timer2(r)

TCPGetArray(len) == /\ Called("TCPGetArray")
                    /\ tcb.rxCount > 0
                    /\ tcb' = Read(tcb, LesserOf(len, tcb.rxCount))

TCPDiscard == /\ Called("TCPDiscard")
              /\ tcb.rxCount > 0
              /\ tcb' = SendTCP([tcb EXCEPT !.rxCount = 0], {"ACK"}, "RESET_TIMERS")

Application ==
    \/ TCPOpen \/ TCPDisconnect \/ TCPWasReset \/ TCPFlush
    \/ TCPPut \/ \E len \in 1..TxSize : TCPPutArray(len)
    \/ TCPGet \/ \E len \in 1..RxSize : TCPGetArray(len)
    \/ TCPDiscard
-----------------------------------------------------------------------------
Init == /\ tcb = InitialTCB
        /\ peer = [NewPeer(0) EXCEPT !.alive = FALSE]
        /\ conns = 0

Next == Application \/ HandleTCPSeg \/ TCPTick \/ TimePasses \/ PeerReceives \/ PeerDies

Spec == Init /\ [][Next]_vars

\* The main loop keeps calling StackTask(), so time passes and every expired
\* timer is served; nothing is assumed of the application or the remote node.
FairSpec == Spec /\ WF_vars(TimePasses) /\ WF_vars(Tick(Running(tcb)))
-----------------------------------------------------------------------------
Segments == [seq : Int, off : Nat, len : Nat, syn : BOOLEAN, fin : BOOLEAN, cut : BOOLEAN]

TCBs ==
    [smState : States, vUnackedKeepalives : 0..7,
     bTimerEnabled : BOOLEAN, bTimer2Enabled : BOOLEAN,
     bDelayedACKTimerEnabled : BOOLEAN, bOneSegmentReceived : BOOLEAN,
     bHalfFullFlush : BOOLEAN, bTXASAP : BOOLEAN,
     bTXASAPWithoutTimerReset : BOOLEAN, bTXFIN : BOOLEAN,
     bSocketReset : BOOLEAN, bFINSent : BOOLEAN, bSYNSent : BOOLEAN,
     bRXNoneACKed1 : BOOLEAN, bRXNoneACKed2 : BOOLEAN,
     txHead : Nat, txTail : Nat, txUnackedTail : Nat, rxCount : Nat,
     MySEQ : Int, RemoteSEQ : Nat, sHoleSize : Int, wFutureDataSize : Nat,
     remoteWindow : Nat, retryCount : 0..(BYTE - 1), due : BOOLEAN,
     sent : SUBSET Segments, lastAck : Nat]

TypeOK ==
    /\ tcb \in TCBs
    /\ peer \in [alive : BOOLEAN, nxt : Nat, acks : SUBSET Nat, got : Seq(Nat),
                 fin : BOOLEAN, len : Nat]
    /\ conns \in 0..MaxConns

\* Sent data that is not acknowledged is always covered by a running
\* retransmission timer: SendTCP() arms it, HandleTCPSeg() and CloseSocket()
\* stop it.
UnackedIsTimed == InFlight(tcb) > 0 => tcb.bTimerEnabled

\* A FIN that was sent stays pending, and timed, until it is acknowledged.
SentFinIsTimed == tcb.bFINSent => tcb.bTXFIN /\ tcb.bTimerEnabled

Bound == tcb.smState \notin {"CLOSED", "LISTEN"}

\* MySEQ is the number behind the last byte sent, after every retransmission,
\* fast retransmission, reset and FIN; FIN_WAIT_2 may count the FIN or not.
SeqTracksFifo ==
    Bound => \/ tcb.MySEQ = tcb.txUnackedTail + 1 + One(tcb.bFINSent)
             \/ tcb.smState = "FIN_WAIT_2" /\ tcb.MySEQ = tcb.txUnackedTail + 2

\* The FIFO pointers keep their order, whatever is acknowledged, and neither
\* FIFO holds more than its capacity.
FifoOrder == /\ tcb.txTail <= tcb.txUnackedTail /\ tcb.txUnackedTail <= tcb.txHead
             /\ tcb.txHead - tcb.txTail <= TxSize
             /\ tcb.rxCount <= RxSize

\* The future data behind a hole lies inside the free space of the RX FIFO.
HoleFits == tcb.sHoleSize # NoHole =>
              tcb.sHoleSize > 0 /\ tcb.sHoleSize + tcb.wFutureDataSize <= Free(tcb)

\* Whatever arrived in order is acknowledged, or its delayed ACK is pending.
ReceivedIsAcknowledged ==
    Bound /\ tcb.RemoteSEQ # tcb.lastAck => tcb.bDelayedACKTimerEnabled

\* delayedACKTime and closeWaitTime share one word: never both in use.
OverlappedTimersExclusive == tcb.smState = "CLOSE_WAIT" => ~tcb.bDelayedACKTimerEnabled

\* Nothing is acknowledged that the remote node cannot have sent, its FIN
\* only after all of its data.
AcksOnlySent == Bound => tcb.RemoteSEQ <= peer.len + 2

\* A listening socket carries nothing over from its last connection, whatever
\* ended it and whatever the application calls meanwhile.
ListenIsClean ==
    tcb.smState = "LISTEN" =>
        tcb = [InitialTCB EXCEPT !.smState = "LISTEN", !.bSocketReset = tcb.bSocketReset,
                                 !.RemoteSEQ = tcb.RemoteSEQ, !.retryCount = tcb.retryCount,
                                 !.wFutureDataSize = tcb.wFutureDataSize,
                                 !.due = tcb.due, !.lastAck = tcb.lastAck]

\* Within a connection nothing is taken back: neither what the remote node has
\* acknowledged nor what we have, whatever old segments arrive.
NothingTakenBack ==
    [][Bound /\ Bound' /\ conns' = conns =>
         /\ tcb.txTail <= tcb'.txTail
         /\ tcb.RemoteSEQ <= tcb'.RemoteSEQ /\ tcb.lastAck <= tcb'.lastAck]_vars

RFC793 == INSTANCE TCPStates WITH smState <- tcb.smState

\* Every handler, tick and call moves the socket along the state diagram that
\* TCP.h refers to, whatever segments arrive.
StatesOfRFC793 == RFC793!Spec

\* The bytes the remote node takes in order are the application's stream, with
\* no byte lost, repeated or moved.
StreamIntact == \A i \in 1..Len(peer.got) : peer.got[i] = i - 1

\* In FIN_WAIT_2 the remote node has our FIN.
FinWait2FinReceived == tcb.smState = "FIN_WAIT_2" => peer.fin

\* A remote node that fell silent does not hold the socket forever: TCPTick()
\* retransmits, gives up, and closes what waits for a FIN.
DeadPeerFreesSocket == (~peer.alive /\ Bound) ~> ~Bound
=============================================================================
