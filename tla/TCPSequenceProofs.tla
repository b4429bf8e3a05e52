------------------------- MODULE TCPSequenceProofs -------------------------
(***************************************************************************)
(* The proofs about the sequence numbers of TCPSocket, for any segments a  *)
(* remote node may send: MySEQ stays in step with the TX FIFO through      *)
(* retransmissions and FINs, what has arrived is acknowledged or about to  *)
(* be, nothing is acknowledged that was not sent, and nothing that was     *)
(* acknowledged is taken back.  They share one invariant of a connected    *)
(* socket (Conn), because each needs a part of what the others state.      *)
(* From it, and from what the remote node has taken (StreamInv), follows   *)
(* that the application's stream arrives as it was written.                *)
(***************************************************************************)
EXTENDS TCPSocketProofs, SequenceTheorems

\* How far MySEQ is ahead of the data sent: the SYN, and the FIN once sent.
Offset(s) == s.MySEQ - s.txUnackedTail

\* The states in which we have closed our side.
Finishing == {"FIN_WAIT_1", "FIN_WAIT_2", "CLOSING", "LAST_ACK"}

\* MySEQ counts the SYN, the data sent and a FIN in flight; a FIN that was
\* acknowledged is no longer pending but still counted.
Numbered(s) ==
  /\ s.bSYNSent
  /\ \/ Offset(s) = 1 + One(s.bFINSent)
     \/ s.smState = "FIN_WAIT_2" /\ Offset(s) = 2 /\ ~s.bTXFIN /\ s.txTail = s.txHead

FinPending(s) == s.bTXFIN => s.smState \in Finishing

\* A segment of a stream of "head" bytes has the number of its first byte, and
\* carries a FIN only if it ends the stream.
Placed(g, head) ==
  /\ g.seq + One(g.syn) = g.off + 1 /\ g.off + g.len <= head
  /\ g.syn => g.off = 0 /\ g.len = 0 /\ ~g.fin
  /\ g.fin => g.off + g.len = head

\* This holds of all segments of a connection in which no text was sent again
\* without the FIN that had gone out: that would be numbered one too high.
NoneCut(s) == \A g \in s.sent : ~g.cut

Streamed(s) ==
  /\ s.smState = "SYN_RECEIVED" => s.txHead = 0
  /\ s.smState \notin Finishing => NoneCut(s)
  /\ NoneCut(s) => \A g \in s.sent :
        Placed(g, s.txHead) /\ (g.fin => s.bTXFIN \/ s.smState \in Finishing)

\* Against a remote node that sends n bytes: nothing beyond its FIN has been
\* taken, and the future data ends with its data.
Received(s, n) ==
  /\ s.lastAck <= s.RemoteSEQ /\ s.RemoteSEQ <= n + 2
  /\ s.sHoleSize # NoHole => s.RemoteSEQ + s.sHoleSize + s.wFutureDataSize <= n + 1

\* What arrived is acknowledged or will be, and the word this timer shares with
\* that of CLOSE_WAIT has one use at a time.
Acknowledged(s) ==
  /\ s.RemoteSEQ # s.lastAck => s.bDelayedACKTimerEnabled
  /\ s.smState = "CLOSE_WAIT" => ~s.bDelayedACKTimerEnabled

Conn(s, n) ==
  Numbered(s) /\ FinPending(s) /\ Streamed(s) /\ Received(s, n) /\ Acknowledged(s)

\* Nothing is taken back between s and t, and nothing written to a closed side.
Later(s, t) ==
  /\ s.sent \subseteq t.sent
  /\ s.txTail <= t.txTail /\ s.RemoteSEQ <= t.RemoteSEQ /\ s.lastAck <= t.lastAck
  /\ s.smState \in Finishing => t.smState \in Finishing /\ t.txHead = s.txHead

\* A step from s closes the connection or carries it on.
CarriesOn(s, t, n) == Listens(t) \/ (Conn(t, n) /\ Later(s, t))

\* Nothing is written or sent.
KeepsSent(s, t) == t.sent = s.sent /\ t.txHead = s.txHead

\* The transmitter's numbers move together or not at all ...
KeepsTx(s, t) ==
  /\ Offset(t) = Offset(s) /\ s.txTail <= t.txTail
  /\ t.bSYNSent = s.bSYNSent /\ t.bFINSent = s.bFINSent /\ t.bTXFIN = s.bTXFIN
  /\ KeepsSent(s, t)

\* ... and the receiver's stay as they are.
KeepsRx(s, t) ==
  /\ t.RemoteSEQ = s.RemoteSEQ /\ t.lastAck = s.lastAck
  /\ t.bDelayedACKTimerEnabled = s.bDelayedACKTimerEnabled
  /\ t.sHoleSize = s.sHoleSize /\ t.wFutureDataSize = s.wFutureDataSize

Keeps(s, t) == KeepsTx(s, t) /\ KeepsRx(s, t)

-----------------------------------------------------------------------------
(* Steps that keep the numbers.                                            *)

\* The numbers are numbers.
LEMMA Numbers ==
    ASSUME NEW s \in TCBs
    PROVE /\ Offset(s) \in Int /\ s.txTail \in Nat /\ s.RemoteSEQ \in Nat /\ s.lastAck \in Nat
          /\ s.txUnackedTail \in Nat /\ s.MySEQ \in Int
  <1>1. /\ s.txTail \in Nat /\ s.RemoteSEQ \in Nat /\ s.lastAck \in Nat
        /\ s.txUnackedTail \in Nat /\ s.MySEQ \in Int
    BY Zenon DEF TCBs
  <1> QED BY <1>1 DEF Offset

\* Taking nothing back composes.
LEMMA LaterOrder ==
    ASSUME NEW s \in TCBs
    PROVE /\ Later(s, s)
          /\ \A t \in TCBs, u \in TCBs : Later(s, t) /\ Later(t, u) => Later(s, u)
  <1>1. Later(s, s)  BY Numbers DEF Later
  <1>2. ASSUME NEW t \in TCBs, NEW u \in TCBs, Later(s, t), Later(t, u) PROVE Later(s, u)
    BY <1>2, Numbers DEF Later
  <1> QED BY <1>1, <1>2

\* So does keeping the numbers.
LEMMA KeepsOrder ==
    ASSUME NEW s \in TCBs
    PROVE /\ Keeps(s, s)
          /\ \A t \in TCBs, u \in TCBs : Keeps(s, t) /\ Keeps(t, u) => Keeps(s, u)
  <1>1. Keeps(s, s)  BY Numbers DEF Keeps, KeepsTx, KeepsRx, KeepsSent
  <1>2. ASSUME NEW t \in TCBs, NEW u \in TCBs, Keeps(s, t), Keeps(t, u) PROVE Keeps(s, u)
    <2>1. s.txTail <= u.txTail  BY <1>2, Numbers DEF Keeps, KeepsTx
    <2> QED BY <1>2, <2>1, Zenon DEF Keeps, KeepsTx, KeepsRx, KeepsSent
  <1> QED BY <1>1, <1>2

\* What keeps the numbers takes nothing back.
LEMMA KeepsLater ==
    ASSUME NEW s \in TCBs, NEW t \in TCBs, Keeps(s, t),
           s.smState \in Finishing => t.smState \in Finishing
    PROVE  Later(s, t)
  BY Numbers DEF Keeps, KeepsTx, KeepsRx, KeepsSent, Later

\* What keeps the transmitter's numbers keeps their relation, in any state but ours.
LEMMA KeepsNumbered ==
    ASSUME NEW s \in TCBs, NEW t, SoundTCB(t), KeepsTx(s, t), Numbered(s),
           s.smState = "FIN_WAIT_2" => t.smState = "FIN_WAIT_2"
    PROVE  Numbered(t)
  <1>1. CASE Offset(s) = 1 + One(s.bFINSent)  BY <1>1, Zenon DEF KeepsTx, Numbered
  <1>2. CASE s.smState = "FIN_WAIT_2" /\ Offset(s) = 2 /\ ~s.bTXFIN /\ s.txTail = s.txHead
    <2>1. t.txTail = t.txHead
      <3>1. /\ t.txTail <= t.txUnackedTail /\ t.txUnackedTail <= t.txHead
            /\ t.txTail \in Nat /\ t.txUnackedTail \in Nat /\ t.txHead \in Nat
        BY DEF SoundTCB, Sound, TCBs
      <3>2. t.txHead = s.txTail /\ s.txTail <= t.txTail  BY <1>2 DEF KeepsTx, KeepsSent
      <3> QED BY <3>1, <3>2
    <2> QED BY <1>2, <2>1, Zenon DEF KeepsTx, Numbered
  <1> QED BY <1>1, <1>2, Zenon DEF Numbered

\* What sends nothing keeps the stream, unless it opens a closed side or binds
\* the socket.
LEMMA KeepsStreamed ==
    ASSUME NEW s, NEW t, Streamed(s), KeepsSent(s, t),
           t.bTXFIN = s.bTXFIN \/ t.smState \in Finishing,
           s.smState \in Finishing => t.smState \in Finishing,
           t.smState = "SYN_RECEIVED" => s.smState = "SYN_RECEIVED"
    PROVE  Streamed(t)
  <1>1. t.smState \notin Finishing => NoneCut(t)  BY Zenon DEF Streamed, KeepsSent, NoneCut
  <1>2. t.smState = "SYN_RECEIVED" => t.txHead = 0  BY DEF Streamed, KeepsSent
  <1>3. ASSUME NoneCut(t), NEW g \in t.sent
        PROVE  Placed(g, t.txHead) /\ (g.fin => t.bTXFIN \/ t.smState \in Finishing)
    <2>1. NoneCut(s)  BY <1>3, Zenon DEF NoneCut, KeepsSent
    <2>2. g \in s.sent  BY <1>3 DEF KeepsSent
    <2>3. Placed(g, s.txHead) /\ (g.fin => s.bTXFIN \/ s.smState \in Finishing)
      BY <2>1, <2>2, Zenon DEF Streamed
    <2> QED BY <2>3, Zenon DEF KeepsSent
  <1> QED BY <1>1, <1>2, <1>3, Zenon DEF Streamed

\* Without a new state they keep what holds of the connection.
LEMMA KeepsConn ==
    ASSUME NEW s \in TCBs, NEW t, SoundTCB(t), NEW n, Keeps(s, t), t.smState = s.smState
    PROVE /\ Numbered(s) => Numbered(t)
          /\ FinPending(s) => FinPending(t)
          /\ Streamed(s) => Streamed(t)
          /\ Received(s, n) => Received(t, n)
          /\ Acknowledged(s) => Acknowledged(t)
  <1>0. Streamed(s) => Streamed(t)  BY KeepsStreamed, Zenon DEF Keeps, KeepsTx
  <1>1. Numbered(s) => Numbered(t)
    <2>1. KeepsTx(s, t)  BY DEF Keeps
    <2> QED BY <2>1, KeepsNumbered
  <1>2. FinPending(s) => FinPending(t)  BY Zenon DEF Keeps, KeepsTx, FinPending
  <1>3. Received(s, n) => Received(t, n)  BY Zenon DEF Keeps, KeepsRx, Received
  <1>4. Acknowledged(s) => Acknowledged(t)  BY Zenon DEF Keeps, KeepsRx, Acknowledged
  <1> QED BY <1>0, <1>1, <1>2, <1>3, <1>4, Zenon

\* An assignment to other fields keeps them.
LEMMA SameNumbers ==
    ASSUME NEW s \in TCBs, NEW t,
           t.MySEQ = s.MySEQ, t.txUnackedTail = s.txUnackedTail, t.txTail = s.txTail,
           t.bSYNSent = s.bSYNSent, t.bFINSent = s.bFINSent, t.bTXFIN = s.bTXFIN,
           t.sent = s.sent, t.txHead = s.txHead, t.remoteWindow = s.remoteWindow,
           t.RemoteSEQ = s.RemoteSEQ, t.lastAck = s.lastAck,
           t.bDelayedACKTimerEnabled = s.bDelayedACKTimerEnabled,
           t.sHoleSize = s.sHoleSize, t.wFutureDataSize = s.wFutureDataSize
    PROVE Keeps(s, t)
  <1>1. Offset(t) = Offset(s)  BY Zenon DEF Offset
  <1>2. s.txTail <= t.txTail  BY Numbers
  <1>3. KeepsSent(s, t)  BY Zenon DEF KeepsSent
  <1> QED BY <1>1, <1>2, <1>3, Zenon DEF Keeps, KeepsTx, KeepsRx

\* Noting that the remote node is there keeps them.
LEMMA HeardKeeps ==
    ASSUME NEW s \in TCBs PROVE Keeps(s, Heard(s))
  <1> DEFINE t == Heard(s)
  <1>1. /\ t.MySEQ = s.MySEQ /\ t.txUnackedTail = s.txUnackedTail /\ t.txTail = s.txTail
        /\ t.bSYNSent = s.bSYNSent /\ t.bFINSent = s.bFINSent /\ t.bTXFIN = s.bTXFIN
        /\ t.sent = s.sent /\ t.txHead = s.txHead /\ t.remoteWindow = s.remoteWindow
        /\ t.RemoteSEQ = s.RemoteSEQ /\ t.lastAck = s.lastAck
        /\ t.bDelayedACKTimerEnabled = s.bDelayedACKTimerEnabled
        /\ t.sHoleSize = s.sHoleSize /\ t.wFutureDataSize = s.wFutureDataSize
    BY Zenon DEF Heard, TCBs
  <1> HIDE DEF t
  <1> QED BY <1>1, SameNumbers DEF t

\* So does a new window, which is one that the remote node may advertise.
LEMMA WindowUpdateKeeps ==
    ASSUME NEW s \in TCBs, NEW h, SegmentOK(h)
    PROVE  Keeps(s, WindowUpdate(s, h))
  <1> DEFINE t == WindowUpdate(s, h)
  <1>1. /\ t.MySEQ = s.MySEQ /\ t.txUnackedTail = s.txUnackedTail /\ t.txTail = s.txTail
        /\ t.bSYNSent = s.bSYNSent /\ t.bFINSent = s.bFINSent /\ t.bTXFIN = s.bTXFIN
        /\ t.sent = s.sent /\ t.txHead = s.txHead /\ t.remoteWindow = h.wnd
    BY Zenon DEF WindowUpdate, TCBs
  <1>2. KeepsRx(s, t)  BY Zenon DEF WindowUpdate, TCBs, KeepsRx
  <1> HIDE DEF t
  <1>5. Offset(t) = Offset(s)  BY <1>1, Zenon DEF Offset
  <1>6. s.txTail <= t.txTail  BY <1>1, Numbers
  <1>7. KeepsTx(s, t)  BY <1>1, <1>5, <1>6, Zenon DEF KeepsTx, KeepsSent
  <1> QED BY <1>2, <1>7 DEF Keeps, t

\* Rolled back together: the data and its sequence number.
LEMMA RollBackKeeps ==
    ASSUME NEW s \in TCBs PROVE Keeps(s, RollBack(s)) /\ RollBack(s).smState = s.smState
  <1> DEFINE q == s.MySEQ - InFlight(s)
             t == RollBack(s)
  <1>1. t = [s EXCEPT !.MySEQ = q, !.txUnackedTail = s.txTail]  BY DEF RollBack
  <1>2. q - s.txTail = Offset(s)  BY Numbers DEF Offset, InFlight
  <1> HIDE DEF q, t
  <1>3. /\ t.MySEQ = q /\ t.txUnackedTail = s.txTail /\ t.txTail = s.txTail
        /\ t.bSYNSent = s.bSYNSent /\ t.bFINSent = s.bFINSent /\ t.bTXFIN = s.bTXFIN
        /\ t.sent = s.sent /\ t.txHead = s.txHead /\ t.remoteWindow = s.remoteWindow
        /\ t.smState = s.smState
    BY <1>1, Zenon DEF TCBs
  <1>4. KeepsRx(s, t)  BY <1>1, Zenon DEF TCBs, KeepsRx
  <1>5. KeepsTx(s, t)  BY <1>2, <1>3, Numbers DEF KeepsTx, Offset, KeepsSent
  <1> QED BY <1>3, <1>4, <1>5 DEF t, Keeps

\* Acknowledged beyond what was sent since the rollback: both move up.
LEMMA FreeAckedKeeps ==
    ASSUME NEW s \in TCBs, NEW h, h.ackno \in Nat, Acked(s, h) > 0
    PROVE Keeps(s, FreeAcked(s, h))
  <1> DEFINE tail == s.txTail + Acked(s, h)
             q == IF tail > s.txUnackedTail THEN s.MySEQ + tail - s.txUnackedTail ELSE s.MySEQ
             u == IF tail > s.txUnackedTail THEN tail ELSE s.txUnackedTail
             t == FreeAcked(s, h)
  <1>1. Acked(s, h) \in Int  BY Numbers DEF Acked, InFlight
  <1>2. tail \in Int /\ s.txTail <= tail  BY <1>1, Numbers
  <1>3. q - u = Offset(s)  BY <1>2, Numbers DEF Offset
  <1>4. t = [s EXCEPT !.bRXNoneACKed1 = FALSE, !.bRXNoneACKed2 = FALSE,
                      !.bHalfFullFlush = FALSE, !.txTail = tail, !.MySEQ = q,
                      !.txUnackedTail = u]
    BY DEF FreeAcked
  <1> HIDE DEF tail, q, u, t
  <1>5. /\ t.MySEQ = q /\ t.txUnackedTail = u /\ t.txTail = tail
        /\ t.bSYNSent = s.bSYNSent /\ t.bFINSent = s.bFINSent /\ t.bTXFIN = s.bTXFIN
        /\ t.sent = s.sent /\ t.txHead = s.txHead /\ t.remoteWindow = s.remoteWindow
    BY <1>4, Zenon DEF TCBs
  <1>6. KeepsRx(s, t)  BY <1>4, Zenon DEF TCBs, KeepsRx
  <1>7. KeepsTx(s, t)  BY <1>2, <1>3, <1>5 DEF KeepsTx, Offset, KeepsSent
  <1> QED BY <1>6, <1>7 DEF t, Keeps

\* A duplicate acknowledgement rolls back both or neither.
LEMMA DuplicateAckKeeps ==
    ASSUME NEW s, SoundTCB(s) PROVE Keeps(s, DuplicateAck(s))
  <1> DEFINE v == RollBack(s)
             w == [v EXCEPT !.bTXASAPWithoutTimerReset = TRUE]
             r == IF s.bRXNoneACKed1 /\ s.bRXNoneACKed2 THEN w ELSE s
             b == r.bRXNoneACKed2 \/ s.bRXNoneACKed1
             t == [r EXCEPT !.bRXNoneACKed1 = TRUE, !.bRXNoneACKed2 = b]
  <1>1. s \in TCBs /\ v \in TCBs /\ Keeps(s, v)  BY RollBackSound, RollBackKeeps DEF SoundTCB
  <1>2. DuplicateAck(s) = s \/ DuplicateAck(s) = t  BY Zenon DEF DuplicateAck
  <1> HIDE DEF v
  <1>3. w \in TCBs  BY <1>1, Zenon DEF TCBs
  <1>4. /\ w.MySEQ = v.MySEQ /\ w.txUnackedTail = v.txUnackedTail /\ w.txTail = v.txTail
        /\ w.bSYNSent = v.bSYNSent /\ w.bFINSent = v.bFINSent /\ w.bTXFIN = v.bTXFIN
        /\ w.sent = v.sent /\ w.txHead = v.txHead /\ w.remoteWindow = v.remoteWindow
        /\ w.RemoteSEQ = v.RemoteSEQ /\ w.lastAck = v.lastAck
        /\ w.bDelayedACKTimerEnabled = v.bDelayedACKTimerEnabled
        /\ w.sHoleSize = v.sHoleSize /\ w.wFutureDataSize = v.wFutureDataSize
    BY <1>1, Zenon DEF TCBs
  <1> HIDE DEF w
  <1>5. Keeps(v, w)  BY <1>1, <1>4, SameNumbers
  <1>6. r \in TCBs /\ Keeps(s, r)  BY <1>1, <1>3, <1>5, KeepsOrder
  <1> HIDE DEF r
  <1>7. t \in TCBs
    <2>1. b \in BOOLEAN /\ TRUE \in BOOLEAN  OBVIOUS
    <2> HIDE DEF b
    <2> QED BY <1>6, <2>1, Zenon DEF TCBs
  <1>8. /\ t.MySEQ = r.MySEQ /\ t.txUnackedTail = r.txUnackedTail /\ t.txTail = r.txTail
        /\ t.bSYNSent = r.bSYNSent /\ t.bFINSent = r.bFINSent /\ t.bTXFIN = r.bTXFIN
        /\ t.sent = r.sent /\ t.txHead = r.txHead /\ t.remoteWindow = r.remoteWindow
        /\ t.RemoteSEQ = r.RemoteSEQ /\ t.lastAck = r.lastAck
        /\ t.bDelayedACKTimerEnabled = r.bDelayedACKTimerEnabled
        /\ t.sHoleSize = r.sHoleSize /\ t.wFutureDataSize = r.wFutureDataSize
    BY <1>6, Zenon DEF TCBs
  <1> HIDE DEF t
  <1>9. Keeps(r, t)  BY <1>6, <1>8, SameNumbers
  <1>10. Keeps(s, t)  BY <1>1, <1>6, <1>7, <1>9, KeepsOrder
  <1> QED BY <1>1, <1>2, <1>10, KeepsOrder
-----------------------------------------------------------------------------
(* SendTCP().                                                              *)

\* The bookkeeping before a segment is built changes no number.
LEMMA ArmedNumbers ==
    ASSUME NEW s \in TCBs, NEW f, NEW n \in Nat, NEW m
    PROVE  LET a == Armed(Synched(s, f), n, m)
           IN  /\ a \in TCBs
               /\ a.MySEQ = s.MySEQ /\ a.txUnackedTail = s.txUnackedTail /\ a.txTail = s.txTail
               /\ a.bSYNSent = s.bSYNSent /\ a.bFINSent = s.bFINSent
               /\ a.bTXFIN <=> s.bTXFIN \/ "FIN" \in f
               /\ a.smState = s.smState /\ a.RemoteSEQ = s.RemoteSEQ
               /\ ~a.bDelayedACKTimerEnabled
               /\ a.sHoleSize = s.sHoleSize /\ a.wFutureDataSize = s.wFutureDataSize
               /\ a.sent = s.sent /\ a.txHead = s.txHead /\ a.remoteWindow = s.remoteWindow
  <1> DEFINE y == Synched(s, f)
             a == Armed(y, n, m)
  <1>1. y \in TCBs /\ a \in TCBs  BY SynchedType, ArmedType
  <1>2. /\ y.MySEQ = s.MySEQ /\ y.txUnackedTail = s.txUnackedTail /\ y.txTail = s.txTail
        /\ y.bSYNSent = s.bSYNSent /\ y.bFINSent = s.bFINSent
        /\ y.bTXFIN <=> s.bTXFIN \/ "FIN" \in f
        /\ y.smState = s.smState /\ y.RemoteSEQ = s.RemoteSEQ
        /\ ~y.bDelayedACKTimerEnabled
        /\ y.sHoleSize = s.sHoleSize /\ y.wFutureDataSize = s.wFutureDataSize
        /\ y.sent = s.sent /\ y.txHead = s.txHead /\ y.remoteWindow = s.remoteWindow
    BY Zenon DEF Synched, TCBs
  <1> HIDE DEF y
  <1>3. /\ a.MySEQ = y.MySEQ /\ a.txUnackedTail = y.txUnackedTail /\ a.txTail = y.txTail
        /\ a.bFINSent = y.bFINSent /\ a.bTXFIN = y.bTXFIN /\ a.smState = y.smState
        /\ a.sHoleSize = y.sHoleSize /\ a.wFutureDataSize = y.wFutureDataSize
    BY <1>1, ArmedFields
  <1>4. /\ a.bSYNSent = y.bSYNSent /\ a.RemoteSEQ = y.RemoteSEQ
        /\ a.bDelayedACKTimerEnabled = y.bDelayedACKTimerEnabled
        /\ a.sent = y.sent /\ a.txHead = y.txHead /\ a.remoteWindow = y.remoteWindow
    <2>1. CASE n > 0  BY <1>1, <2>1, Zenon DEF Armed, TCBs
    <2>2. CASE ~(n > 0) /\ m = "KEEP_ALIVE"  BY <1>1, <2>2, Zenon DEF Armed, TCBs
    <2>3. CASE ~(n > 0) /\ m # "KEEP_ALIVE" /\ y.bTimerEnabled
      BY <1>1, <2>3, Zenon DEF Armed, TCBs
    <2>4. CASE ~(n > 0) /\ m # "KEEP_ALIVE" /\ ~y.bTimerEnabled  BY <2>4, Zenon DEF Armed
    <2> QED BY <2>1, <2>2, <2>3, <2>4
  <1> HIDE DEF a
  <1>5. /\ a.MySEQ = s.MySEQ /\ a.txUnackedTail = s.txUnackedTail /\ a.txTail = s.txTail
        /\ a.bSYNSent = s.bSYNSent /\ a.bFINSent = s.bFINSent
        /\ a.bTXFIN <=> s.bTXFIN \/ "FIN" \in f
        /\ a.smState = s.smState /\ a.RemoteSEQ = s.RemoteSEQ
        /\ ~a.bDelayedACKTimerEnabled
        /\ a.sHoleSize = s.sHoleSize /\ a.wFutureDataSize = s.wFutureDataSize
        /\ a.sent = s.sent /\ a.txHead = s.txHead /\ a.remoteWindow = s.remoteWindow
    BY <1>2, <1>3, <1>4, Zenon
  <1> QED BY <1>1, <1>5 DEF a, y

\* What SendTCP() does to the numbers: everything received is acknowledged, and
\* MySEQ moves with the data, the SYN and the FIN it sends for the first time.
LEMMA SendTCPNumbers ==
    ASSUME SizesAssumption, NEW s, SoundTCB(s), NEW f, NEW m
    PROVE  LET t == SendTCP(s, f, m)
           IN  /\ t.RemoteSEQ = s.RemoteSEQ /\ t.lastAck = s.RemoteSEQ
               /\ ~t.bDelayedACKTimerEnabled
               /\ t.sHoleSize = s.sHoleSize /\ t.wFutureDataSize = s.wFutureDataSize
               /\ t.txTail = s.txTail /\ t.smState = s.smState
               /\ t.txHead = s.txHead /\ t.remoteWindow = s.remoteWindow
               /\ t.bTXFIN <=> s.bTXFIN \/ "FIN" \in f
               /\ t.bSYNSent <=> s.bSYNSent \/ "SYN" \in f
               /\ Offset(t) - One(t.bFINSent) =
                    Offset(s) - One(s.bFINSent) + One("SYN" \in f /\ ~s.bSYNSent)
               /\ "RST" \in f => /\ t.bFINSent = s.bFINSent
                                  /\ t.txUnackedTail = s.txUnackedTail
               /\ "RST" \in f /\ "SYN" \notin f => t.MySEQ = s.MySEQ
  <1> DEFINE y   == Synched(s, f)
             dat == f \intersect {"SYN", "RST"} = {}
             syn == "SYN" \in f
             fin == dat /\ CarriesFIN(y)
             len == IF dat THEN DataLen(y) ELSE 0
             n   == len + One(syn) + One(fin)
             a   == Armed(y, n, m)
             x   == One(syn /\ ~s.bSYNSent)
             z   == One(fin /\ ~s.bFINSent)
             q   == a.MySEQ + len + x + z
             u   == a.txUnackedTail + len
             t   == SendTCP(s, f, m)
  <1>1. s \in TCBs /\ y \in TCBs /\ y.txUnackedTail <= y.txHead
    BY SynchedType, SynchedFields DEF SoundTCB, Sound
  <1>2. len \in Nat  BY <1>1, DataLenBounds
  <1>3. n \in Nat  BY <1>2, OneNat
  <1>4. /\ a \in TCBs
        /\ a.MySEQ = s.MySEQ /\ a.txUnackedTail = s.txUnackedTail /\ a.txTail = s.txTail
        /\ a.bSYNSent = s.bSYNSent /\ a.bFINSent = s.bFINSent
        /\ a.bTXFIN <=> s.bTXFIN \/ "FIN" \in f
        /\ a.smState = s.smState /\ a.RemoteSEQ = s.RemoteSEQ
        /\ ~a.bDelayedACKTimerEnabled
        /\ a.sHoleSize = s.sHoleSize /\ a.wFutureDataSize = s.wFutureDataSize
        /\ a.sent = s.sent /\ a.txHead = s.txHead /\ a.remoteWindow = s.remoteWindow
    <2> HIDE DEF n
    <2> QED BY <1>1, <1>3, ArmedNumbers
  <1>5. y.bSYNSent = s.bSYNSent /\ y.bFINSent = s.bFINSent /\ y.RemoteSEQ = s.RemoteSEQ
    <2>1. s \in TCBs  BY <1>1
    <2> QED BY <2>1, Zenon DEF Synched, TCBs
  <1>6. /\ t.MySEQ = q /\ t.txUnackedTail = u /\ t.txTail = a.txTail
        /\ t.bSYNSent <=> a.bSYNSent \/ syn
        /\ t.bFINSent <=> a.bFINSent \/ fin
        /\ t.bTXFIN = a.bTXFIN /\ t.smState = a.smState
        /\ t.RemoteSEQ = a.RemoteSEQ /\ t.lastAck = y.RemoteSEQ
        /\ t.bDelayedACKTimerEnabled = a.bDelayedACKTimerEnabled
        /\ t.sHoleSize = a.sHoleSize /\ t.wFutureDataSize = a.wFutureDataSize
        /\ t.txHead = a.txHead /\ t.remoteWindow = a.remoteWindow
    <2> DEFINE b == a.bSYNSent \/ syn
               g == a.bFINSent \/ fin
               big == dat /\ LesserOf(Unsent(y), EffectiveWindow(y)) > MSS
               seq == y.MySEQ - One(syn /\ y.bSYNSent) - One(fin /\ y.bFINSent)
               seg == [seq |-> seq, off |-> y.txUnackedTail, len |-> len, syn |-> syn, fin |-> fin,
                       cut |-> len > 0 /\ y.bFINSent /\ ~fin]
               out == IF len > 0 \/ syn \/ fin THEN a.sent \union {seg} ELSE a.sent
               p   == a.MySEQ + len + One(syn /\ ~y.bSYNSent) + One(fin /\ ~y.bFINSent)
    <2>1. p = q  BY <1>5
    <2>4. t = [a EXCEPT !.MySEQ = p, !.txUnackedTail = u, !.bSYNSent = b, !.bFINSent = g,
                        !.bTXASAPWithoutTimerReset = big, !.lastAck = y.RemoteSEQ, !.sent = out]
      BY DEF SendTCP
    <2> HIDE DEF a, b, g, big, out, t, q, u, y, x, z, len, fin, dat, syn, seg, seq, n, p
    <2>2. t = [a EXCEPT !.MySEQ = q, !.txUnackedTail = u, !.bSYNSent = b, !.bFINSent = g,
                        !.bTXASAPWithoutTimerReset = big, !.lastAck = y.RemoteSEQ, !.sent = out]
      BY <2>1, <2>4, Zenon
    <2>3. /\ t.MySEQ = q /\ t.txUnackedTail = u /\ t.txTail = a.txTail
          /\ t.bSYNSent = b /\ t.bFINSent = g
          /\ t.bTXFIN = a.bTXFIN /\ t.smState = a.smState
          /\ t.RemoteSEQ = a.RemoteSEQ /\ t.lastAck = y.RemoteSEQ
          /\ t.bDelayedACKTimerEnabled = a.bDelayedACKTimerEnabled
          /\ t.sHoleSize = a.sHoleSize /\ t.wFutureDataSize = a.wFutureDataSize
          /\ t.txHead = a.txHead /\ t.remoteWindow = a.remoteWindow
      BY <1>4, <2>2, Zenon DEF TCBs
    <2> QED BY <2>3, Zenon DEF b, g
  <1>7. "RST" \in f => ~dat /\ ~fin /\ len = 0  OBVIOUS
  <1>8. syn \in BOOLEAN /\ fin \in BOOLEAN /\ s.bFINSent \in BOOLEAN /\ t.bFINSent \in BOOLEAN
    <2>1. s.bFINSent \in BOOLEAN  BY <1>1, Zenon DEF TCBs
    <2>2. t \in TCBs  BY SendTCPSound DEF SoundTCB
    <2>3. t.bFINSent \in BOOLEAN  BY <2>2, Zenon DEF TCBs
    <2> HIDE DEF t
    <2> QED BY <2>1, <2>3 DEF CarriesFIN
  <1>9. s.MySEQ \in Int /\ s.txUnackedTail \in Nat  BY <1>1, Numbers
  <1> HIDE DEF y, fin, len, n, a, t, dat
  <1>10. x \in 0..1 /\ z \in 0..1 /\ One(t.bFINSent) = One(s.bFINSent) + z
    <2>1. t.bFINSent <=> s.bFINSent \/ fin  BY <1>4, <1>6, Zenon
    <2> QED BY <1>8, <2>1 DEF One
  <1>11. One(s.bFINSent) \in 0..1  BY OneNat
  <1>12. q - u = s.MySEQ - s.txUnackedTail + x + z
    BY <1>2, <1>4, <1>9, <1>10
  <1>13. Offset(t) - One(t.bFINSent) = Offset(s) - One(s.bFINSent) + x
    <2> HIDE DEF q, u, x, z
    <2>1. Offset(t) = q - u  BY <1>6, Zenon DEF Offset
    <2> QED BY <2>1, <1>9, <1>10, <1>11, <1>12 DEF Offset
  <1>14. "RST" \in f => t.bFINSent = s.bFINSent /\ t.txUnackedTail = s.txUnackedTail
    <2>1. "RST" \in f => t.txUnackedTail = s.txUnackedTail  BY <1>4, <1>6, <1>7, <1>9
    <2>2. "RST" \in f => (t.bFINSent <=> s.bFINSent)  BY <1>4, <1>6, <1>7, Zenon
    <2> QED BY <1>8, <2>1, <2>2
  <1>15. "RST" \in f /\ "SYN" \notin f => t.MySEQ = s.MySEQ
    BY <1>4, <1>6, <1>7, <1>9 DEF One
  <1>16. /\ t.RemoteSEQ = s.RemoteSEQ /\ t.lastAck = s.RemoteSEQ
         /\ ~t.bDelayedACKTimerEnabled
         /\ t.sHoleSize = s.sHoleSize /\ t.wFutureDataSize = s.wFutureDataSize
         /\ t.txTail = s.txTail /\ t.smState = s.smState
         /\ t.txHead = s.txHead /\ t.remoteWindow = s.remoteWindow
         /\ t.bTXFIN <=> s.bTXFIN \/ "FIN" \in f
         /\ t.bSYNSent <=> s.bSYNSent \/ "SYN" \in f
    BY <1>4, <1>5, <1>6, Zenon
  <1> QED BY <1>13, <1>14, <1>15, <1>16 DEF t

\* The segment that SendTCP() builds.
SendsData(f) == f \intersect {"SYN", "RST"} = {}
SentLen(s, f) == IF SendsData(f) THEN DataLen(s) ELSE 0
SentFIN(s, f) == SendsData(f) /\ CarriesFIN(Synched(s, f))
SentSegment(s, f) ==
  [seq |-> s.MySEQ - One("SYN" \in f /\ s.bSYNSent) - One(SentFIN(s, f) /\ s.bFINSent),
   off |-> s.txUnackedTail, len |-> SentLen(s, f), syn |-> "SYN" \in f, fin |-> SentFIN(s, f),
   cut |-> SentLen(s, f) > 0 /\ s.bFINSent /\ ~SentFIN(s, f)]

\* It is kept if it takes sequence numbers.
LEMMA SendTCPSent ==
    ASSUME SizesAssumption, NEW s, SoundTCB(s), NEW f, NEW m
    PROVE  LET t == SendTCP(s, f, m)
           IN  t.sent = IF SentLen(s, f) > 0 \/ "SYN" \in f \/ SentFIN(s, f)
                        THEN s.sent \union {SentSegment(s, f)} ELSE s.sent
  <1> DEFINE y   == Synched(s, f)
             dat == f \intersect {"SYN", "RST"} = {}
             syn == "SYN" \in f
             fin == dat /\ CarriesFIN(y)
             len == IF dat THEN DataLen(y) ELSE 0
             n   == len + One(syn) + One(fin)
             a   == Armed(y, n, m)
             p   == a.MySEQ + len + One(syn /\ ~y.bSYNSent) + One(fin /\ ~y.bFINSent)
             u   == a.txUnackedTail + len
             b   == a.bSYNSent \/ syn
             g   == a.bFINSent \/ fin
             big == dat /\ LesserOf(Unsent(y), EffectiveWindow(y)) > MSS
             seq == y.MySEQ - One(syn /\ y.bSYNSent) - One(fin /\ y.bFINSent)
             seg == [seq |-> seq, off |-> y.txUnackedTail, len |-> len, syn |-> syn, fin |-> fin,
                       cut |-> len > 0 /\ y.bFINSent /\ ~fin]
             out == IF len > 0 \/ syn \/ fin THEN a.sent \union {seg} ELSE a.sent
             t   == SendTCP(s, f, m)
  <1>1. s \in TCBs /\ y \in TCBs /\ y.txUnackedTail <= y.txHead
    BY SynchedType, SynchedFields DEF SoundTCB, Sound
  <1>2. len \in Nat  BY <1>1, DataLenBounds
  <1>3. n \in Nat  BY <1>2, OneNat
  <1>4. a \in TCBs /\ a.sent = s.sent
    <2> HIDE DEF n
    <2> QED BY <1>1, <1>3, ArmedNumbers
  <1>5. /\ y.bSYNSent = s.bSYNSent /\ y.bFINSent = s.bFINSent /\ y.MySEQ = s.MySEQ
        /\ y.txUnackedTail = s.txUnackedTail /\ y.txTail = s.txTail /\ y.txHead = s.txHead
        /\ y.remoteWindow = s.remoteWindow
    <2>1. s \in TCBs  BY <1>1
    <2> QED BY <2>1, Zenon DEF Synched, TCBs
  <1>6. t = [a EXCEPT !.MySEQ = p, !.txUnackedTail = u, !.bSYNSent = b, !.bFINSent = g,
                      !.bTXASAPWithoutTimerReset = big, !.lastAck = y.RemoteSEQ, !.sent = out]
    BY DEF SendTCP
  <1>7. t.sent = out
    <2> HIDE DEF a, b, g, big, out, t, u, y, p
    <2> QED BY <1>4, <1>6, Zenon DEF TCBs
  <1>8. len = SentLen(s, f) /\ (fin <=> SentFIN(s, f))
    <2>1. DataLen(y) = DataLen(s)
      BY <1>5, Zenon DEF DataLen, Unsent, EffectiveWindow, InFlight
    <2> QED BY <2>1, Zenon DEF SentLen, SentFIN, SendsData
  <1>9. seg = SentSegment(s, f)
    <2>1. fin = SentFIN(s, f)  BY Zenon DEF SentFIN, SendsData
    <2> HIDE DEF fin, len, y
    <2> QED BY <1>5, <1>8, <2>1, Zenon DEF SentSegment
  <1> HIDE DEF seg, fin, len, t, a
  <1> QED BY <1>4, <1>7, <1>8, <1>9, Zenon DEF t

\* The segment that is built has its place in the stream.
LEMMA SegmentPlaced ==
    ASSUME SizesAssumption, NEW s, SoundTCB(s), NEW f,
           Numbered(s), FinPending(s), Streamed(s), ~SentSegment(s, f).cut,
           s.smState = "FIN_WAIT_2" => "FIN" \notin f,
           "SYN" \in f => s.smState = "SYN_RECEIVED",
           SentLen(s, f) > 0 \/ "SYN" \in f \/ SentFIN(s, f)
    PROVE  Placed(SentSegment(s, f), s.txHead)
  <1> DEFINE y == Synched(s, f)
             g == SentSegment(s, f)
             syn == "SYN" \in f
             fin == SentFIN(s, f)
             len == SentLen(s, f)
  <1>1. /\ s \in TCBs /\ s.txHead \in Nat /\ s.txTail \in Nat /\ s.txUnackedTail \in Nat
        /\ s.MySEQ \in Int /\ s.txTail <= s.txUnackedTail /\ s.txUnackedTail <= s.txHead
        /\ s.bFINSent => s.bTXFIN
    BY DEF SoundTCB, TCBs, Sound
  <1>2. /\ y \in TCBs /\ y.txHead = s.txHead /\ y.txUnackedTail = s.txUnackedTail
        /\ DataLen(y) = DataLen(s) /\ Unsent(y) = Unsent(s)
        /\ EffectiveWindow(y) = EffectiveWindow(s) /\ y.remoteWindow = s.remoteWindow
        /\ y.bTXFIN <=> s.bTXFIN \/ "FIN" \in f
    <2>1. y.bTXFIN <=> s.bTXFIN \/ "FIN" \in f  BY <1>1, Zenon DEF Synched, TCBs
    <2>2. /\ y.txHead = s.txHead /\ y.txUnackedTail = s.txUnackedTail /\ y.txTail = s.txTail
          /\ y.remoteWindow = s.remoteWindow
      BY <1>1, SynchedFields
    <2>3. y \in TCBs  BY <1>1, SynchedType
    <2> HIDE DEF y
    <2>4. Unsent(y) = Unsent(s) /\ EffectiveWindow(y) = EffectiveWindow(s)
      BY <2>2, Zenon DEF Unsent, EffectiveWindow, InFlight
    <2> QED BY <2>1, <2>2, <2>3, <2>4, Zenon DEF DataLen
  <1>3. /\ g.seq = s.MySEQ - One(syn /\ s.bSYNSent) - One(fin /\ s.bFINSent)
        /\ g.off = s.txUnackedTail /\ g.len = len /\ g.syn = syn /\ g.fin = fin
    BY DEF SentSegment
  <1>4. len \in Nat /\ len <= Unsent(s)
    <2>1. DataLen(s) \in Nat /\ DataLen(s) <= Unsent(s) /\ Unsent(s) \in Nat
      BY <1>1, DataLenBounds DEF Unsent
    <2> QED BY <2>1 DEF SentLen
  <1>5. fin => len = Unsent(s) /\ y.bTXFIN /\ ~syn
    <2>1. fin => SendsData(f) /\ CarriesFIN(y)  BY DEF SentFIN
    <2>2. CarriesFIN(y) => y.bTXFIN /\ DataLen(y) = Unsent(y)
      <3>1. EffectiveWindow(y) \in Nat /\ Unsent(y) \in Nat /\ MSS \in Nat
        BY <1>1, <1>2, EffectiveWindowNat DEF Unsent, SizesAssumption
      <3> HIDE DEF y
      <3> QED BY <3>1 DEF CarriesFIN, DataLen, LesserOf
    <2>3. SendsData(f) => ~syn  BY DEF SendsData
    <2> HIDE DEF y, fin, syn
    <2> QED BY <1>2, <2>1, <2>2, <2>3, Zenon DEF SentLen, len
  <1>6. syn => len = 0 /\ s.txHead = 0 /\ Offset(s) = 1 + One(s.bFINSent) /\ ~s.bFINSent
    <2> SUFFICES ASSUME syn PROVE len = 0 /\ s.txHead = 0 /\ Offset(s) = 1 + One(s.bFINSent) /\ ~s.bFINSent
      OBVIOUS
    <2>1. s.smState = "SYN_RECEIVED"  OBVIOUS
    <2>2. ~SendsData(f)  BY DEF SendsData
    <2>3. s.txHead = 0  BY <2>1 DEF Streamed
    <2>4. ~s.bFINSent  BY <1>1, <2>1 DEF FinPending, Finishing
    <2>5. Offset(s) = 1 + One(s.bFINSent)  BY <2>1 DEF Numbered
    <2> QED BY <2>2, <2>3, <2>4, <2>5 DEF SentLen
  <1>7. ~syn => Offset(s) = 1 + One(s.bFINSent) /\ (fin \/ ~s.bFINSent)
    <2> SUFFICES ASSUME ~syn PROVE Offset(s) = 1 + One(s.bFINSent) /\ (fin \/ ~s.bFINSent)
      OBVIOUS
    <2>1. Offset(s) = 1 + One(s.bFINSent)
      <3> SUFFICES ASSUME s.smState = "FIN_WAIT_2", ~s.bTXFIN, s.txTail = s.txHead PROVE FALSE
        BY DEF Numbered
      <3>1. ~y.bTXFIN  BY <1>2
      <3>2. Unsent(s) = 0  BY <1>1 DEF Unsent
      <3> QED BY <1>4, <1>5, <3>1, <3>2
    <2>2. CASE fin  BY <2>1, <2>2
    <2>3. CASE ~fin /\ s.bFINSent
      <3>1. len > 0 \/ syn \/ fin  OBVIOUS
      <3>2. len > 0  BY <2>3, <3>1
      <3>3. SentSegment(s, f).cut  BY <2>3, <3>2 DEF SentSegment
      <3> QED BY <3>3
    <2> QED BY <2>1, <2>2, <2>3
  <1>8. s.bSYNSent  BY DEF Numbered
  <1>9. s.MySEQ - s.txUnackedTail = Offset(s) /\ Unsent(s) = s.txHead - s.txUnackedTail
    BY DEF Offset, Unsent
  <1> HIDE DEF g, fin, len, syn, y
  <1>10. CASE syn
    <2>1. ~fin  BY <1>5, <1>10, Zenon
    <2>2. One(syn /\ s.bSYNSent) = 1 /\ One(fin /\ s.bFINSent) = 0 /\ One(g.syn) = 1
          /\ One(s.bFINSent) = 0
      BY <1>3, <1>6, <1>8, <1>10, <2>1, OneNat
    <2>3. s.txUnackedTail = 0 /\ s.MySEQ = 1 /\ len = 0
      BY <1>1, <1>6, <1>9, <1>10, <2>2
    <2>4. g.seq = 0 /\ g.off = 0 /\ g.len = 0 /\ ~g.fin  BY <1>3, <2>1, <2>2, <2>3
    <2>5. Placed(g, s.txHead)  BY <1>6, <1>10, <2>2, <2>4 DEF Placed
    <2> QED BY <2>5 DEF g
  <1>11. CASE ~syn
    <2>1. One(syn /\ s.bSYNSent) = 0 /\ One(g.syn) = 0  BY <1>3, <1>11, OneNat
    <2>2. One(fin /\ s.bFINSent) = One(s.bFINSent) /\ One(s.bFINSent) \in 0..1
      BY <1>7, <1>11, OneNat
    <2> QED BY <1>1, <1>3, <1>4, <1>5, <1>7, <1>9, <1>11, <2>1, <2>2 DEF Placed, g
  <1> QED BY <1>10, <1>11

\* SendTCP() adds to the stream what belongs there.
LEMMA SendStreamed ==
    ASSUME SizesAssumption, NEW s, SoundTCB(s), NEW f, NEW m,
           Numbered(s), FinPending(s), Streamed(s),
           s.smState = "FIN_WAIT_2" => "FIN" \notin f,
           "SYN" \in f => s.smState = "SYN_RECEIVED"
    PROVE  Streamed(SendTCP(s, f, m))
  <1> DEFINE t == SendTCP(s, f, m)
  <1>1. /\ t.smState = s.smState /\ t.txHead = s.txHead /\ t.remoteWindow = s.remoteWindow
        /\ t.bTXFIN <=> s.bTXFIN \/ "FIN" \in f
    BY SendTCPNumbers
  <1>2. t.sent = IF SentLen(s, f) > 0 \/ "SYN" \in f \/ SentFIN(s, f)
                 THEN s.sent \union {SentSegment(s, f)} ELSE s.sent
    BY SendTCPSent
  <1> HIDE DEF t
  <1>3. t.smState \notin Finishing => NoneCut(t)
    <2> SUFFICES ASSUME t.smState \notin Finishing, NEW g \in t.sent PROVE ~g.cut
      BY Zenon DEF NoneCut
    <2>1. s.smState \notin Finishing  BY <1>1
    <2>2. NoneCut(s)  BY <2>1, Zenon DEF Streamed
    <2>3. ~s.bFINSent  BY <2>1, Zenon DEF FinPending, SoundTCB, Sound
    <2>4. ~SentSegment(s, f).cut  BY <2>3 DEF SentSegment
    <2>5. g \in s.sent \/ g = SentSegment(s, f)  BY <1>2
    <2> QED BY <2>2, <2>4, <2>5, Zenon DEF NoneCut
  <1>4. t.smState = "SYN_RECEIVED" => t.txHead = 0  BY <1>1 DEF Streamed
  <1>5. ASSUME NoneCut(t), NEW g \in t.sent
        PROVE  Placed(g, t.txHead) /\ (g.fin => t.bTXFIN \/ t.smState \in Finishing)
    <2>0. s.sent \subseteq t.sent  BY <1>2
    <2>1. NoneCut(s)  BY <1>5, <2>0, Zenon DEF NoneCut
    <2>2. CASE g \in s.sent
      <3>1. Placed(g, s.txHead) /\ (g.fin => s.bTXFIN \/ s.smState \in Finishing)
        BY <2>1, <2>2, Zenon DEF Streamed
      <3> QED BY <1>1, <3>1, Zenon
    <2>3. CASE g \notin s.sent
      <3>1. g = SentSegment(s, f) /\ (SentLen(s, f) > 0 \/ "SYN" \in f \/ SentFIN(s, f))
        BY <1>2, <1>5, <2>3
      <3>2a. ~SentSegment(s, f).cut  BY <1>5, <3>1, Zenon DEF NoneCut
      <3>2. Placed(g, s.txHead)  BY <3>1, <3>2a, SegmentPlaced
      <3>3. g.fin => t.bTXFIN
        <4>1. g.fin => SentFIN(s, f)  BY <3>1 DEF SentSegment
        <4>2. SentFIN(s, f) => Synched(s, f).bTXFIN  BY Zenon DEF SentFIN, CarriesFIN
        <4>3. Synched(s, f).bTXFIN => s.bTXFIN \/ "FIN" \in f
          BY Zenon DEF Synched, SoundTCB, TCBs
        <4> QED BY <1>1, <4>1, <4>2, <4>3, Zenon
      <3> QED BY <1>1, <3>2, <3>3, Zenon
    <2> QED BY <2>2, <2>3
  <1>6. Streamed(t)  BY <1>3, <1>4, <1>5, Zenon DEF Streamed
  <1> QED BY <1>6 DEF t

\* A segment that is sent carries the connection on: it acknowledges everything,
\* and MySEQ stays where the FIFO, the SYN and the FIN put it.
LEMMA SendCarries ==
    ASSUME SizesAssumption, NEW s, SoundTCB(s), NEW f, NEW m, NEW n \in Nat,
           Numbered(s), FinPending(s), Streamed(s), Received(s, n),
           s.smState = "FIN_WAIT_2" => "FIN" \notin f,
           "SYN" \in f => s.smState = "SYN_RECEIVED"
    PROVE  LET t == SendTCP(s, f, m)
           IN  /\ SoundTCB(t) /\ t.smState = s.smState /\ t.RemoteSEQ = s.RemoteSEQ
               /\ t.txHead = s.txHead
               /\ Numbered(t) /\ Streamed(t) /\ Received(t, n) /\ Acknowledged(t) /\ Later(s, t)
               /\ "FIN" \notin f => FinPending(t)
  <1> DEFINE t == SendTCP(s, f, m)
  <1>0. Streamed(t)  BY SendStreamed
  <1>1. SoundTCB(t) /\ s \in TCBs /\ t \in TCBs  BY SendTCPSound DEF SoundTCB
  <1>2. /\ t.RemoteSEQ = s.RemoteSEQ /\ t.lastAck = s.RemoteSEQ
        /\ ~t.bDelayedACKTimerEnabled
        /\ t.sHoleSize = s.sHoleSize /\ t.wFutureDataSize = s.wFutureDataSize
        /\ t.txTail = s.txTail /\ t.smState = s.smState /\ t.txHead = s.txHead
        /\ t.bTXFIN <=> s.bTXFIN \/ "FIN" \in f
        /\ t.bSYNSent <=> s.bSYNSent \/ "SYN" \in f
        /\ Offset(t) - One(t.bFINSent) =
             Offset(s) - One(s.bFINSent) + One("SYN" \in f /\ ~s.bSYNSent)
    BY SendTCPNumbers
  <1> HIDE DEF t
  <1>3. s.bSYNSent  BY DEF Numbered
  <1>4. One("SYN" \in f /\ ~s.bSYNSent) = 0  BY <1>3, OneNat
  <1>5. /\ Offset(s) \in Int /\ Offset(t) \in Int
        /\ One(t.bFINSent) \in 0..1 /\ One(s.bFINSent) \in 0..1
    BY <1>1, Numbers, OneNat
  <1>6. Numbered(t)
    <2>1. CASE Offset(s) = 1 + One(s.bFINSent)
      <3>1. Offset(t) = 1 + One(t.bFINSent)  BY <1>2, <1>4, <1>5, <2>1
      <3> QED BY <1>2, <1>3, <3>1, Zenon DEF Numbered
    <2>2. CASE s.smState = "FIN_WAIT_2" /\ Offset(s) = 2 /\ ~s.bTXFIN /\ s.txTail = s.txHead
      <3>1. ~t.bTXFIN  BY <1>2, <2>2, Zenon
      <3>2. ~t.bFINSent /\ ~s.bFINSent  BY <1>1, <2>2, <3>1, Zenon DEF SoundTCB, Sound
      <3>3. One(t.bFINSent) = 0 /\ One(s.bFINSent) = 0  BY <3>2, OneNat
      <3>4. Offset(t) = 2  BY <1>2, <1>4, <1>5, <2>2, <3>3
      <3> QED BY <1>2, <1>3, <2>2, <3>1, <3>4, Zenon DEF Numbered
    <2> QED BY <2>1, <2>2, Zenon DEF Numbered
  <1>7. Received(t, n)
    <2>1. s.RemoteSEQ <= s.RemoteSEQ  BY <1>1, Numbers
    <2> QED BY <1>2, <2>1, Zenon DEF Received
  <1>8. Acknowledged(t)  BY <1>2, Zenon DEF Acknowledged
  <1>9. Later(s, t)
    <2>1. s.sent \subseteq t.sent
      <3>1. t.sent = IF SentLen(s, f) > 0 \/ "SYN" \in f \/ SentFIN(s, f)
                     THEN s.sent \union {SentSegment(s, f)} ELSE s.sent
        BY SendTCPSent DEF t
      <3> QED BY <3>1
    <2> QED BY <1>1, <1>2, <2>1, Numbers DEF Later, Received
  <1>10. "FIN" \notin f => FinPending(t)  BY <1>2, Zenon DEF FinPending
  <1> QED BY <1>0, <1>1, <1>2, <1>6, <1>7, <1>8, <1>9, <1>10, Zenon DEF t
-----------------------------------------------------------------------------
(* The ACK field.                                                          *)

\* A FIN that was acknowledged: no longer pending, still counted in MySEQ.
FinAway(t, h) ==
  /\ t.bSYNSent /\ Offset(t) \in {1, 2} /\ ~t.bTXFIN /\ ~t.bFINSent /\ t.MySEQ = h.ackno
  /\ t.txTail = t.txHead

\* Stopping the timer keeps the numbers, or takes note that the FIN arrived.
LEMMA StopTimerNumbers ==
    ASSUME NEW s, SoundTCB(s), NEW h
    PROVE  LET t == StopTimer(s, h)
           IN  \/ Keeps(s, t)
               \/ /\ s.bTXFIN /\ KeepsRx(s, t) /\ t.txTail = s.txTail /\ Offset(t) = Offset(s)
                  /\ t.bSYNSent = s.bSYNSent /\ ~t.bTXFIN /\ ~t.bFINSent /\ t.MySEQ = h.ackno
                  /\ KeepsSent(s, t) /\ s.txTail = s.txHead
  <1> DEFINE f == IF s.bTXFIN THEN FALSE ELSE s.bFINSent
             t == [s EXCEPT !.bTimerEnabled = FALSE, !.bTXFIN = FALSE, !.bFINSent = f]
  <1>1. s \in TCBs /\ Sound(s)  BY DEF SoundTCB
  <1>2. \/ StopTimer(s, h) = s
        \/ s.txTail = s.txHead /\ (s.bTXFIN => s.MySEQ = h.ackno) /\ StopTimer(s, h) = t
    BY Zenon DEF StopTimer
  <1>3. f => ~s.bTXFIN /\ s.bFINSent  OBVIOUS
  <1>4. ~s.bTXFIN => f = s.bFINSent  OBVIOUS
  <1> HIDE DEF f
  <1>5. /\ t.MySEQ = s.MySEQ /\ t.txUnackedTail = s.txUnackedTail /\ t.txTail = s.txTail
        /\ t.bSYNSent = s.bSYNSent /\ t.bFINSent = f /\ t.bTXFIN = FALSE
        /\ t.sent = s.sent /\ t.txHead = s.txHead /\ t.remoteWindow = s.remoteWindow
        /\ KeepsRx(s, t)
    BY <1>1, Zenon DEF TCBs, KeepsRx
  <1>6. Keeps(s, s)  BY <1>1, KeepsOrder
  <1> HIDE DEF t
  <1>7. Offset(t) = Offset(s) /\ s.txTail <= t.txTail  BY <1>1, <1>5, Numbers DEF Offset
  <1>7a. KeepsSent(s, t)  BY <1>5, Zenon DEF KeepsSent
  <1>8. CASE s.bTXFIN
    <2>1. ~t.bFINSent  BY <1>3, <1>5, <1>8, Zenon
    <2> QED BY <1>2, <1>5, <1>6, <1>7, <1>7a, <1>8, <2>1, Zenon DEF t
  <1>9. CASE ~s.bTXFIN
    <2>1. t.bTXFIN = s.bTXFIN
      <3>1. s.bTXFIN \in BOOLEAN  BY <1>1, Zenon DEF TCBs
      <3> QED BY <1>5, <1>9, <3>1
    <2>2. Keeps(s, t)  BY <1>4, <1>5, <1>7, <1>7a, <1>9, <2>1, Zenon DEF Keeps, KeepsTx
    <2> QED BY <1>2, <1>6, <2>2, Zenon DEF t
  <1> QED BY <1>8, <1>9

\* The ACK field up to the window update.
LEMMA AckFreedNumbers ==
    ASSUME SizesAssumption, NEW s, SoundTCB(s), NEW h, SegmentOK(h), ~AckTooHigh(s, h),
           Numbered(s), FinPending(s), Streamed(s)
    PROVE  LET t == AckFreed(s, h)
           IN  /\ KeepsRx(s, t) /\ s.txTail <= t.txTail /\ KeepsSent(s, t) /\ Streamed(t)
               /\ \/ Numbered(t) /\ FinPending(t)
                  \/ FinAway(t, h) /\ t.smState \in Finishing
  <1> DEFINE e == IF s.smState = "SYN_RECEIVED" THEN [s EXCEPT !.smState = "ESTABLISHED"] ELSE s
             a == IF 0 < Acked(e, h) /\ Acked(e, h) <= TxSize + 1 THEN FreeAcked(e, h)
                                                                  ELSE DuplicateAck(e)
             b == StopTimer(a, h)
             t == WindowUpdate(b, h)
  <1>1. s \in TCBs /\ "ESTABLISHED" \in States  BY DEF SoundTCB, States
  <1>2. SoundTCB(e)
    <2>1. SoundTCB([s EXCEPT !.smState = "ESTABLISHED"])  BY <1>1, SetState
    <2> QED BY <2>1, Zenon
  <1>3. /\ e.txHead = s.txHead /\ e.txTail = s.txTail /\ e.txUnackedTail = s.txUnackedTail
        /\ e.RemoteSEQ = s.RemoteSEQ /\ e.MySEQ = s.MySEQ
        /\ e.lastAck = s.lastAck /\ e.sHoleSize = s.sHoleSize
        /\ e.wFutureDataSize = s.wFutureDataSize /\ e.bTXFIN = s.bTXFIN
        /\ e.bFINSent = s.bFINSent /\ e.bSYNSent = s.bSYNSent
        /\ e.bDelayedACKTimerEnabled = s.bDelayedACKTimerEnabled
        /\ e.sent = s.sent /\ e.remoteWindow = s.remoteWindow
        /\ e.smState = IF s.smState = "SYN_RECEIVED" THEN "ESTABLISHED" ELSE s.smState
    BY <1>1, Zenon DEF TCBs
  <1>4. AckFreed(s, h) = t  BY Zenon DEF AckFreed
  <1> HIDE DEF e
  <1>5. e \in TCBs /\ Keeps(s, e)  BY <1>1, <1>2, <1>3, SameNumbers DEF SoundTCB
  <1>6. ~AckTooHigh(e, h)  BY <1>3 DEF AckTooHigh, Unsent
  <1>7. Acked(e, h) > 0 \/ ~(0 < Acked(e, h))
    BY <1>5 DEF TCBs, Acked, InFlight, SegmentOK
  <1>8. SoundTCB(a) /\ Keeps(e, a) /\ a.smState = e.smState
    <2>1. CASE 0 < Acked(e, h) /\ Acked(e, h) <= TxSize + 1
      BY <1>2, <1>5, <1>6, <1>7, <2>1, FreeAckedSound, FreeAckedKeeps, Zenon DEF SegmentOK
    <2>2. CASE ~(0 < Acked(e, h) /\ Acked(e, h) <= TxSize + 1)
      BY <1>2, <2>2, DuplicateAckSound, DuplicateAckKeeps, Zenon
    <2> QED BY <2>1, <2>2
  <1> HIDE DEF a
  <1>9. a \in TCBs /\ Keeps(s, a)  BY <1>1, <1>5, <1>8, KeepsOrder DEF SoundTCB
  <1>10. SoundTCB(b) /\ b \in TCBs /\ b.smState = a.smState  BY <1>8, StopTimerSound, Zenon DEF SoundTCB
  <1>11. \/ Keeps(a, b)
         \/ /\ a.bTXFIN /\ KeepsRx(a, b) /\ b.txTail = a.txTail /\ Offset(b) = Offset(a)
            /\ b.bSYNSent = a.bSYNSent /\ ~b.bTXFIN /\ ~b.bFINSent /\ b.MySEQ = h.ackno
            /\ KeepsSent(a, b) /\ a.txTail = a.txHead
    BY <1>8, StopTimerNumbers
  <1> HIDE DEF b
  <1>12. SoundTCB(t) /\ t.smState = b.smState  BY <1>10, WindowUpdateSound, Zenon DEF SegmentOK
  <1>13. t \in TCBs /\ Keeps(b, t) /\ t.MySEQ = b.MySEQ
    BY <1>10, <1>12, WindowUpdateKeeps, Zenon DEF SoundTCB, WindowUpdate, TCBs
  <1> HIDE DEF t
  <1>13a. t.smState = IF s.smState = "SYN_RECEIVED" THEN "ESTABLISHED" ELSE s.smState
    BY <1>3, <1>8, <1>10, <1>12, Zenon
  <1>13b. ASSUME KeepsSent(a, b), t.bTXFIN = s.bTXFIN \/ s.smState \in Finishing
          PROVE  KeepsSent(s, t) /\ Streamed(t)
    <2>1. KeepsSent(s, t)
      BY <1>9, <1>13, <1>13b, Zenon DEF Keeps, KeepsTx, KeepsSent
    <2>2. /\ s.smState \in Finishing => t.smState \in Finishing
          /\ t.smState = "SYN_RECEIVED" => s.smState = "SYN_RECEIVED"
      BY <1>13a DEF Finishing
    <2>3. Streamed(t)  BY <1>13, <1>13b, <2>1, <2>2, KeepsStreamed
    <2> QED BY <2>1, <2>3
  <1>14. CASE Keeps(a, b)
    <2>1. Keeps(s, b)  BY <1>1, <1>9, <1>10, <1>14, KeepsOrder
    <2>2. Keeps(s, t)  BY <1>1, <1>10, <1>13, <2>1, KeepsOrder
    <2>3. KeepsRx(s, t) /\ s.txTail <= t.txTail  BY <2>2, Zenon DEF Keeps, KeepsTx
    <2>4. SoundTCB(t) /\ KeepsTx(s, t)  BY <1>12, <2>2 DEF Keeps
    <2>5. Numbered(t)
      <3>1. s.smState = "FIN_WAIT_2" => t.smState = "FIN_WAIT_2"  BY <1>13a
      <3> QED BY <1>1, <2>4, <3>1, KeepsNumbered
    <2>6. FinPending(t)  BY <1>13a, <2>2 DEF FinPending, Keeps, KeepsTx, Finishing
    <2>7. KeepsSent(s, t) /\ Streamed(t)
      BY <1>13b, <1>14, <2>2, Zenon DEF Keeps, KeepsTx
    <2> QED BY <1>4, <2>3, <2>5, <2>6, <2>7
  <1>15. CASE /\ a.bTXFIN /\ KeepsRx(a, b) /\ b.txTail = a.txTail /\ Offset(b) = Offset(a)
              /\ b.bSYNSent = a.bSYNSent /\ ~b.bTXFIN /\ ~b.bFINSent /\ b.MySEQ = h.ackno
              /\ KeepsSent(a, b) /\ a.txTail = a.txHead
    <2>1. KeepsRx(s, t)  BY <1>9, <1>13, <1>15, Zenon DEF Keeps, KeepsRx
    <2>2. s.txTail <= t.txTail
      <3>1. s.txTail <= b.txTail  BY <1>9, <1>15, Zenon DEF Keeps, KeepsTx
      <3>2. b.txTail <= t.txTail  BY <1>13, Zenon DEF Keeps, KeepsTx
      <3> QED BY <1>1, <1>10, <1>13, <3>1, <3>2, Numbers
    <2>3. s.bTXFIN  BY <1>9, <1>15, Zenon DEF Keeps, KeepsTx
    <2>4. s.smState \in Finishing  BY <2>3 DEF FinPending
    <2>5. t.smState \in Finishing
      <3>1. e.smState = s.smState  BY <1>3, <2>4 DEF Finishing
      <3> QED BY <1>8, <1>10, <1>12, <2>4, <3>1, Zenon
    <2>6. Offset(t) = Offset(s) /\ t.bSYNSent = s.bSYNSent
      BY <1>9, <1>13, <1>15, Zenon DEF Keeps, KeepsTx
    <2>7. Offset(s) \in {1, 2}
      <3>1. One(s.bFINSent) \in 0..1  BY OneNat
      <3> QED BY <3>1 DEF Numbered
    <2>8. ~t.bTXFIN /\ ~t.bFINSent /\ t.MySEQ = h.ackno
      BY <1>13, <1>15, Zenon DEF Keeps, KeepsTx
    <2>8a. KeepsSent(s, t) /\ Streamed(t)  BY <1>13b, <1>15, <2>4, Zenon
    <2>8b. t.txTail = t.txHead
      <3>1. t.txHead = a.txTail
        BY <1>13, <1>15, Zenon DEF Keeps, KeepsTx, KeepsSent
      <3>2. a.txTail <= t.txTail  BY <1>13, <1>15, Zenon DEF Keeps, KeepsTx
      <3>3. t.txTail <= t.txUnackedTail /\ t.txUnackedTail <= t.txHead
            /\ t.txTail \in Nat /\ t.txUnackedTail \in Nat /\ t.txHead \in Nat
        BY <1>12 DEF SoundTCB, Sound, TCBs
      <3> QED BY <3>1, <3>2, <3>3
    <2>9. FinAway(t, h)  BY <2>6, <2>7, <2>8, <2>8b, Zenon DEF FinAway, Numbered
    <2> QED BY <1>4, <2>1, <2>2, <2>5, <2>8a, <2>9
  <1> QED BY <1>11, <1>14, <1>15

\* Whether the FIN was acknowledged: FIN_WAIT_1 becomes FIN_WAIT_2.
LEMMA FinAckedNumbers ==
    ASSUME NEW s, SoundTCB(s), NEW h, Streamed(s),
           \/ Numbered(s) /\ FinPending(s)
           \/ FinAway(s, h) /\ s.smState \in {"FIN_WAIT_1", "FIN_WAIT_2"}
    PROVE  LET t == FinAcked(s, h)
           IN  /\ KeepsRx(s, t) /\ t.txTail = s.txTail /\ KeepsSent(s, t)
               /\ Numbered(t) /\ FinPending(t) /\ Streamed(t)
  <1> DEFINE t == FinAcked(s, h)
             w == [s EXCEPT !.smState = "FIN_WAIT_2", !.bTimerEnabled = TRUE, !.due = FALSE]
  <1>1. s \in TCBs  BY DEF SoundTCB
  <1>2. /\ s.smState = "FIN_WAIT_1" /\ s.MySEQ = h.ackno => t = w
        /\ ~(s.smState = "FIN_WAIT_1" /\ s.MySEQ = h.ackno) => t = s
    BY Zenon DEF FinAcked
  <1>3. /\ w.MySEQ = s.MySEQ /\ w.txUnackedTail = s.txUnackedTail /\ w.txTail = s.txTail
        /\ w.bSYNSent = s.bSYNSent /\ w.bFINSent = s.bFINSent /\ w.bTXFIN = s.bTXFIN
        /\ w.sent = s.sent /\ w.txHead = s.txHead /\ w.remoteWindow = s.remoteWindow
        /\ w.smState = "FIN_WAIT_2"
    BY <1>1, Zenon DEF TCBs
  <1>4. KeepsRx(s, w)  BY <1>1, Zenon DEF TCBs, KeepsRx
  <1>5. KeepsRx(s, s) /\ KeepsSent(s, s)  BY DEF KeepsRx, KeepsSent
  <1>5a. KeepsSent(s, w)  BY <1>3, Zenon DEF KeepsSent
  <1> HIDE DEF w, t
  <1>6. Offset(w) = Offset(s)  BY <1>3, Zenon DEF Offset
  <1>6a. s.smState = "FIN_WAIT_1" => Streamed(w)
    <2>2. w.smState \in Finishing /\ w.smState # "SYN_RECEIVED"
          /\ w.smState \notin {"ESTABLISHED", "CLOSE_WAIT"}
      BY <1>3 DEF Finishing
    <2> QED BY <1>3, <1>5a, <2>2, KeepsStreamed
  <1>7. CASE s.smState = "FIN_WAIT_1" /\ s.MySEQ = h.ackno
    <2>1. FinPending(w)  BY <1>3 DEF FinPending, Finishing
    <2>2. CASE Numbered(s)
      <3>1. Offset(w) = 1 + One(w.bFINSent) /\ w.bSYNSent
        BY <1>3, <1>6, <1>7, <2>2 DEF Numbered
      <3> QED BY <1>2, <1>3, <1>4, <1>5a, <1>6a, <1>7, <2>1, <3>1, Zenon DEF Numbered, t
    <2>3. CASE FinAway(s, h)
      <3>1. /\ w.bSYNSent /\ (Offset(w) = 1 \/ Offset(w) = 2) /\ ~w.bTXFIN /\ ~w.bFINSent
            /\ w.txTail = w.txHead
        BY <1>3, <1>6, <2>3 DEF FinAway
      <3>2. One(w.bFINSent) = 0  BY <3>1, OneNat
      <3>3. Numbered(w)  BY <1>3, <3>1, <3>2 DEF Numbered
      <3> QED BY <1>2, <1>3, <1>4, <1>5a, <1>6a, <1>7, <2>1, <3>3, Zenon DEF t
    <2> QED BY <2>2, <2>3
  <1>8. CASE ~(s.smState = "FIN_WAIT_1" /\ s.MySEQ = h.ackno)
    <2>1. CASE Numbered(s) /\ FinPending(s)  BY <1>2, <1>5, <1>8, <2>1, Zenon DEF t
    <2>2. CASE FinAway(s, h) /\ s.smState \in {"FIN_WAIT_1", "FIN_WAIT_2"}
      <3>1. s.smState = "FIN_WAIT_2"  BY <1>8, <2>2 DEF FinAway
      <3>2. One(s.bFINSent) = 0  BY <2>2, OneNat DEF FinAway
      <3>3. Numbered(s)  BY <2>2, <3>1, <3>2 DEF Numbered, FinAway
      <3>4. FinPending(s)  BY <2>2 DEF FinPending, FinAway
      <3> QED BY <1>2, <1>5, <1>8, <3>3, <3>4, Zenon DEF t
    <2> QED BY <2>1, <2>2
  <1> QED BY <1>7, <1>8
-----------------------------------------------------------------------------
(* The text and the FIN of a segment.                                      *)

\* A segment of a remote node that sends n bytes and then a FIN.
Fits(h, n) == /\ h.len > 0 => h.seq + h.len <= n + 1
              /\ h.fin => h.seq + h.len = n + 1

\* The segments of the remote node end where its data ends, a FIN behind it.
LEMMA SegmentsFit ==
    ASSUME NEW h \in AckSegments \union OtherSegments PROVE Fits(h, peer.len)
  <1>1. CASE h \in AckSegments  BY <1>1 DEF AckSegments, Fits
  <1>2. CASE h \in OtherSegments
    <2>1. PICK k \in {"SYN", "RST", "NONE"}, q \in 0..(peer.len + 2) :
            h = Segment(k, q, 0, FALSE, 0, 0)
      BY <1>2, SMT DEF OtherSegments, Segment
    <2>2. h.len = 0 /\ h.fin = FALSE  BY <2>1 DEF Segment
    <2> QED BY <2>2 DEF Fits
  <1> QED BY <1>1, <1>2

\* The head jumps to the end of the future data or not at all; what is left of
\* a hole ends where it did.
LEMMA FillHoleReach ==
    ASSUME NEW hole \in Int, NEW future \in Nat, NEW n \in Nat
    PROVE  LET f == FillHole(hole, future, n)
           IN  /\ f.jump \in Nat /\ f.hole \in Int
               /\ f.jump = 0 \/ (hole # NoHole /\ n + f.jump = hole + future)
               /\ f.hole # NoHole => hole # NoHole /\ f.jump = 0 /\ n + f.hole = hole
  <1> DEFINE f == FillHole(hole, future, n)
  <1>1. CASE hole = NoHole \/ future + (hole - n) < 0
    <2>1. f = [hole |-> NoHole, jump |-> 0]  BY <1>1 DEF FillHole
    <2> QED BY <2>1 DEF NoHole
  <1>2. CASE hole # NoHole /\ ~(future + (hole - n) < 0) /\ hole - n <= 0
    <2>1. f = [hole |-> NoHole, jump |-> future + (hole - n)]  BY <1>2 DEF FillHole
    <2> QED BY <1>2, <2>1 DEF NoHole
  <1>3. CASE hole # NoHole /\ ~(future + (hole - n) < 0) /\ ~(hole - n <= 0)
    <2>1. f = [hole |-> hole - n, jump |-> 0]  BY <1>3 DEF FillHole
    <2> QED BY <1>3, <2>1
  <1> QED BY <1>1, <1>2, <1>3

\* The future data ends where it did or with what was stored.
LEMMA RecordHoleReach ==
    ASSUME NEW hole \in Int, NEW future \in Nat, NEW missing \in Nat, NEW n \in Nat,
           hole # NoHole => hole > 0
    PROVE  LET f == RecordHole(hole, future, missing, n)
           IN  /\ f.hole \in Int /\ f.future \in Int
               /\ \/ f.hole + f.future <= missing + n
                  \/ hole # NoHole /\ f.hole + f.future <= hole + future
  <1> DEFINE end == hole + future
             f   == RecordHole(hole, future, missing, n)
  <1>1. CASE hole = NoHole
    <2>1. f = [hole |-> missing, future |-> n]  BY <1>1 DEF RecordHole
    <2> QED BY <2>1
  <1>2. CASE hole # NoHole /\ missing < hole
    <2> DEFINE k == IF missing + n > end \/ missing + n < hole THEN n ELSE end - missing
    <2>1. f = [hole |-> missing, future |-> k]  BY <1>2 DEF RecordHole
    <2>2. k \in Int /\ (missing + k <= missing + n \/ missing + k <= end)  BY <1>2
    <2> QED BY <1>2, <2>1, <2>2
  <1>3. CASE hole # NoHole /\ ~(missing < hole)
    <2> DEFINE k == IF missing + n > end /\ missing <= end THEN missing + n - hole ELSE future
    <2>1. f = [hole |-> hole, future |-> k]  BY <1>3 DEF RecordHole
    <2>2. k \in Int /\ (hole + k <= missing + n \/ hole + k <= end)  BY <1>3
    <2> QED BY <1>3, <2>1, <2>2
  <1> QED BY <1>1, <1>2, <1>3

\* Text takes nothing beyond what the remote node sends, and only adds to it.
LEMMA TextNumbers ==
    ASSUME SizesAssumption, NEW s, SoundTCB(s), NEW h, SegmentOK(h), NEW n \in Nat, Fits(h, n),
           h.len > 0 => Missing(s, h) + h.len >= 0 /\ Missing(s, h) < Free(s),
           Received(s, n)
    PROVE  LET t == Text(s, h)
           IN  /\ KeepsTx(s, t) /\ t.lastAck = s.lastAck
               /\ t.bDelayedACKTimerEnabled = s.bDelayedACKTimerEnabled
               /\ s.RemoteSEQ <= t.RemoteSEQ /\ Received(t, n)
               /\ h.len = 0 => t = s
  <1>1. s \in TCBs /\ Sound(s)  BY DEF SoundTCB
  <1>2. /\ s.sHoleSize \in Int /\ s.wFutureDataSize \in Nat /\ s.RemoteSEQ \in Nat
        /\ s.rxCount \in Nat /\ s.lastAck \in Nat /\ Missing(s, h) \in Int
        /\ h.len \in Nat /\ h.seq \in Nat
    <2>1. /\ s.sHoleSize \in Int /\ s.wFutureDataSize \in Nat /\ s.RemoteSEQ \in Nat
          /\ s.rxCount \in Nat /\ s.lastAck \in Nat
      BY <1>1, Zenon DEF TCBs
    <2> QED BY <2>1 DEF Missing, SegmentOK
  <1>3. Free(s) \in Nat  BY <1>1, <1>2 DEF Sound, Free, FreeRx, SizesAssumption
  <1>4. Keeps(s, s) /\ s.RemoteSEQ <= s.RemoteSEQ  BY <1>1, <1>2, KeepsOrder
  <1>5. h.len = 0 => Text(s, h) = s  BY Zenon DEF Text
  <1>6. CASE h.len = 0  BY <1>4, <1>5, <1>6, Zenon DEF Keeps, KeepsRx
  <1>7. CASE h.len # 0 /\ Missing(s, h) <= 0
    <2> DEFINE k == InOrderLen(Missing(s, h), h.len, Free(s))
               f == FillHole(s.sHoleSize, s.wFutureDataSize, k)
               t == TextInOrder(s, h)
               r == s.RemoteSEQ + k + f.jump
               c == s.rxCount + k + f.jump
    <2>1. Text(s, h) = t  BY <1>7, Zenon DEF Text
    <2>2. k \in Nat /\ k <= h.len + Missing(s, h)
      BY <1>2, <1>3, <1>7 DEF InOrderLen, LesserOf
    <2>3. s.RemoteSEQ + k <= n + 1
      BY <1>2, <1>7, <2>2 DEF Fits, Missing
    <2>4. t = [s EXCEPT !.RemoteSEQ = r, !.rxCount = c, !.sHoleSize = f.hole]  BY DEF TextInOrder
    <2> HIDE DEF k
    <2>5. /\ f.jump \in Nat /\ f.hole \in Int
          /\ f.jump = 0 \/ (s.sHoleSize # NoHole /\ k + f.jump = s.sHoleSize + s.wFutureDataSize)
          /\ f.hole # NoHole => s.sHoleSize # NoHole /\ f.jump = 0 /\ k + f.hole = s.sHoleSize
      <3> DEFINE hole == s.sHoleSize
                 future == s.wFutureDataSize
      <3>1. hole \in Int /\ future \in Nat /\ k \in Nat  BY <1>2, <2>2
      <3> HIDE DEF hole, future
      <3>2. LET g == FillHole(hole, future, k)
            IN  /\ g.jump \in Nat /\ g.hole \in Int
                /\ g.jump = 0 \/ (hole # NoHole /\ k + g.jump = hole + future)
                /\ g.hole # NoHole => hole # NoHole /\ g.jump = 0 /\ k + g.hole = hole
        BY <3>1, FillHoleReach
      <3> QED BY <3>2 DEF hole, future
    <2> HIDE DEF f, t
    <2>6. s.sHoleSize # NoHole => s.RemoteSEQ + s.sHoleSize + s.wFutureDataSize <= n + 1
      BY DEF Received
    <2>7. /\ s.RemoteSEQ <= r /\ r <= n + 2
          /\ f.hole # NoHole => r + f.hole + s.wFutureDataSize <= n + 1
      BY <1>2, <2>2, <2>3, <2>5, <2>6
    <2> HIDE DEF r, c
    <2>8. /\ t.MySEQ = s.MySEQ /\ t.txUnackedTail = s.txUnackedTail /\ t.txTail = s.txTail
          /\ t.bSYNSent = s.bSYNSent /\ t.bFINSent = s.bFINSent /\ t.bTXFIN = s.bTXFIN
          /\ t.sent = s.sent /\ t.txHead = s.txHead /\ t.remoteWindow = s.remoteWindow
          /\ t.RemoteSEQ = r /\ t.lastAck = s.lastAck /\ t.sHoleSize = f.hole
          /\ t.bDelayedACKTimerEnabled = s.bDelayedACKTimerEnabled
          /\ t.wFutureDataSize = s.wFutureDataSize
      BY <1>1, <2>4, Zenon DEF TCBs
    <2>9. KeepsTx(s, t)
      <3>1. s.txTail <= s.txTail  BY <1>1, Numbers
      <3> QED BY <2>8, <3>1, Zenon DEF KeepsTx, Offset, KeepsSent
    <2>10. Received(t, n)
      <3>1. s.lastAck <= r
        <4>1. r \in Nat  BY <1>2, <2>2, <2>5 DEF r
        <4> QED BY <1>2, <2>7, <4>1 DEF Received
      <3> QED BY <2>7, <2>8, <3>1, Zenon DEF Received
    <2> QED BY <1>7, <2>1, <2>7, <2>8, <2>9, <2>10, Zenon
  <1>8. CASE h.len # 0 /\ ~(Missing(s, h) <= 0)
    <2> DEFINE m == Missing(s, h)
               k == AheadLen(m, h.len, Free(s))
               f == RecordHole(s.sHoleSize, s.wFutureDataSize, m, k)
               t == TextAhead(s, h)
    <2>1. Text(s, h) = t  BY <1>8, Zenon DEF Text
    <2>2. m \in Nat /\ k \in Nat /\ k <= h.len  BY <1>2, <1>3, <1>8 DEF AheadLen
    <2>3. s.RemoteSEQ + m + k <= n + 1  BY <1>2, <1>8, <2>2 DEF Fits, Missing
    <2>4. t = [s EXCEPT !.sHoleSize = f.hole, !.wFutureDataSize = f.future]  BY DEF TextAhead
    <2> HIDE DEF m, k
    <2>5. /\ f.hole \in Int /\ f.future \in Int
          /\ \/ f.hole + f.future <= m + k
             \/ s.sHoleSize # NoHole /\ f.hole + f.future <= s.sHoleSize + s.wFutureDataSize
      <3>1. s.sHoleSize # NoHole => s.sHoleSize > 0  BY <1>1 DEF Sound
      <3> QED BY <1>2, <2>2, <3>1, RecordHoleReach
    <2> HIDE DEF f, t
    <2>6. s.RemoteSEQ + f.hole + f.future <= n + 1
      BY <1>2, <2>2, <2>3, <2>5 DEF Received
    <2>7. /\ t.MySEQ = s.MySEQ /\ t.txUnackedTail = s.txUnackedTail /\ t.txTail = s.txTail
          /\ t.bSYNSent = s.bSYNSent /\ t.bFINSent = s.bFINSent /\ t.bTXFIN = s.bTXFIN
          /\ t.sent = s.sent /\ t.txHead = s.txHead /\ t.remoteWindow = s.remoteWindow
          /\ t.RemoteSEQ = s.RemoteSEQ /\ t.lastAck = s.lastAck /\ t.sHoleSize = f.hole
          /\ t.bDelayedACKTimerEnabled = s.bDelayedACKTimerEnabled
          /\ t.wFutureDataSize = f.future
      BY <1>1, <2>4, Zenon DEF TCBs
    <2>8. KeepsTx(s, t)
      <3>1. s.txTail <= s.txTail  BY <1>1, Numbers
      <3> QED BY <2>7, <3>1, Zenon DEF KeepsTx, Offset, KeepsSent
    <2>9. Received(t, n)  BY <2>6, <2>7, Zenon DEF Received
    <2> QED BY <1>4, <1>8, <2>1, <2>7, <2>8, <2>9, Zenon
  <1> QED BY <1>6, <1>7, <1>8

\* Text is acknowledged at once or its timer is started, unless the remote node
\* has closed: then there is none.
LEMMA AckTextNumbers ==
    ASSUME SizesAssumption, NEW s, SoundTCB(s), NEW h, NEW n \in Nat,
           Numbered(s), FinPending(s), Streamed(s), Received(s, n), s.smState # "CLOSE_WAIT",
           SegLen(h) = 0 => Acknowledged(s)
    PROVE  Conn(AckText(s, h), n) /\ Later(s, AckText(s, h))
  <1> DEFINE z == [s EXCEPT !.rxCount = 0]
             d == IF s.smState = "ESTABLISHED" THEN s ELSE z
             t == [d EXCEPT !.bOneSegmentReceived = TRUE, !.bDelayedACKTimerEnabled = TRUE]
             u == SendTCP(d, {"ACK"}, "RESET_TIMERS")
  <1>1. s \in TCBs /\ RxSize \in Nat  BY DEF SoundTCB, SizesAssumption
  <1>2. 0 \in Nat /\ 0 <= s.rxCount  BY <1>1 DEF TCBs
  <1>3. SoundTCB(z)  BY <1>1, <1>2, SetRxCount
  <1>4. /\ z.MySEQ = s.MySEQ /\ z.txUnackedTail = s.txUnackedTail /\ z.txTail = s.txTail
        /\ z.bSYNSent = s.bSYNSent /\ z.bFINSent = s.bFINSent /\ z.bTXFIN = s.bTXFIN
        /\ z.sent = s.sent /\ z.txHead = s.txHead /\ z.remoteWindow = s.remoteWindow
        /\ z.RemoteSEQ = s.RemoteSEQ /\ z.lastAck = s.lastAck
        /\ z.bDelayedACKTimerEnabled = s.bDelayedACKTimerEnabled
        /\ z.sHoleSize = s.sHoleSize /\ z.wFutureDataSize = s.wFutureDataSize
        /\ z.smState = s.smState
    BY <1>1, Zenon DEF TCBs
  <1> HIDE DEF z
  <1>5. Keeps(s, z) /\ Keeps(s, s)  BY <1>1, <1>4, SameNumbers, KeepsOrder
  <1>6. SoundTCB(d) /\ d \in TCBs /\ Keeps(s, d) /\ d.smState = s.smState
    BY <1>1, <1>3, <1>4, <1>5, Zenon DEF SoundTCB
  <1>7. \/ SegLen(h) = 0 /\ AckText(s, h) = s
        \/ AckText(s, h) = u
        \/ AckText(s, h) = t
    BY Zenon DEF AckText, z
  <1> HIDE DEF d
  <1>8. Later(s, d) /\ Numbered(d) /\ FinPending(d) /\ Streamed(d) /\ Received(d, n)
    BY <1>1, <1>6, KeepsConn, KeepsLater
  <1>9. CASE SegLen(h) = 0 /\ AckText(s, h) = s
    BY <1>1, <1>9, LaterOrder, Zenon DEF Conn
  <1>10. CASE AckText(s, h) = u
    <2>1. d.smState = "FIN_WAIT_2" => "FIN" \notin {"ACK"}  OBVIOUS
    <2>2. "FIN" \notin {"ACK"} /\ "SYN" \notin {"ACK"}  OBVIOUS
    <2>3. /\ SoundTCB(u) /\ Numbered(u) /\ Streamed(u) /\ Received(u, n) /\ Acknowledged(u) /\ Later(d, u)
          /\ FinPending(u)
      BY <1>6, <1>8, <2>1, <2>2, SendCarries
    <2> HIDE DEF u
    <2>4. Later(s, u)  BY <1>1, <1>6, <1>8, <2>3, LaterOrder DEF SoundTCB
    <2> QED BY <1>10, <2>3, <2>4, Zenon DEF Conn
  <1>11. CASE AckText(s, h) = t
    <2>1. /\ t.MySEQ = d.MySEQ /\ t.txUnackedTail = d.txUnackedTail /\ t.txTail = d.txTail
          /\ t.bSYNSent = d.bSYNSent /\ t.bFINSent = d.bFINSent /\ t.bTXFIN = d.bTXFIN
          /\ t.sent = d.sent /\ t.txHead = d.txHead /\ t.remoteWindow = d.remoteWindow
          /\ t.RemoteSEQ = d.RemoteSEQ /\ t.lastAck = d.lastAck
          /\ t.bDelayedACKTimerEnabled = TRUE
          /\ t.sHoleSize = d.sHoleSize /\ t.wFutureDataSize = d.wFutureDataSize
          /\ t.smState = d.smState
      BY <1>6, Zenon DEF TCBs
    <2> HIDE DEF t
    <2>2. Numbered(t) /\ FinPending(t)
      <3>1. Offset(t) = Offset(d)  BY <2>1, Zenon DEF Offset
      <3> QED BY <1>8, <2>1, <3>1, Zenon DEF Numbered, FinPending
    <2>3. Received(t, n)  BY <1>8, <2>1, Zenon DEF Received
    <2>4. Acknowledged(t)  BY <1>6, <2>1 DEF Acknowledged
    <2>5. Later(s, t)  BY <1>8, <2>1, Zenon DEF Later
    <2>6. Streamed(t)
      <3>1. KeepsSent(d, t)  BY <2>1, Zenon DEF KeepsSent
      <3> QED BY <1>8, <2>1, <3>1, KeepsStreamed, Zenon
    <2> QED BY <1>11, <2>2, <2>3, <2>4, <2>5, <2>6, Zenon DEF Conn
  <1> QED BY <1>7, <1>9, <1>10, <1>11

\* The FIN is the last that is taken: with everything before it no hole is left.
LEMMA FinNumbers ==
    ASSUME SizesAssumption, NEW s, SoundTCB(s), NEW h, NEW n \in Nat, Conn(s, n), Fits(h, n)
    PROVE  CarriesOn(s, Fin(s, h), n)
  <1> DEFINE k == s.RemoteSEQ + 1
             r == [s EXCEPT !.RemoteSEQ = k]
             st == CASE r.smState = "ESTABLISHED" -> "CLOSE_WAIT"
                     [] r.smState = "FIN_WAIT_1"  -> "CLOSING"
                     [] OTHER                     -> r.smState
             t == [r EXCEPT !.smState = st]
             c == SendTCP(r, {"ACK"}, "NONE")
             u == SendTCP(t, {"ACK"}, "RESET_TIMERS")
  <1>1. s \in TCBs /\ Sound(s)  BY DEF SoundTCB
  <1>2. k \in Nat /\ s.RemoteSEQ <= k  BY <1>1 DEF TCBs
  <1>3. \/ Fin(s, h) = s
        \/ h.fin /\ s.RemoteSEQ = h.seq + h.len /\ Fin(s, h) = CloseSocket(c)
        \/ /\ h.fin /\ s.RemoteSEQ = h.seq + h.len /\ s.smState # "FIN_WAIT_2"
           /\ Fin(s, h) = u
    BY Zenon DEF Fin
  <1>4. CASE Fin(s, h) = s
    BY <1>1, <1>4, LaterOrder, Zenon DEF CarriesOn
  <1>5. SoundTCB(r)
    <2> HIDE DEF k
    <2> QED BY <1>2, SetRemoteSEQ, Zenon
  <1>6. CASE h.fin /\ s.RemoteSEQ = h.seq + h.len /\ Fin(s, h) = CloseSocket(c)
    <2> HIDE DEF r
    <2>1. SoundTCB(c)  BY <1>5, SendTCPSound, Zenon
    <2> HIDE DEF c
    <2>2. Listens(CloseSocket(c))  BY <2>1, CloseSocketState
    <2> QED BY <1>6, <2>2, Zenon DEF CarriesOn
  <1>7. CASE /\ h.fin /\ s.RemoteSEQ = h.seq + h.len /\ s.smState # "FIN_WAIT_2"
             /\ Fin(s, h) = u
    <2>1. s.RemoteSEQ = n + 1  BY <1>7 DEF Fits
    <2>2. s.sHoleSize = NoHole
      <3>1. s.sHoleSize \in Int /\ s.wFutureDataSize \in Nat  BY <1>1 DEF TCBs
      <3>2. s.sHoleSize # NoHole => s.sHoleSize > 0 /\ s.RemoteSEQ + s.sHoleSize + s.wFutureDataSize <= n + 1
        BY <1>1 DEF Sound, Conn, Received
      <3> QED BY <2>1, <3>1, <3>2
    <2>3. k <= n + 2  BY <2>1
    <2> HIDE DEF k
    <2>4. /\ r.MySEQ = s.MySEQ /\ r.txUnackedTail = s.txUnackedTail /\ r.txTail = s.txTail
          /\ r.bSYNSent = s.bSYNSent /\ r.bFINSent = s.bFINSent /\ r.bTXFIN = s.bTXFIN
          /\ r.sent = s.sent /\ r.txHead = s.txHead /\ r.remoteWindow = s.remoteWindow
          /\ r.RemoteSEQ = k /\ r.lastAck = s.lastAck
          /\ r.sHoleSize = s.sHoleSize /\ r.smState = s.smState
      BY <1>1, Zenon DEF TCBs
    <2> HIDE DEF r
    <2>5. /\ st \in States /\ st # "FIN_WAIT_2"
          /\ s.smState \in Finishing => st \in Finishing
          /\ st \in {"SYN_RECEIVED", "ESTABLISHED"} => st = s.smState
          /\ st = "CLOSE_WAIT" => s.smState \in {"ESTABLISHED", "CLOSE_WAIT"}
      <3>1. r.smState \in States /\ r.smState # "FIN_WAIT_2"  BY <1>5, <1>7, <2>4 DEF SoundTCB, TCBs
      <3> QED BY <2>4, <3>1 DEF States, Finishing
    <2> HIDE DEF st
    <2>6. SoundTCB(t) /\ t.smState = st /\ t \in TCBs  BY <1>5, <2>5, SetState, StateSet, Zenon DEF SoundTCB
    <2>7. /\ t.MySEQ = r.MySEQ /\ t.txUnackedTail = r.txUnackedTail /\ t.txTail = r.txTail
          /\ t.bSYNSent = r.bSYNSent /\ t.bFINSent = r.bFINSent /\ t.bTXFIN = r.bTXFIN
          /\ t.sent = r.sent /\ t.txHead = r.txHead /\ t.remoteWindow = r.remoteWindow
          /\ t.RemoteSEQ = r.RemoteSEQ /\ t.lastAck = r.lastAck
          /\ t.sHoleSize = r.sHoleSize
      BY <1>5, Zenon DEF SoundTCB, TCBs
    <2> HIDE DEF t
    <2>8. Numbered(t)
      <3>1. Offset(t) = Offset(s)  BY <2>4, <2>7, Zenon DEF Offset
      <3> QED BY <1>7, <2>4, <2>7, <3>1 DEF Numbered, Conn
    <2>9. Received(t, n)
      <3>1. s.lastAck <= k
        <4>1. s.lastAck <= s.RemoteSEQ  BY DEF Conn, Received
        <4> QED BY <1>1, <1>2, <4>1, Numbers
      <3> QED BY <2>2, <2>3, <2>4, <2>7, <3>1, Zenon DEF Received
    <2>10. FinPending(t)  BY <2>4, <2>5, <2>6, <2>7, Zenon DEF FinPending, Conn
    <2>11. Later(s, t)
      <3>1. s.txTail <= s.txTail /\ s.lastAck <= s.lastAck  BY <1>1, Numbers
      <3> QED BY <1>2, <2>4, <2>5, <2>6, <2>7, <3>1, Zenon DEF Later
    <2>11a. Streamed(t)
      <3>1. KeepsSent(s, t)  BY <2>4, <2>7, Zenon DEF KeepsSent
      <3>2. t.bTXFIN = s.bTXFIN /\ Streamed(s)  BY <2>4, <2>7 DEF Conn
      <3>3. /\ t.smState = "SYN_RECEIVED" => s.smState = "SYN_RECEIVED"
            /\ t.smState \in {"ESTABLISHED", "CLOSE_WAIT"} => s.smState \in {"ESTABLISHED", "CLOSE_WAIT"}
        BY <2>5, <2>6
      <3> QED BY <2>5, <2>6, <3>1, <3>2, <3>3, KeepsStreamed
    <2>12. "FIN" \notin {"ACK"} /\ "SYN" \notin {"ACK"}  OBVIOUS
    <2>13. /\ SoundTCB(u) /\ Numbered(u) /\ Streamed(u) /\ Received(u, n) /\ Acknowledged(u) /\ Later(t, u)
           /\ FinPending(u)
      BY <2>6, <2>8, <2>9, <2>10, <2>11a, <2>12, SendCarries
    <2> HIDE DEF u
    <2>14. Later(s, u)  BY <1>1, <2>6, <2>11, <2>13, LaterOrder DEF SoundTCB
    <2> QED BY <1>7, <2>13, <2>14, Zenon DEF Conn, CarriesOn
  <1> QED BY <1>3, <1>4, <1>6, <1>7
-----------------------------------------------------------------------------
(* The segments that reach a connection.                                   *)

\* Steps follow each other.
LEMMA CarriesOnFrom ==
    ASSUME NEW s \in TCBs, NEW t \in TCBs, NEW u \in TCBs, NEW n,
           Later(s, t), CarriesOn(t, u, n)
    PROVE  CarriesOn(s, u, n)
  BY LaterOrder, Zenon DEF CarriesOn

\* A segment without a FIN of its own carries the connection on.
LEMMA SendCarriesOn ==
    ASSUME SizesAssumption, NEW s, SoundTCB(s), NEW f, NEW m, NEW n \in Nat, Conn(s, n),
           "FIN" \notin f, "SYN" \notin f
    PROVE  CarriesOn(s, SendTCP(s, f, m), n)
  <1>1. Numbered(s) /\ Received(s, n) /\ FinPending(s) /\ Streamed(s)  BY DEF Conn
  <1> DEFINE t == SendTCP(s, f, m)
  <1>2. /\ Numbered(t) /\ Streamed(t) /\ Received(t, n) /\ Acknowledged(t)
        /\ Later(s, t) /\ FinPending(t)
    BY <1>1, SendCarries
  <1> HIDE DEF t
  <1>3. CarriesOn(s, t, n)  BY <1>2, Zenon DEF CarriesOn, Conn
  <1> QED BY <1>3 DEF t

\* Hearing from the remote node changes nothing of this.
LEMMA HeardConn ==
    ASSUME NEW s, SoundTCB(s), NEW n, Conn(s, n)
    PROVE  LET u == Heard(s)
           IN  /\ SoundTCB(u) /\ u \in TCBs /\ u.smState = s.smState
               /\ Keeps(s, u) /\ Later(s, u) /\ Conn(u, n)
  <1> DEFINE u == Heard(s)
  <1>1. s \in TCBs  BY DEF SoundTCB
  <1>2. SoundTCB(u) /\ u \in TCBs /\ u.smState = s.smState  BY HeardSound DEF SoundTCB
  <1>3. Keeps(s, u)  BY <1>1, HeardKeeps
  <1> HIDE DEF u
  <1>4. Later(s, u)  BY <1>1, <1>2, <1>3, KeepsLater
  <1>5. Conn(u, n)  BY <1>1, <1>2, <1>3, KeepsConn, Zenon DEF Conn
  <1> QED BY <1>2, <1>3, <1>4, <1>5 DEF u

\* A segment that is processed in full carries the connection on.
LEMMA ProcessedCarries ==
    ASSUME SizesAssumption, SoundTCB(tcb), NEW n \in Nat, Conn(tcb, n),
           NEW h, SegmentOK(h), Fits(h, n), SegProcessed(h)
    PROVE  CarriesOn(tcb, tcb', n)
  <1> DEFINE u == Heard(tcb)
             a == AckFreed(u, h)
             t == FinAcked(a, h)
             x == Text(t, h)
             y == AckText(x, h)
             z == Fin(y, h)
  <1>1. /\ Acceptable(tcb, h) /\ h.kind \in {"ACK", "URG"} /\ ~AckTooHigh(tcb, h)
        /\ tcb.smState \notin {"CLOSED", "LISTEN", "LAST_ACK", "CLOSING"}
        /\ tcb' = t \/ (t.smState # "CLOSE_WAIT" /\ tcb' = z)
    BY Zenon DEF SegProcessed, AckProcessed, AckArrives, Arrives
  <1>2. SoundTCB(a) /\ SoundTCB(t)  BY <1>1, ProcessedSound, Zenon
  <1>3. /\ u.txHead = tcb.txHead /\ u.txUnackedTail = tcb.txUnackedTail
        /\ u.MySEQ = tcb.MySEQ /\ u.RemoteSEQ = tcb.RemoteSEQ /\ u.rxCount = tcb.rxCount
    BY HeardSound, Zenon
  <1>4. /\ SoundTCB(u) /\ u \in TCBs /\ u.smState = tcb.smState
        /\ Keeps(tcb, u) /\ Later(tcb, u) /\ Conn(u, n)
    BY HeardConn
  <1>0. tcb \in TCBs  BY DEF SoundTCB
  <1> HIDE DEF u
  <1>5. ~AckTooHigh(u, h)  BY <1>1, <1>3 DEF AckTooHigh, Unsent
  <1>6. /\ a.smState = IF u.smState = "SYN_RECEIVED" THEN "ESTABLISHED" ELSE u.smState
        /\ a.RemoteSEQ = u.RemoteSEQ /\ a.rxCount = u.rxCount
    BY <1>4, <1>5, AckFreedSound, Zenon
  <1>7. /\ KeepsRx(u, a) /\ u.txTail <= a.txTail /\ KeepsSent(u, a) /\ Streamed(a)
        /\ \/ Numbered(a) /\ FinPending(a)
           \/ FinAway(a, h) /\ a.smState \in Finishing
    BY <1>4, <1>5, AckFreedNumbers DEF Conn
  <1> HIDE DEF a
  <1>8. FinAway(a, h) /\ a.smState \in Finishing => a.smState \in {"FIN_WAIT_1", "FIN_WAIT_2"}
    BY <1>1, <1>4, <1>6 DEF Finishing
  <1>9. /\ \/ t.smState = a.smState
           \/ a.smState = "FIN_WAIT_1" /\ t.smState = "FIN_WAIT_2"
        /\ t.RemoteSEQ = a.RemoteSEQ /\ t.rxCount = a.rxCount
    BY <1>2, FinAckedSound, FinAckedState, Zenon
  <1>10. /\ KeepsRx(a, t) /\ t.txTail = a.txTail /\ KeepsSent(a, t)
         /\ Numbered(t) /\ FinPending(t) /\ Streamed(t)
    BY <1>2, <1>7, <1>8, FinAckedNumbers
  <1> HIDE DEF t
  <1>11. KeepsRx(u, t)  BY <1>7, <1>10, Zenon DEF KeepsRx
  <1>12. t \in TCBs  BY <1>2 DEF SoundTCB
  <1>13. Received(t, n)  BY <1>4, <1>11, Zenon DEF Conn, Received, KeepsRx
  <1>14. Acknowledged(t)
    <2>1. t.smState = "CLOSE_WAIT" => u.smState = "CLOSE_WAIT"  BY <1>6, <1>9
    <2> QED BY <1>4, <1>11, <2>1, Zenon DEF Conn, Acknowledged, KeepsRx
  <1>15. Later(u, t)
    <2>1. u.RemoteSEQ <= u.RemoteSEQ /\ u.lastAck <= u.lastAck  BY <1>4, Numbers
    <2>2. u.txTail <= t.txTail  BY <1>7, <1>10, Zenon
    <2>3. u.smState \in Finishing => t.smState \in Finishing  BY <1>6, <1>9 DEF Finishing
    <2>4. t.txHead = u.txHead /\ u.sent \subseteq t.sent  BY <1>7, <1>10, Zenon DEF KeepsSent
    <2> QED BY <1>11, <2>1, <2>2, <2>3, <2>4, Zenon DEF KeepsRx, Later
  <1>16. Later(tcb, t)  BY <1>0, <1>4, <1>12, <1>15, LaterOrder
  <1>17. CASE tcb' = t  BY <1>10, <1>13, <1>14, <1>16, <1>17, Zenon DEF CarriesOn, Conn
  <1>18. CASE t.smState # "CLOSE_WAIT" /\ tcb' = z
    <2>1. Missing(t, h) = Missing(tcb, h) /\ Free(t) = Free(tcb)
      BY <1>3, <1>6, <1>9 DEF Missing, Free
    <2>2. h.len > 0 => Missing(t, h) + h.len >= 0 /\ Missing(t, h) < Free(t)
      BY <1>1, <2>1, AcceptedText, Zenon
    <2>3. SoundTCB(x) /\ x.smState = t.smState  BY <1>2, <2>2, TextSound, Zenon
    <2>4. /\ KeepsTx(t, x) /\ x.lastAck = t.lastAck
          /\ x.bDelayedACKTimerEnabled = t.bDelayedACKTimerEnabled
          /\ t.RemoteSEQ <= x.RemoteSEQ /\ Received(x, n)
          /\ h.len = 0 => x = t
      BY <1>2, <1>13, <2>2, TextNumbers
    <2> HIDE DEF x
    <2>5. Numbered(x) /\ FinPending(x) /\ Streamed(x)
      <3>1. Numbered(x)  BY <1>10, <1>12, <2>3, <2>4, KeepsNumbered
      <3>2. FinPending(x)  BY <1>10, <2>3, <2>4, Zenon DEF FinPending, KeepsTx
      <3>3. Streamed(x)  BY <1>10, <2>3, <2>4, KeepsStreamed, Zenon DEF KeepsTx
      <3> QED BY <3>1, <3>2, <3>3
    <2>6. SegLen(h) = 0 => Acknowledged(x)
      <3>1. One(h.fin) \in 0..1 /\ One(h.kind = "SYN") \in 0..1  BY OneNat
      <3>2. SegLen(h) = 0 => h.len = 0  BY <3>1 DEF SegLen, SegmentOK
      <3> QED BY <1>14, <2>4, <3>2
    <2>7. Later(t, x)
      <3>1. t.lastAck <= t.lastAck  BY <1>12, Numbers
      <3> QED BY <2>3, <2>4, <3>1, Zenon DEF KeepsTx, KeepsSent, Later
    <2>8. SoundTCB(y) /\ y.smState = x.smState  BY <2>3, AckTextSound, AckTextState, Zenon
    <2>9. Conn(y, n) /\ Later(x, y)
      BY <1>18, <2>3, <2>4, <2>5, <2>6, AckTextNumbers
    <2> HIDE DEF y
    <2>10. CarriesOn(y, z, n)  BY <2>8, <2>9, FinNumbers
    <2>11. SoundTCB(z)  BY <2>8, FinSound
    <2> HIDE DEF z
    <2>12. x \in TCBs /\ y \in TCBs /\ z \in TCBs  BY <2>3, <2>8, <2>11 DEF SoundTCB
    <2>13. CarriesOn(x, z, n)  BY <2>9, <2>10, <2>12, CarriesOnFrom
    <2>14. CarriesOn(t, z, n)  BY <1>12, <2>7, <2>12, <2>13, CarriesOnFrom
    <2>15. CarriesOn(tcb, z, n)  BY <1>0, <1>12, <1>16, <2>12, <2>14, CarriesOnFrom
    <2> QED BY <1>18, <2>15
  <1> QED BY <1>1, <1>17, <1>18

\* The answer to our SYN with a wrong number is reset under that number, and the
\* connection keeps its own.
LEMMA BadSynAckCarries ==
    ASSUME SizesAssumption, SoundTCB(tcb), NEW n \in Nat, Conn(tcb, n),
           NEW h, SegmentOK(h), SegBadSynAck(h)
    PROVE  CarriesOn(tcb, tcb', n)
  <1> DEFINE u == Heard(tcb)
             v == [u EXCEPT !.MySEQ = h.ackno]
             w == SendTCP(v, {"RST"}, "RESET_TIMERS")
             t == [w EXCEPT !.MySEQ = tcb.MySEQ]
  <1>0. tcb \in TCBs /\ h.ackno \in Int  BY DEF SoundTCB, SegmentOK
  <1>1. tcb' = t /\ tcb.smState = "SYN_RECEIVED"  BY Zenon DEF SegBadSynAck
  <1>2. /\ SoundTCB(u) /\ u \in TCBs /\ u.smState = tcb.smState
        /\ Keeps(tcb, u) /\ Later(tcb, u) /\ Conn(u, n)
    BY HeardConn
  <1>2a. u.MySEQ = tcb.MySEQ  BY HeardSound, Zenon
  <1> HIDE DEF u
  <1>3. SoundTCB(v)  BY <1>0, <1>2, SetMySEQ, Zenon
  <1>4. /\ v.txUnackedTail = u.txUnackedTail /\ v.txTail = u.txTail /\ v.smState = u.smState
        /\ v.bSYNSent = u.bSYNSent /\ v.bFINSent = u.bFINSent /\ v.bTXFIN = u.bTXFIN
        /\ v.sent = u.sent /\ v.txHead = u.txHead /\ v.remoteWindow = u.remoteWindow
        /\ v.RemoteSEQ = u.RemoteSEQ
        /\ v.sHoleSize = u.sHoleSize /\ v.wFutureDataSize = u.wFutureDataSize
    BY <1>2, Zenon DEF TCBs
  <1> HIDE DEF v
  <1>5. /\ w.RemoteSEQ = v.RemoteSEQ /\ w.lastAck = v.RemoteSEQ
        /\ ~w.bDelayedACKTimerEnabled
        /\ w.sHoleSize = v.sHoleSize /\ w.wFutureDataSize = v.wFutureDataSize
        /\ w.txTail = v.txTail /\ w.smState = v.smState
        /\ w.bTXFIN <=> v.bTXFIN
        /\ v.bSYNSent => w.bSYNSent
        /\ w.bFINSent = v.bFINSent /\ w.txUnackedTail = v.txUnackedTail
        /\ w.txHead = v.txHead /\ w.remoteWindow = v.remoteWindow /\ w.sent = v.sent
    <2> DEFINE f == {"RST"}
    <2>1. "FIN" \notin f /\ "RST" \in f /\ "SYN" \notin f  OBVIOUS
    <2>2. ~SendsData(f)  BY DEF SendsData
    <2>3. ~(SentLen(v, f) > 0 \/ "SYN" \in f \/ SentFIN(v, f))
      BY <2>1, <2>2 DEF SentLen, SentFIN
    <2>4. w.sent = v.sent  BY <1>3, <2>3, SendTCPSent
    <2> QED BY <1>3, <2>1, <2>4, SendTCPNumbers
  <1>6. w \in TCBs  BY <1>3, SendTCPSound DEF SoundTCB
  <1> HIDE DEF w
  <1>7. /\ t.MySEQ = tcb.MySEQ /\ t.txUnackedTail = w.txUnackedTail /\ t.txTail = w.txTail
        /\ t.bSYNSent = w.bSYNSent /\ t.bFINSent = w.bFINSent /\ t.bTXFIN = w.bTXFIN
        /\ t.sent = w.sent /\ t.txHead = w.txHead /\ t.remoteWindow = w.remoteWindow
        /\ t.RemoteSEQ = w.RemoteSEQ /\ t.lastAck = w.lastAck /\ t.smState = w.smState
        /\ t.bDelayedACKTimerEnabled = w.bDelayedACKTimerEnabled
        /\ t.sHoleSize = w.sHoleSize /\ t.wFutureDataSize = w.wFutureDataSize
    BY <1>0, <1>6, Zenon DEF TCBs
  <1> HIDE DEF t
  <1>8. Offset(t) = Offset(u)  BY <1>2a, <1>4, <1>5, <1>7, Zenon DEF Offset
  <1>9. Numbered(t)
    <2>1. Offset(u) = 1 + One(u.bFINSent) /\ u.bSYNSent  BY <1>1, <1>2 DEF Conn, Numbered
    <2> QED BY <1>4, <1>5, <1>7, <1>8, <2>1, Zenon DEF Numbered
  <1>10. FinPending(t)  BY <1>2, <1>4, <1>5, <1>7, Zenon DEF Conn, FinPending
  <1>11. Received(t, n) /\ Acknowledged(t)
    <2>1. u.RemoteSEQ <= u.RemoteSEQ  BY <1>2, Numbers
    <2>2. Received(t, n)  BY <1>2, <1>4, <1>5, <1>7, <2>1, Zenon DEF Conn, Received
    <2>3. Acknowledged(t)  BY <1>5, <1>7, Zenon DEF Acknowledged
    <2> QED BY <2>2, <2>3
  <1>11a. Streamed(t)
    <2>1. KeepsSent(u, t)  BY <1>4, <1>5, <1>7, Zenon DEF KeepsSent
    <2>2. t.bTXFIN = u.bTXFIN /\ t.smState = u.smState
      <3>1. u.bTXFIN \in BOOLEAN /\ w.bTXFIN \in BOOLEAN  BY <1>2, <1>6, Zenon DEF TCBs
      <3> QED BY <1>4, <1>5, <1>7, <3>1
    <2> QED BY <1>2, <2>1, <2>2, KeepsStreamed, Zenon DEF Conn
  <1>12. Later(u, t)
    <2>1. u.txTail <= u.txTail /\ u.RemoteSEQ <= u.RemoteSEQ /\ u.lastAck <= u.RemoteSEQ
      BY <1>2, Numbers DEF Conn, Received
    <2> QED BY <1>4, <1>5, <1>7, <2>1, Zenon DEF Later
  <1>13. t \in TCBs  BY <1>0, <1>6, Numbers, Zenon DEF TCBs, t
  <1>14. Later(tcb, t)  BY <1>0, <1>2, <1>12, <1>13, LaterOrder
  <1> QED BY <1>1, <1>9, <1>10, <1>11, <1>11a, <1>14, Zenon DEF CarriesOn, Conn

\* So does every other segment, unless it closes the connection.
LEMMA SegCarries ==
    ASSUME SizesAssumption, SoundTCB(tcb), NEW n \in Nat, Conn(tcb, n),
           NEW h, SegmentOK(h), SoundTCB(tcb'),
           \/ SegUnacceptable(h) \/ SegReset(h) \/ SegWithoutAck(h)
           \/ SegLastAck(h) \/ SegAckTooHigh(h) \/ SegClosing(h) \/ SegFinWait2(h)
    PROVE  CarriesOn(tcb, tcb', n)
  <1> DEFINE u == Heard(tcb)
             a == AckFreed(u, h)
  <1>0. tcb \in TCBs /\ tcb' \in TCBs  BY DEF SoundTCB
  <1>1. /\ SoundTCB(u) /\ u \in TCBs /\ u.smState = tcb.smState
        /\ Keeps(tcb, u) /\ Later(tcb, u) /\ Conn(u, n)
    BY HeardConn
  <1>2. /\ u.txHead = tcb.txHead /\ u.txUnackedTail = tcb.txUnackedTail /\ u.MySEQ = tcb.MySEQ
    BY HeardSound, Zenon
  <1>3. "FIN" \notin {"ACK"} /\ "SYN" \notin {"ACK"}  OBVIOUS
  <1> HIDE DEF u
  <1>4. ASSUME tcb' = u \/ (\E m : tcb' = SendTCP(u, {"ACK"}, m)) PROVE CarriesOn(tcb, tcb', n)
    <2>1. CASE tcb' = u  BY <1>1, <2>1 DEF CarriesOn
    <2>2. CASE \E m : tcb' = SendTCP(u, {"ACK"}, m)
      <3>1. CarriesOn(u, tcb', n)  BY <1>1, <1>3, <2>2, SendCarriesOn
      <3> QED BY <1>0, <1>1, <3>1, CarriesOnFrom
    <2> QED BY <1>4, <2>1, <2>2
  <1>5. ASSUME NEW s, SoundTCB(s), tcb' = CloseSocket(s) PROVE CarriesOn(tcb, tcb', n)
    BY <1>5, CloseSocketState, Zenon DEF CarriesOn
  <1>6. CASE SegUnacceptable(h)  BY <1>4, <1>6, Zenon DEF SegUnacceptable, u
  <1>7. CASE SegReset(h)  BY <1>1, <1>5, <1>7, Zenon DEF SegReset, u
  <1>8. CASE SegWithoutAck(h)  BY <1>4, <1>8, Zenon DEF SegWithoutAck, u
  <1>9. CASE SegLastAck(h)  BY <1>1, <1>4, <1>5, <1>9, Zenon DEF SegLastAck, u
  <1>10. CASE SegAckTooHigh(h)  BY <1>4, <1>10, Zenon DEF SegAckTooHigh, u
  <1>11. ASSUME ~AckTooHigh(tcb, h)
         PROVE  /\ SoundTCB(a) /\ KeepsRx(u, a) /\ u.txTail <= a.txTail
                /\ a.smState = IF u.smState = "SYN_RECEIVED" THEN "ESTABLISHED" ELSE u.smState
                /\ KeepsSent(u, a) /\ Streamed(a)
                /\ \/ Numbered(a) /\ FinPending(a)
                   \/ a.MySEQ = h.ackno
    <2>1. ~AckTooHigh(u, h)  BY <1>2, <1>11 DEF AckTooHigh, Unsent
    <2>2. /\ SoundTCB(a)
          /\ a.smState = IF u.smState = "SYN_RECEIVED" THEN "ESTABLISHED" ELSE u.smState
      BY <1>1, <2>1, AckFreedSound, Zenon
    <2>3. Numbered(u) /\ FinPending(u) /\ Streamed(u)  BY <1>1 DEF Conn
    <2>4. /\ KeepsRx(u, a) /\ u.txTail <= a.txTail /\ KeepsSent(u, a) /\ Streamed(a)
          /\ (Numbered(a) /\ FinPending(a)) \/ FinAway(a, h)
      BY <1>1, <2>1, <2>3, AckFreedNumbers
    <2> HIDE DEF a
    <2> QED BY <2>2, <2>4, Zenon DEF FinAway
  <1>12. CASE SegClosing(h)
    <2>1. ~AckTooHigh(tcb, h) /\ tcb.smState = "CLOSING"
          /\ (a.MySEQ = h.ackno => tcb' = CloseSocket(a))
          /\ (a.MySEQ # h.ackno => tcb' = a)
      BY <1>12, Zenon DEF SegClosing, u
    <2> HIDE DEF a
    <2>2. CASE a.MySEQ = h.ackno  BY <1>5, <1>11, <2>1, <2>2, Zenon
    <2>3. CASE a.MySEQ # h.ackno
      <3>1. SoundTCB(a) /\ KeepsRx(u, a) /\ Numbered(a) /\ FinPending(a) /\ tcb' = a
            /\ u.txTail <= a.txTail /\ a.smState = "CLOSING"
            /\ KeepsSent(u, a) /\ Streamed(a)
        BY <1>1, <1>11, <2>1, <2>3
      <3>1a. u.sent \subseteq a.sent /\ a.txHead = u.txHead  BY <3>1, Zenon DEF KeepsSent
      <3>2. Received(a, n)  BY <1>1, <3>1, Zenon DEF Conn, Received, KeepsRx
      <3>3. Acknowledged(a)
        <4>1. a.smState # "CLOSE_WAIT"  BY <3>1
        <4> QED BY <1>1, <3>1, <4>1, Zenon DEF Conn, Acknowledged, KeepsRx
      <3>4. Later(u, a)
        <4>1. u.RemoteSEQ <= u.RemoteSEQ /\ u.lastAck <= u.lastAck  BY <1>1, Numbers
        <4>2. a.smState \in Finishing  BY <3>1 DEF Finishing
        <4> QED BY <3>1, <3>1a, <4>1, <4>2, Zenon DEF KeepsRx, Later
      <3>5. Later(tcb, a)  BY <1>0, <1>1, <3>1, <3>4, LaterOrder
      <3> QED BY <3>1, <3>2, <3>3, <3>5, Zenon DEF CarriesOn, Conn
    <2> QED BY <2>2, <2>3
  <1>13. CASE SegFinWait2(h)
    <2> DEFINE v == [a EXCEPT !.MySEQ = h.ackno]
               w == SendTCP(v, {"RST", "ACK"}, "NONE")
    <2>1. ~AckTooHigh(tcb, h) /\ tcb' = CloseSocket(w)  BY <1>13, Zenon DEF SegFinWait2, u
    <2> HIDE DEF a
    <2>2. h.ackno \in Int  BY DEF SegmentOK
    <2>3. SoundTCB(v)  BY <1>11, <2>1, <2>2, SetMySEQ, Zenon
    <2> HIDE DEF v
    <2>4. SoundTCB(w)  BY <2>3, SendTCPSound, Zenon
    <2> HIDE DEF w
    <2> QED BY <1>5, <2>1, <2>4, Zenon
  <1> QED BY <1>6, <1>7, <1>8, <1>9, <1>10, <1>12, <1>13
-----------------------------------------------------------------------------
(* The parts of TCPTick() and of the API.                                  *)

\* A step that keeps the connection.
StaysUp(s, t, n) == SoundTCB(t) /\ Conn(t, n) /\ Later(s, t)

\* Keeping the connection composes.
LEMMA StaysUpOrder ==
    ASSUME NEW s, SoundTCB(s), NEW n
    PROVE  /\ Conn(s, n) => StaysUp(s, s, n)
           /\ \A t, u : StaysUp(s, t, n) /\ StaysUp(t, u, n) => StaysUp(s, u, n)
           /\ \A t : StaysUp(s, t, n) => CarriesOn(s, t, n)
  <1>1. s \in TCBs  BY DEF SoundTCB
  <1>2. Conn(s, n) => StaysUp(s, s, n)  BY <1>1, LaterOrder, Zenon DEF StaysUp
  <1>3. ASSUME NEW t, NEW u, StaysUp(s, t, n), StaysUp(t, u, n) PROVE StaysUp(s, u, n)
    <2>1. t \in TCBs /\ u \in TCBs /\ Later(s, t) /\ Later(t, u)
      BY <1>3, Zenon DEF StaysUp, SoundTCB
    <2>2. Later(s, u)  BY <1>1, <2>1, LaterOrder
    <2> QED BY <1>3, <2>2, Zenon DEF StaysUp
  <1>4. ASSUME NEW t, StaysUp(s, t, n) PROVE CarriesOn(s, t, n)
    BY <1>4, Zenon DEF StaysUp, CarriesOn
  <1> QED BY <1>2, <1>3, <1>4, Zenon

\* An assignment to other fields than the numbers.
LEMMA KeepsStaysUp ==
    ASSUME NEW s, SoundTCB(s), NEW t, SoundTCB(t), NEW n, Conn(s, n),
           Keeps(s, t), t.smState = s.smState
    PROVE  StaysUp(s, t, n)
  <1>1. s \in TCBs /\ t \in TCBs  BY DEF SoundTCB
  <1>2. Later(s, t)  BY <1>1, KeepsLater
  <1>3. Conn(t, n)  BY <1>1, KeepsConn, Zenon DEF Conn
  <1> QED BY <1>2, <1>3, Zenon DEF StaysUp

\* A segment keeps it.
LEMMA SendStaysUp ==
    ASSUME SizesAssumption, NEW s, SoundTCB(s), NEW f, NEW m, NEW n \in Nat, Conn(s, n),
           "FIN" \in f => s.smState \in Finishing \ {"FIN_WAIT_2"},
           "SYN" \in f => s.smState = "SYN_RECEIVED"
    PROVE  StaysUp(s, SendTCP(s, f, m), n)
  <1> DEFINE t == SendTCP(s, f, m)
  <1>1. Numbered(s) /\ Received(s, n) /\ FinPending(s) /\ Streamed(s)  BY DEF Conn
  <1>2. s.smState = "FIN_WAIT_2" => "FIN" \notin f  OBVIOUS
  <1>3. /\ SoundTCB(t) /\ t.smState = s.smState /\ Numbered(t) /\ Received(t, n)
        /\ Streamed(t) /\ Acknowledged(t) /\ Later(s, t)
        /\ "FIN" \notin f => FinPending(t)
    BY <1>1, <1>2, SendCarries
  <1> HIDE DEF t
  <1>4. FinPending(t)  BY <1>3 DEF FinPending
  <1>5. StaysUp(s, t, n)  BY <1>3, <1>4, Zenon DEF StaysUp, Conn
  <1> QED BY <1>5 DEF t

\* A new state before the FIN of a socket that closes its side, or after it.
LEMMA CloseStaysUp ==
    ASSUME SizesAssumption, NEW s, SoundTCB(s), NEW m, NEW n \in Nat, Conn(s, n),
           s.smState # "FIN_WAIT_2", NEW st \in {"FIN_WAIT_1", "LAST_ACK"}
    PROVE  /\ StaysUp(s, SendTCP([s EXCEPT !.smState = st], {"FIN", "ACK"}, m), n)
           /\ StaysUp(s, [SendTCP(s, {"FIN", "ACK"}, m) EXCEPT !.smState = st], n)
  <1> DEFINE c == [s EXCEPT !.smState = st]
             t == SendTCP(c, {"FIN", "ACK"}, m)
             v == SendTCP(s, {"FIN", "ACK"}, m)
             w == [v EXCEPT !.smState = st]
  <1>0. s \in TCBs /\ st \in States /\ st \in Finishing /\ st # "FIN_WAIT_2" /\ st # "CLOSE_WAIT"
        /\ st # "SYN_RECEIVED" /\ st \notin {"ESTABLISHED", "CLOSE_WAIT"}
    BY DEF SoundTCB, States, Finishing
  <1>1. Numbered(s) /\ Received(s, n) /\ FinPending(s) /\ Streamed(s)  BY DEF Conn
  <1>2. Offset(s) = 1 + One(s.bFINSent) /\ s.bSYNSent  BY <1>1 DEF Numbered
  <1>3. SoundTCB(c) /\ c.smState = st /\ c \in TCBs  BY <1>0, SetState, StateSet, Zenon DEF SoundTCB
  <1>4. /\ c.MySEQ = s.MySEQ /\ c.txUnackedTail = s.txUnackedTail /\ c.txTail = s.txTail
        /\ c.bSYNSent = s.bSYNSent /\ c.bFINSent = s.bFINSent /\ c.bTXFIN = s.bTXFIN
        /\ c.sent = s.sent /\ c.txHead = s.txHead /\ c.remoteWindow = s.remoteWindow
        /\ c.RemoteSEQ = s.RemoteSEQ /\ c.lastAck = s.lastAck
        /\ c.bDelayedACKTimerEnabled = s.bDelayedACKTimerEnabled
        /\ c.sHoleSize = s.sHoleSize /\ c.wFutureDataSize = s.wFutureDataSize
    BY <1>0, Zenon DEF TCBs
  <1> HIDE DEF c
  <1>5. Keeps(s, c)  BY <1>0, <1>4, SameNumbers
  <1>6. Later(s, c)  BY <1>0, <1>3, <1>5, KeepsLater
  <1>7. Numbered(c)
    <2>1. Offset(c) = Offset(s)  BY <1>4, Zenon DEF Offset
    <2> QED BY <1>2, <1>4, <2>1, Zenon DEF Numbered
  <1>8. Received(c, n)  BY <1>1, <1>4, Zenon DEF Received
  <1>9. /\ c.smState = "FIN_WAIT_2" => "FIN" \notin {"FIN", "ACK"}
        /\ "SYN" \notin {"FIN", "ACK"}
    BY <1>0, <1>3
  <1>9a. FinPending(c)  BY <1>0, <1>3, Zenon DEF FinPending
  <1>9b. Streamed(c)
    <2>1. KeepsSent(s, c)  BY <1>4, Zenon DEF KeepsSent
    <2> QED BY <1>0, <1>1, <1>3, <2>1, KeepsStreamed, Zenon
  <1>10. StaysUp(s, t, n)
    <2>1. /\ SoundTCB(t) /\ t.smState = c.smState /\ Numbered(t) /\ Received(t, n)
          /\ Streamed(t) /\ Acknowledged(t) /\ Later(c, t)
      BY <1>3, <1>7, <1>8, <1>9, <1>9a, <1>9b, SendCarries
    <2> HIDE DEF t
    <2>2. FinPending(t)  BY <1>0, <1>3, <2>1 DEF FinPending
    <2>3. Later(s, t)  BY <1>0, <1>3, <1>6, <2>1, LaterOrder DEF SoundTCB
    <2> QED BY <2>1, <2>2, <2>3, Zenon DEF StaysUp, Conn
  <1>11. StaysUp(s, w, n)
    <2>1. /\ SoundTCB(v) /\ v.smState = s.smState /\ Numbered(v) /\ Received(v, n) /\ Later(s, v)
          /\ Streamed(v) /\ v.txHead = s.txHead
      <3>1. "SYN" \notin {"FIN", "ACK"}  OBVIOUS
      <3> QED BY <1>1, <3>1, SendCarries
    <2>2. ~v.bDelayedACKTimerEnabled /\ v.lastAck = v.RemoteSEQ
      BY SendTCPNumbers
    <2> HIDE DEF v
    <2>3. v \in TCBs  BY <2>1 DEF SoundTCB
    <2>4. SoundTCB(w) /\ w.smState = st /\ w \in TCBs
      BY <1>0, <2>1, SetState, StateSet, Zenon DEF SoundTCB
    <2>5. /\ w.MySEQ = v.MySEQ /\ w.txUnackedTail = v.txUnackedTail /\ w.txTail = v.txTail
          /\ w.bSYNSent = v.bSYNSent /\ w.bFINSent = v.bFINSent /\ w.bTXFIN = v.bTXFIN
          /\ w.sent = v.sent /\ w.txHead = v.txHead /\ w.remoteWindow = v.remoteWindow
          /\ w.RemoteSEQ = v.RemoteSEQ /\ w.lastAck = v.lastAck
          /\ w.bDelayedACKTimerEnabled = v.bDelayedACKTimerEnabled
          /\ w.sHoleSize = v.sHoleSize /\ w.wFutureDataSize = v.wFutureDataSize
      BY <2>3, Zenon DEF TCBs
    <2> HIDE DEF w
    <2>6. Numbered(w)
      <3>1. Offset(w) = Offset(v)  BY <2>5, Zenon DEF Offset
      <3>2. Offset(v) = 1 + One(v.bFINSent) /\ v.bSYNSent  BY <2>1 DEF Numbered
      <3> QED BY <2>5, <3>1, <3>2, Zenon DEF Numbered
    <2>7. Received(w, n)  BY <2>1, <2>5, Zenon DEF Received
    <2>8. Acknowledged(w)  BY <2>2, <2>5, Zenon DEF Acknowledged
    <2>9. FinPending(w)  BY <1>0, <2>4, Zenon DEF FinPending
    <2>10. Later(s, w)  BY <1>0, <2>1, <2>4, <2>5, Zenon DEF Later
    <2>11. Streamed(w)
      <3>1. KeepsSent(v, w)  BY <2>5, Zenon DEF KeepsSent
      <3> QED BY <1>0, <2>1, <2>4, <3>1, KeepsStreamed, Zenon
    <2> QED BY <2>4, <2>6, <2>7, <2>8, <2>9, <2>10, <2>11, Zenon DEF StaysUp, Conn
  <1> QED BY <1>10, <1>11 DEF t, c, w, v

\* The first transmission of a tick.
LEMMA TickSendStaysUp ==
    ASSUME SizesAssumption, NEW s, SoundTCB(s), NEW n \in Nat, Conn(s, n),
           NEW x \in SUBSET Running(s)
    PROVE  StaysUp(s, TickSend(s, x), n)
  <1> DEFINE m == IF "ASAP" \in x /\ s.bTXASAPWithoutTimerReset THEN "NONE" ELSE "RESET_TIMERS"
             t == SendTCP([s EXCEPT !.smState = "LAST_ACK"], {"FIN", "ACK"}, m)
  <1>1. "CloseWait" \in x => s.smState = "CLOSE_WAIT"  BY DEF Running
  <1>2. \/ TickSend(s, x) \in {s, SendTCP(s, {"ACK"}, m)}
        \/ "CloseWait" \in x /\ TickSend(s, x) = t
    BY Zenon DEF TickSend
  <1> HIDE DEF m
  <1>3. StaysUp(s, s, n)  BY StaysUpOrder
  <1>4. StaysUp(s, SendTCP(s, {"ACK"}, m), n)
    <2>1. "FIN" \notin {"ACK"} /\ "SYN" \notin {"ACK"}  OBVIOUS
    <2> QED BY <2>1, SendStaysUp
  <1>5. "CloseWait" \in x => StaysUp(s, t, n)
    <2>1. ASSUME s.smState = "CLOSE_WAIT" PROVE StaysUp(s, t, n)
      <3>1. s.smState # "FIN_WAIT_2" /\ "LAST_ACK" \in {"FIN_WAIT_1", "LAST_ACK"}  BY <2>1
      <3> QED BY <3>1, CloseStaysUp, Zenon
    <2> HIDE DEF t
    <2> QED BY <1>1, <2>1
  <1> HIDE DEF t
  <1> QED BY <1>2, <1>3, <1>4, <1>5, Zenon

\* A retransmission: the data and its numbers are rolled back together.
LEMMA RetryStaysUp ==
    ASSUME SizesAssumption, NEW s, SoundTCB(s), NEW n \in Nat, Conn(s, n), NEW f,
           "FIN" \in f => s.smState \in {"FIN_WAIT_1", "LAST_ACK"},
           "SYN" \in f => s.smState = "SYN_RECEIVED"
    PROVE  StaysUp(s, Retry(s, f), n)
  <1> DEFINE k == (s.retryCount + 1) % BYTE
             t == [s EXCEPT !.retryCount = k]
             r == RollBack(t)
             u == SendTCP(r, f, "NONE")
  <1>1. s \in TCBs  BY DEF SoundTCB
  <1>2. k \in 0..(BYTE - 1)  BY <1>1 DEF TCBs, BYTE
  <1>3. Retry(s, f) = u  BY Zenon DEF Retry
  <1> HIDE DEF k
  <1>4. SoundTCB(t)  BY <1>2, SetRetryCount, Zenon
  <1>5. /\ t.MySEQ = s.MySEQ /\ t.txUnackedTail = s.txUnackedTail /\ t.txTail = s.txTail
        /\ t.bSYNSent = s.bSYNSent /\ t.bFINSent = s.bFINSent /\ t.bTXFIN = s.bTXFIN
        /\ t.sent = s.sent /\ t.txHead = s.txHead /\ t.remoteWindow = s.remoteWindow
        /\ t.RemoteSEQ = s.RemoteSEQ /\ t.lastAck = s.lastAck
        /\ t.bDelayedACKTimerEnabled = s.bDelayedACKTimerEnabled
        /\ t.sHoleSize = s.sHoleSize /\ t.wFutureDataSize = s.wFutureDataSize
        /\ t.smState = s.smState
    BY <1>1, Zenon DEF TCBs
  <1> HIDE DEF t
  <1>6. StaysUp(s, t, n)
    <2>1. Keeps(s, t)  BY <1>1, <1>5, SameNumbers
    <2> QED BY <1>4, <1>5, <2>1, KeepsStaysUp
  <1>7. SoundTCB(r) /\ Keeps(t, r) /\ r.smState = t.smState
    BY <1>4, RollBackSound, RollBackKeeps DEF SoundTCB
  <1> HIDE DEF r
  <1>8. Conn(t, n)  BY <1>6 DEF StaysUp
  <1>9. StaysUp(t, r, n)  BY <1>4, <1>7, <1>8, KeepsStaysUp
  <1>10. Conn(r, n)  BY <1>9 DEF StaysUp
  <1>11. /\ "FIN" \in f => r.smState \in Finishing \ {"FIN_WAIT_2"}
         /\ "SYN" \in f => r.smState = "SYN_RECEIVED"
    BY <1>5, <1>7 DEF Finishing
  <1>12. StaysUp(r, u, n)  BY <1>7, <1>10, <1>11, SendStaysUp
  <1> HIDE DEF u
  <1>13. StaysUp(t, u, n)  BY <1>4, <1>9, <1>12, StaysUpOrder
  <1>14. StaysUp(s, u, n)  BY <1>6, <1>13, StaysUpOrder
  <1> QED BY <1>3, <1>14

\* TCPDisconnect(): a FIN, or the end.
LEMMA DisconnectCarries ==
    ASSUME SizesAssumption, NEW s, SoundTCB(s), NEW n \in Nat, Conn(s, n)
    PROVE  CarriesOn(s, Disconnect(s), n)
  <1> DEFINE r == [s EXCEPT !.rxCount = 0]
             t == SendTCP(r, {"FIN", "ACK"}, "RESET_TIMERS")
  <1>1. s \in TCBs /\ RxSize \in Nat  BY DEF SoundTCB, SizesAssumption
  <1>2. 0 \in Nat /\ 0 <= s.rxCount  BY <1>1 DEF TCBs
  <1>3. SoundTCB(r)  BY <1>1, <1>2, SetRxCount
  <1>4. /\ r.MySEQ = s.MySEQ /\ r.txUnackedTail = s.txUnackedTail /\ r.txTail = s.txTail
        /\ r.bSYNSent = s.bSYNSent /\ r.bFINSent = s.bFINSent /\ r.bTXFIN = s.bTXFIN
        /\ r.sent = s.sent /\ r.txHead = s.txHead /\ r.remoteWindow = s.remoteWindow
        /\ r.RemoteSEQ = s.RemoteSEQ /\ r.lastAck = s.lastAck
        /\ r.bDelayedACKTimerEnabled = s.bDelayedACKTimerEnabled
        /\ r.sHoleSize = s.sHoleSize /\ r.wFutureDataSize = s.wFutureDataSize
        /\ r.smState = s.smState
    BY <1>1, Zenon DEF TCBs
  <1>5. \/ r.smState \in {"SYN_RECEIVED", "ESTABLISHED"}
           /\ Disconnect(s) = [t EXCEPT !.smState = "FIN_WAIT_1"]
        \/ r.smState = "CLOSE_WAIT" /\ Disconnect(s) = [t EXCEPT !.smState = "LAST_ACK"]
        \/ r.smState \notin {"SYN_RECEIVED", "ESTABLISHED", "CLOSE_WAIT"}
    BY DEF Disconnect
  <1> HIDE DEF r
  <1>6. StaysUp(s, r, n)
    <2>1. Keeps(s, r)  BY <1>1, <1>4, SameNumbers
    <2> QED BY <1>3, <1>4, <2>1, KeepsStaysUp
  <1>7. Conn(r, n)  BY <1>6 DEF StaysUp
  <1>8. ASSUME r.smState # "FIN_WAIT_2"
        PROVE  /\ StaysUp(s, [t EXCEPT !.smState = "FIN_WAIT_1"], n)
               /\ StaysUp(s, [t EXCEPT !.smState = "LAST_ACK"], n)
    <2>1. /\ StaysUp(r, [t EXCEPT !.smState = "FIN_WAIT_1"], n)
          /\ StaysUp(r, [t EXCEPT !.smState = "LAST_ACK"], n)
      <3>1. "FIN_WAIT_1" \in {"FIN_WAIT_1", "LAST_ACK"} /\ "LAST_ACK" \in {"FIN_WAIT_1", "LAST_ACK"}
        OBVIOUS
      <3> QED BY <1>3, <1>7, <1>8, <3>1, CloseStaysUp, Zenon
    <2> HIDE DEF t
    <2> QED BY <1>6, <2>1, StaysUpOrder
  <1>9. CASE r.smState \in {"SYN_RECEIVED", "ESTABLISHED", "CLOSE_WAIT"}
    <2> HIDE DEF t
    <2>1. StaysUp(s, Disconnect(s), n)  BY <1>5, <1>8, <1>9
    <2> QED BY <2>1, StaysUpOrder
  <1>10. CASE r.smState \notin {"SYN_RECEIVED", "ESTABLISHED", "CLOSE_WAIT"}
    <2>1. Listens(Disconnect(s))  BY <1>4, <1>10, DisconnectState
    <2> QED BY <2>1 DEF CarriesOn
  <1> QED BY <1>9, <1>10
-----------------------------------------------------------------------------
(* The actions.                                                            *)

\* One pass of TCPTick() over a connection.
LEMMA TickCarries ==
    ASSUME SizesAssumption, SoundTCB(tcb), NEW n \in Nat, Conn(tcb, n),
           NEW x \in SUBSET Running(tcb), Tick(x)
    PROVE  CarriesOn(tcb, tcb', n)
  <1> DEFINE s == TickSend(tcb, x)
             g == [s EXCEPT !.smState = "FIN_WAIT_1"]
             k == SendTCP(s, {"ACK"}, "KEEP_ALIVE")
  <1>1. StaysUp(tcb, s, n)  BY TickSendStaysUp
  <1> HIDE DEF s
  <1>2. SoundTCB(s) /\ Conn(s, n) /\ s \in TCBs  BY <1>1 DEF StaysUp, SoundTCB
  <1>3. ASSUME StaysUp(s, tcb', n) PROVE CarriesOn(tcb, tcb', n)
    BY <1>1, <1>3, StaysUpOrder
  <1>4. CASE TickOnly(x)
    <2>1. tcb' = s  BY <1>4, Zenon DEF TickOnly, s
    <2> QED BY <1>2, <1>3, <2>1, StaysUpOrder
  <1>5. CASE TickKeepAlive(x)
    <2> DEFINE t == [k EXCEPT !.due = FALSE]
    <2>1. tcb' = t  BY <1>5, Zenon DEF TickKeepAlive, s, k
    <2>2. StaysUp(s, k, n)
      <3>1. "FIN" \notin {"ACK"} /\ "SYN" \notin {"ACK"}  OBVIOUS
      <3> QED BY <1>2, <3>1, SendStaysUp
    <2> HIDE DEF k
    <2>3. SoundTCB(k) /\ k \in TCBs /\ Conn(k, n)  BY <2>2 DEF StaysUp, SoundTCB
    <2>4. SoundTCB(t)  BY <2>3, SetDue, Zenon
    <2>5. /\ t.MySEQ = k.MySEQ /\ t.txUnackedTail = k.txUnackedTail /\ t.txTail = k.txTail
          /\ t.bSYNSent = k.bSYNSent /\ t.bFINSent = k.bFINSent /\ t.bTXFIN = k.bTXFIN
          /\ t.sent = k.sent /\ t.txHead = k.txHead /\ t.remoteWindow = k.remoteWindow
          /\ t.RemoteSEQ = k.RemoteSEQ /\ t.lastAck = k.lastAck
          /\ t.bDelayedACKTimerEnabled = k.bDelayedACKTimerEnabled
          /\ t.sHoleSize = k.sHoleSize /\ t.wFutureDataSize = k.wFutureDataSize
          /\ t.smState = k.smState
      BY <2>3, Zenon DEF TCBs
    <2> HIDE DEF t
    <2>6. Keeps(k, t)  BY <2>3, <2>5, SameNumbers
    <2>7. StaysUp(k, t, n)  BY <2>3, <2>4, <2>5, <2>6, KeepsStaysUp
    <2>8. StaysUp(s, t, n)  BY <1>2, <2>2, <2>7, StaysUpOrder
    <2> QED BY <1>3, <2>1, <2>8
  <1>6. CASE TickPeerLost(x)
    <2> DEFINE d == Disconnect(s)
    <2>1. s.smState = "ESTABLISHED" /\ tcb' = Disconnect(d)
      BY <1>6, Zenon DEF TickPeerLost, KeepAliveDue, s
    <2>2. SoundTCB(d) /\ d.smState = "FIN_WAIT_1"
      <3>1. SoundTCB(d)  BY <1>2, DisconnectSound, Zenon
      <3> QED BY <1>2, <2>1, <3>1, DisconnectState
    <2> HIDE DEF d
    <2>3. Listens(tcb')  BY <2>1, <2>2, DisconnectState
    <2> QED BY <2>3 DEF CarriesOn
  <1>7. CASE TickRetry(x)
    <2>1. PICK f : /\ tcb' = Retry(s, f)
                   /\ "FIN" \in f => s.smState \in {"FIN_WAIT_1", "LAST_ACK"}
                   /\ "SYN" \in f => s.smState = "SYN_RECEIVED"
      <3>1. /\ "FIN" \notin {"ACK"} /\ "FIN" \notin {"SYN", "ACK"}
            /\ "SYN" \notin {"ACK"} /\ "SYN" \notin {"FIN", "ACK"}
        OBVIOUS
      <3> QED BY <1>7, <3>1, Zenon DEF TickRetry, s
    <2>2. StaysUp(s, Retry(s, f), n)  BY <1>2, <2>1, RetryStaysUp
    <2> QED BY <1>3, <2>1, <2>2
  <1>8. CASE TickGiveUp(x)
    <2> DEFINE t == SendTCP(g, {"FIN", "ACK"}, "RESET_TIMERS")
    <2>1. s.smState \in {"ESTABLISHED", "CLOSE_WAIT"} /\ tcb' = t
      BY <1>8, Zenon DEF TickGiveUp, s
    <2>2. s.smState # "FIN_WAIT_2" /\ "FIN_WAIT_1" \in {"FIN_WAIT_1", "LAST_ACK"}  BY <2>1
    <2>3. StaysUp(s, t, n)  BY <1>2, <2>2, CloseStaysUp, Zenon
    <2> HIDE DEF t
    <2> QED BY <1>3, <2>1, <2>3
  <1>9. CASE TickAbort(x)
    <2>1. tcb' = Abort(s)  BY <1>9, Zenon DEF TickAbort, s
    <2> QED BY <1>2, <2>1, AbortState, Zenon DEF CarriesOn
  <1> QED BY <1>4, <1>5, <1>6, <1>7, <1>8, <1>9, Zenon DEF Tick

\* What the API does to a connection in passing.
LEMMA FlushStaysUp ==
    ASSUME SizesAssumption, NEW s, SoundTCB(s), NEW n \in Nat, Conn(s, n)
    PROVE  /\ StaysUp(s, Flush(s), n)
           /\ StaysUp(s, Timer2(s), n)
           /\ \A space : StaysUp(s, HalfFull(s, space), n)
  <1>1. s \in TCBs /\ "FIN" \notin {"ACK"} /\ "SYN" \notin {"ACK"} /\ TRUE \in BOOLEAN  BY DEF SoundTCB
  <1>2. StaysUp(s, s, n)  BY StaysUpOrder
  <1>3. StaysUp(s, Flush(s), n)
    <2>1. StaysUp(s, SendTCP(s, {"ACK"}, "RESET_TIMERS"), n)  BY <1>1, SendStaysUp
    <2> QED BY <1>2, <2>1, Zenon DEF Flush
  <1>4. StaysUp(s, Timer2(s), n)
    <2> DEFINE t == Timer2(s)
    <2>1. SoundTCB(t)  BY <1>1, SetTimer2, Zenon DEF Timer2
    <2>2. /\ t.MySEQ = s.MySEQ /\ t.txUnackedTail = s.txUnackedTail /\ t.txTail = s.txTail
          /\ t.bSYNSent = s.bSYNSent /\ t.bFINSent = s.bFINSent /\ t.bTXFIN = s.bTXFIN
          /\ t.sent = s.sent /\ t.txHead = s.txHead /\ t.remoteWindow = s.remoteWindow
          /\ t.RemoteSEQ = s.RemoteSEQ /\ t.lastAck = s.lastAck
          /\ t.bDelayedACKTimerEnabled = s.bDelayedACKTimerEnabled
          /\ t.sHoleSize = s.sHoleSize /\ t.wFutureDataSize = s.wFutureDataSize
          /\ t.smState = s.smState
      BY <1>1, Zenon DEF TCBs, Timer2
    <2> HIDE DEF t
    <2>3. Keeps(s, t)  BY <1>1, <2>2, SameNumbers
    <2>4. StaysUp(s, t, n)  BY <2>1, <2>2, <2>3, KeepsStaysUp
    <2> QED BY <2>4 DEF t
  <1>5. ASSUME NEW space PROVE StaysUp(s, HalfFull(s, space), n)
    <2> DEFINE f == Flush(s)
               t == [f EXCEPT !.bHalfFullFlush = TRUE]
    <2>1. HalfFull(s, space) = s \/ HalfFull(s, space) = t  BY Zenon DEF HalfFull
    <2> HIDE DEF f
    <2>2. StaysUp(s, f, n)  BY <1>3 DEF f
    <2>3. SoundTCB(f) /\ f \in TCBs /\ Conn(f, n)  BY <2>2 DEF StaysUp, SoundTCB
    <2>4. SoundTCB(t)  BY <1>1, <2>3, SetHalfFull, Zenon
    <2>5. /\ t.MySEQ = f.MySEQ /\ t.txUnackedTail = f.txUnackedTail /\ t.txTail = f.txTail
          /\ t.bSYNSent = f.bSYNSent /\ t.bFINSent = f.bFINSent /\ t.bTXFIN = f.bTXFIN
          /\ t.sent = f.sent /\ t.txHead = f.txHead /\ t.remoteWindow = f.remoteWindow
          /\ t.RemoteSEQ = f.RemoteSEQ /\ t.lastAck = f.lastAck
          /\ t.bDelayedACKTimerEnabled = f.bDelayedACKTimerEnabled
          /\ t.sHoleSize = f.sHoleSize /\ t.wFutureDataSize = f.wFutureDataSize
          /\ t.smState = f.smState
      BY <2>3, Zenon DEF TCBs
    <2> HIDE DEF t
    <2>6. Keeps(f, t)  BY <2>3, <2>5, SameNumbers
    <2>7. StaysUp(f, t, n)  BY <2>3, <2>4, <2>5, <2>6, KeepsStaysUp
    <2>8. StaysUp(s, t, n)  BY <2>2, <2>7, StaysUpOrder
    <2> QED BY <1>2, <2>1, <2>8
  <1> QED BY <1>3, <1>4, <1>5

\* Bytes written move txHead, bytes read only what is left to read.
LEMMA WroteStaysUp ==
    ASSUME SizesAssumption, NEW s, SoundTCB(s), NEW n \in Nat, Conn(s, n),
           s.smState \in {"ESTABLISHED", "CLOSE_WAIT"},
           NEW k \in Nat, k <= TxSize - (s.txHead - s.txTail)
    PROVE  StaysUp(s, Flush(Wrote(s, k)), n) /\ StaysUp(s, Timer2(Wrote(s, k)), n)
  <1> DEFINE t == Wrote(s, k)
  <1>1. s \in TCBs  BY DEF SoundTCB
  <1>2. SoundTCB(t)  BY WroteSound
  <1>3. /\ t.MySEQ = s.MySEQ /\ t.txUnackedTail = s.txUnackedTail /\ t.txTail = s.txTail
        /\ t.bSYNSent = s.bSYNSent /\ t.bFINSent = s.bFINSent /\ t.bTXFIN = s.bTXFIN
        /\ t.sent = s.sent /\ t.txHead = s.txHead + k /\ t.remoteWindow = s.remoteWindow
        /\ t.RemoteSEQ = s.RemoteSEQ /\ t.lastAck = s.lastAck
        /\ t.bDelayedACKTimerEnabled = s.bDelayedACKTimerEnabled
        /\ t.sHoleSize = s.sHoleSize /\ t.wFutureDataSize = s.wFutureDataSize
        /\ t.smState = s.smState
    BY <1>1, Zenon DEF TCBs, Wrote
  <1> HIDE DEF t
  <1>4. s.smState \notin Finishing /\ s.smState # "FIN_WAIT_2" /\ s.smState # "SYN_RECEIVED"
    BY DEF Finishing
  <1>5. StaysUp(s, t, n)
    <2>1. Numbered(t)
      <3>1. Offset(t) = Offset(s)  BY <1>3, Zenon DEF Offset
      <3> QED BY <1>3, <1>4, <3>1, Zenon DEF Numbered, Conn
    <2>2. FinPending(t)  BY <1>3, Zenon DEF FinPending, Conn
    <2>3. Received(t, n)  BY <1>3, Zenon DEF Received, Conn
    <2>4. Acknowledged(t)  BY <1>3, Zenon DEF Acknowledged, Conn
    <2>5. Later(s, t)  BY <1>1, <1>3, <1>4, Numbers DEF Later
    <2>6. Streamed(t)
      <3>0. NoneCut(s)  BY <1>4, Zenon DEF Conn, Streamed
      <3>1. NoneCut(t)  BY <1>3, <3>0, Zenon DEF NoneCut
      <3>2. ASSUME NEW g \in t.sent PROVE Placed(g, t.txHead) /\ ~g.fin
        <4>1. g \in s.sent /\ g \in Segments /\ s.txHead \in Nat
          BY <1>1, <1>3, <3>2 DEF TCBs
        <4>2. Placed(g, s.txHead) /\ (g.fin => s.bTXFIN \/ s.smState \in Finishing)
          BY <3>0, <4>1, Zenon DEF Conn, Streamed
        <4>3. ~g.fin  BY <1>4, <4>2, Zenon DEF Conn, FinPending
        <4> QED BY <1>3, <4>1, <4>2, <4>3 DEF Placed, Segments
      <3> QED BY <1>3, <1>4, <3>1, <3>2, Zenon DEF Streamed
    <2> QED BY <1>2, <2>1, <2>2, <2>3, <2>4, <2>5, <2>6, Zenon DEF StaysUp, Conn
  <1>6. Conn(t, n)  BY <1>5 DEF StaysUp
  <1>7. StaysUp(t, Flush(t), n) /\ StaysUp(t, Timer2(t), n)  BY <1>2, <1>6, FlushStaysUp
  <1>8. StaysUp(s, Flush(t), n) /\ StaysUp(s, Timer2(t), n)  BY <1>5, <1>7, StaysUpOrder
  <1> QED BY <1>8 DEF t

\* Reading touches no number.
LEMMA ReadKeeps ==
    ASSUME NEW s, SoundTCB(s), NEW k
    PROVE  LET r == [s EXCEPT !.rxCount = k]
               t == [r EXCEPT !.bTXASAPWithoutTimerReset = TRUE]
           IN  /\ Keeps(s, r) /\ r.smState = s.smState
               /\ Keeps(s, t) /\ t.smState = s.smState
               /\ Keeps(s, Timer2(r)) /\ Timer2(r).smState = s.smState
  <1> DEFINE r == [s EXCEPT !.rxCount = k]
             t == [r EXCEPT !.bTXASAPWithoutTimerReset = TRUE]
             u == Timer2(r)
  <1>1. s \in TCBs  BY DEF SoundTCB
  <1>2. /\ r.MySEQ = s.MySEQ /\ r.txUnackedTail = s.txUnackedTail /\ r.txTail = s.txTail
        /\ r.bSYNSent = s.bSYNSent /\ r.bFINSent = s.bFINSent /\ r.bTXFIN = s.bTXFIN
        /\ r.sent = s.sent /\ r.txHead = s.txHead /\ r.remoteWindow = s.remoteWindow
        /\ r.RemoteSEQ = s.RemoteSEQ /\ r.lastAck = s.lastAck
        /\ r.bDelayedACKTimerEnabled = s.bDelayedACKTimerEnabled
        /\ r.sHoleSize = s.sHoleSize /\ r.wFutureDataSize = s.wFutureDataSize
        /\ r.smState = s.smState
    BY <1>1, Zenon DEF TCBs
  <1>3. /\ t.MySEQ = s.MySEQ /\ t.txUnackedTail = s.txUnackedTail /\ t.txTail = s.txTail
        /\ t.bSYNSent = s.bSYNSent /\ t.bFINSent = s.bFINSent /\ t.bTXFIN = s.bTXFIN
        /\ t.sent = s.sent /\ t.txHead = s.txHead /\ t.remoteWindow = s.remoteWindow
        /\ t.RemoteSEQ = s.RemoteSEQ /\ t.lastAck = s.lastAck
        /\ t.bDelayedACKTimerEnabled = s.bDelayedACKTimerEnabled
        /\ t.sHoleSize = s.sHoleSize /\ t.wFutureDataSize = s.wFutureDataSize
        /\ t.smState = s.smState
    BY <1>1, Zenon DEF TCBs
  <1>4. /\ u.MySEQ = s.MySEQ /\ u.txUnackedTail = s.txUnackedTail /\ u.txTail = s.txTail
        /\ u.bSYNSent = s.bSYNSent /\ u.bFINSent = s.bFINSent /\ u.bTXFIN = s.bTXFIN
        /\ u.sent = s.sent /\ u.txHead = s.txHead /\ u.remoteWindow = s.remoteWindow
        /\ u.RemoteSEQ = s.RemoteSEQ /\ u.lastAck = s.lastAck
        /\ u.bDelayedACKTimerEnabled = s.bDelayedACKTimerEnabled
        /\ u.sHoleSize = s.sHoleSize /\ u.wFutureDataSize = s.wFutureDataSize
        /\ u.smState = s.smState
    BY <1>1, Zenon DEF TCBs, Timer2
  <1> HIDE DEF r, t, u
  <1>5. Keeps(s, r) /\ Keeps(s, t) /\ Keeps(s, u)  BY <1>1, <1>2, <1>3, <1>4, SameNumbers
  <1> QED BY <1>2, <1>3, <1>4, <1>5 DEF t, u, r

\* Every API call carries a connection on or closes it.
LEMMA ApplicationCarries ==
    ASSUME SizesAssumption, SoundTCB(tcb), NEW n \in Nat, Conn(tcb, n), Bound, Application
    PROVE  CarriesOn(tcb, tcb', n)
  <1>0. tcb \in TCBs /\ Sound(tcb) /\ SoundTCB(tcb')  BY ApplicationSound DEF SoundTCB
  <1>00. ASSUME StaysUp(tcb, tcb', n) PROVE CarriesOn(tcb, tcb', n)  BY <1>00, StaysUpOrder
  <1>01. ASSUME Keeps(tcb, tcb'), tcb'.smState = tcb.smState PROVE CarriesOn(tcb, tcb', n)
    BY <1>0, <1>00, <1>01, KeepsStaysUp
  <1>1. CASE TCPOpen  BY <1>1 DEF TCPOpen, Bound
  <1>2. CASE TCPDisconnect
    <2>1. tcb' = Disconnect(tcb)  BY <1>2, Zenon DEF TCPDisconnect
    <2> QED BY <2>1, DisconnectCarries, Zenon
  <1>3. CASE TCPWasReset
    <2> DEFINE t == [tcb EXCEPT !.bSocketReset = FALSE]
    <2>1. tcb' = t  BY <1>3, Zenon DEF TCPWasReset
    <2>2. /\ t.MySEQ = tcb.MySEQ /\ t.txUnackedTail = tcb.txUnackedTail /\ t.txTail = tcb.txTail
          /\ t.bSYNSent = tcb.bSYNSent /\ t.bFINSent = tcb.bFINSent /\ t.bTXFIN = tcb.bTXFIN
          /\ t.sent = tcb.sent /\ t.txHead = tcb.txHead /\ t.remoteWindow = tcb.remoteWindow
          /\ t.RemoteSEQ = tcb.RemoteSEQ /\ t.lastAck = tcb.lastAck
          /\ t.bDelayedACKTimerEnabled = tcb.bDelayedACKTimerEnabled
          /\ t.sHoleSize = tcb.sHoleSize /\ t.wFutureDataSize = tcb.wFutureDataSize
          /\ t.smState = tcb.smState
      BY <1>0, Zenon DEF TCBs
    <2> HIDE DEF t
    <2>3. Keeps(tcb, t)  BY <1>0, <2>2, SameNumbers
    <2> QED BY <1>01, <2>1, <2>2, <2>3, Zenon
  <1>4. CASE TCPFlush
    <2>1. StaysUp(tcb, Flush(tcb), n)  BY FlushStaysUp
    <2> QED BY <1>00, <1>4, <2>1, Zenon DEF TCPFlush
  <1>5. CASE TCPPut
    <2> DEFINE space == IsPutReady(tcb)
               first == IF space = 1 THEN Flush(tcb) ELSE tcb
               half  == HalfFull(first, space)
               s     == Wrote(half, 1)
    <2>1. space > 0 /\ tcb' \in {Flush(s), Timer2(s)}  BY <1>5, Zenon DEF TCPPut
    <2>2. \/ /\ space = TxSize - (tcb.txHead - tcb.txTail)
             /\ tcb.smState \in {"ESTABLISHED", "CLOSE_WAIT"}
          \/ space = 0
      BY DEF IsPutReady
    <2> HIDE DEF space
    <2>3. SoundTCB(first) /\ first.txHead = tcb.txHead /\ first.txTail = tcb.txTail
          /\ first.smState = tcb.smState
      BY FlushSound, FlushState, Zenon
    <2>4. StaysUp(tcb, tcb, n) /\ StaysUp(tcb, Flush(tcb), n)  BY StaysUpOrder, FlushStaysUp
    <2>5. StaysUp(tcb, first, n)  BY <2>4, Zenon
    <2> HIDE DEF first
    <2>6. SoundTCB(half) /\ half.txHead = first.txHead /\ half.txTail = first.txTail
          /\ half.smState = first.smState
      BY <2>3, HalfFullSound, HalfFullState, Zenon
    <2>7. Conn(first, n)  BY <2>5 DEF StaysUp
    <2>8. StaysUp(first, half, n)  BY <2>3, <2>7, FlushStaysUp
    <2>9. StaysUp(tcb, half, n)  BY <2>5, <2>8, StaysUpOrder
    <2> HIDE DEF half
    <2>10. 1 \in Nat /\ 1 <= TxSize - (half.txHead - half.txTail)
           /\ half.smState \in {"ESTABLISHED", "CLOSE_WAIT"}
      BY <1>0, <2>1, <2>2, <2>3, <2>6 DEF TCBs, SizesAssumption
    <2>11. Conn(half, n)  BY <2>9 DEF StaysUp
    <2>12. StaysUp(half, Flush(s), n) /\ StaysUp(half, Timer2(s), n)
      BY <2>6, <2>10, <2>11, WroteStaysUp
    <2> HIDE DEF s
    <2>13. StaysUp(tcb, Flush(s), n) /\ StaysUp(tcb, Timer2(s), n)
      BY <2>9, <2>12, StaysUpOrder
    <2> QED BY <1>00, <2>1, <2>13, Zenon
  <1>6. ASSUME NEW len \in 1..TxSize, TCPPutArray(len) PROVE CarriesOn(tcb, tcb', n)
    <2> DEFINE space == IsPutReady(tcb)
               half  == HalfFull(tcb, space)
               k     == LesserOf(space, len)
               s     == Wrote(half, k)
    <2>1. tcb' = Flush(tcb) \/ (space # 0 /\ tcb' \in {Flush(s), Timer2(s)})
      BY <1>6, Zenon DEF TCPPutArray
    <2>2. \/ /\ space = TxSize - (tcb.txHead - tcb.txTail)
             /\ tcb.smState \in {"ESTABLISHED", "CLOSE_WAIT"}
          \/ space = 0
      BY DEF IsPutReady
    <2> HIDE DEF space
    <2>3. StaysUp(tcb, Flush(tcb), n) /\ StaysUp(tcb, half, n)  BY FlushStaysUp
    <2>4. SoundTCB(half) /\ half.txHead = tcb.txHead /\ half.txTail = tcb.txTail
          /\ half.smState = tcb.smState
      BY HalfFullSound, HalfFullState, Zenon
    <2> HIDE DEF half
    <2>5. space # 0 => /\ k \in Nat /\ k <= TxSize - (half.txHead - half.txTail)
                       /\ half.smState \in {"ESTABLISHED", "CLOSE_WAIT"}
      BY <1>0, <2>2, <2>4 DEF TCBs, SizesAssumption, LesserOf, Sound
    <2> HIDE DEF k
    <2>6. Conn(half, n)  BY <2>3 DEF StaysUp
    <2>7. space # 0 => StaysUp(half, Flush(s), n) /\ StaysUp(half, Timer2(s), n)
      BY <2>4, <2>5, <2>6, WroteStaysUp
    <2> HIDE DEF s
    <2>8. space # 0 => StaysUp(tcb, Flush(s), n) /\ StaysUp(tcb, Timer2(s), n)
      BY <2>3, <2>7, StaysUpOrder
    <2> QED BY <1>00, <2>1, <2>3, <2>8, Zenon
  <1>7. CASE TCPGet
    <2> DEFINE k == tcb.rxCount - 1
               r == [tcb EXCEPT !.rxCount = k]
               t == [r EXCEPT !.bTXASAPWithoutTimerReset = TRUE]
    <2>1. tcb' \in {t, Timer2(r)}  BY <1>7, Zenon DEF TCPGet
    <2> HIDE DEF k
    <2>2. /\ Keeps(tcb, t) /\ t.smState = tcb.smState
          /\ Keeps(tcb, Timer2(r)) /\ Timer2(r).smState = tcb.smState
      BY ReadKeeps, Zenon
    <2> HIDE DEF r, t
    <2> QED BY <1>01, <2>1, <2>2, Zenon
  <1>8. ASSUME NEW len \in 1..RxSize, TCPGetArray(len) PROVE CarriesOn(tcb, tcb', n)
    <2> DEFINE k == tcb.rxCount - LesserOf(len, tcb.rxCount)
               r == [tcb EXCEPT !.rxCount = k]
               t == [r EXCEPT !.bTXASAPWithoutTimerReset = TRUE]
    <2>1. tcb' \in {t, Timer2(r)}  BY <1>8, Zenon DEF TCPGetArray, Read
    <2> HIDE DEF k
    <2>2. /\ Keeps(tcb, t) /\ t.smState = tcb.smState
          /\ Keeps(tcb, Timer2(r)) /\ Timer2(r).smState = tcb.smState
      BY ReadKeeps, Zenon
    <2> HIDE DEF r, t
    <2> QED BY <1>01, <2>1, <2>2, Zenon
  <1>9. CASE TCPDiscard
    <2> DEFINE r == [tcb EXCEPT !.rxCount = 0]
    <2>1. 0 \in Nat /\ 0 <= tcb.rxCount /\ RxSize \in Nat  BY <1>0 DEF TCBs, SizesAssumption
    <2>2. SoundTCB(r)  BY <2>1, SetRxCount
    <2>3. Keeps(tcb, r) /\ r.smState = tcb.smState  BY ReadKeeps, Zenon
    <2>4. tcb' = SendTCP(r, {"ACK"}, "RESET_TIMERS")  BY <1>9, Zenon DEF TCPDiscard
    <2> HIDE DEF r
    <2>5. StaysUp(tcb, r, n)  BY <2>2, <2>3, KeepsStaysUp
    <2>6. Conn(r, n) /\ "FIN" \notin {"ACK"} /\ "SYN" \notin {"ACK"}  BY <2>5 DEF StaysUp
    <2>7. StaysUp(r, SendTCP(r, {"ACK"}, "RESET_TIMERS"), n)  BY <2>2, <2>6, SendStaysUp
    <2>8. StaysUp(tcb, tcb', n)  BY <2>4, <2>5, <2>7, StaysUpOrder, Zenon
    <2> QED BY <1>00, <2>8
  <1> QED BY <1>1, <1>2, <1>3, <1>4, <1>5, <1>6, <1>7, <1>8, <1>9, Zenon DEF Application
-----------------------------------------------------------------------------
(* A connection begins.                                                    *)

\* The answer to a SYN leaves MySEQ one ahead of an empty FIFO, and the remote
\* SYN acknowledged.
LEMMA SynNumbers ==
    ASSUME SizesAssumption, NEW s, SoundTCB(s), s.MySEQ = 0, s.txUnackedTail = 0,
           s.txHead = 0, s.sent = {}, s.RemoteSEQ = 1,
           s.sHoleSize = NoHole, ~s.bSYNSent, ~s.bFINSent, ~s.bTXFIN, NEW m
    PROVE  LET t == SendTCP(s, {"SYN", "ACK"}, m)
           IN  /\ SoundTCB(t) /\ t.smState = s.smState
               /\ Offset(t) = 1 /\ t.bSYNSent /\ ~t.bFINSent /\ ~t.bTXFIN
               /\ t.RemoteSEQ = 1 /\ t.lastAck = 1 /\ t.sHoleSize = NoHole
               /\ ~t.bDelayedACKTimerEnabled
               /\ t.txHead = 0 /\ \A g \in t.sent : Placed(g, 0) /\ ~g.fin /\ ~g.cut
  <1> DEFINE f == {"SYN", "ACK"}
             t == SendTCP(s, f, m)
  <1>1. SoundTCB(t)  BY SendTCPSound, Zenon
  <1>1a. t.txHead = 0  BY SendTCPNumbers
  <1>1b. ASSUME NEW g \in t.sent PROVE Placed(g, 0) /\ ~g.fin /\ ~g.cut
    <2>1. ~SendsData(f)  BY DEF SendsData
    <2>2. SentLen(s, f) = 0 /\ ~SentFIN(s, f)  BY <2>1 DEF SentLen, SentFIN
    <2>3. t.sent = IF SentLen(s, f) > 0 \/ "SYN" \in f \/ SentFIN(s, f)
                   THEN s.sent \union {SentSegment(s, f)} ELSE s.sent
      BY SendTCPSent
    <2>4. g = SentSegment(s, f)
      <3> HIDE DEF t, f
      <3> QED BY <1>1b, <2>3
    <2>5. One("SYN" \in f /\ s.bSYNSent) = 0 /\ One(SentFIN(s, f) /\ s.bFINSent) = 0
          /\ One("SYN" \in f) = 1
      BY <2>2, OneNat
    <2>6. /\ g.seq = 0 /\ g.off = 0 /\ g.len = 0 /\ g.syn = ("SYN" \in f) /\ ~g.fin
      BY <2>2, <2>4, <2>5 DEF SentSegment
    <2>7. ~g.cut
      <3>1. g.cut = (SentLen(s, f) > 0 /\ s.bFINSent /\ ~SentFIN(s, f))
        BY <2>4, Zenon DEF SentSegment
      <3> QED BY <3>1
    <2>8. Placed(g, 0)  BY <2>5, <2>6 DEF Placed
    <2> QED BY <2>6, <2>7, <2>8
  <1>2. "SYN" \in f /\ "FIN" \notin f  OBVIOUS
  <1> HIDE DEF f
  <1>3. /\ t.RemoteSEQ = s.RemoteSEQ /\ t.lastAck = s.RemoteSEQ
        /\ ~t.bDelayedACKTimerEnabled /\ t.sHoleSize = s.sHoleSize /\ t.smState = s.smState
        /\ t.bTXFIN <=> s.bTXFIN \/ "FIN" \in f
        /\ t.bSYNSent <=> s.bSYNSent \/ "SYN" \in f
        /\ Offset(t) - One(t.bFINSent) =
             Offset(s) - One(s.bFINSent) + One("SYN" \in f /\ ~s.bSYNSent)
    BY SendTCPNumbers
  <1> HIDE DEF t
  <1>4. ~t.bTXFIN /\ t.bSYNSent  BY <1>2, <1>3, Zenon
  <1>5. ~t.bFINSent  BY <1>1, <1>4, Zenon DEF SoundTCB, Sound
  <1>6. One(t.bFINSent) = 0 /\ One(s.bFINSent) = 0 /\ One("SYN" \in f /\ ~s.bSYNSent) = 1
    BY <1>2, <1>5, OneNat
  <1>7. Offset(t) \in Int  BY <1>1, Numbers DEF SoundTCB
  <1>8. Offset(t) = 1
    <2>1. Offset(s) = 0  BY DEF Offset
    <2> QED BY <1>3, <1>6, <1>7, <2>1
  <1>9. \A g \in t.sent : Placed(g, 0) /\ ~g.fin /\ ~g.cut  BY <1>1b, Zenon
  <1> QED BY <1>1, <1>1a, <1>3, <1>4, <1>5, <1>8, <1>9 DEF t, f

\* Whatever the remote node goes on to send.
LEMMA SynConn ==
    ASSUME SizesAssumption, SoundTCB(tcb), Idle(tcb), ListenSYN \/ TickServeSYN, NEW n \in Nat
    PROVE  Conn(tcb', n)
  <1> DEFINE New(t) == /\ t.smState = "SYN_RECEIVED"
                       /\ Offset(t) = 1 /\ t.bSYNSent /\ ~t.bFINSent /\ ~t.bTXFIN
                       /\ t.RemoteSEQ = 1 /\ t.lastAck = 1 /\ t.sHoleSize = NoHole
                       /\ ~t.bDelayedACKTimerEnabled
                       /\ t.txHead = 0 /\ \A g \in t.sent : Placed(g, 0) /\ ~g.fin /\ ~g.cut
             Fresh(s) == /\ SoundTCB(s) /\ s.MySEQ = 0 /\ s.txUnackedTail = 0 /\ s.RemoteSEQ = 1
                         /\ s.txHead = 0 /\ s.sent = {} /\ s.sHoleSize = NoHole /\ ~s.bSYNSent /\ ~s.bFINSent /\ ~s.bTXFIN
  <1>1. ASSUME NEW t, New(t) PROVE Conn(t, n)
    <2>1. One(t.bFINSent) = 0  BY <1>1, OneNat
    <2>2. Numbered(t)  BY <1>1, <2>1 DEF Numbered
    <2>3. FinPending(t)  BY <1>1 DEF FinPending
    <2>4. Received(t, n)  BY <1>1 DEF Received
    <2>5. Acknowledged(t)  BY <1>1 DEF Acknowledged
    <2>6. Streamed(t)
      <3>1. NoneCut(t)  BY <1>1, Zenon DEF NoneCut
      <3> QED BY <1>1, <3>1, Zenon DEF Streamed
    <2> QED BY <2>2, <2>3, <2>4, <2>5, <2>6 DEF Conn
  <1>2. ASSUME NEW s, Fresh(s)
        PROVE  LET t == SendTCP(s, {"SYN", "ACK"}, "RESET_TIMERS")
               IN  /\ SoundTCB(t) /\ t.smState = s.smState
                   /\ Offset(t) = 1 /\ t.bSYNSent /\ ~t.bFINSent /\ ~t.bTXFIN
                   /\ t.RemoteSEQ = 1 /\ t.lastAck = 1 /\ t.sHoleSize = NoHole
                   /\ ~t.bDelayedACKTimerEnabled
                   /\ t.txHead = 0 /\ \A g \in t.sent : Placed(g, 0) /\ ~g.fin /\ ~g.cut
    BY <1>2, SynNumbers, Zenon
  <1>3. 1 \in Nat /\ "SYN_RECEIVED" \in States  BY DEF States
  <1>4. CASE ListenSYN
    <2> DEFINE u == Heard(tcb)
               v == [u EXCEPT !.RemoteSEQ = 1]
               w == SendTCP(v, {"SYN", "ACK"}, "RESET_TIMERS")
               t == [w EXCEPT !.smState = "SYN_RECEIVED"]
    <2>1. tcb' = t  BY <1>4, Zenon DEF ListenSYN
    <2>2. SoundTCB(u)  BY HeardSound, Zenon
    <2>3. /\ u.MySEQ = 0 /\ u.txUnackedTail = 0 /\ u.sHoleSize = NoHole
          /\ u.txHead = 0 /\ u.sent = {}
          /\ ~u.bSYNSent /\ ~u.bFINSent /\ ~u.bTXFIN
      BY Zenon DEF Heard, Idle, SoundTCB, TCBs
    <2> HIDE DEF u
    <2>4. SoundTCB(v)  BY <1>3, <2>2, SetRemoteSEQ, Zenon
    <2>5. Fresh(v)  BY <2>2, <2>3, <2>4, Zenon DEF SoundTCB, TCBs
    <2> HIDE DEF v
    <2>6. /\ SoundTCB(w) /\ Offset(w) = 1 /\ w.bSYNSent /\ ~w.bFINSent /\ ~w.bTXFIN
          /\ w.RemoteSEQ = 1 /\ w.lastAck = 1 /\ w.sHoleSize = NoHole
          /\ ~w.bDelayedACKTimerEnabled
          /\ w.txHead = 0 /\ \A g \in w.sent : Placed(g, 0) /\ ~g.fin /\ ~g.cut
      BY <1>2, <2>5, Zenon
    <2> HIDE DEF w
    <2>7. New(t)  BY <2>6, Zenon DEF SoundTCB, TCBs, Offset
    <2> QED BY <1>1, <2>1, <2>7, Zenon
  <1>5. CASE TickServeSYN
    <2> DEFINE r == [tcb EXCEPT !.RemoteSEQ = 1]
               v == [r EXCEPT !.smState = "SYN_RECEIVED"]
               t == SendTCP(v, {"SYN", "ACK"}, "RESET_TIMERS")
    <2>1. tcb' = t
      <3>1. v = [tcb EXCEPT !.RemoteSEQ = 1, !.smState = "SYN_RECEIVED"]  BY Zenon
      <3> QED BY <1>5, <3>1, Zenon DEF TickServeSYN
    <2>2. SoundTCB(r)  BY <1>3, SetRemoteSEQ, Zenon
    <2>3. /\ r.MySEQ = 0 /\ r.txUnackedTail = 0 /\ r.sHoleSize = NoHole /\ r.RemoteSEQ = 1
          /\ r.txHead = 0 /\ r.sent = {}
          /\ ~r.bSYNSent /\ ~r.bFINSent /\ ~r.bTXFIN
      BY Zenon DEF Idle, SoundTCB, TCBs
    <2> HIDE DEF r
    <2>4. SoundTCB(v) /\ v.smState = "SYN_RECEIVED"  BY <1>3, <2>2, SetState, StateSet, Zenon
    <2>5. Fresh(v)  BY <2>2, <2>3, <2>4, Zenon DEF SoundTCB, TCBs
    <2> HIDE DEF v
    <2>6. New(t)  BY <1>2, <2>4, <2>5, Zenon
    <2> HIDE DEF t
    <2> QED BY <1>1, <2>1, <2>6, Zenon
  <1> QED BY <1>4, <1>5

\* Nothing but a SYN binds a socket, and that is a new connection.
LEMMA UnboundStays ==
    ASSUME SizesAssumption, Inv, CleanInv, ~Bound, [Next]_vars
    PROVE  ~Bound' \/ ((ListenSYN \/ TickServeSYN) /\ conns' = conns + 1)
  <1>0. SoundTCB(tcb) /\ tcb \in TCBs /\ Idle(tcb)  BY DEF Inv, SoundTCB, CleanInv, Unbound, Bound
  <1>1. ASSUME tcb' = tcb PROVE ~Bound'  BY <1>1 DEF Bound
  <1>2. ASSUME Listens(tcb') PROVE ~Bound'  BY <1>2 DEF Listens, Bound
  <1>3. Unsent(tcb) = 0 /\ ~(Unsent(tcb) > 0)  BY <1>0 DEF Idle, Unsent
  <1>4. Flush(tcb) = tcb  BY <1>3, Zenon DEF Flush
  <1>5. tcb.rxCount = 0 /\ ~(tcb.rxCount > 0) /\ IsPutReady(tcb) = 0 /\ ~(IsPutReady(tcb) > 0)
    BY <1>0 DEF Idle, Bound, IsPutReady
  <1>6. CASE Application
    <2>1. CASE TCPOpen
      <3>1. tcb'.smState = "LISTEN"  BY <1>0, <2>1, StateSet, Zenon DEF TCPOpen
      <3> QED BY <3>1 DEF Bound
    <2>2. CASE TCPDisconnect
      <3>1. tcb.smState = "LISTEN" /\ tcb' = Disconnect(tcb)
        BY <2>2 DEF TCPDisconnect, Bound
      <3> QED BY <1>0, <1>2, <3>1, DisconnectState
    <2>3. CASE TCPWasReset
      <3>1. tcb' = [tcb EXCEPT !.bSocketReset = FALSE]  BY <2>3, Zenon DEF TCPWasReset
      <3>2. tcb'.smState = tcb.smState  BY <1>0, <3>1, Zenon DEF TCBs
      <3> QED BY <3>2 DEF Bound
    <2>4. CASE TCPFlush  BY <1>1, <1>4, <2>4, Zenon DEF TCPFlush
    <2>5. CASE TCPPut  BY <1>5, <2>5, Zenon DEF TCPPut
    <2>6. ASSUME NEW len \in 1..TxSize, TCPPutArray(len) PROVE ~Bound'
      BY <1>1, <1>4, <1>5, <2>6, Zenon DEF TCPPutArray
    <2>7. CASE TCPGet  BY <1>5, <2>7, Zenon DEF TCPGet
    <2>8. ASSUME NEW len \in 1..RxSize, TCPGetArray(len) PROVE ~Bound'
      BY <1>5, <2>8, Zenon DEF TCPGetArray
    <2>9. CASE TCPDiscard  BY <1>5, <2>9, Zenon DEF TCPDiscard
    <2> QED BY <1>6, <2>1, <2>2, <2>3, <2>4, <2>5, <2>6, <2>7, <2>8, <2>9, Zenon DEF Application
  <1>7. CASE HandleTCPSeg
    <2>1. CASE ListenSYN  BY <2>1 DEF ListenSYN
    <2>2. CASE ListenOther
      <3> DEFINE u == Heard(tcb)
      <3>2. SoundTCB(u)  BY <1>0, HeardSound, Zenon
      <3> HIDE DEF u
      <3>3. Listens(CloseSocket(u))  BY <3>2, CloseSocketState, Zenon
      <3>4. ASSUME NEW k \in 0..MaxTx
            PROVE  Listens(CloseSocket(SendTCP([u EXCEPT !.MySEQ = k], {"RST"}, "NONE")))
        <4>1. k \in Int  OBVIOUS
        <4>2. SoundTCB([u EXCEPT !.MySEQ = k])  BY <3>2, <4>1, SetMySEQ, Zenon
        <4>3. SoundTCB(SendTCP([u EXCEPT !.MySEQ = k], {"RST"}, "NONE"))
          BY <4>2, SendTCPSound, Zenon
        <4> QED BY <4>3, CloseSocketState, Zenon
      <3>5. Listens(tcb')  BY <2>2, <3>3, <3>4, Zenon DEF ListenOther, u
      <3> QED BY <1>2, <3>5
    <2>3. ASSUME NEW h, Arrives(h) PROVE FALSE  BY <2>3, Zenon DEF Arrives, Bound
    <2> QED
      BY <1>7, <2>1, <2>2, <2>3, Zenon
      DEF HandleTCPSeg, SegUnacceptable, SegReset, SegWithoutAck, SegBadSynAck, SegLastAck,
          SegAckTooHigh, SegClosing, SegFinWait2, SegProcessed, AckProcessed, AckArrives
  <1>8. CASE TCPTick
    <2>1. CASE TickServeSYN  BY <2>1 DEF TickServeSYN
    <2>2. ASSUME NEW x \in SUBSET Running(tcb), Tick(x) PROVE ~Bound'
      <3>1. x = {}  BY <1>0 DEF Running, Idle, Bound
      <3>2. TickSend(tcb, x) = tcb  BY <3>1, Zenon DEF TickSend
      <3>3. ~KeepAliveDue(tcb) /\ ~TimedOut(tcb)
        BY <1>0 DEF KeepAliveDue, TimedOut, Idle, Bound
      <3> QED
        BY <1>1, <2>2, <3>2, <3>3, Zenon
        DEF Tick, TickOnly, TickKeepAlive, TickPeerLost, TickRetry, TickGiveUp, TickAbort
    <2> QED BY <1>8, <2>1, <2>2, Zenon DEF TCPTick
  <1>9. CASE TimePasses  BY <1>0, <1>9 DEF TimePasses, Idle, Bound
  <1>10. CASE PeerReceives \/ PeerDies \/ UNCHANGED vars
    BY <1>1, <1>10, Zenon DEF PeerReceives, PeerDies, vars
  <1> QED BY <1>6, <1>7, <1>8, <1>9, <1>10, Zenon DEF Next
-----------------------------------------------------------------------------
(* The invariant.                                                          *)

\* A connected socket's numbers are those of its connection.
SeqInv == Bound => Conn(tcb, peer.len)

\* A step of a connected socket carries its connection on or closes it.
BoundStep == CarriesOn(tcb, tcb', peer.len) /\ peer'.len = peer.len

\* A step that does not touch the socket carries the connection on.
LEMMA StutterCarries ==
    ASSUME SoundTCB(tcb), Conn(tcb, peer.len), tcb' = tcb, peer'.len = peer.len PROVE BoundStep
  <1>1. Later(tcb, tcb)  BY LaterOrder DEF SoundTCB
  <1> QED BY <1>1, Zenon DEF BoundStep, CarriesOn

\* Whatever happens to a connected socket: a segment, a tick, a call, or time.
LEMMA BoundSteps ==
    ASSUME SizesAssumption, Inv, Bound, SeqInv, [Next]_vars PROVE BoundStep
  <1>0. SoundTCB(tcb) /\ tcb \in TCBs /\ Inv'  BY NextInv DEF Inv, SoundTCB
  <1>1. SoundTCB(tcb') /\ Conn(tcb, peer.len) /\ peer.len \in Nat
    BY <1>0, Zenon DEF Inv, SeqInv, PeerOK
  <1>2. tcb.smState \notin {"CLOSED", "LISTEN"}  BY DEF Bound
  <1>3. CASE Application
    <2>1. CarriesOn(tcb, tcb', peer.len)  BY <1>0, <1>1, <1>3, ApplicationCarries
    <2>2. UNCHANGED peer  BY <1>0, <1>3, ApplicationSound, Zenon
    <2> QED BY <2>1, <2>2, Zenon DEF BoundStep
  <1>4. CASE HandleTCPSeg
    <2>1. CASE ListenSYN \/ ListenOther  BY <1>2, <2>1 DEF ListenSYN, ListenOther
    <2>2. ASSUME NEW h \in AckSegments \union OtherSegments,
                 \/ SegUnacceptable(h) \/ SegReset(h) \/ SegWithoutAck(h) \/ SegBadSynAck(h)
                 \/ SegLastAck(h) \/ SegAckTooHigh(h) \/ SegClosing(h) \/ SegFinWait2(h)
                 \/ SegProcessed(h)
          PROVE  BoundStep
      <3>1. SegmentOK(h)  BY <2>2, SegmentsOK, Zenon DEF Inv
      <3>2. Fits(h, peer.len)  BY <2>2, SegmentsFit
      <3>3. UNCHANGED peer
        BY <2>2, Zenon
        DEF SegUnacceptable, SegReset, SegWithoutAck, SegBadSynAck, SegLastAck, SegAckTooHigh,
            SegClosing, SegFinWait2, SegProcessed, AckProcessed, AckArrives, Arrives
      <3>4. SegProcessed(h) => CarriesOn(tcb, tcb', peer.len)
        BY <1>0, <1>1, <3>1, <3>2, ProcessedCarries
      <3>5. SegBadSynAck(h) => CarriesOn(tcb, tcb', peer.len)
        BY <1>0, <1>1, <3>1, BadSynAckCarries
      <3>6. SegUnacceptable(h) \/ SegReset(h) \/ SegWithoutAck(h) \/ SegLastAck(h)
            \/ SegAckTooHigh(h) \/ SegClosing(h) \/ SegFinWait2(h) =>
              CarriesOn(tcb, tcb', peer.len)
        BY <1>0, <1>1, <3>1, SegCarries
      <3> QED BY <2>2, <3>3, <3>4, <3>5, <3>6, Zenon DEF BoundStep
    <2> QED BY <1>4, <2>1, <2>2, Zenon DEF HandleTCPSeg
  <1>5. CASE TCPTick
    <2>1. CASE TickServeSYN  BY <1>2, <2>1 DEF TickServeSYN
    <2>2. ASSUME NEW x \in SUBSET Running(tcb), Tick(x) PROVE BoundStep
      <3>1. CarriesOn(tcb, tcb', peer.len)  BY <1>0, <1>1, <2>2, TickCarries
      <3>2. UNCHANGED peer  BY <1>0, <2>2, TickSound, Zenon
      <3> QED BY <3>1, <3>2, Zenon DEF BoundStep
    <2> QED BY <1>5, <2>1, <2>2, Zenon DEF TCPTick
  <1>6. CASE TimePasses
    <2> DEFINE t == [tcb EXCEPT !.due = TRUE]
    <2>1. tcb' = t /\ UNCHANGED peer  BY <1>6, Zenon DEF TimePasses
    <2>2. /\ t.MySEQ = tcb.MySEQ /\ t.txUnackedTail = tcb.txUnackedTail /\ t.txTail = tcb.txTail
          /\ t.bSYNSent = tcb.bSYNSent /\ t.bFINSent = tcb.bFINSent /\ t.bTXFIN = tcb.bTXFIN
          /\ t.sent = tcb.sent /\ t.txHead = tcb.txHead /\ t.remoteWindow = tcb.remoteWindow
          /\ t.RemoteSEQ = tcb.RemoteSEQ /\ t.lastAck = tcb.lastAck
          /\ t.bDelayedACKTimerEnabled = tcb.bDelayedACKTimerEnabled
          /\ t.sHoleSize = tcb.sHoleSize /\ t.wFutureDataSize = tcb.wFutureDataSize
          /\ t.smState = tcb.smState
      BY <1>0, Zenon DEF TCBs
    <2> HIDE DEF t
    <2>3. Keeps(tcb, t)  BY <1>0, <2>2, SameNumbers
    <2>4. SoundTCB(t)  BY <1>1, <2>1
    <2>5. StaysUp(tcb, t, peer.len)  BY <1>0, <1>1, <2>2, <2>3, <2>4, KeepsStaysUp
    <2> QED BY <2>1, <2>5, Zenon DEF StaysUp, CarriesOn, BoundStep
  <1>7. CASE PeerReceives
    <2>1. tcb' = tcb /\ peer'.len = peer.len  BY <1>7, Zenon DEF PeerReceives, Inv, PeerOK
    <2> QED BY <1>0, <1>1, <2>1, StutterCarries
  <1>8. CASE PeerDies
    <2>1. tcb' = tcb /\ peer'.len = peer.len  BY <1>8, Zenon DEF PeerDies, Inv, PeerOK
    <2> QED BY <1>0, <1>1, <2>1, StutterCarries
  <1>9. CASE UNCHANGED vars
    <2>1. tcb' = tcb /\ peer'.len = peer.len  BY <1>9, Zenon DEF vars
    <2> QED BY <1>0, <1>1, <2>1, StutterCarries
  <1> QED BY <1>3, <1>4, <1>5, <1>6, <1>7, <1>8, <1>9, Zenon DEF Next

\* Every step keeps the invariant, and within a connection takes nothing back.
LEMMA SeqStep ==
    ASSUME SizesAssumption, Inv, CleanInv, SeqInv, [Next]_vars
    PROVE  SeqInv' /\ (Bound /\ Bound' /\ conns' = conns => Later(tcb, tcb'))
  <1>1. CASE Bound
    <2>1. BoundStep  BY <1>1, BoundSteps
    <2>2. Listens(tcb') => ~Bound'  BY DEF Listens, Bound
    <2> QED BY <2>1, <2>2, Zenon DEF BoundStep, CarriesOn, SeqInv
  <1>2. CASE ~Bound
    <2>1. CASE ~Bound'  BY <1>2, <2>1 DEF SeqInv
    <2>2. CASE (ListenSYN \/ TickServeSYN) /\ conns' = conns + 1
      <3>1. SoundTCB(tcb) /\ Idle(tcb)  BY <1>2 DEF Inv, CleanInv, Unbound, Bound
      <3>2. PeerOK'  BY NextInv DEF Inv
      <3>3. peer'.len \in Nat  BY <3>2, Zenon DEF PeerOK
      <3>4. Conn(tcb', peer'.len)  BY <2>2, <3>1, <3>3, SynConn
      <3> QED BY <1>2, <3>4, Zenon DEF SeqInv
    <2> QED BY <1>2, <2>1, <2>2, UnboundStays
  <1> QED BY <1>1, <1>2

\* The invariant, with those of the control block and of an idle socket.
LEMMA SeqInvariance == Spec => [](Inv /\ CleanInv /\ SeqInv)
  <1>1. Init => CleanInv /\ SeqInv
    BY DEF Init, InitialTCB, CleanInv, Idle, SeqInv, Bound
  <1>2. Inv /\ CleanInv /\ [Next]_vars => CleanInv'  BY CleanStep, SizesAssumption
  <1>3. Inv /\ CleanInv /\ SeqInv /\ [Next]_vars => SeqInv'  BY SeqStep, SizesAssumption
  <1> QED BY <1>1, <1>2, <1>3, Invariance, PTL DEF Spec
-----------------------------------------------------------------------------
(* What the remote node receives.                                          *)

\* The states of a connection in which our side is open.
Opening == {"SYN_RECEIVED", "ESTABLISHED", "CLOSE_WAIT"}

\* Where all segments sent have their place in the stream.
Followed == Bound /\ NoneCut(tcb)

\* What was received is the stream so far, and its length is what was counted.
Taken(p) ==
  /\ \A i \in 1..Len(p.got) : p.got[i] = i - 1
  /\ p.nxt = 0 => Len(p.got) = 0 /\ ~p.fin
  /\ p.nxt > 0 => Len(p.got) = p.nxt - 1 - One(p.fin)

\* A FIN that was received closed our side behind all of the stream.
StreamInv ==
  Followed => /\ Taken(peer)
              /\ peer.fin => tcb.smState \in Finishing /\ Len(peer.got) = tcb.txHead

\* The remote node receives this segment, as PeerReceives chooses it.
Receives(g) ==
  LET data == g.seq + One(g.syn)
      skip == IF g.syn THEN 0 ELSE peer.nxt - data
  IN  /\ g.seq <= peer.nxt
      /\ peer.nxt < data + g.len + One(g.fin)
      /\ peer' = [peer EXCEPT
            !.nxt = data + g.len + One(g.fin),
            !.acks = @ \union {data + g.len + One(g.fin)},
            !.got = @ \o [i \in 1..(IF skip < g.len THEN g.len - skip ELSE 0)
                            |-> g.off + skip + i - 1],
            !.fin = g.fin]

\* A new remote node has received nothing.
LEMMA NewPeerTaken ==
    ASSUME NEW n, peer' = NewPeer(n) PROVE Taken(peer') /\ ~peer'.fin
  <1>1. peer'.got = <<>> /\ peer'.nxt = 0 /\ peer'.fin = FALSE  BY DEF NewPeer
  <1> QED BY <1>1 DEF Taken

\* A segment that has its place continues what was received.
LEMMA TakenGrows ==
    ASSUME Inv, Taken(peer), NEW head \in Nat, peer.fin => Len(peer.got) = head,
           NEW g \in Segments, Placed(g, head),
           Receives(g)
    PROVE  Taken(peer') /\ (g.fin => Len(peer'.got) = head) /\ peer'.fin = g.fin
  <1> DEFINE data == g.seq + One(g.syn)
             skip == IF g.syn THEN 0 ELSE peer.nxt - data
             nxt  == data + g.len + One(g.fin)
             n    == IF skip < g.len THEN g.len - skip ELSE 0
             new  == [i \in 1..n |-> g.off + skip + i - 1]
             acks == peer.acks \union {nxt}
             got  == peer.got \o new
  <1>1. /\ g.seq \in Int /\ g.len \in Nat /\ g.off \in Nat
        /\ g.syn \in BOOLEAN /\ g.fin \in BOOLEAN
    BY DEF Segments
  <1>2. peer.nxt \in Nat /\ peer.got \in Seq(Nat) /\ Len(peer.got) \in Nat /\ peer.fin \in BOOLEAN
    BY DEF Inv, PeerOK
  <1>3. /\ data = g.off + 1 /\ g.off + g.len <= head
        /\ g.syn => g.off = 0 /\ g.len = 0 /\ ~g.fin
        /\ g.fin => g.off + g.len = head
    BY DEF Placed
  <1>4. /\ g.seq <= peer.nxt /\ peer.nxt < nxt
        /\ peer' = [peer EXCEPT !.nxt = nxt, !.acks = acks, !.got = got, !.fin = g.fin]
    BY Zenon DEF Receives, nxt, acks, got, new, n, skip
  <1>5. /\ One(g.fin) \in 0..1 /\ (g.fin => One(g.fin) = 1) /\ (~g.fin => One(g.fin) = 0)
        /\ g.syn => One(g.syn) = 1
        /\ ~g.syn => One(g.syn) = 0
        /\ One(peer.fin) \in 0..1 /\ (peer.fin => One(peer.fin) = 1)
        /\ ~peer.fin => One(peer.fin) = 0
    BY OneNat
  <1>6. nxt = g.off + 1 + g.len + One(g.fin)  BY <1>3
  <1>7. data = g.seq + One(g.syn)  OBVIOUS
  <1>8. skip = IF g.syn THEN 0 ELSE peer.nxt - data  OBVIOUS
  <1>9. n = IF skip < g.len THEN g.len - skip ELSE 0  OBVIOUS
  <1> HIDE DEF data, nxt, skip, n
  <1>10. ~peer.fin
    <2> SUFFICES ASSUME peer.fin PROVE FALSE  OBVIOUS
    <2>1. peer.nxt # 0 /\ Len(peer.got) = head /\ One(peer.fin) = 1  BY <1>5, Zenon DEF Taken
    <2>2. peer.nxt > 0  BY <1>2, <2>1
    <2>3. Len(peer.got) = peer.nxt - 1 - One(peer.fin)  BY <2>2, Zenon DEF Taken
    <2>4. head = peer.nxt - 1 - 1  BY <2>1, <2>3, Zenon
    <2> QED BY <1>1, <1>2, <1>3, <1>4, <1>5, <1>6, <2>4
  <1>11. /\ skip \in Nat /\ n \in Nat /\ Len(peer.got) + n = g.off + g.len
         /\ n > 0 => g.off + skip = Len(peer.got)
    <2>1. CASE peer.nxt = 0
      <3>1. Len(peer.got) = 0  BY <2>1 DEF Taken
      <3>2. g.syn  BY <1>1, <1>3, <1>4, <1>5, <1>7, <2>1
      <3>3. skip = 0 /\ n = 0 /\ g.off = 0 /\ g.len = 0  BY <1>3, <1>8, <1>9, <3>2
      <3> QED BY <3>1, <3>3
    <2>2. CASE peer.nxt > 0
      <3>1. Len(peer.got) = peer.nxt - 1  BY <1>2, <1>5, <1>10, <2>2 DEF Taken
      <3>2. ~g.syn  BY <1>1, <1>2, <1>3, <1>4, <1>5, <1>6, <2>2
      <3>3. data = g.seq /\ skip = peer.nxt - g.off - 1
        BY <1>1, <1>2, <1>3, <1>5, <1>7, <1>8, <3>2
      <3>4. skip \in Nat  BY <1>1, <1>2, <1>3, <1>4, <3>3
      <3>5. CASE skip < g.len
        <4>1. n = g.len - skip  BY <1>9, <3>5
        <4>2. n \in Nat  BY <1>1, <3>4, <3>5, <4>1
        <4>3. Len(peer.got) = g.off + skip  BY <1>1, <1>2, <3>1, <3>3
        <4>4. Len(peer.got) + n = g.off + g.len  BY <1>1, <3>4, <4>1, <4>3
        <4> QED BY <3>4, <4>2, <4>3, <4>4
      <3>6. CASE ~(skip < g.len)
        <4>1. n = 0  BY <1>9, <3>6
        <4>2. skip = g.len  BY <1>1, <1>2, <1>4, <1>5, <1>6, <3>3, <3>4, <3>6
        <4> QED BY <1>1, <1>2, <3>1, <3>3, <3>4, <4>1, <4>2
      <3> QED BY <3>5, <3>6
    <2> QED BY <1>2, <2>1, <2>2
  <1>12. /\ new \in Seq(Nat) /\ Len(new) = n
         /\ \A i \in 1..n : new[i] = g.off + skip + i - 1
    <2>1. \A i \in 1..n : g.off + skip + i - 1 \in Nat  BY <1>1, <1>11
    <2> QED BY <1>11, <2>1
  <1> HIDE DEF new
  <1>13. /\ Len(got) = Len(peer.got) + n
         /\ \A i \in 1..(Len(peer.got) + n) :
              got[i] = IF i <= Len(peer.got) THEN peer.got[i] ELSE new[i - Len(peer.got)]
    BY <1>2, <1>12, ConcatProperties
  <1> HIDE DEF got
  <1>14. \A i \in 1..Len(got) : got[i] = i - 1
    <2> SUFFICES ASSUME NEW i \in 1..Len(got) PROVE got[i] = i - 1  OBVIOUS
    <2>1. i \in Nat /\ 1 <= i /\ i <= Len(peer.got) + n  BY <1>2, <1>11, <1>13
    <2>2. CASE i <= Len(peer.got)
      <3>1. i \in 1..Len(peer.got) /\ i \in 1..(Len(peer.got) + n)  BY <1>2, <1>11, <2>1, <2>2
      <3>2. got[i] = peer.got[i]  BY <1>13, <2>2, <3>1
      <3> QED BY <3>1, <3>2 DEF Taken
    <2>3. CASE ~(i <= Len(peer.got))
      <3> DEFINE k == i - Len(peer.got)
      <3>1. k \in 1..n /\ i \in 1..(Len(peer.got) + n)  BY <1>2, <1>11, <2>1, <2>3
      <3>2. got[i] = new[k]  BY <1>13, <2>3, <3>1
      <3>3. new[k] = g.off + skip + k - 1  BY <1>12, <3>1
      <3>4. n > 0  BY <1>11, <3>1
      <3> QED BY <1>1, <1>2, <1>11, <2>1, <3>2, <3>3, <3>4
    <2> QED BY <2>2, <2>3
  <1>15. peer'.nxt = nxt /\ peer'.got = got /\ peer'.fin = g.fin
    <2> HIDE DEF acks
    <2> QED BY <1>4, Zenon DEF Inv, PeerOK
  <1>16. nxt \in Nat /\ nxt > 0 /\ Len(got) = nxt - 1 - One(g.fin)
    <2>1. Len(got) = g.off + g.len  BY <1>11, <1>13
    <2>2. One(g.fin) \in Nat  BY <1>5
    <2> QED BY <1>1, <1>6, <2>1, <2>2
  <1>17. Taken(peer')
    <2>1. \A i \in 1..Len(peer'.got) : peer'.got[i] = i - 1  BY <1>14, <1>15, Zenon
    <2>2. peer'.nxt # 0 /\ Len(peer'.got) = peer'.nxt - 1 - One(peer'.fin)
      BY <1>15, <1>16
    <2> QED BY <2>1, <2>2, Zenon DEF Taken
  <1>18. g.fin => Len(got) = head  BY <1>3, <1>11, <1>13
  <1> QED BY <1>15, <1>17, <1>18

\* Only a new connection and a segment received change what the remote node has.
LEMMA PeerKeeps ==
    ASSUME SizesAssumption, Inv, [Next]_vars
    PROVE  \/ ListenSYN \/ TickServeSYN \/ PeerReceives
           \/ peer'.got = peer.got /\ peer'.nxt = peer.nxt /\ peer'.fin = peer.fin
  <1>1. ASSUME UNCHANGED peer
        PROVE  peer'.got = peer.got /\ peer'.nxt = peer.nxt /\ peer'.fin = peer.fin
    BY <1>1
  <1>2. CASE Application
    <2>1. SoundTCB(tcb)  BY DEF Inv
    <2>2. UNCHANGED peer  BY <1>2, <2>1, ApplicationSound, Zenon
    <2> QED BY <1>1, <2>2
  <1>3. CASE HandleTCPSeg
    <2>1. ListenSYN \/ UNCHANGED peer
      BY <1>3, Zenon
      DEF HandleTCPSeg, ListenOther, SegUnacceptable, SegReset, SegWithoutAck, SegBadSynAck,
          SegLastAck, SegAckTooHigh, SegClosing, SegFinWait2, SegProcessed, AckProcessed,
          AckArrives, Arrives
    <2> QED BY <1>1, <2>1
  <1>4. CASE TCPTick
    <2>1. ASSUME NEW x \in SUBSET Running(tcb), Tick(x) PROVE UNCHANGED peer
      BY <2>1, Zenon
      DEF Tick, TickOnly, TickKeepAlive, TickPeerLost, TickRetry, TickGiveUp, TickAbort, Ticks
    <2> QED BY <1>1, <1>4, <2>1, Zenon DEF TCPTick
  <1>5. CASE TimePasses  BY <1>1, <1>5, Zenon DEF TimePasses
  <1>6. CASE PeerDies
    <2>1. peer' = [peer EXCEPT !.alive = FALSE]  BY <1>6, Zenon DEF PeerDies
    <2> QED BY <2>1, Zenon DEF Inv, PeerOK
  <1>7. CASE UNCHANGED vars  BY <1>1, <1>7, Zenon DEF vars
  <1> QED BY <1>2, <1>3, <1>4, <1>5, <1>6, <1>7, Zenon DEF Next

\* Every step keeps what the remote node has the stream, where it can be followed.
LEMMA StreamStep ==
    ASSUME SizesAssumption, Inv, CleanInv, SeqInv, StreamInv, [Next]_vars PROVE StreamInv'
  <1> SUFFICES ASSUME Followed'
               PROVE  /\ Taken(peer')
                      /\ peer'.fin =>
                           tcb'.smState \in Finishing /\ Len(peer'.got) = tcb'.txHead
    BY DEF StreamInv
  <1>0. tcb \in TCBs  BY DEF Inv, SoundTCB
  <1>1. CASE ListenSYN \/ TickServeSYN
    <2>1. \E n : peer' = NewPeer(n)  BY <1>1, Zenon DEF ListenSYN, TickServeSYN
    <2> QED BY <2>1, NewPeerTaken
  <1>2. CASE PeerReceives
    <2>1. UNCHANGED tcb  BY <1>2, Zenon DEF PeerReceives
    <2>2. PICK g \in tcb.sent : Receives(g)
      BY <1>2, Zenon DEF PeerReceives, Receives
    <2>3. Bound /\ NoneCut(tcb)  BY <2>1, Zenon DEF Followed, Bound, NoneCut
    <2>4. Followed  BY <2>3 DEF Followed
    <2>5. Placed(g, tcb.txHead) /\ (g.fin => tcb.smState \in Finishing)
      BY <2>2, <2>3, Zenon DEF SeqInv, Conn, Streamed, FinPending
    <2>6. g \in Segments /\ tcb.txHead \in Nat  BY <1>0, <2>2 DEF TCBs
    <2>7. Taken(peer) /\ (peer.fin => Len(peer.got) = tcb.txHead)
      BY <2>4, Zenon DEF StreamInv
    <2>8. /\ Taken(peer') /\ (g.fin => Len(peer'.got) = tcb.txHead)
          /\ peer'.fin = g.fin
      BY <2>2, <2>5, <2>6, <2>7, TakenGrows
    <2> QED BY <2>1, <2>5, <2>8
  <1>3. CASE /\ peer'.got = peer.got /\ peer'.nxt = peer.nxt /\ peer'.fin = peer.fin
             /\ ~(ListenSYN \/ TickServeSYN)
    <2>1. CASE Bound
      <3>1. Later(tcb, tcb')
        <4>1. Listens(tcb') \/ Later(tcb, tcb')
          BY <2>1, BoundSteps DEF BoundStep, CarriesOn
        <4> QED BY <4>1 DEF Followed, Bound, Listens
      <3>2. Followed
        <4>1. NoneCut(tcb)  BY <3>1, Zenon DEF Followed, NoneCut, Later
        <4> QED BY <2>1, <4>1 DEF Followed
      <3>3. Taken(peer')  BY <1>3, <3>2, Zenon DEF StreamInv, Taken
      <3>4. peer'.fin => tcb'.smState \in Finishing /\ Len(peer'.got) = tcb'.txHead
        BY <1>3, <3>1, <3>2, Zenon DEF StreamInv, Later
      <3> QED BY <3>3, <3>4
    <2>2. CASE ~Bound  BY <1>3, <2>2, UnboundStays DEF Followed
    <2> QED BY <2>1, <2>2
  <1> QED BY <1>1, <1>2, <1>3, PeerKeeps

\* The invariant of both ends.
LEMMA StreamInvariance == Spec => [](Inv /\ StreamInv)
  <1>1. Init => StreamInv
    <2> SUFFICES ASSUME Init PROVE StreamInv  OBVIOUS
    <2>1. peer.got = <<>> /\ peer.nxt = 0 /\ peer.fin = FALSE  BY DEF Init, NewPeer
    <2>2. Taken(peer)  BY <2>1 DEF Taken
    <2> QED BY <2>1, <2>2, Zenon DEF StreamInv
  <1>2. Inv /\ CleanInv /\ SeqInv /\ StreamInv /\ [Next]_vars => StreamInv'
    BY StreamStep, SizesAssumption
  <1> QED BY <1>1, <1>2, SeqInvariance, PTL DEF Spec
-----------------------------------------------------------------------------
(* The theorems.                                                           *)

\* MySEQ is the number behind the last byte sent: retransmissions, fast
\* retransmissions, resets, acknowledgements of any value and the FIN never let
\* the number and the FIFO pointer drift apart.
THEOREM SequenceNumbersTrack == Spec => []SeqTracksFifo
  <1>1. Inv /\ SeqInv => SeqTracksFifo
    <2> SUFFICES ASSUME Inv, SeqInv, Bound PROVE SeqTracksFifo  BY DEF SeqTracksFifo
    <2>1. Numbered(tcb) /\ tcb \in TCBs  BY DEF SeqInv, Conn, Inv, SoundTCB
    <2>2. tcb.MySEQ \in Int /\ tcb.txUnackedTail \in Int /\ One(tcb.bFINSent) \in Int
      BY <2>1, Numbers, OneNat
    <2> QED BY <2>1, <2>2 DEF Numbered, Offset, SeqTracksFifo
  <1> QED BY <1>1, SeqInvariance, PTL

\* Whatever a connection has received in order it has acknowledged, or the
\* delayed acknowledgement is on its way.
THEOREM EverythingIsAcknowledged == Spec => []ReceivedIsAcknowledged
  <1>1. SeqInv => ReceivedIsAcknowledged
    BY Zenon DEF SeqInv, Conn, Acknowledged, ReceivedIsAcknowledged
  <1> QED BY <1>1, SeqInvariance, PTL

\* The word that holds the time of the delayed acknowledgement and of CLOSE_WAIT
\* serves one of them at a time.
THEOREM SharedTimerHasOneUse == Spec => []OverlappedTimersExclusive
  <1>1. SeqInv => OverlappedTimersExclusive
    BY DEF SeqInv, Conn, Acknowledged, OverlappedTimersExclusive, Bound
  <1> QED BY <1>1, SeqInvariance, PTL

\* A connection acknowledges nothing beyond the FIN of the remote node, whatever
\* future data it has pieced together.
THEOREM OnlySentIsAcknowledged == Spec => []AcksOnlySent
  <1>1. SeqInv => AcksOnlySent  BY Zenon DEF SeqInv, Conn, Received, AcksOnlySent
  <1> QED BY <1>1, SeqInvariance, PTL

\* Old segments, retransmissions and timers never move the acknowledged ends of
\* either stream backwards within a connection.
THEOREM AcknowledgedStays == Spec => NothingTakenBack
  <1>1. Inv /\ CleanInv /\ SeqInv /\ [Next]_vars =>
          [Bound /\ Bound' /\ conns' = conns =>
             /\ tcb.txTail <= tcb'.txTail
             /\ tcb.RemoteSEQ <= tcb'.RemoteSEQ /\ tcb.lastAck <= tcb'.lastAck]_vars
    BY SeqStep, SizesAssumption, Zenon DEF Later
  <1> QED BY <1>1, SeqInvariance, PTL DEF Spec, NothingTakenBack

\* While our side of a connection is open the remote node has the application's
\* stream, without a byte lost, repeated or moved: for every window and segment
\* size, whatever is retransmitted and however the segments arrive.
THEOREM OpenStreamArrives == Spec => [](tcb.smState \in Opening => StreamIntact)
  <1>1. SeqInv /\ StreamInv => (tcb.smState \in Opening => StreamIntact)
    <2> SUFFICES ASSUME SeqInv, StreamInv, tcb.smState \in Opening PROVE StreamIntact  OBVIOUS
    <2>1. Bound /\ tcb.smState \notin Finishing  BY DEF Bound, Opening, Finishing
    <2>2. NoneCut(tcb)  BY <2>1, Zenon DEF SeqInv, Conn, Streamed
    <2> QED BY <2>1, <2>2, Zenon DEF StreamInv, Followed, Taken, StreamIntact
  <1> QED BY <1>1, SeqInvariance, StreamInvariance, PTL

\* Behind our FIN too, unless text was sent again without the FIN that had gone
\* out: SendTCP() numbers that one too high, and nothing else ever disturbs the
\* stream, whatever the windows and the size of the segments.
THEOREM WholeStreamArrives == Spec => [](Bound /\ NoneCut(tcb) => StreamIntact)
  <1>1. StreamInv => (Bound /\ NoneCut(tcb) => StreamIntact)
    BY Zenon DEF StreamInv, Followed, Taken, StreamIntact
  <1> QED BY <1>1, StreamInvariance, PTL

\* And then a remote node that has our FIN has all that the application wrote.
THEOREM FinEndsStream ==
    Spec => [](Bound /\ NoneCut(tcb) /\ peer.fin => Len(peer.got) = tcb.txHead)
  <1>1. StreamInv => (Bound /\ NoneCut(tcb) /\ peer.fin => Len(peer.got) = tcb.txHead)
    BY Zenon DEF StreamInv, Followed
  <1> QED BY <1>1, StreamInvariance, PTL
=============================================================================
