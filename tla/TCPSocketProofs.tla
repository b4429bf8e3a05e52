-------------------------- MODULE TCPSocketProofs --------------------------
(***************************************************************************)
(* Proofs about TCPSocket: the invariant Sound of the control block is     *)
(* kept by every operator the handlers are built from, hence by every      *)
(* action.  SMT does the arithmetic of a step, Zenon the record updates.   *)
(*                                                                         *)
(* The second part proves that TCPSocket implements the state diagram of   *)
(* TCPStates and that a socket returns to LISTEN with nothing of its last  *)
(* connection: what each operator does to smState, and from that one step  *)
(* of the diagram, or none, for each action.  The control block has to be  *)
(* known to be one (SoundTCB) at every intermediate point of a handler.    *)
(***************************************************************************)
EXTENDS TCPSocket, TLAPS

\* The inductive invariant of the control block.
Sound(s) ==
    /\ s.txTail <= s.txUnackedTail /\ s.txUnackedTail <= s.txHead
    /\ s.txHead - s.txTail <= TxSize
    /\ s.txTail < s.txUnackedTail => s.bTimerEnabled
    /\ s.bFINSent => s.bTXFIN /\ s.bTimerEnabled
    /\ s.rxCount <= RxSize
    /\ s.sHoleSize # NoHole =>
         s.sHoleSize > 0 /\ s.sHoleSize + s.wFutureDataSize <= RxSize - s.rxCount

\* A control block of the right type for which the invariant holds.
SoundTCB(s) == s \in TCBs /\ Sound(s)

\* The numeric value of a flag.
LEMMA OneNat == ASSUME NEW b PROVE One(b) \in 0..1 /\ (b => One(b) = 1) /\ (~b => One(b) = 0)
  BY DEF One

\* The window left for new data is a natural number: it wraps as a WORD does.
LEMMA EffectiveWindowNat ==
    ASSUME NEW s \in TCBs PROVE EffectiveWindow(s) \in Nat
  <1>1. s.remoteWindow - InFlight(s) \in Int
    BY DEF TCBs, InFlight
  <1> QED BY <1>1 DEF EffectiveWindow, WORD

\* SendTCP() never sends more than was written and not sent yet.
LEMMA DataLenBounds ==
    ASSUME SizesAssumption, NEW s \in TCBs, s.txUnackedTail <= s.txHead
    PROVE  DataLen(s) \in Nat /\ DataLen(s) <= Unsent(s)
  <1>1. EffectiveWindow(s) \in Nat  BY EffectiveWindowNat
  <1>2. Unsent(s) \in Nat  BY DEF Unsent, TCBs
  <1> QED BY <1>1, <1>2 DEF DataLen, LesserOf, SizesAssumption

\* Clearing the send flags keeps the type.
LEMMA SynchedType ==
    ASSUME NEW s \in TCBs, NEW f PROVE Synched(s, f) \in TCBs
  BY DEF Synched, TCBs

\* Clearing the send flags leaves the FIFOs, the timer and the FIN alone.
LEMMA SynchedFields ==
    ASSUME NEW s \in TCBs, NEW f
    PROVE  LET t == Synched(s, f)
           IN  /\ t.txHead = s.txHead /\ t.txTail = s.txTail
               /\ t.txUnackedTail = s.txUnackedTail /\ t.rxCount = s.rxCount
               /\ t.sHoleSize = s.sHoleSize /\ t.wFutureDataSize = s.wFutureDataSize
               /\ t.bTimerEnabled = s.bTimerEnabled /\ t.bFINSent = s.bFINSent
               /\ s.bTXFIN => t.bTXFIN
               /\ t.MySEQ = s.MySEQ /\ t.smState = s.smState
               /\ t.RemoteSEQ = s.RemoteSEQ /\ t.remoteWindow = s.remoteWindow
  BY Zenon DEF Synched, TCBs

\* retryCount stays a byte, whichever way it is counted.
LEMMA RetryCountType ==
    ASSUME NEW s \in TCBs, NEW n \in Nat, NEW m
    PROVE  RetryCount(s, n, m) \in 0..(BYTE - 1)
  <1>1. s.retryCount \in 0..(BYTE - 1)  BY DEF TCBs
  <1> QED BY <1>1 DEF RetryCount, BYTE

\* The retransmission bookkeeping of SendTCP() keeps the type.
LEMMA ArmedType ==
    ASSUME NEW s \in TCBs, NEW n \in Nat, NEW m PROVE Armed(s, n, m) \in TCBs
  <1>1. RetryCount(s, n, m) \in 0..(BYTE - 1)  BY RetryCountType
  <1>2. (s.vUnackedKeepalives + 1) % 8 \in 0..7  BY DEF TCBs
  <1>3. CASE n > 0  BY <1>1, <1>3, Zenon DEF Armed, TCBs
  <1>4. CASE ~(n > 0) /\ m = "KEEP_ALIVE"  BY <1>2, <1>4, Zenon DEF Armed, TCBs
  <1>5. CASE ~(n > 0) /\ m # "KEEP_ALIVE" /\ s.bTimerEnabled
     BY <1>1, <1>5, Zenon DEF Armed, TCBs
  <1>6. CASE ~(n > 0) /\ m # "KEEP_ALIVE" /\ ~s.bTimerEnabled
     BY <1>6, Zenon DEF Armed
  <1> QED BY <1>3, <1>4, <1>5, <1>6

\* It never stops a timer, and starts it for whatever takes sequence numbers.
LEMMA ArmedFields ==
    ASSUME NEW s \in TCBs, NEW n \in Nat, NEW m
    PROVE  LET t == Armed(s, n, m)
           IN  /\ t.txHead = s.txHead /\ t.txTail = s.txTail
               /\ t.txUnackedTail = s.txUnackedTail /\ t.rxCount = s.rxCount
               /\ t.sHoleSize = s.sHoleSize /\ t.wFutureDataSize = s.wFutureDataSize
               /\ s.bTimerEnabled => t.bTimerEnabled
               /\ n > 0 => t.bTimerEnabled
               /\ t.bFINSent = s.bFINSent /\ t.bTXFIN = s.bTXFIN
               /\ t.MySEQ = s.MySEQ /\ t.smState = s.smState
  <1>3. CASE n > 0  BY <1>3, Zenon DEF Armed, TCBs
  <1>4. CASE ~(n > 0) /\ m = "KEEP_ALIVE"  BY <1>4, Zenon DEF Armed, TCBs
  <1>5. CASE ~(n > 0) /\ m # "KEEP_ALIVE" /\ s.bTimerEnabled
     BY <1>5, Zenon DEF Armed, TCBs
  <1>6. CASE ~(n > 0) /\ m # "KEEP_ALIVE" /\ ~s.bTimerEnabled
     BY <1>6, Zenon DEF Armed
  <1> QED BY <1>3, <1>4, <1>5, <1>6

\* SendTCP() keeps the invariant in every state and for every flag and mode.
LEMMA SendTCPSound ==
    ASSUME SizesAssumption, NEW s0, SoundTCB(s0), NEW f, NEW m
    PROVE  LET t == SendTCP(s0, f, m)
           IN  SoundTCB(t) /\ t.smState = s0.smState /\ t.rxCount = s0.rxCount
               /\ t.sHoleSize = s0.sHoleSize /\ t.txTail = s0.txTail /\ t.txHead = s0.txHead
  <1> DEFINE s   == Synched(s0, f)
             dat == f \intersect {"SYN", "RST"} = {}
             syn == "SYN" \in f
             fin == dat /\ CarriesFIN(s)
             len == IF dat THEN DataLen(s) ELSE 0
             seq == s.MySEQ - One(syn /\ s.bSYNSent) - One(fin /\ s.bFINSent)
             cut == len > 0 /\ s.bFINSent /\ ~fin
             seg == [seq |-> seq, off |-> s.txUnackedTail, len |-> len, syn |-> syn, fin |-> fin,
                     cut |-> cut]
             a   == Armed(s, len + One(syn) + One(fin), m)
             x   == len + One(syn /\ ~s.bSYNSent) + One(fin /\ ~s.bFINSent)
             big == dat /\ LesserOf(Unsent(s), EffectiveWindow(s)) > MSS
             out == IF len > 0 \/ syn \/ fin THEN a.sent \union {seg} ELSE a.sent
             t   == SendTCP(s0, f, m)
             asap == a.bTXASAPWithoutTimerReset
  <1>0. s0 \in TCBs /\ Sound(s0)  BY DEF SoundTCB
  <1>1. s \in TCBs  BY <1>0, SynchedType
  <1>2. s.txUnackedTail <= s.txHead  BY <1>0, SynchedFields DEF Sound
  <1>3. len \in Nat /\ len <= s.txHead - s.txUnackedTail
    BY <1>1, <1>2, DataLenBounds DEF TCBs, Unsent
  <1>4. len + One(syn) + One(fin) \in Nat  BY <1>3, OneNat
  <1>5. a \in TCBs  BY <1>1, <1>4, ArmedType
  <1>6. seq \in Int  BY <1>1, OneNat DEF TCBs
  <1>7. fin \in BOOLEAN /\ syn \in BOOLEAN /\ big \in BOOLEAN  BY DEF CarriesFIN
  <1>8. seg \in Segments
    <2>1. cut \in BOOLEAN  OBVIOUS
    <2>2. s.txUnackedTail \in Nat  BY <1>1, Zenon DEF TCBs
    <2> HIDE DEF s, seq, len, syn, fin, cut
    <2> QED BY <1>3, <1>6, <1>7, <2>1, <2>2 DEF Segments
  <1>9. out \in SUBSET Segments  BY <1>5, <1>8 DEF TCBs
  <1>10. a.MySEQ + len + One(syn /\ ~s.bSYNSent) + One(fin /\ ~s.bFINSent) \in Int
    BY <1>3, <1>5, OneNat DEF TCBs
  <1>11. a.txUnackedTail + len \in Nat  BY <1>3, <1>5 DEF TCBs
  <1>12. t = [a EXCEPT !.MySEQ = a.MySEQ + len + One(syn /\ ~s.bSYNSent) + One(fin /\ ~s.bFINSent),
                       !.txUnackedTail = a.txUnackedTail + len,
                       !.bSYNSent = a.bSYNSent \/ syn, !.bFINSent = a.bFINSent \/ fin,
                       !.bTXASAPWithoutTimerReset = big,
                       !.lastAck = s.RemoteSEQ, !.sent = out]
    BY DEF SendTCP
  <1>13. s.RemoteSEQ \in Nat  BY <1>1 DEF TCBs
  <1>14. fin => s.bTXFIN  BY DEF CarriesFIN
  <1>16. /\ a.txHead = s0.txHead /\ a.txTail = s0.txTail /\ a.txUnackedTail = s0.txUnackedTail
         /\ a.rxCount = s0.rxCount /\ a.sHoleSize = s0.sHoleSize
         /\ a.wFutureDataSize = s0.wFutureDataSize /\ a.smState = s0.smState
         /\ a.bFINSent = s0.bFINSent
         /\ s.bTXFIN => a.bTXFIN
         /\ s0.bTXFIN => a.bTXFIN
         /\ s0.bTimerEnabled => a.bTimerEnabled
    BY <1>0, <1>1, <1>4, SynchedFields, ArmedFields
  <1>17. len <= s0.txHead - s0.txUnackedTail  BY <1>0, <1>3, SynchedFields
  <1> HIDE DEF s, dat, syn, fin, len, seq, cut, seg, a, x, big, out, t
  <1>15. len > 0 \/ fin => a.bTimerEnabled
    <2>1. len > 0 \/ fin => len + One(syn) + One(fin) > 0  BY <1>3, <1>7, OneNat
    <2> QED BY <2>1, <1>1, <1>4, ArmedFields DEF a
  <1>19. (a.bSYNSent \/ syn) \in BOOLEAN /\ (a.bFINSent \/ fin) \in BOOLEAN  OBVIOUS
  <1>20. t \in TCBs
    <2> DEFINE q == a.MySEQ + len + One(syn /\ ~s.bSYNSent) + One(fin /\ ~s.bFINSent)
               u == a.txUnackedTail + len
               y == a.bSYNSent \/ syn
               g == a.bFINSent \/ fin
               k == s.RemoteSEQ
    <2>0. q \in Int /\ u \in Nat /\ y \in BOOLEAN /\ g \in BOOLEAN /\ k \in Nat
      BY <1>10, <1>11, <1>13, <1>19
    <2>2. t = [a EXCEPT !.MySEQ = q, !.txUnackedTail = u, !.bSYNSent = y, !.bFINSent = g,
                        !.bTXASAPWithoutTimerReset = big, !.lastAck = k, !.sent = out]
      BY <1>12, Zenon
    <2> HIDE DEF q, u, y, g, k
    <2>1. [a EXCEPT !.MySEQ = q, !.txUnackedTail = u, !.bSYNSent = y, !.bFINSent = g,
                    !.bTXASAPWithoutTimerReset = big, !.lastAck = k, !.sent = out] \in TCBs
      BY <1>5, <1>7, <1>9, <2>0, Zenon DEF TCBs
    <2> QED BY <2>1, <2>2, Zenon
  <1>21. /\ t.txHead = s0.txHead /\ t.txTail = s0.txTail
         /\ t.txUnackedTail = s0.txUnackedTail + len
         /\ t.rxCount = s0.rxCount /\ t.sHoleSize = s0.sHoleSize
         /\ t.wFutureDataSize = s0.wFutureDataSize /\ t.smState = s0.smState
         /\ t.bFINSent <=> a.bFINSent \/ fin
         /\ t.bTXFIN = a.bTXFIN /\ t.bTimerEnabled = a.bTimerEnabled
    BY <1>5, <1>12, <1>16, Zenon DEF TCBs
  <1>22. Sound(t)
    BY <1>0, <1>3, <1>14, <1>15, <1>16, <1>17, <1>21 DEF Sound, TCBs
  <1> QED BY <1>20, <1>21, <1>22 DEF SoundTCB, t
-----------------------------------------------------------------------------
(* The other operators on a control block.                                 *)

\* CloseSocket() re-establishes the invariant.
LEMMA CloseSocketSound ==
    ASSUME SizesAssumption, NEW s, SoundTCB(s) PROVE SoundTCB(CloseSocket(s))
  <1>1. s \in TCBs  BY DEF SoundTCB
  <1>2. 0 \in Nat /\ 0 \in Int /\ 1 \in Nat /\ 0 \in 0..7 /\ NoHole \in Int
        /\ {} \in SUBSET Segments /\ "LISTEN" \in States
    BY DEF NoHole, States
  <1>3. CloseSocket(s) \in TCBs
    <2> DEFINE a == [s EXCEPT !.smState = "LISTEN", !.vUnackedKeepalives = 0,
                              !.bTimerEnabled = FALSE, !.bTimer2Enabled = FALSE,
                              !.bDelayedACKTimerEnabled = FALSE, !.bOneSegmentReceived = FALSE,
                              !.bHalfFullFlush = FALSE, !.bTXASAP = FALSE]
               b == [a EXCEPT !.bTXASAPWithoutTimerReset = FALSE, !.bTXFIN = FALSE,
                              !.bSocketReset = TRUE, !.bFINSent = FALSE, !.bSYNSent = FALSE,
                              !.bRXNoneACKed1 = FALSE, !.bRXNoneACKed2 = FALSE]
               c == [b EXCEPT !.txHead = 0, !.txTail = 0, !.txUnackedTail = 0, !.rxCount = 0,
                              !.MySEQ = 0, !.sHoleSize = NoHole, !.remoteWindow = 1,
                              !.sent = {}]
    <2>1. a \in TCBs  BY <1>1, <1>2, Zenon DEF TCBs
    <2>2. c = CloseSocket(s)  BY Zenon DEF CloseSocket
    <2> HIDE DEF a
    <2>3. b \in TCBs  BY <2>1, Zenon DEF TCBs
    <2> HIDE DEF b
    <2>4. c \in TCBs  BY <2>3, <1>2, Zenon DEF TCBs
    <2> QED BY <2>2, <2>4, Zenon
  <1> DEFINE t == CloseSocket(s)
  <1>4. /\ t.txHead = 0 /\ t.txTail = 0 /\ t.txUnackedTail = 0 /\ t.rxCount = 0
        /\ t.sHoleSize = NoHole /\ t.bFINSent = FALSE
    BY <1>1, Zenon DEF CloseSocket, TCBs
  <1> HIDE DEF t
  <1>5. Sound(t)  BY <1>4 DEF Sound, SizesAssumption
  <1> QED BY <1>3, <1>5 DEF SoundTCB, t

\* Changes that leave the fields of the invariant alone keep it.
LEMMA SameFields ==
    ASSUME NEW s, SoundTCB(s), NEW t \in TCBs,
           t.txHead = s.txHead, t.txTail = s.txTail, t.txUnackedTail = s.txUnackedTail,
           t.rxCount = s.rxCount, t.sHoleSize = s.sHoleSize,
           t.wFutureDataSize = s.wFutureDataSize, t.bTXFIN = s.bTXFIN,
           t.bFINSent = s.bFINSent, t.bTimerEnabled = s.bTimerEnabled
    PROVE  SoundTCB(t)
  BY DEF SoundTCB, Sound

\* The keep-alive reset of HandleTCPSeg() touches none of its fields.
LEMMA HeardSound ==
    ASSUME NEW s, SoundTCB(s)
    PROVE  LET t == Heard(s)
           IN  /\ SoundTCB(t) /\ t.txHead = s.txHead /\ t.txTail = s.txTail
               /\ t.txUnackedTail = s.txUnackedTail /\ t.MySEQ = s.MySEQ
               /\ t.smState = s.smState /\ t.RemoteSEQ = s.RemoteSEQ /\ t.rxCount = s.rxCount
               /\ t.sHoleSize = s.sHoleSize
  <1> DEFINE d == IF s.bTimerEnabled THEN s.due ELSE FALSE
             t == Heard(s)
  <1>1. s \in TCBs  BY DEF SoundTCB
  <1>2. d \in BOOLEAN /\ 0 \in 0..7
    <2>1. s.due \in BOOLEAN  BY <1>1, Zenon DEF TCBs
    <2>2. d \in BOOLEAN  BY <2>1, Zenon
    <2>3. 0 \in 0..7  OBVIOUS
    <2> QED BY <2>2, <2>3, Zenon
  <1>3. t = [s EXCEPT !.vUnackedKeepalives = 0, !.due = d]  BY <1>1 DEF Heard, TCBs
  <1> HIDE DEF d, t
  <1>4. t \in TCBs  BY <1>1, <1>2, <1>3, Zenon DEF TCBs
  <1>5. /\ t.txHead = s.txHead /\ t.txTail = s.txTail /\ t.txUnackedTail = s.txUnackedTail
        /\ t.MySEQ = s.MySEQ /\ t.smState = s.smState /\ t.RemoteSEQ = s.RemoteSEQ
        /\ t.rxCount = s.rxCount /\ t.sHoleSize = s.sHoleSize
        /\ t.wFutureDataSize = s.wFutureDataSize /\ t.bTXFIN = s.bTXFIN
        /\ t.bFINSent = s.bFINSent /\ t.bTimerEnabled = s.bTimerEnabled
    BY <1>1, <1>3, Zenon DEF TCBs
  <1>6. SoundTCB(t)  BY <1>4, <1>5, SameFields, Zenon
  <1> QED BY <1>5, <1>6 DEF t

\* Rolling back for a retransmission.
LEMMA RollBackSound ==
    ASSUME NEW s, SoundTCB(s) PROVE SoundTCB(RollBack(s))
  <1> DEFINE q == s.MySEQ - InFlight(s)
             t == RollBack(s)
  <1>1. s \in TCBs /\ Sound(s)  BY DEF SoundTCB
  <1>2. q \in Int /\ s.txTail \in Nat  BY <1>1 DEF TCBs, InFlight
  <1>3. t = [s EXCEPT !.MySEQ = q, !.txUnackedTail = s.txTail]  BY DEF RollBack
  <1> HIDE DEF q, t
  <1>4. t \in TCBs  BY <1>1, <1>2, <1>3, Zenon DEF TCBs
  <1>5. /\ t.txHead = s.txHead /\ t.txTail = s.txTail /\ t.txUnackedTail = s.txTail
        /\ t.rxCount = s.rxCount /\ t.sHoleSize = s.sHoleSize
        /\ t.wFutureDataSize = s.wFutureDataSize /\ t.bTXFIN = s.bTXFIN
        /\ t.bFINSent = s.bFINSent /\ t.bTimerEnabled = s.bTimerEnabled
    BY <1>1, <1>3, Zenon DEF TCBs
  <1>6. Sound(t)  BY <1>1, <1>5 DEF Sound, TCBs
  <1> QED BY <1>4, <1>6 DEF SoundTCB, t

\* The timer is stopped only when nothing, FIN included, is outstanding.
LEMMA StopTimerSound ==
    ASSUME NEW s, SoundTCB(s), NEW h
    PROVE  LET t == StopTimer(s, h)
           IN  SoundTCB(t) /\ t.smState = s.smState /\ t.MySEQ = s.MySEQ
               /\ t.RemoteSEQ = s.RemoteSEQ /\ t.rxCount = s.rxCount /\ t.sHoleSize = s.sHoleSize
  <1> DEFINE f == IF s.bTXFIN THEN FALSE ELSE s.bFINSent
             t == [s EXCEPT !.bTimerEnabled = FALSE, !.bTXFIN = FALSE, !.bFINSent = f]
  <1>1. s \in TCBs /\ Sound(s)  BY DEF SoundTCB
  <1>2. s.bFINSent \in BOOLEAN  BY <1>1, Zenon DEF TCBs
  <1>3. f \in BOOLEAN  BY <1>2, Zenon
  <1>4. f => FALSE  BY <1>1, Zenon DEF Sound
  <1>5. StopTimer(s, h) = s \/ (s.txTail = s.txHead /\ StopTimer(s, h) = t)
    BY Zenon DEF StopTimer
  <1> HIDE DEF f
  <1>6. t \in TCBs  BY <1>1, <1>3, Zenon DEF TCBs
  <1>7. /\ t.txHead = s.txHead /\ t.txTail = s.txTail /\ t.txUnackedTail = s.txUnackedTail
        /\ t.rxCount = s.rxCount /\ t.sHoleSize = s.sHoleSize
        /\ t.wFutureDataSize = s.wFutureDataSize /\ t.bFINSent = f
        /\ t.smState = s.smState /\ t.MySEQ = s.MySEQ /\ t.RemoteSEQ = s.RemoteSEQ
    BY <1>1, Zenon DEF TCBs
  <1> HIDE DEF t
  <1>8. s.txTail = s.txHead => Sound(t)  BY <1>1, <1>4, <1>7 DEF Sound, TCBs
  <1> QED BY <1>1, <1>5, <1>6, <1>7, <1>8, Zenon DEF SoundTCB

\* The window update touches none of the invariant's fields.
LEMMA WindowUpdateSound ==
    ASSUME NEW s, SoundTCB(s), NEW h, h.wnd \in Nat
    PROVE  LET t == WindowUpdate(s, h)
           IN  SoundTCB(t) /\ t.smState = s.smState /\ t.MySEQ = s.MySEQ
               /\ t.RemoteSEQ = s.RemoteSEQ /\ t.rxCount = s.rxCount /\ t.sHoleSize = s.sHoleSize
  <1> DEFINE b == s.bTXASAP \/ (s.remoteWindow = 0 /\ h.wnd > 0)
             t == WindowUpdate(s, h)
  <1>1. s \in TCBs /\ b \in BOOLEAN  BY DEF SoundTCB
  <1>2. t = [s EXCEPT !.bTXASAP = b, !.remoteWindow = h.wnd]  BY DEF WindowUpdate
  <1> HIDE DEF b, t
  <1>3. t \in TCBs  BY <1>1, <1>2, Zenon DEF TCBs
  <1>4. /\ t.txHead = s.txHead /\ t.txTail = s.txTail /\ t.txUnackedTail = s.txUnackedTail
        /\ t.MySEQ = s.MySEQ /\ t.smState = s.smState /\ t.RemoteSEQ = s.RemoteSEQ
        /\ t.rxCount = s.rxCount /\ t.sHoleSize = s.sHoleSize
        /\ t.wFutureDataSize = s.wFutureDataSize /\ t.bTXFIN = s.bTXFIN
        /\ t.bFINSent = s.bFINSent /\ t.bTimerEnabled = s.bTimerEnabled
    BY <1>1, <1>2, Zenon DEF TCBs
  <1>5. SoundTCB(t)  BY <1>3, <1>4, SameFields, Zenon
  <1> QED BY <1>4, <1>5 DEF t

\* Entering FIN_WAIT_2 restarts the timer.
LEMMA FinAckedSound ==
    ASSUME NEW s, SoundTCB(s), NEW h
    PROVE  LET t == FinAcked(s, h)
           IN  SoundTCB(t) /\ t.MySEQ = s.MySEQ /\ t.RemoteSEQ = s.RemoteSEQ
               /\ t.rxCount = s.rxCount /\ t.sHoleSize = s.sHoleSize
  <1> DEFINE t == [s EXCEPT !.smState = "FIN_WAIT_2", !.bTimerEnabled = TRUE, !.due = FALSE]
  <1>1. s \in TCBs /\ Sound(s) /\ "FIN_WAIT_2" \in States  BY DEF SoundTCB, States
  <1>2. FinAcked(s, h) = s \/ FinAcked(s, h) = t  BY Zenon DEF FinAcked
  <1>3. t \in TCBs  BY <1>1, Zenon DEF TCBs
  <1>4. /\ t.txHead = s.txHead /\ t.txTail = s.txTail /\ t.txUnackedTail = s.txUnackedTail
        /\ t.rxCount = s.rxCount /\ t.sHoleSize = s.sHoleSize
        /\ t.wFutureDataSize = s.wFutureDataSize /\ t.bTXFIN = s.bTXFIN
        /\ t.bFINSent = s.bFINSent /\ t.bTimerEnabled = TRUE
        /\ t.MySEQ = s.MySEQ /\ t.RemoteSEQ = s.RemoteSEQ
    BY <1>1, Zenon DEF TCBs
  <1> HIDE DEF t
  <1>5. Sound(t)  BY <1>1, <1>4 DEF Sound
  <1> QED BY <1>1, <1>2, <1>3, <1>4, <1>5, Zenon DEF SoundTCB

\* An acceptable ACK frees no byte beyond the last one written.
LEMMA FreeAckedSound ==
    ASSUME SizesAssumption, NEW s, SoundTCB(s), NEW h, h.ackno \in Nat,
           ~AckTooHigh(s, h), Acked(s, h) > 0
    PROVE  LET t == FreeAcked(s, h)
           IN  SoundTCB(t) /\ t.smState = s.smState /\ t.RemoteSEQ = s.RemoteSEQ
               /\ t.rxCount = s.rxCount /\ t.sHoleSize = s.sHoleSize
  <1> DEFINE tail == s.txTail + Acked(s, h)
             q == IF tail > s.txUnackedTail THEN s.MySEQ + tail - s.txUnackedTail ELSE s.MySEQ
             u == IF tail > s.txUnackedTail THEN tail ELSE s.txUnackedTail
             t == FreeAcked(s, h)
  <1>1. s \in TCBs /\ Sound(s)  BY DEF SoundTCB
  <1>2. tail \in Nat /\ s.txTail < tail /\ tail <= s.txHead
    BY <1>1 DEF TCBs, Acked, AckTooHigh, InFlight, Unsent
  <1>3. q \in Int /\ u \in Nat /\ tail <= u /\ u <= s.txHead
        /\ (tail < u => s.txTail < s.txUnackedTail)
    BY <1>1, <1>2 DEF TCBs, Sound
  <1>4. t = [s EXCEPT !.bRXNoneACKed1 = FALSE, !.bRXNoneACKed2 = FALSE,
                      !.bHalfFullFlush = FALSE, !.txTail = tail, !.MySEQ = q,
                      !.txUnackedTail = u]
    BY DEF FreeAcked
  <1> HIDE DEF tail, q, u, t
  <1>5. t \in TCBs  BY <1>1, <1>2, <1>3, <1>4, Zenon DEF TCBs
  <1>6. /\ t.txHead = s.txHead /\ t.txTail = tail /\ t.txUnackedTail = u
        /\ t.smState = s.smState /\ t.RemoteSEQ = s.RemoteSEQ
        /\ t.rxCount = s.rxCount /\ t.sHoleSize = s.sHoleSize
        /\ t.wFutureDataSize = s.wFutureDataSize /\ t.bTXFIN = s.bTXFIN
        /\ t.bFINSent = s.bFINSent /\ t.bTimerEnabled = s.bTimerEnabled
    BY <1>1, <1>4, Zenon DEF TCBs
  <1>7. Sound(t)  BY <1>1, <1>2, <1>3, <1>6 DEF Sound, TCBs, SizesAssumption
  <1> QED BY <1>5, <1>6, <1>7 DEF SoundTCB, t

\* Counting duplicate ACKs, and the fast retransmission, keep the invariant.
LEMMA DuplicateAckSound ==
    ASSUME NEW s, SoundTCB(s)
    PROVE  LET t == DuplicateAck(s)
           IN  SoundTCB(t) /\ t.smState = s.smState /\ t.RemoteSEQ = s.RemoteSEQ
               /\ t.rxCount = s.rxCount /\ t.sHoleSize = s.sHoleSize
  <1> DEFINE v == RollBack(s)
             w == [v EXCEPT !.bTXASAPWithoutTimerReset = TRUE]
             r == IF s.bRXNoneACKed1 /\ s.bRXNoneACKed2 THEN w ELSE s
             b == r.bRXNoneACKed2 \/ s.bRXNoneACKed1
             t == [r EXCEPT !.bRXNoneACKed1 = TRUE, !.bRXNoneACKed2 = b]
  <1>1. s \in TCBs /\ v \in TCBs /\ SoundTCB(v)  BY RollBackSound DEF SoundTCB
  <1>2. v.smState = s.smState /\ v.RemoteSEQ = s.RemoteSEQ /\ v.rxCount = s.rxCount
        /\ v.sHoleSize = s.sHoleSize
    BY <1>1, Zenon DEF RollBack, TCBs
  <1>3. DuplicateAck(s) = s \/ DuplicateAck(s) = t  BY Zenon DEF DuplicateAck
  <1> HIDE DEF v
  <1>4. w \in TCBs  BY <1>1, Zenon DEF TCBs
  <1>5. /\ w.txHead = v.txHead /\ w.txTail = v.txTail /\ w.txUnackedTail = v.txUnackedTail
        /\ w.smState = v.smState /\ w.RemoteSEQ = v.RemoteSEQ
        /\ w.rxCount = v.rxCount /\ w.sHoleSize = v.sHoleSize
        /\ w.wFutureDataSize = v.wFutureDataSize /\ w.bTXFIN = v.bTXFIN
        /\ w.bFINSent = v.bFINSent /\ w.bTimerEnabled = v.bTimerEnabled
    BY <1>1, Zenon DEF TCBs
  <1> HIDE DEF w
  <1>6. SoundTCB(w)  BY <1>1, <1>4, <1>5, SameFields, Zenon
  <1>7. SoundTCB(r) /\ r.smState = s.smState /\ r.RemoteSEQ = s.RemoteSEQ
        /\ r.rxCount = s.rxCount /\ r.sHoleSize = s.sHoleSize
    BY <1>2, <1>5, <1>6, Zenon
  <1> HIDE DEF r
  <1>8. b \in BOOLEAN /\ r \in TCBs  BY <1>7 DEF SoundTCB
  <1> HIDE DEF b
  <1>9. t \in TCBs  BY <1>8, Zenon DEF TCBs
  <1>10. /\ t.txHead = r.txHead /\ t.txTail = r.txTail /\ t.txUnackedTail = r.txUnackedTail
         /\ t.smState = r.smState /\ t.RemoteSEQ = r.RemoteSEQ
         /\ t.rxCount = r.rxCount /\ t.sHoleSize = r.sHoleSize
         /\ t.wFutureDataSize = r.wFutureDataSize /\ t.bTXFIN = r.bTXFIN
         /\ t.bFINSent = r.bFINSent /\ t.bTimerEnabled = r.bTimerEnabled
    BY <1>8, Zenon DEF TCBs
  <1> HIDE DEF t
  <1>11. SoundTCB(t)  BY <1>7, <1>9, <1>10, SameFields, Zenon
  <1> QED BY <1>3, <1>7, <1>10, <1>11, Zenon

\* What the handler needs of a segment's fields.
SegmentOK(h) == /\ h.seq \in Nat /\ h.len \in Nat /\ h.fin \in BOOLEAN
                /\ h.ackno \in Nat /\ h.wnd \in Nat /\ h.wnd \in PeerWindows \union {0}

\* The ACK processing up to the window update keeps it, and leaves the receive side alone.
LEMMA AckFreedSound ==
    ASSUME SizesAssumption, NEW s, SoundTCB(s), NEW h, SegmentOK(h), ~AckTooHigh(s, h)
    PROVE  LET t == AckFreed(s, h)
           IN  SoundTCB(t) /\ t.RemoteSEQ = s.RemoteSEQ
               /\ t.rxCount = s.rxCount /\ t.sHoleSize = s.sHoleSize
               /\ t.smState = IF s.smState = "SYN_RECEIVED" THEN "ESTABLISHED" ELSE s.smState
  <1> DEFINE e == IF s.smState = "SYN_RECEIVED" THEN [s EXCEPT !.smState = "ESTABLISHED"] ELSE s
             a == IF 0 < Acked(e, h) /\ Acked(e, h) <= TxSize + 1 THEN FreeAcked(e, h)
                                                                  ELSE DuplicateAck(e)
  <1>1. s \in TCBs /\ "ESTABLISHED" \in States  BY DEF SoundTCB, States
  <1>2. e \in TCBs
    <2>1. [s EXCEPT !.smState = "ESTABLISHED"] \in TCBs  BY <1>1, Zenon DEF TCBs
    <2> QED BY <1>1, <2>1, Zenon
  <1>3. /\ e.txHead = s.txHead /\ e.txTail = s.txTail /\ e.txUnackedTail = s.txUnackedTail
        /\ e.RemoteSEQ = s.RemoteSEQ /\ e.MySEQ = s.MySEQ
        /\ e.rxCount = s.rxCount /\ e.sHoleSize = s.sHoleSize
        /\ e.wFutureDataSize = s.wFutureDataSize /\ e.bTXFIN = s.bTXFIN
        /\ e.bFINSent = s.bFINSent /\ e.bTimerEnabled = s.bTimerEnabled
        /\ e.smState = IF s.smState = "SYN_RECEIVED" THEN "ESTABLISHED" ELSE s.smState
    BY <1>1, Zenon DEF TCBs
  <1>4. AckFreed(s, h) = WindowUpdate(StopTimer(a, h), h)  BY Zenon DEF AckFreed
  <1> HIDE DEF e
  <1>5. SoundTCB(e)  BY <1>2, <1>3, SameFields, Zenon
  <1>6. ~AckTooHigh(e, h)  BY <1>3 DEF AckTooHigh, Unsent
  <1>7. Acked(e, h) > 0 \/ ~(0 < Acked(e, h))
    BY <1>2 DEF TCBs, Acked, InFlight, SegmentOK
  <1>8. SoundTCB(a) /\ a.smState = e.smState /\ a.RemoteSEQ = e.RemoteSEQ
        /\ a.rxCount = e.rxCount /\ a.sHoleSize = e.sHoleSize
    <2>1. CASE 0 < Acked(e, h) /\ Acked(e, h) <= TxSize + 1
      BY <1>5, <1>6, <2>1, FreeAckedSound, Zenon DEF SegmentOK
    <2>2. CASE ~(0 < Acked(e, h) /\ Acked(e, h) <= TxSize + 1)
      BY <1>5, <2>2, DuplicateAckSound, Zenon
    <2> QED BY <2>1, <2>2
  <1> HIDE DEF a
  <1>9. LET b == StopTimer(a, h)
        IN  SoundTCB(b) /\ b.smState = a.smState /\ b.RemoteSEQ = a.RemoteSEQ
            /\ b.rxCount = a.rxCount /\ b.sHoleSize = a.sHoleSize
    BY <1>8, StopTimerSound, Zenon
  <1> DEFINE b == StopTimer(a, h)
  <1> HIDE DEF b
  <1>10. LET t == WindowUpdate(b, h)
         IN  SoundTCB(t) /\ t.smState = b.smState /\ t.RemoteSEQ = b.RemoteSEQ
             /\ t.rxCount = b.rxCount /\ t.sHoleSize = b.sHoleSize
    BY <1>9, WindowUpdateSound, Zenon DEF b, SegmentOK
  <1> QED BY <1>3, <1>4, <1>8, <1>9, <1>10, Zenon DEF b

-----------------------------------------------------------------------------
(* The receive FIFO and its hole.                                          *)

\* Bytes stored at rxHead, and those of the future data they reach, fit into
\* the free space; what remains of the hole and the future data fits too.
LEMMA FillHoleFits ==
    ASSUME NEW hole \in Int, NEW future \in Nat, NEW free \in Nat, NEW n \in Nat, n <= free,
           hole # NoHole => hole > 0 /\ hole + future <= free
    PROVE  LET f == FillHole(hole, future, n)
           IN  /\ f.jump \in Nat /\ n + f.jump <= free /\ f.hole \in Int
               /\ f.hole # NoHole => f.hole > 0 /\ f.hole + future <= free - (n + f.jump)
  <1>1. CASE hole = NoHole \/ future + (hole - n) < 0
    <2>1. FillHole(hole, future, n) = [hole |-> NoHole, jump |-> 0]  BY <1>1 DEF FillHole
    <2> QED BY <2>1 DEF NoHole
  <1>2. CASE hole # NoHole /\ ~(future + (hole - n) < 0) /\ hole - n <= 0
    <2>1. FillHole(hole, future, n) = [hole |-> NoHole, jump |-> future + (hole - n)]
      BY <1>2 DEF FillHole
    <2> QED BY <1>2, <2>1 DEF NoHole
  <1>3. CASE hole # NoHole /\ ~(future + (hole - n) < 0) /\ ~(hole - n <= 0)
    <2>1. FillHole(hole, future, n) = [hole |-> hole - n, jump |-> 0]
      BY <1>3 DEF FillHole
    <2> QED BY <1>3, <2>1 DEF NoHole
  <1> QED BY <1>1, <1>2, <1>3

\* Bytes stored ahead of rxHead keep the recorded future data inside the free
\* space, wherever they fall relative to the future data already there.
LEMMA RecordHoleFits ==
    ASSUME NEW hole \in Int, NEW future \in Nat, NEW free \in Nat,
           NEW missing \in Nat, NEW n \in Nat, missing > 0, missing + n <= free,
           hole # NoHole => hole > 0 /\ hole + future <= free
    PROVE  LET f == RecordHole(hole, future, missing, n)
           IN  f.hole \in Int /\ f.future \in Nat /\ f.hole > 0 /\ f.hole + f.future <= free
  <1> DEFINE end == hole + future
             f   == RecordHole(hole, future, missing, n)
  <1>1. CASE hole = NoHole
    <2>1. f = [hole |-> missing, future |-> n]  BY <1>1 DEF RecordHole
    <2> QED BY <2>1
  <1>2. CASE hole # NoHole /\ missing < hole
    <2> DEFINE k == IF missing + n > end \/ missing + n < hole THEN n ELSE end - missing
    <2>1. f = [hole |-> missing, future |-> k]  BY <1>2 DEF RecordHole
    <2>2. k \in Nat /\ missing + k <= free  BY <1>2
    <2> QED BY <2>1, <2>2
  <1>3. CASE hole # NoHole /\ ~(missing < hole)
    <2> DEFINE k == IF missing + n > end /\ missing <= end THEN missing + n - hole ELSE future
    <2>1. f = [hole |-> hole, future |-> k]  BY <1>3 DEF RecordHole
    <2>2. k \in Nat /\ hole + k <= free  BY <1>3
    <2> QED BY <1>3, <2>1, <2>2
  <1> QED BY <1>1, <1>2, <1>3

\* Text at rxHead, and what it makes contiguous, fits into the receive FIFO.
LEMMA TextInOrderSound ==
    ASSUME SizesAssumption, NEW s, SoundTCB(s), NEW h, SegmentOK(h), Missing(s, h) + h.len >= 0
    PROVE  SoundTCB(TextInOrder(s, h)) /\ TextInOrder(s, h).smState = s.smState
  <1> DEFINE n == InOrderLen(Missing(s, h), h.len, Free(s))
             f == FillHole(s.sHoleSize, s.wFutureDataSize, n)
             t == TextInOrder(s, h)
             r == s.RemoteSEQ + n + f.jump
             c == s.rxCount + n + f.jump
  <1>1. s \in TCBs /\ Sound(s)  BY DEF SoundTCB
  <1>2. Free(s) \in Nat /\ Free(s) = RxSize - s.rxCount
    BY <1>1 DEF TCBs, Sound, Free, FreeRx, SizesAssumption
  <1>3. Missing(s, h) \in Int  BY <1>1 DEF TCBs, SegmentOK, Missing
  <1>4. n \in Nat /\ n <= Free(s)
    BY <1>2, <1>3 DEF InOrderLen, LesserOf, SegmentOK
  <1> HIDE DEF n
  <1>5. /\ f.jump \in Nat /\ n + f.jump <= Free(s) /\ f.hole \in Int
        /\ f.hole # NoHole =>
             f.hole > 0 /\ f.hole + s.wFutureDataSize <= Free(s) - (n + f.jump)
    <2>1. s.sHoleSize \in Int /\ s.wFutureDataSize \in Nat  BY <1>1 DEF TCBs
    <2>2. s.sHoleSize # NoHole => s.sHoleSize > 0 /\ s.sHoleSize + s.wFutureDataSize <= Free(s)
      BY <1>1, <1>2 DEF Sound
    <2> QED BY <1>2, <1>4, <2>1, <2>2, FillHoleFits
  <1>6. t = [s EXCEPT !.RemoteSEQ = r, !.rxCount = c, !.sHoleSize = f.hole]
    BY DEF TextInOrder, n
  <1> HIDE DEF f, t
  <1>7. r \in Nat /\ c \in Nat /\ c <= RxSize /\ Free(s) - (n + f.jump) = RxSize - c
    BY <1>1, <1>2, <1>4, <1>5 DEF TCBs, SizesAssumption
  <1> HIDE DEF r, c
  <1>8. t \in TCBs  BY <1>1, <1>5, <1>6, <1>7, Zenon DEF TCBs
  <1>9. /\ t.txHead = s.txHead /\ t.txTail = s.txTail /\ t.txUnackedTail = s.txUnackedTail
        /\ t.smState = s.smState /\ t.rxCount = c /\ t.sHoleSize = f.hole
        /\ t.wFutureDataSize = s.wFutureDataSize /\ t.bTXFIN = s.bTXFIN
        /\ t.bFINSent = s.bFINSent /\ t.bTimerEnabled = s.bTimerEnabled
    BY <1>1, <1>6, Zenon DEF TCBs
  <1>10. Sound(t)  BY <1>1, <1>5, <1>7, <1>9 DEF Sound
  <1> QED BY <1>8, <1>9, <1>10 DEF SoundTCB, t

\* Text beyond a hole fits into the free space.
LEMMA TextAheadSound ==
    ASSUME SizesAssumption, NEW s, SoundTCB(s), NEW h, SegmentOK(h),
           Missing(s, h) > 0, Missing(s, h) < Free(s)
    PROVE  SoundTCB(TextAhead(s, h)) /\ TextAhead(s, h).smState = s.smState
  <1> DEFINE m == Missing(s, h)
             n == AheadLen(m, h.len, Free(s))
             f == RecordHole(s.sHoleSize, s.wFutureDataSize, m, n)
             t == TextAhead(s, h)
  <1>1. s \in TCBs /\ Sound(s)  BY DEF SoundTCB
  <1>2. Free(s) \in Nat /\ Free(s) = RxSize - s.rxCount
    BY <1>1 DEF TCBs, Sound, Free, FreeRx, SizesAssumption
  <1>3. m \in Nat  BY <1>1 DEF TCBs, SegmentOK, Missing
  <1> HIDE DEF m
  <1>4. n \in Nat /\ m + n <= Free(s)
    BY <1>2, <1>3 DEF AheadLen, SegmentOK, m
  <1> HIDE DEF n
  <1>5. f.hole \in Int /\ f.future \in Nat /\ f.hole > 0 /\ f.hole + f.future <= Free(s)
    <2>1. s.sHoleSize \in Int /\ s.wFutureDataSize \in Nat  BY <1>1 DEF TCBs
    <2>2. s.sHoleSize # NoHole => s.sHoleSize > 0 /\ s.sHoleSize + s.wFutureDataSize <= Free(s)
      BY <1>1, <1>2 DEF Sound
    <2>3. m > 0  BY DEF m
    <2> QED BY <1>2, <1>3, <1>4, <2>1, <2>2, <2>3, RecordHoleFits
  <1>6. t = [s EXCEPT !.sHoleSize = f.hole, !.wFutureDataSize = f.future]
    BY DEF TextAhead, n, m
  <1> HIDE DEF f, t
  <1>7. t \in TCBs  BY <1>1, <1>5, <1>6, Zenon DEF TCBs
  <1>8. /\ t.txHead = s.txHead /\ t.txTail = s.txTail /\ t.txUnackedTail = s.txUnackedTail
        /\ t.smState = s.smState /\ t.rxCount = s.rxCount /\ t.sHoleSize = f.hole
        /\ t.wFutureDataSize = f.future /\ t.bTXFIN = s.bTXFIN
        /\ t.bFINSent = s.bFINSent /\ t.bTimerEnabled = s.bTimerEnabled
    BY <1>1, <1>6, Zenon DEF TCBs
  <1>9. Sound(t)  BY <1>1, <1>2, <1>5, <1>8 DEF Sound
  <1> QED BY <1>7, <1>8, <1>9 DEF SoundTCB, t

-----------------------------------------------------------------------------
(* Assignments the handlers make themselves.                               *)

\* MySEQ is not constrained by the invariant.
LEMMA SetMySEQ ==
    ASSUME NEW s, SoundTCB(s), NEW q \in Int
    PROVE  SoundTCB([s EXCEPT !.MySEQ = q])
  <1> DEFINE t == [s EXCEPT !.MySEQ = q]
  <1>1. s \in TCBs  BY DEF SoundTCB
  <1>2. t \in TCBs  BY <1>1, Zenon DEF TCBs
  <1>3. /\ t.txHead = s.txHead /\ t.txTail = s.txTail /\ t.txUnackedTail = s.txUnackedTail
        /\ t.rxCount = s.rxCount /\ t.sHoleSize = s.sHoleSize
        /\ t.wFutureDataSize = s.wFutureDataSize /\ t.bTXFIN = s.bTXFIN
        /\ t.bFINSent = s.bFINSent /\ t.bTimerEnabled = s.bTimerEnabled
    BY <1>1, Zenon DEF TCBs
  <1> HIDE DEF t
  <1>4. SoundTCB(t)  BY <1>2, <1>3, SameFields, Zenon
  <1> QED BY <1>4 DEF t

\* Nor is RemoteSEQ.
LEMMA SetRemoteSEQ ==
    ASSUME NEW s, SoundTCB(s), NEW r \in Nat
    PROVE  SoundTCB([s EXCEPT !.RemoteSEQ = r])
  <1> DEFINE t == [s EXCEPT !.RemoteSEQ = r]
  <1>1. s \in TCBs  BY DEF SoundTCB
  <1>2. t \in TCBs  BY <1>1, Zenon DEF TCBs
  <1>3. /\ t.txHead = s.txHead /\ t.txTail = s.txTail /\ t.txUnackedTail = s.txUnackedTail
        /\ t.rxCount = s.rxCount /\ t.sHoleSize = s.sHoleSize
        /\ t.wFutureDataSize = s.wFutureDataSize /\ t.bTXFIN = s.bTXFIN
        /\ t.bFINSent = s.bFINSent /\ t.bTimerEnabled = s.bTimerEnabled
    BY <1>1, Zenon DEF TCBs
  <1> HIDE DEF t
  <1>4. SoundTCB(t)  BY <1>2, <1>3, SameFields, Zenon
  <1> QED BY <1>4 DEF t

\* Nor is the state.
LEMMA SetState ==
    ASSUME NEW s, SoundTCB(s), NEW st \in States
    PROVE  SoundTCB([s EXCEPT !.smState = st])
  <1> DEFINE t == [s EXCEPT !.smState = st]
  <1>1. s \in TCBs  BY DEF SoundTCB
  <1>2. t \in TCBs  BY <1>1, Zenon DEF TCBs
  <1>3. /\ t.txHead = s.txHead /\ t.txTail = s.txTail /\ t.txUnackedTail = s.txUnackedTail
        /\ t.rxCount = s.rxCount /\ t.sHoleSize = s.sHoleSize
        /\ t.wFutureDataSize = s.wFutureDataSize /\ t.bTXFIN = s.bTXFIN
        /\ t.bFINSent = s.bFINSent /\ t.bTimerEnabled = s.bTimerEnabled
    BY <1>1, Zenon DEF TCBs
  <1> HIDE DEF t
  <1>4. SoundTCB(t)  BY <1>2, <1>3, SameFields, Zenon
  <1> QED BY <1>4 DEF t

\* Nor is the time of the next event.
LEMMA SetDue ==
    ASSUME NEW s, SoundTCB(s), NEW b \in BOOLEAN
    PROVE  SoundTCB([s EXCEPT !.due = b])
  <1> DEFINE t == [s EXCEPT !.due = b]
  <1>1. s \in TCBs  BY DEF SoundTCB
  <1>2. t \in TCBs  BY <1>1, Zenon DEF TCBs
  <1>3. /\ t.txHead = s.txHead /\ t.txTail = s.txTail /\ t.txUnackedTail = s.txUnackedTail
        /\ t.rxCount = s.rxCount /\ t.sHoleSize = s.sHoleSize
        /\ t.wFutureDataSize = s.wFutureDataSize /\ t.bTXFIN = s.bTXFIN
        /\ t.bFINSent = s.bFINSent /\ t.bTimerEnabled = s.bTimerEnabled
    BY <1>1, Zenon DEF TCBs
  <1> HIDE DEF t
  <1>4. SoundTCB(t)  BY <1>2, <1>3, SameFields, Zenon
  <1> QED BY <1>4 DEF t

\* Nor is the number of retries.
LEMMA SetRetryCount ==
    ASSUME NEW s, SoundTCB(s), NEW n \in 0..(BYTE - 1)
    PROVE  SoundTCB([s EXCEPT !.retryCount = n])
  <1> DEFINE t == [s EXCEPT !.retryCount = n]
  <1>1. s \in TCBs  BY DEF SoundTCB
  <1>2. t \in TCBs  BY <1>1, Zenon DEF TCBs
  <1>3. /\ t.txHead = s.txHead /\ t.txTail = s.txTail /\ t.txUnackedTail = s.txUnackedTail
        /\ t.rxCount = s.rxCount /\ t.sHoleSize = s.sHoleSize
        /\ t.wFutureDataSize = s.wFutureDataSize /\ t.bTXFIN = s.bTXFIN
        /\ t.bFINSent = s.bFINSent /\ t.bTimerEnabled = s.bTimerEnabled
    BY <1>1, Zenon DEF TCBs
  <1> HIDE DEF t
  <1>4. SoundTCB(t)  BY <1>2, <1>3, SameFields, Zenon
  <1> QED BY <1>4 DEF t

\* Nor is the reset flag.
LEMMA SetReset ==
    ASSUME NEW s, SoundTCB(s), NEW b \in BOOLEAN
    PROVE  SoundTCB([s EXCEPT !.bSocketReset = b])
  <1> DEFINE t == [s EXCEPT !.bSocketReset = b]
  <1>1. s \in TCBs  BY DEF SoundTCB
  <1>2. t \in TCBs  BY <1>1, Zenon DEF TCBs
  <1>3. /\ t.txHead = s.txHead /\ t.txTail = s.txTail /\ t.txUnackedTail = s.txUnackedTail
        /\ t.rxCount = s.rxCount /\ t.sHoleSize = s.sHoleSize
        /\ t.wFutureDataSize = s.wFutureDataSize /\ t.bTXFIN = s.bTXFIN
        /\ t.bFINSent = s.bFINSent /\ t.bTimerEnabled = s.bTimerEnabled
    BY <1>1, Zenon DEF TCBs
  <1> HIDE DEF t
  <1>4. SoundTCB(t)  BY <1>2, <1>3, SameFields, Zenon
  <1> QED BY <1>4 DEF t

\* Nor is the automatic transmit timer.
LEMMA SetTimer2 ==
    ASSUME NEW s, SoundTCB(s), NEW b \in BOOLEAN
    PROVE  SoundTCB([s EXCEPT !.bTimer2Enabled = b])
  <1> DEFINE t == [s EXCEPT !.bTimer2Enabled = b]
  <1>1. s \in TCBs  BY DEF SoundTCB
  <1>2. t \in TCBs  BY <1>1, Zenon DEF TCBs
  <1>3. /\ t.txHead = s.txHead /\ t.txTail = s.txTail /\ t.txUnackedTail = s.txUnackedTail
        /\ t.rxCount = s.rxCount /\ t.sHoleSize = s.sHoleSize
        /\ t.wFutureDataSize = s.wFutureDataSize /\ t.bTXFIN = s.bTXFIN
        /\ t.bFINSent = s.bFINSent /\ t.bTimerEnabled = s.bTimerEnabled
    BY <1>1, Zenon DEF TCBs
  <1> HIDE DEF t
  <1>4. SoundTCB(t)  BY <1>2, <1>3, SameFields, Zenon
  <1> QED BY <1>4 DEF t

\* Nor is the half-full flag.
LEMMA SetHalfFull ==
    ASSUME NEW s, SoundTCB(s), NEW b \in BOOLEAN
    PROVE  SoundTCB([s EXCEPT !.bHalfFullFlush = b])
  <1> DEFINE t == [s EXCEPT !.bHalfFullFlush = b]
  <1>1. s \in TCBs  BY DEF SoundTCB
  <1>2. t \in TCBs  BY <1>1, Zenon DEF TCBs
  <1>3. /\ t.txHead = s.txHead /\ t.txTail = s.txTail /\ t.txUnackedTail = s.txUnackedTail
        /\ t.rxCount = s.rxCount /\ t.sHoleSize = s.sHoleSize
        /\ t.wFutureDataSize = s.wFutureDataSize /\ t.bTXFIN = s.bTXFIN
        /\ t.bFINSent = s.bFINSent /\ t.bTimerEnabled = s.bTimerEnabled
    BY <1>1, Zenon DEF TCBs
  <1> HIDE DEF t
  <1>4. SoundTCB(t)  BY <1>2, <1>3, SameFields, Zenon
  <1> QED BY <1>4 DEF t

\* Nor is the pending flush.
LEMMA SetASAP ==
    ASSUME NEW s, SoundTCB(s), NEW b \in BOOLEAN
    PROVE  SoundTCB([s EXCEPT !.bTXASAPWithoutTimerReset = b])
  <1> DEFINE t == [s EXCEPT !.bTXASAPWithoutTimerReset = b]
  <1>1. s \in TCBs  BY DEF SoundTCB
  <1>2. t \in TCBs  BY <1>1, Zenon DEF TCBs
  <1>3. /\ t.txHead = s.txHead /\ t.txTail = s.txTail /\ t.txUnackedTail = s.txUnackedTail
        /\ t.rxCount = s.rxCount /\ t.sHoleSize = s.sHoleSize
        /\ t.wFutureDataSize = s.wFutureDataSize /\ t.bTXFIN = s.bTXFIN
        /\ t.bFINSent = s.bFINSent /\ t.bTimerEnabled = s.bTimerEnabled
    BY <1>1, Zenon DEF TCBs
  <1> HIDE DEF t
  <1>4. SoundTCB(t)  BY <1>2, <1>3, SameFields, Zenon
  <1> QED BY <1>4 DEF t

\* Nor is the delayed ACK.
LEMMA SetDelayedACK ==
    ASSUME NEW s, SoundTCB(s)
    PROVE  SoundTCB([s EXCEPT !.bOneSegmentReceived = TRUE, !.bDelayedACKTimerEnabled = TRUE])
  <1> DEFINE t == [s EXCEPT !.bOneSegmentReceived = TRUE, !.bDelayedACKTimerEnabled = TRUE]
  <1>1. s \in TCBs  BY DEF SoundTCB
  <1>2. t \in TCBs  BY <1>1, Zenon DEF TCBs
  <1>3. /\ t.txHead = s.txHead /\ t.txTail = s.txTail /\ t.txUnackedTail = s.txUnackedTail
        /\ t.rxCount = s.rxCount /\ t.sHoleSize = s.sHoleSize
        /\ t.wFutureDataSize = s.wFutureDataSize /\ t.bTXFIN = s.bTXFIN
        /\ t.bFINSent = s.bFINSent /\ t.bTimerEnabled = s.bTimerEnabled
    BY <1>1, Zenon DEF TCBs
  <1> HIDE DEF t
  <1>4. SoundTCB(t)  BY <1>2, <1>3, SameFields, Zenon
  <1> QED BY <1>4 DEF t

\* Reading leaves more room for the hole.
LEMMA SetRxCount ==
    ASSUME NEW s, SoundTCB(s), NEW n \in Nat, n <= s.rxCount, RxSize \in Nat
    PROVE  SoundTCB([s EXCEPT !.rxCount = n])
  <1> DEFINE t == [s EXCEPT !.rxCount = n]
  <1>1. s \in TCBs /\ Sound(s)  BY DEF SoundTCB
  <1>2. t \in TCBs  BY <1>1, Zenon DEF TCBs
  <1>3. /\ t.txHead = s.txHead /\ t.txTail = s.txTail /\ t.txUnackedTail = s.txUnackedTail
        /\ t.rxCount = n /\ t.sHoleSize = s.sHoleSize
        /\ t.wFutureDataSize = s.wFutureDataSize /\ t.bTXFIN = s.bTXFIN
        /\ t.bFINSent = s.bFINSent /\ t.bTimerEnabled = s.bTimerEnabled
    BY <1>1, Zenon DEF TCBs
  <1> HIDE DEF t
  <1>4. Sound(t)  BY <1>1, <1>3 DEF Sound, TCBs
  <1> QED BY <1>2, <1>4 DEF SoundTCB, t

\* Writing into the free space of the TX FIFO.
LEMMA WroteSound ==
    ASSUME SizesAssumption, NEW s, SoundTCB(s), NEW n \in Nat, n <= TxSize - (s.txHead - s.txTail)
    PROVE  SoundTCB(Wrote(s, n))
  <1> DEFINE k == s.txHead + n
             t == Wrote(s, n)
  <1>1. s \in TCBs /\ Sound(s)  BY DEF SoundTCB
  <1>2. k \in Nat /\ s.txHead <= k /\ k - s.txTail <= TxSize
    BY <1>1 DEF TCBs, SizesAssumption
  <1>3. t = [s EXCEPT !.txHead = k]  BY DEF Wrote
  <1> HIDE DEF k, t
  <1>4. t \in TCBs  BY <1>1, <1>2, <1>3, Zenon DEF TCBs
  <1>5. /\ t.txHead = k /\ t.txTail = s.txTail /\ t.txUnackedTail = s.txUnackedTail
        /\ t.rxCount = s.rxCount /\ t.sHoleSize = s.sHoleSize
        /\ t.wFutureDataSize = s.wFutureDataSize /\ t.bTXFIN = s.bTXFIN
        /\ t.bFINSent = s.bFINSent /\ t.bTimerEnabled = s.bTimerEnabled
    BY <1>1, <1>3, Zenon DEF TCBs
  <1>6. Sound(t)  BY <1>1, <1>2, <1>5 DEF Sound, TCBs
  <1> QED BY <1>4, <1>6 DEF SoundTCB, t
-----------------------------------------------------------------------------
(* Text, FIN and the parts of TCPTick().                                   *)

\* The text of an acceptable segment keeps the invariant.
LEMMA TextSound ==
    ASSUME SizesAssumption, NEW s, SoundTCB(s), NEW h, SegmentOK(h),
           h.len > 0 => Missing(s, h) + h.len >= 0 /\ Missing(s, h) < Free(s)
    PROVE  SoundTCB(Text(s, h)) /\ Text(s, h).smState = s.smState
  <1>1. CASE h.len = 0  BY <1>1, Zenon DEF Text
  <1>2. CASE h.len # 0
    <2>1. h.len > 0  BY <1>2 DEF SegmentOK
    <2>2. CASE Missing(s, h) <= 0
      BY <1>2, <2>1, <2>2, TextInOrderSound, Zenon DEF Text
    <2>3. CASE ~(Missing(s, h) <= 0)
      <3>1. s \in TCBs  BY DEF SoundTCB
      <3>2. Missing(s, h) > 0  BY <2>3, <3>1 DEF Missing, TCBs, SegmentOK
      <3> QED BY <1>2, <2>1, <2>3, <3>2, TextAheadSound, Zenon DEF Text
    <2> QED BY <2>2, <2>3
  <1> QED BY <1>1, <1>2

\* So does its acknowledgement, at once or delayed.
LEMMA AckTextSound ==
    ASSUME SizesAssumption, NEW s, SoundTCB(s), NEW h
    PROVE  SoundTCB(AckText(s, h))
  <1> DEFINE d == IF s.smState = "ESTABLISHED" THEN s ELSE [s EXCEPT !.rxCount = 0]
             t == [d EXCEPT !.bOneSegmentReceived = TRUE, !.bDelayedACKTimerEnabled = TRUE]
  <1>1. s \in TCBs /\ RxSize \in Nat  BY DEF SoundTCB, SizesAssumption
  <1>2. 0 \in Nat /\ 0 <= s.rxCount  BY <1>1 DEF TCBs
  <1>3. SoundTCB([s EXCEPT !.rxCount = 0])  BY <1>1, <1>2, SetRxCount
  <1>4. SoundTCB(d)  BY <1>3, Zenon
  <1>5. AckText(s, h) \in {s, SendTCP(d, {"ACK"}, "RESET_TIMERS"), t}
    BY Zenon DEF AckText
  <1> HIDE DEF d
  <1>6. SoundTCB(t)  BY <1>4, SetDelayedACK, Zenon
  <1>7. SoundTCB(SendTCP(d, {"ACK"}, "RESET_TIMERS"))  BY <1>4, SendTCPSound, Zenon
  <1> QED BY <1>5, <1>6, <1>7, Zenon

\* So does the FIN, in every state that takes one.
LEMMA FinSound ==
    ASSUME SizesAssumption, NEW s, SoundTCB(s), NEW h
    PROVE  SoundTCB(Fin(s, h))
  <1> DEFINE k == s.RemoteSEQ + 1
             r == [s EXCEPT !.RemoteSEQ = k]
             st == CASE r.smState = "ESTABLISHED" -> "CLOSE_WAIT"
                     [] r.smState = "FIN_WAIT_1"  -> "CLOSING"
                     [] OTHER                     -> r.smState
             t == [r EXCEPT !.smState = st]
  <1>1. s \in TCBs  BY DEF SoundTCB
  <1>2. k \in Nat  BY <1>1 DEF TCBs
  <1>3. Fin(s, h) \in {s, CloseSocket(SendTCP(r, {"ACK"}, "NONE")),
                       SendTCP(t, {"ACK"}, "RESET_TIMERS")}
    BY Zenon DEF Fin
  <1> HIDE DEF k
  <1>4. SoundTCB(r)  BY <1>2, SetRemoteSEQ, Zenon
  <1> HIDE DEF r
  <1>5. st \in States
    <2>1. r.smState \in States  BY <1>4 DEF SoundTCB, TCBs
    <2>2. "CLOSE_WAIT" \in States /\ "CLOSING" \in States  BY DEF States
    <2> QED BY <2>1, <2>2
  <1> HIDE DEF st
  <1>6. SoundTCB(t)  BY <1>4, <1>5, SetState, Zenon
  <1> HIDE DEF t
  <1>7. SoundTCB(SendTCP(t, {"ACK"}, "RESET_TIMERS"))  BY <1>6, SendTCPSound, Zenon
  <1>8. SoundTCB(SendTCP(r, {"ACK"}, "NONE"))  BY <1>4, SendTCPSound, Zenon
  <1>9. SoundTCB(CloseSocket(SendTCP(r, {"ACK"}, "NONE")))  BY <1>8, CloseSocketSound, Zenon
  <1> QED BY <1>3, <1>7, <1>9, Zenon

\* The first transmission of a tick keeps the invariant.
LEMMA TickSendSound ==
    ASSUME SizesAssumption, NEW s, SoundTCB(s), NEW x
    PROVE  SoundTCB(TickSend(s, x))
  <1> DEFINE m == IF "ASAP" \in x /\ s.bTXASAPWithoutTimerReset THEN "NONE" ELSE "RESET_TIMERS"
             t == [s EXCEPT !.smState = "LAST_ACK"]
  <1>1. TickSend(s, x) \in {s, SendTCP(t, {"FIN", "ACK"}, m), SendTCP(s, {"ACK"}, m)}
    BY Zenon DEF TickSend
  <1> HIDE DEF m
  <1>2. SoundTCB(t)
    <2>1. "LAST_ACK" \in States  BY DEF States
    <2> QED BY <2>1, SetState, Zenon
  <1> HIDE DEF t
  <1>3. SoundTCB(SendTCP(t, {"FIN", "ACK"}, m))  BY <1>2, SendTCPSound, Zenon
  <1>4. SoundTCB(SendTCP(s, {"ACK"}, m))  BY SendTCPSound, Zenon
  <1> QED BY <1>1, <1>3, <1>4, Zenon

\* So does a retransmission.
LEMMA RetrySound ==
    ASSUME SizesAssumption, NEW s, SoundTCB(s), NEW flags
    PROVE  SoundTCB(Retry(s, flags))
  <1> DEFINE n == (s.retryCount + 1) % BYTE
             t == [s EXCEPT !.retryCount = n]
  <1>1. s \in TCBs  BY DEF SoundTCB
  <1>2. n \in 0..(BYTE - 1)  BY <1>1 DEF TCBs, BYTE
  <1>3. Retry(s, flags) = SendTCP(RollBack(t), flags, "NONE")  BY Zenon DEF Retry
  <1> HIDE DEF n
  <1>4. SoundTCB(t)  BY <1>2, SetRetryCount, Zenon
  <1> HIDE DEF t
  <1>5. SoundTCB(RollBack(t))  BY <1>4, RollBackSound, Zenon
  <1> QED BY <1>3, <1>5, SendTCPSound, Zenon

\* So does giving the connection up with a reset.
LEMMA AbortSound ==
    ASSUME SizesAssumption, NEW s, SoundTCB(s) PROVE SoundTCB(Abort(s))
  <1>1. SoundTCB(SendTCP(s, {"RST", "ACK"}, "RESET_TIMERS"))  BY SendTCPSound, Zenon
  <1> QED BY <1>1, CloseSocketSound, Zenon DEF Abort

\* So does TCPDisconnect(), in every state.
LEMMA DisconnectSound ==
    ASSUME SizesAssumption, NEW s0, SoundTCB(s0) PROVE SoundTCB(Disconnect(s0))
  <1> DEFINE s == [s0 EXCEPT !.rxCount = 0]
             t == SendTCP(s, {"FIN", "ACK"}, "RESET_TIMERS")
             u == SendTCP(s, {"RST", "ACK"}, "NONE")
  <1>1. s0 \in TCBs /\ RxSize \in Nat  BY DEF SoundTCB, SizesAssumption
  <1>2. 0 \in Nat /\ 0 <= s0.rxCount  BY <1>1 DEF TCBs
  <1>3. SoundTCB(s)  BY <1>1, <1>2, SetRxCount
  <1>4. Disconnect(s0) \in {[t EXCEPT !.smState = "FIN_WAIT_1"],
                            [t EXCEPT !.smState = "LAST_ACK"], CloseSocket(u)}
    BY Zenon DEF Disconnect
  <1> HIDE DEF s
  <1>5. SoundTCB(t) /\ SoundTCB(u)  BY <1>3, SendTCPSound, Zenon
  <1> HIDE DEF t, u
  <1>6. "FIN_WAIT_1" \in States /\ "LAST_ACK" \in States  BY DEF States
  <1>7. SoundTCB([t EXCEPT !.smState = "FIN_WAIT_1"])  BY <1>5, <1>6, SetState, Zenon
  <1>8. SoundTCB([t EXCEPT !.smState = "LAST_ACK"])  BY <1>5, <1>6, SetState, Zenon
  <1>9. SoundTCB(CloseSocket(u))  BY <1>5, CloseSocketSound, Zenon
  <1> QED BY <1>4, <1>7, <1>8, <1>9, Zenon

\* A flush moves neither end of the TX FIFO.
LEMMA FlushSound ==
    ASSUME SizesAssumption, NEW s, SoundTCB(s)
    PROVE  LET t == Flush(s)
           IN  SoundTCB(t) /\ t.txHead = s.txHead /\ t.txTail = s.txTail
  BY SendTCPSound, Zenon DEF Flush

\* Nor does the half-full flush.
LEMMA HalfFullSound ==
    ASSUME SizesAssumption, NEW s, SoundTCB(s), NEW space
    PROVE  LET t == HalfFull(s, space)
           IN  SoundTCB(t) /\ t.txHead = s.txHead /\ t.txTail = s.txTail
  <1> DEFINE f == Flush(s)
             t == [f EXCEPT !.bHalfFullFlush = TRUE]
  <1>1. SoundTCB(f) /\ f.txHead = s.txHead /\ f.txTail = s.txTail  BY FlushSound, Zenon
  <1>2. HalfFull(s, space) = s \/ HalfFull(s, space) = t  BY Zenon DEF HalfFull
  <1> HIDE DEF f
  <1>3. SoundTCB(t)  BY <1>1, SetHalfFull, Zenon
  <1>4. t.txHead = f.txHead /\ t.txTail = f.txTail  BY <1>1, Zenon DEF SoundTCB, TCBs
  <1> QED BY <1>1, <1>2, <1>3, <1>4, Zenon
-----------------------------------------------------------------------------
(* The actions.                                                            *)

PeerOK == peer \in [alive : BOOLEAN, nxt : Nat, acks : SUBSET Nat, got : Seq(Nat),
                    fin : BOOLEAN, len : Nat]

Inv == SoundTCB(tcb) /\ PeerOK /\ conns \in 0..MaxConns

\* What the remote node may send is well formed.
LEMMA SegmentsOK ==
    ASSUME SizesAssumption, PeerOK, NEW h \in AckSegments \union OtherSegments
    PROVE  SegmentOK(h)
  <1>1. peer.len \in Nat /\ peer.acks \subseteq Nat  BY DEF PeerOK
  <1>2. CASE h \in AckSegments
    <2>1. PICK k \in {"ACK", "URG"}, q \in 1..(peer.len + 2), n \in 0..peer.len, f \in BOOLEAN,
               a \in peer.acks \union StaleAcks, w \in PeerWindows :
                 h = Segment(k, q, n, f, a, w)
      BY <1>2 DEF AckSegments
    <2>2. q \in Nat /\ n \in Nat  BY <1>1
    <2>3. a \in Nat /\ w \in Nat  BY <1>1, Zenon DEF SizesAssumption
    <2> QED BY <2>1, <2>2, <2>3 DEF Segment, SegmentOK
  <1>3. CASE h \in OtherSegments
    <2>1. PICK k \in {"SYN", "RST", "NONE"}, q \in 0..(peer.len + 2) : h = Segment(k, q, 0, FALSE, 0, 0)
      BY <1>3, SMT DEF OtherSegments, Segment
    <2>2. q \in Nat  BY <1>1, <2>1
    <2> QED BY <2>1, <2>2 DEF Segment, SegmentOK
  <1> QED BY <1>2, <1>3

\* A new connection has a well-typed remote node.
LEMMA NewPeerOK == ASSUME NEW n \in Nat, peer' = NewPeer(n) PROVE PeerOK'
  BY DEF NewPeer, PeerOK

\* The initial state satisfies the invariant.
LEMMA InitInv == SizesAssumption /\ Init => Inv
  <1> SUFFICES ASSUME SizesAssumption, Init PROVE Inv  OBVIOUS
  <1>1. InitialTCB \in TCBs  BY DEF InitialTCB, TCBs, States, NoHole, BYTE, Segments
  <1>2. Sound(InitialTCB)  BY DEF InitialTCB, Sound, NoHole, SizesAssumption
  <1>3. PeerOK
    <2>1. peer = [alive |-> FALSE, nxt |-> 0, acks |-> {}, got |-> <<>>, fin |-> FALSE, len |-> 0]
      BY DEF Init, NewPeer
    <2> QED BY <2>1 DEF PeerOK
  <1>4. 0 \in 0..MaxConns  BY DEF SizesAssumption
  <1> QED BY <1>1, <1>2, <1>3, <1>4 DEF Init, Inv, SoundTCB

\* Text is stored only from segments whose acceptance test it has passed.
LEMMA AcceptedText ==
    ASSUME SizesAssumption, NEW s, SoundTCB(s), NEW h, SegmentOK(h), Acceptable(s, h),
           h.kind \in {"ACK", "URG"}
    PROVE  h.len > 0 => Missing(s, h) + h.len >= 0 /\ Missing(s, h) < Free(s)
  <1>1. s \in TCBs  BY DEF SoundTCB
  <1>2. Missing(s, h) \in Int /\ h.len \in Nat  BY <1>1 DEF TCBs, SegmentOK, Missing
  <1>3. One(h.fin) \in 0..1 /\ One(h.kind = "SYN") = 0  BY OneNat, Zenon
  <1>4. SUFFICES ASSUME h.len > 0 PROVE Missing(s, h) + h.len >= 0 /\ Missing(s, h) < Free(s)
    OBVIOUS
  <1>5. SegLen(h) > 0 /\ SegLen(h) = h.len + One(h.fin)  BY <1>2, <1>3, <1>4 DEF SegLen
  <1>6. Missing(s, h) < Free(s) /\ Missing(s, h) + SegLen(h) > 0
    BY <1>5, Zenon DEF Acceptable
  <1> QED BY <1>2, <1>3, <1>5, <1>6

\* Processing the ACK, text and FIN of an acceptable segment keeps the invariant.
LEMMA ProcessedSound ==
    ASSUME SizesAssumption, NEW s, SoundTCB(s), NEW h, SegmentOK(h), Acceptable(s, h),
           h.kind \in {"ACK", "URG"}, ~AckTooHigh(s, h)
    PROVE  LET a == AckFreed(Heard(s), h)
               t == FinAcked(a, h)
           IN  SoundTCB(a) /\ SoundTCB(t) /\ SoundTCB(Fin(AckText(Text(t, h), h), h))
  <1> DEFINE u == Heard(s)
             a == AckFreed(u, h)
             t == FinAcked(a, h)
  <1>1. /\ SoundTCB(u) /\ u.txHead = s.txHead
        /\ u.txUnackedTail = s.txUnackedTail /\ u.MySEQ = s.MySEQ
        /\ u.RemoteSEQ = s.RemoteSEQ /\ u.rxCount = s.rxCount
    BY HeardSound, Zenon
  <1> HIDE DEF u
  <1>2. ~AckTooHigh(u, h)  BY <1>1 DEF AckTooHigh, Unsent
  <1>3. SoundTCB(a) /\ a.RemoteSEQ = u.RemoteSEQ /\ a.rxCount = u.rxCount
    BY <1>1, <1>2, AckFreedSound, Zenon
  <1> HIDE DEF a
  <1>4. SoundTCB(t) /\ t.RemoteSEQ = a.RemoteSEQ /\ t.rxCount = a.rxCount
    BY <1>3, FinAckedSound, Zenon
  <1> HIDE DEF t
  <1>5. Missing(t, h) = Missing(s, h) /\ Free(t) = Free(s)
    BY <1>1, <1>3, <1>4 DEF Missing, Free
  <1>6. h.len > 0 => Missing(t, h) + h.len >= 0 /\ Missing(t, h) < Free(t)
    BY <1>5, AcceptedText, Zenon
  <1>7. SoundTCB(Text(t, h))  BY <1>4, <1>6, TextSound, Zenon
  <1>8. SoundTCB(AckText(Text(t, h), h))  BY <1>7, AckTextSound, Zenon
  <1>9. SoundTCB(Fin(AckText(Text(t, h), h), h))  BY <1>8, FinSound, Zenon
  <1> QED BY <1>3, <1>4, <1>9 DEF t, a, u

\* Every segment that reaches a bound socket keeps it.
LEMMA SegSound ==
    ASSUME SizesAssumption, SoundTCB(tcb), NEW h, SegmentOK(h),
           \/ SegUnacceptable(h) \/ SegReset(h) \/ SegWithoutAck(h) \/ SegBadSynAck(h)
           \/ SegLastAck(h) \/ SegAckTooHigh(h) \/ SegClosing(h) \/ SegFinWait2(h)
           \/ SegProcessed(h)
    PROVE  SoundTCB(tcb') /\ UNCHANGED <<peer, conns>>
  <1> DEFINE u == Heard(tcb)
             a == AckFreed(u, h)
             t == FinAcked(a, h)
  <1>1. SoundTCB(u) /\ tcb \in TCBs  BY HeardSound, Zenon DEF SoundTCB
  <1>2. SoundTCB(CloseSocket(u))  BY <1>1, CloseSocketSound, Zenon
  <1>3. AckProcessed(h) /\ ~AckTooHigh(tcb, h) =>
          SoundTCB(a) /\ SoundTCB(t) /\ SoundTCB(Fin(AckText(Text(t, h), h), h))
    BY ProcessedSound, Zenon DEF AckProcessed, AckArrives
  <1> HIDE DEF u
  <1>4. CASE SegUnacceptable(h)
    <2>1. SoundTCB(SendTCP(u, {"ACK"}, "RESET_TIMERS"))  BY <1>1, SendTCPSound, Zenon
    <2> QED BY <1>1, <1>4, <2>1, Zenon DEF SegUnacceptable, Arrives, u
  <1>5. CASE SegReset(h)  BY <1>2, <1>5, Zenon DEF SegReset, Arrives, u
  <1>6. CASE SegWithoutAck(h)  BY <1>1, <1>6, Zenon DEF SegWithoutAck, Arrives, u
  <1>7. CASE SegBadSynAck(h)
    <2> DEFINE v == [u EXCEPT !.MySEQ = h.ackno]
               w == SendTCP(v, {"RST"}, "RESET_TIMERS")
    <2>1. h.ackno \in Int /\ tcb.MySEQ \in Int  BY <1>1 DEF SegmentOK, TCBs
    <2>2. SoundTCB(v)  BY <1>1, <2>1, SetMySEQ, Zenon
    <2>3. tcb' = [w EXCEPT !.MySEQ = tcb.MySEQ] /\ UNCHANGED <<peer, conns>>
      BY <1>7, Zenon DEF SegBadSynAck, AckArrives, Arrives, u
    <2> HIDE DEF v
    <2>4. SoundTCB(w)  BY <2>2, SendTCPSound, Zenon
    <2> HIDE DEF w
    <2> QED BY <2>1, <2>3, <2>4, SetMySEQ, Zenon
  <1>8. CASE SegLastAck(h)
    BY <1>1, <1>2, <1>8, Zenon DEF SegLastAck, AckArrives, Arrives, u
  <1>9. CASE SegAckTooHigh(h)
    <2>1. SoundTCB(SendTCP(u, {"ACK"}, "NONE"))  BY <1>1, SendTCPSound, Zenon
    <2> QED BY <1>9, <2>1, Zenon DEF SegAckTooHigh, AckProcessed, AckArrives, Arrives, u
  <1>10. CASE SegClosing(h)
    <2>1. SoundTCB(a)  BY <1>3, <1>10, Zenon DEF SegClosing
    <2>2. SoundTCB(CloseSocket(a))  BY <2>1, CloseSocketSound, Zenon
    <2> QED BY <1>10, <2>1, <2>2, Zenon DEF SegClosing, AckProcessed, AckArrives, Arrives, u
  <1>11. CASE SegFinWait2(h)
    <2> DEFINE v == [a EXCEPT !.MySEQ = h.ackno]
               w == SendTCP(v, {"RST", "ACK"}, "NONE")
    <2>1. SoundTCB(a)  BY <1>3, <1>11, Zenon DEF SegFinWait2
    <2>2. tcb' = CloseSocket(w) /\ UNCHANGED <<peer, conns>>
      BY <1>11, Zenon DEF SegFinWait2, AckProcessed, AckArrives, Arrives, u
    <2> HIDE DEF a
    <2>3. h.ackno \in Int  BY DEF SegmentOK
    <2>4. SoundTCB(v)  BY <2>1, <2>3, SetMySEQ, Zenon
    <2> HIDE DEF v
    <2>5. SoundTCB(w)  BY <2>4, SendTCPSound, Zenon
    <2> QED BY <2>2, <2>5, CloseSocketSound, Zenon
  <1>12. CASE SegProcessed(h)
    <2>1. SoundTCB(t) /\ SoundTCB(Fin(AckText(Text(t, h), h), h))
      BY <1>3, <1>12, Zenon DEF SegProcessed
    <2>2. tcb' \in {t, Fin(AckText(Text(t, h), h), h)} /\ UNCHANGED <<peer, conns>>
      BY <1>12, Zenon DEF SegProcessed, AckProcessed, AckArrives, Arrives, u
    <2> HIDE DEF t
    <2> QED BY <2>1, <2>2, Zenon
  <1> QED BY <1>4, <1>5, <1>6, <1>7, <1>8, <1>9, <1>10, <1>11, <1>12

\* So does every segment that reaches a listening socket.
LEMMA ListenSound ==
    ASSUME SizesAssumption, Inv, ListenSYN \/ ListenOther PROVE Inv'
  <1> DEFINE u == Heard(tcb)
             v == [u EXCEPT !.RemoteSEQ = 1]
             w == SendTCP(v, {"SYN", "ACK"}, "RESET_TIMERS")
  <1>1. SoundTCB(u)  BY HeardSound, Zenon DEF Inv
  <1>2. 1 \in Nat /\ "SYN_RECEIVED" \in States  BY DEF States
  <1>3. SoundTCB(v)  BY <1>1, <1>2, SetRemoteSEQ, Zenon
  <1>4. CASE ListenSYN
    <2>1. tcb' = [w EXCEPT !.smState = "SYN_RECEIVED"]  BY <1>4, Zenon DEF ListenSYN
    <2> HIDE DEF v
    <2>2. SoundTCB(w)  BY <1>3, SendTCPSound, Zenon
    <2> HIDE DEF w
    <2>3. SoundTCB(tcb')  BY <1>2, <2>1, <2>2, SetState, Zenon
    <2>4. PeerOK'
      <3>1. PICK n \in 0..MaxRx : peer' = NewPeer(n)  BY <1>4, Zenon DEF ListenSYN
      <3>2. n \in Nat  BY DEF SizesAssumption
      <3> QED BY <3>1, <3>2, NewPeerOK, Zenon
    <2>5. conns' \in 0..MaxConns  BY <1>4 DEF ListenSYN, Inv, SizesAssumption
    <2> QED BY <2>3, <2>4, <2>5, Zenon DEF Inv, SoundTCB, Sound
  <1>5. CASE ListenOther
    <2> HIDE DEF u
    <2>1. SoundTCB(CloseSocket(u))  BY <1>1, CloseSocketSound, Zenon
    <2>2. ASSUME NEW n \in 0..MaxTx
          PROVE SoundTCB(CloseSocket(SendTCP([u EXCEPT !.MySEQ = n], {"RST"}, "NONE")))
      <3> DEFINE x == [u EXCEPT !.MySEQ = n]
                 y == SendTCP(x, {"RST"}, "NONE")
      <3>1. n \in Int  OBVIOUS
      <3>2. SoundTCB(x)  BY <1>1, <3>1, SetMySEQ, Zenon
      <3> HIDE DEF x
      <3>3. SoundTCB(y)  BY <3>2, SendTCPSound, Zenon
      <3> HIDE DEF y
      <3>4. SoundTCB(CloseSocket(y))  BY <3>3, CloseSocketSound, Zenon
      <3> QED BY <3>4, Zenon DEF x, y
    <2>3. SoundTCB(tcb') /\ UNCHANGED <<peer, conns>>
      BY <1>5, <2>1, <2>2, Zenon DEF ListenOther, u
    <2> QED BY <2>3, Zenon DEF Inv, PeerOK
  <1> QED BY <1>4, <1>5

\* So does every pass of TCPTick() over a socket.
LEMMA TickSound ==
    ASSUME SizesAssumption, SoundTCB(tcb), NEW x, Tick(x)
    PROVE  SoundTCB(tcb') /\ UNCHANGED <<peer, conns>>
  <1> DEFINE s == TickSend(tcb, x)
             g == [s EXCEPT !.smState = "FIN_WAIT_1"]
             k == SendTCP(s, {"ACK"}, "KEEP_ALIVE")
  <1>1. SoundTCB(s)  BY TickSendSound, Zenon
  <1> HIDE DEF s
  <1>2. SoundTCB(k)  BY <1>1, SendTCPSound, Zenon
  <1>3. SoundTCB(g)
    <2>1. "FIN_WAIT_1" \in States  BY DEF States
    <2> QED BY <1>1, <2>1, SetState, Zenon
  <1> HIDE DEF g, k
  <1>4. CASE TickOnly(x)  BY <1>1, <1>4, Zenon DEF TickOnly, Ticks, s
  <1>5. CASE TickKeepAlive(x)
    <2>1. SoundTCB([k EXCEPT !.due = FALSE])  BY <1>2, SetDue, Zenon
    <2> QED BY <1>5, <2>1, Zenon DEF TickKeepAlive, Ticks, s, k
  <1>6. CASE TickPeerLost(x)
    <2>1. SoundTCB(Disconnect(s))  BY <1>1, DisconnectSound, Zenon
    <2>2. SoundTCB(Disconnect(Disconnect(s)))  BY <2>1, DisconnectSound, Zenon
    <2> QED BY <1>6, <2>2, Zenon DEF TickPeerLost, Ticks, s
  <1>7. CASE TickRetry(x)
    <2>1. SoundTCB(Retry(s, {"SYN", "ACK"})) /\ SoundTCB(Retry(s, {"ACK"}))
          /\ SoundTCB(Retry(s, {"FIN", "ACK"}))
      BY <1>1, RetrySound, Zenon
    <2> QED BY <1>7, <2>1, Zenon DEF TickRetry, Ticks, s
  <1>8. CASE TickGiveUp(x)
    <2>1. SoundTCB(SendTCP(g, {"FIN", "ACK"}, "RESET_TIMERS"))  BY <1>3, SendTCPSound, Zenon
    <2> QED BY <1>8, <2>1, Zenon DEF TickGiveUp, Ticks, s, g
  <1>9. CASE TickAbort(x)
    <2>1. SoundTCB(Abort(s))  BY <1>1, AbortSound, Zenon
    <2> QED BY <1>9, <2>1, Zenon DEF TickAbort, Ticks, s
  <1> QED BY <1>4, <1>5, <1>6, <1>7, <1>8, <1>9, Zenon DEF Tick

\* So does taking a queued SYN.
LEMMA TickServeSYNSound ==
    ASSUME SizesAssumption, Inv, TickServeSYN PROVE Inv'
  <1> DEFINE v == [tcb EXCEPT !.RemoteSEQ = 1, !.smState = "SYN_RECEIVED"]
             r == [tcb EXCEPT !.RemoteSEQ = 1]
  <1>1. 1 \in Nat /\ "SYN_RECEIVED" \in States  BY DEF States
  <1>2. SoundTCB(r)  BY <1>1, SetRemoteSEQ, Zenon DEF Inv
  <1>3. v = [r EXCEPT !.smState = "SYN_RECEIVED"]  BY Zenon
  <1> HIDE DEF r
  <1>4. SoundTCB(v)  BY <1>1, <1>2, <1>3, SetState, Zenon
  <1>5. tcb' = SendTCP(v, {"SYN", "ACK"}, "RESET_TIMERS")  BY Zenon DEF TickServeSYN
  <1> HIDE DEF v
  <1>6. SoundTCB(tcb')  BY <1>4, <1>5, SendTCPSound, Zenon
  <1>7. PeerOK'
    <2>1. PICK n \in 0..MaxRx : peer' = NewPeer(n)  BY Zenon DEF TickServeSYN
    <2>2. n \in Nat  BY DEF SizesAssumption
    <2> QED BY <2>1, <2>2, NewPeerOK, Zenon
  <1>8. conns' \in 0..MaxConns  BY DEF TickServeSYN, Inv, SizesAssumption
  <1> QED BY <1>6, <1>7, <1>8, Zenon DEF Inv, SoundTCB, Sound

\* The remote node's state stays well typed when it takes a segment.
LEMMA PeerReceivesSound ==
    ASSUME SizesAssumption, Inv, PeerReceives PROVE Inv'
  <1>1. PICK seg \in tcb.sent :
          LET data == seg.seq + One(seg.syn)
              skip == IF seg.syn THEN 0 ELSE peer.nxt - data
          IN  /\ seg.seq <= peer.nxt
              /\ peer.nxt < data + seg.len + One(seg.fin)
              /\ peer' = [peer EXCEPT
                    !.nxt = data + seg.len + One(seg.fin),
                    !.acks = @ \union {data + seg.len + One(seg.fin)},
                    !.got = @ \o [i \in 1..(IF skip < seg.len THEN seg.len - skip ELSE 0)
                                    |-> seg.off + skip + i - 1],
                    !.fin = seg.fin]
    BY Zenon DEF PeerReceives
  <1>2. seg \in Segments  BY DEF Inv, SoundTCB, TCBs
  <1>3. PeerOK  BY DEF Inv
  <1> DEFINE data == seg.seq + One(seg.syn)
             skip == IF seg.syn THEN 0 ELSE peer.nxt - data
             nxt  == data + seg.len + One(seg.fin)
             n    == IF skip < seg.len THEN seg.len - skip ELSE 0
             new  == [i \in 1..n |-> seg.off + skip + i - 1]
  <1>4. /\ seg.seq \in Int /\ seg.len \in Nat /\ seg.off \in Nat
        /\ seg.syn \in BOOLEAN /\ seg.fin \in BOOLEAN
    BY <1>2 DEF Segments
  <1>5. peer.nxt \in Nat /\ peer.acks \subseteq Nat /\ peer.got \in Seq(Nat)  BY <1>3 DEF PeerOK
  <1>6. nxt \in Nat
    <2>1. One(seg.syn) \in Int /\ One(seg.fin) \in Int  BY OneNat
    <2>2. peer.nxt < nxt  BY <1>1, Zenon
    <2>3. nxt \in Int  BY <1>4, <2>1
    <2> HIDE DEF nxt
    <2> QED BY <1>5, <2>2, <2>3
  <1>7. skip \in Nat
    <2>1. CASE seg.syn  BY <2>1
    <2>2. CASE ~seg.syn  BY <1>1, <1>4, <1>5, <2>2, OneNat
    <2> QED BY <2>1, <2>2
  <1> HIDE DEF skip, nxt
  <1>8. n \in Nat  BY <1>4, <1>7
  <1> HIDE DEF n
  <1>9. new \in Seq(Nat)
    <2>1. \A i \in 1..n : seg.off + skip + i - 1 \in Nat  BY <1>4, <1>7, <1>8
    <2> QED BY <1>8, <2>1
  <1> HIDE DEF new
  <1>10. peer.got \o new \in Seq(Nat)  BY <1>5, <1>9
  <1>11. peer.acks \union {nxt} \in SUBSET Nat  BY <1>5, <1>6
  <1>12. peer' = [peer EXCEPT !.nxt = nxt, !.acks = peer.acks \union {nxt},
                             !.got = peer.got \o new, !.fin = seg.fin]
    BY <1>1, Zenon DEF nxt, new, n, skip
  <1>13. PeerOK'  BY <1>3, <1>4, <1>6, <1>10, <1>11, <1>12, Zenon DEF PeerOK
  <1>14. UNCHANGED <<tcb, conns>>  BY DEF PeerReceives
  <1> QED BY <1>13, <1>14, Zenon DEF Inv, SoundTCB, Sound

\* Every API call keeps the invariant.
LEMMA ApplicationSound ==
    ASSUME SizesAssumption, SoundTCB(tcb), Application
    PROVE  SoundTCB(tcb') /\ UNCHANGED <<peer, conns>>
  <1>0. tcb \in TCBs /\ Sound(tcb) /\ TRUE \in BOOLEAN /\ FALSE \in BOOLEAN  BY DEF SoundTCB
  <1>1. CASE TCPOpen
    <2>1. "LISTEN" \in States  BY DEF States
    <2> QED BY <1>1, <2>1, SetState, Zenon DEF TCPOpen
  <1>2. CASE TCPDisconnect  BY <1>2, DisconnectSound, Zenon DEF TCPDisconnect, Called
  <1>3. CASE TCPWasReset  BY <1>0, <1>3, SetReset, Zenon DEF TCPWasReset, Called
  <1>4. CASE TCPFlush  BY <1>4, FlushSound, Zenon DEF TCPFlush, Called
  <1>5. CASE TCPPut
    <2> DEFINE space == IsPutReady(tcb)
               first == IF space = 1 THEN Flush(tcb) ELSE tcb
               half  == HalfFull(first, space)
               s     == Wrote(half, 1)
    <2>1. space > 0 /\ UNCHANGED <<peer, conns>> /\ tcb' \in {Flush(s), Timer2(s)}
      BY <1>5, Zenon DEF TCPPut, Called
    <2>2. space = TxSize - (tcb.txHead - tcb.txTail) \/ space = 0  BY DEF IsPutReady
    <2> HIDE DEF space
    <2>3. SoundTCB(first) /\ first.txHead = tcb.txHead /\ first.txTail = tcb.txTail
      BY FlushSound, Zenon
    <2> HIDE DEF first
    <2>4. SoundTCB(half) /\ half.txHead = first.txHead /\ half.txTail = first.txTail
      BY <2>3, HalfFullSound, Zenon
    <2> HIDE DEF half
    <2>5. 1 \in Nat /\ 1 <= TxSize - (half.txHead - half.txTail)
      BY <1>0, <2>1, <2>2, <2>3, <2>4 DEF TCBs, SizesAssumption
    <2>6. SoundTCB(s)  BY <2>4, <2>5, WroteSound
    <2> HIDE DEF s
    <2>7. SoundTCB(Flush(s))  BY <2>6, FlushSound, Zenon
    <2>8. SoundTCB(Timer2(s))  BY <1>0, <2>6, SetTimer2, Zenon DEF Timer2
    <2> QED BY <2>1, <2>7, <2>8, Zenon
  <1>6. ASSUME NEW len \in 1..TxSize, TCPPutArray(len)
        PROVE  SoundTCB(tcb') /\ UNCHANGED <<peer, conns>>
    <2> DEFINE space == IsPutReady(tcb)
               half  == HalfFull(tcb, space)
               n     == LesserOf(space, len)
               s     == Wrote(half, n)
    <2>1. UNCHANGED <<peer, conns>>
          /\ (tcb' = Flush(tcb) \/ (space # 0 /\ tcb' \in {Flush(s), Timer2(s)}))
      BY <1>6, Zenon DEF TCPPutArray, Called
    <2>2. space = TxSize - (tcb.txHead - tcb.txTail) \/ space = 0  BY DEF IsPutReady
    <2> HIDE DEF space
    <2>3. SoundTCB(Flush(tcb))  BY FlushSound, Zenon
    <2>4. SoundTCB(half) /\ half.txHead = tcb.txHead /\ half.txTail = tcb.txTail
      BY HalfFullSound, Zenon
    <2> HIDE DEF half
    <2>5. space # 0 => n \in Nat /\ n <= TxSize - (half.txHead - half.txTail)
      BY <1>0, <2>2, <2>4 DEF TCBs, SizesAssumption, LesserOf, Sound
    <2> HIDE DEF n
    <2>6. space # 0 => SoundTCB(s)  BY <2>4, <2>5, WroteSound
    <2> HIDE DEF s
    <2>7. space # 0 => SoundTCB(Flush(s))  BY <2>6, FlushSound, Zenon
    <2>8. space # 0 => SoundTCB(Timer2(s))  BY <1>0, <2>6, SetTimer2, Zenon DEF Timer2
    <2> QED BY <2>1, <2>3, <2>7, <2>8, Zenon
  <1>7. ASSUME NEW n \in Nat, n <= tcb.rxCount
        PROVE  LET r == [tcb EXCEPT !.rxCount = tcb.rxCount - n]
               IN  SoundTCB([r EXCEPT !.bTXASAPWithoutTimerReset = TRUE]) /\ SoundTCB(Timer2(r))
    <2> DEFINE k == tcb.rxCount - n
               r == [tcb EXCEPT !.rxCount = k]
    <2>1. k \in Nat /\ k <= tcb.rxCount /\ RxSize \in Nat
      BY <1>0, <1>7 DEF TCBs, SizesAssumption
    <2> HIDE DEF k
    <2>2. SoundTCB(r)  BY <2>1, SetRxCount
    <2> HIDE DEF r
    <2>3. SoundTCB([r EXCEPT !.bTXASAPWithoutTimerReset = TRUE])  BY <1>0, <2>2, SetASAP, Zenon
    <2>4. SoundTCB(Timer2(r))  BY <1>0, <2>2, SetTimer2, Zenon DEF Timer2
    <2> QED BY <2>3, <2>4, Zenon DEF r, k
  <1>8. CASE TCPGet
    <2>1. 1 \in Nat /\ 1 <= tcb.rxCount  BY <1>0, <1>8 DEF TCPGet, TCBs
    <2> QED BY <1>7, <1>8, <2>1, Zenon DEF TCPGet, Called
  <1>9. ASSUME NEW len \in 1..RxSize, TCPGetArray(len)
        PROVE  SoundTCB(tcb') /\ UNCHANGED <<peer, conns>>
    <2> DEFINE n == LesserOf(len, tcb.rxCount)
    <2>1. n \in Nat /\ n <= tcb.rxCount  BY <1>0, <1>9 DEF TCBs, LesserOf, SizesAssumption
    <2>2. tcb' = Read(tcb, n) /\ UNCHANGED <<peer, conns>>  BY <1>9, Zenon DEF TCPGetArray, Called
    <2> HIDE DEF n
    <2> QED BY <1>7, <2>1, <2>2, Zenon DEF Read
  <1>10. CASE TCPDiscard
    <2> DEFINE r == [tcb EXCEPT !.rxCount = 0]
    <2>1. 0 \in Nat /\ 0 <= tcb.rxCount /\ RxSize \in Nat  BY <1>0 DEF TCBs, SizesAssumption
    <2>2. SoundTCB(r)  BY <2>1, SetRxCount
    <2>3. tcb' = SendTCP(r, {"ACK"}, "RESET_TIMERS") /\ UNCHANGED <<peer, conns>>
      BY <1>10, Zenon DEF TCPDiscard, Called
    <2> HIDE DEF r
    <2> QED BY <2>2, <2>3, SendTCPSound, Zenon
  <1> QED BY <1>1, <1>2, <1>3, <1>4, <1>5, <1>6, <1>8, <1>9, <1>10, Zenon DEF Application

\* Every step keeps the invariant.
LEMMA NextInv == SizesAssumption /\ Inv /\ [Next]_vars => Inv'
  <1> SUFFICES ASSUME SizesAssumption, Inv, [Next]_vars PROVE Inv'  OBVIOUS
  <1>0. ASSUME SoundTCB(tcb'), UNCHANGED <<peer, conns>> PROVE Inv'
    BY <1>0 DEF Inv, PeerOK, SoundTCB, Sound
  <1>1. CASE Application  BY <1>0, <1>1, ApplicationSound, Zenon DEF Inv
  <1>2. CASE HandleTCPSeg
    <2>1. CASE ListenSYN \/ ListenOther  BY <2>1, ListenSound, Zenon
    <2>2. ASSUME NEW h \in AckSegments \union OtherSegments,
                 \/ SegUnacceptable(h) \/ SegReset(h) \/ SegWithoutAck(h) \/ SegBadSynAck(h)
                 \/ SegLastAck(h) \/ SegAckTooHigh(h) \/ SegClosing(h) \/ SegFinWait2(h)
                 \/ SegProcessed(h)
          PROVE  Inv'
      <3>1. SegmentOK(h)  BY <2>2, SegmentsOK, Zenon DEF Inv
      <3> QED BY <1>0, <2>2, <3>1, SegSound, Zenon DEF Inv
    <2> QED BY <1>2, <2>1, <2>2, Zenon DEF HandleTCPSeg
  <1>3. CASE TCPTick
    <2>1. CASE TickServeSYN  BY <2>1, TickServeSYNSound, Zenon
    <2>2. ASSUME NEW x, Tick(x) PROVE Inv'  BY <1>0, <2>2, TickSound, Zenon DEF Inv
    <2> QED BY <1>3, <2>1, <2>2, Zenon DEF TCPTick
  <1>4. CASE TimePasses
    <2>1. SoundTCB([tcb EXCEPT !.due = TRUE])
      <3>1. TRUE \in BOOLEAN  OBVIOUS
      <3> QED BY <3>1, SetDue, Zenon DEF Inv
    <2> QED BY <1>0, <1>4, <2>1, Zenon DEF TimePasses
  <1>5. CASE PeerReceives  BY <1>5, PeerReceivesSound, Zenon
  <1>6. CASE PeerDies
    <2>1. PeerOK'
      <3>1. peer' = [peer EXCEPT !.alive = FALSE] /\ PeerOK  BY <1>6 DEF PeerDies, Inv
      <3>2. FALSE \in BOOLEAN  OBVIOUS
      <3> QED BY <3>1, <3>2, Zenon DEF PeerOK
    <2> QED BY <1>6, <2>1, Zenon DEF PeerDies, Inv, SoundTCB, Sound
  <1>7. CASE UNCHANGED vars  BY <1>0, <1>7, Zenon DEF vars, Inv, SoundTCB, Sound
  <1> QED BY <1>1, <1>2, <1>3, <1>4, <1>5, <1>6, <1>7, Zenon DEF Next
-----------------------------------------------------------------------------
(* The theorems.                                                           *)

\* The invariant holds in every reachable state.
LEMMA Invariance == Spec => []Inv
  <1>1. Init => Inv  BY InitInv, SizesAssumption
  <1>2. Inv /\ [Next]_vars => Inv'  BY NextInv, SizesAssumption
  <1> QED BY <1>1, <1>2, PTL DEF Spec

\* Every reachable state is well typed.
THEOREM TypeCorrect == Spec => []TypeOK
  <1>1. Inv => TypeOK  BY DEF Inv, SoundTCB, PeerOK, TypeOK
  <1> QED BY <1>1, Invariance, PTL

\* Data in flight always has a retransmission timer behind it.
THEOREM RetransmissionTimed == Spec => []UnackedIsTimed
  <1>1. Inv => UnackedIsTimed
    BY DEF Inv, SoundTCB, Sound, TCBs, UnackedIsTimed, InFlight
  <1> QED BY <1>1, Invariance, PTL

\* So has a FIN, until it is acknowledged.
THEOREM FinTimed == Spec => []SentFinIsTimed
  <1>1. Inv => SentFinIsTimed  BY Zenon DEF Inv, SoundTCB, Sound, SentFinIsTimed
  <1> QED BY <1>1, Invariance, PTL

\* The FIFO pointers stay in order and within the capacities.
THEOREM FifosBounded == Spec => []FifoOrder
  <1>1. Inv => FifoOrder  BY Zenon DEF Inv, SoundTCB, Sound, FifoOrder
  <1> QED BY <1>1, Invariance, PTL

\* Out-of-order data never reaches beyond the free space of the receive FIFO.
THEOREM FutureDataFits == Spec => []HoleFits
  <1>1. Inv => HoleFits
    BY Zenon DEF Inv, SoundTCB, Sound, HoleFits, Free, FreeRx
  <1> QED BY <1>1, Invariance, PTL

-----------------------------------------------------------------------------
(* The state diagram.                                                      *)

\* No trace of a connection: every field CloseSocket() resets is reset.
Idle(s) ==
    /\ s.vUnackedKeepalives = 0
    /\ ~s.bTimerEnabled /\ ~s.bTimer2Enabled /\ ~s.bDelayedACKTimerEnabled
    /\ ~s.bOneSegmentReceived /\ ~s.bHalfFullFlush /\ ~s.bTXASAP
    /\ ~s.bTXASAPWithoutTimerReset /\ ~s.bTXFIN /\ ~s.bFINSent /\ ~s.bSYNSent
    /\ ~s.bRXNoneACKed1 /\ ~s.bRXNoneACKed2
    /\ s.txHead = 0 /\ s.txTail = 0 /\ s.txUnackedTail = 0 /\ s.rxCount = 0
    /\ s.MySEQ = 0 /\ s.sHoleSize = NoHole /\ s.remoteWindow = 1
    /\ s.sent = {}

\* Closed by CloseSocket(), with no trace of the connection.
Listens(s) == s.smState = "LISTEN" /\ Idle(s)

\* A step of the socket leaves the state alone or is a step of the diagram, one
\* that cleans up if it ends in LISTEN.
Moves == \/ tcb'.smState = tcb.smState
         \/ /\ RFC793!Next
            /\ tcb'.smState = "LISTEN" => Listens(tcb') \/ tcb.smState = "CLOSED"

\* Whatever the state, the socket may be closed, and listens again.
LEMMA ToListen ==
    ASSUME tcb.smState # "CLOSED", Listens(tcb') PROVE Moves
  BY DEF Moves, Listens, RFC793!Next, RFC793!Delete
-----------------------------------------------------------------------------
(* What the operators do to the state.                                     *)

\* Setting the state sets it.
LEMMA StateSet ==
    ASSUME NEW s, SoundTCB(s), NEW st PROVE [s EXCEPT !.smState = st].smState = st
  BY Zenon DEF SoundTCB, TCBs

\* CloseSocket() leads to LISTEN and leaves no trace.
LEMMA CloseSocketState ==
    ASSUME NEW s, SoundTCB(s) PROVE Listens(CloseSocket(s))
  <1> DEFINE t == CloseSocket(s)
  <1>1. s \in TCBs  BY DEF SoundTCB
  <1>2. /\ t.smState = "LISTEN" /\ t.vUnackedKeepalives = 0
        /\ ~t.bTimerEnabled /\ ~t.bTimer2Enabled /\ ~t.bDelayedACKTimerEnabled
        /\ ~t.bOneSegmentReceived /\ ~t.bHalfFullFlush /\ ~t.bTXASAP
    BY <1>1, Zenon DEF CloseSocket, TCBs
  <1>3. /\ ~t.bTXASAPWithoutTimerReset /\ ~t.bTXFIN /\ ~t.bFINSent /\ ~t.bSYNSent
        /\ ~t.bRXNoneACKed1 /\ ~t.bRXNoneACKed2
    BY <1>1, Zenon DEF CloseSocket, TCBs
  <1>4. /\ t.txHead = 0 /\ t.txTail = 0 /\ t.txUnackedTail = 0 /\ t.rxCount = 0
        /\ t.MySEQ = 0 /\ t.sHoleSize = NoHole /\ t.remoteWindow = 1
        /\ t.sent = {}
    BY <1>1, Zenon DEF CloseSocket, TCBs
  <1> HIDE DEF t
  <1>5. Listens(t)  BY <1>2, <1>3, <1>4, Zenon DEF Listens, Idle
  <1> QED BY <1>5 DEF t

\* So does an abort.
LEMMA AbortState ==
    ASSUME SizesAssumption, NEW s, SoundTCB(s) PROVE Listens(Abort(s))
  <1>1. SoundTCB(SendTCP(s, {"RST", "ACK"}, "RESET_TIMERS"))  BY SendTCPSound, Zenon
  <1> QED BY <1>1, CloseSocketState, Zenon DEF Abort

\* Only FIN_WAIT_1 is left when our FIN is acknowledged.
LEMMA FinAckedState ==
    ASSUME NEW s, SoundTCB(s), NEW h
    PROVE  LET t == FinAcked(s, h)
           IN  \/ t.smState = s.smState
               \/ s.smState = "FIN_WAIT_1" /\ t.smState = "FIN_WAIT_2"
  <1>1. s \in TCBs  BY DEF SoundTCB
  <1> QED BY <1>1, Zenon DEF FinAcked, TCBs

\* Acknowledging text does not change the state.
LEMMA AckTextState ==
    ASSUME SizesAssumption, NEW s, SoundTCB(s), NEW h
    PROVE  AckText(s, h).smState = s.smState
  <1> DEFINE z == [s EXCEPT !.rxCount = 0]
             d == IF s.smState = "ESTABLISHED" THEN s ELSE z
             t == [d EXCEPT !.bOneSegmentReceived = TRUE, !.bDelayedACKTimerEnabled = TRUE]
  <1>1. s \in TCBs /\ RxSize \in Nat  BY DEF SoundTCB, SizesAssumption
  <1>2. 0 \in Nat /\ 0 <= s.rxCount  BY <1>1 DEF TCBs
  <1>3. SoundTCB(z)  BY <1>1, <1>2, SetRxCount
  <1>4. z.smState = s.smState  BY <1>1, Zenon DEF TCBs
  <1> HIDE DEF z
  <1>5. SoundTCB(d) /\ d.smState = s.smState  BY <1>3, <1>4, Zenon
  <1>6. AckText(s, h) \in {s, SendTCP(d, {"ACK"}, "RESET_TIMERS"), t}
    BY Zenon DEF AckText, z
  <1> HIDE DEF d
  <1>7. t.smState = d.smState  BY <1>5, Zenon DEF SoundTCB, TCBs
  <1>8. SendTCP(d, {"ACK"}, "RESET_TIMERS").smState = d.smState  BY <1>5, SendTCPSound, Zenon
  <1> QED BY <1>5, <1>6, <1>7, <1>8, Zenon

\* A FIN leads from ESTABLISHED to CLOSE_WAIT, from FIN_WAIT_1 to CLOSING or
\* LISTEN, from FIN_WAIT_2 to LISTEN, or nowhere.
LEMMA FinState ==
    ASSUME SizesAssumption, NEW s, SoundTCB(s), NEW h
    PROVE  LET t == Fin(s, h)
           IN  \/ t.smState = s.smState
               \/ s.smState \in {"FIN_WAIT_1", "FIN_WAIT_2"} /\ Listens(t)
               \/ s.smState = "ESTABLISHED" /\ t.smState = "CLOSE_WAIT"
               \/ s.smState = "FIN_WAIT_1" /\ t.smState = "CLOSING"
  <1> DEFINE k == s.RemoteSEQ + 1
             r == [s EXCEPT !.RemoteSEQ = k]
             st == CASE r.smState = "ESTABLISHED" -> "CLOSE_WAIT"
                     [] r.smState = "FIN_WAIT_1"  -> "CLOSING"
                     [] OTHER                     -> r.smState
             t == [r EXCEPT !.smState = st]
             c == SendTCP(r, {"ACK"}, "NONE")
  <1>1. s \in TCBs  BY DEF SoundTCB
  <1>2. k \in Nat  BY <1>1 DEF TCBs
  <1>3. \/ Fin(s, h) = s
        \/ /\ s.smState \in {"FIN_WAIT_1", "FIN_WAIT_2"}
           /\ Fin(s, h) = CloseSocket(c)
        \/ Fin(s, h) = SendTCP(t, {"ACK"}, "RESET_TIMERS")
    BY Zenon DEF Fin
  <1> HIDE DEF k
  <1>4. SoundTCB(r)  BY <1>2, SetRemoteSEQ, Zenon
  <1>5. r.smState = s.smState  BY <1>1, Zenon DEF TCBs
  <1> HIDE DEF r
  <1>6. \/ st = s.smState
        \/ s.smState = "ESTABLISHED" /\ st = "CLOSE_WAIT"
        \/ s.smState = "FIN_WAIT_1" /\ st = "CLOSING"
    BY <1>5
  <1>7. st \in States
    <2>1. s.smState \in States  BY <1>1, Zenon DEF TCBs
    <2>2. "CLOSE_WAIT" \in States /\ "CLOSING" \in States  BY DEF States
    <2> QED BY <1>6, <2>1, <2>2
  <1> HIDE DEF st
  <1>8. SoundTCB(t) /\ t.smState = st  BY <1>4, <1>7, SetState, StateSet, Zenon
  <1> HIDE DEF t
  <1>9. SendTCP(t, {"ACK"}, "RESET_TIMERS").smState = st  BY <1>8, SendTCPSound, Zenon
  <1>10. SoundTCB(c)  BY <1>4, SendTCPSound, Zenon
  <1>11. Listens(CloseSocket(c))  BY <1>10, CloseSocketState, Zenon
  <1> QED BY <1>3, <1>6, <1>9, <1>11, Zenon

\* The first transmission of a tick closes a CLOSE_WAIT that timed out.
LEMMA TickSendState ==
    ASSUME SizesAssumption, NEW s, SoundTCB(s), NEW x \in SUBSET Running(s)
    PROVE  LET t == TickSend(s, x)
           IN  \/ t.smState = s.smState
               \/ s.smState = "CLOSE_WAIT" /\ t.smState = "LAST_ACK"
  <1> DEFINE m == IF "ASAP" \in x /\ s.bTXASAPWithoutTimerReset THEN "NONE" ELSE "RESET_TIMERS"
             t == [s EXCEPT !.smState = "LAST_ACK"]
  <1>1. "CloseWait" \in x => s.smState = "CLOSE_WAIT"  BY DEF Running
  <1>2. \/ TickSend(s, x) \in {s, SendTCP(s, {"ACK"}, m)}
        \/ "CloseWait" \in x /\ TickSend(s, x) = SendTCP(t, {"FIN", "ACK"}, m)
    BY Zenon DEF TickSend
  <1> HIDE DEF m
  <1>3. SoundTCB(t) /\ t.smState = "LAST_ACK"
    <2>1. "LAST_ACK" \in States  BY DEF States
    <2> QED BY <2>1, SetState, StateSet, Zenon
  <1> HIDE DEF t
  <1>4. SendTCP(t, {"FIN", "ACK"}, m).smState = "LAST_ACK"  BY <1>3, SendTCPSound, Zenon
  <1>5. SendTCP(s, {"ACK"}, m).smState = s.smState  BY SendTCPSound, Zenon
  <1> QED BY <1>1, <1>2, <1>4, <1>5, Zenon

\* A retransmission leaves the state alone.
LEMMA RetryState ==
    ASSUME SizesAssumption, NEW s, SoundTCB(s), NEW flags
    PROVE  Retry(s, flags).smState = s.smState
  <1> DEFINE n == (s.retryCount + 1) % BYTE
             t == [s EXCEPT !.retryCount = n]
             r == RollBack(t)
  <1>1. s \in TCBs  BY DEF SoundTCB
  <1>2. n \in 0..(BYTE - 1)  BY <1>1 DEF TCBs, BYTE
  <1>3. Retry(s, flags) = SendTCP(r, flags, "NONE")  BY Zenon DEF Retry
  <1> HIDE DEF n
  <1>4. SoundTCB(t)  BY <1>2, SetRetryCount, Zenon
  <1>5. t.smState = s.smState  BY <1>1, Zenon DEF TCBs
  <1> HIDE DEF t
  <1>6. SoundTCB(r) /\ t \in TCBs  BY <1>4, RollBackSound, Zenon DEF SoundTCB
  <1>7. r.smState = t.smState  BY <1>6, Zenon DEF RollBack, TCBs
  <1> HIDE DEF r
  <1>8. SendTCP(r, flags, "NONE").smState = r.smState  BY <1>6, SendTCPSound, Zenon
  <1> QED BY <1>3, <1>5, <1>7, <1>8, Zenon

\* TCPDisconnect() closes, or ends the connection at once.
LEMMA DisconnectState ==
    ASSUME SizesAssumption, NEW s, SoundTCB(s)
    PROVE  LET t == Disconnect(s)
           IN  \/ s.smState \in {"SYN_RECEIVED", "ESTABLISHED"} /\ t.smState = "FIN_WAIT_1"
               \/ s.smState = "CLOSE_WAIT" /\ t.smState = "LAST_ACK"
               \/ s.smState \notin {"SYN_RECEIVED", "ESTABLISHED", "CLOSE_WAIT"}
                  /\ Listens(t)
  <1> DEFINE r == [s EXCEPT !.rxCount = 0]
             t == SendTCP(r, {"FIN", "ACK"}, "RESET_TIMERS")
             u == SendTCP(r, {"RST", "ACK"}, "NONE")
  <1>1. s \in TCBs /\ RxSize \in Nat  BY DEF SoundTCB, SizesAssumption
  <1>2. 0 \in Nat /\ 0 <= s.rxCount  BY <1>1 DEF TCBs
  <1>3. SoundTCB(r)  BY <1>1, <1>2, SetRxCount
  <1>4. r.smState = s.smState  BY <1>1, Zenon DEF TCBs
  <1>5. \/ r.smState \in {"SYN_RECEIVED", "ESTABLISHED"}
           /\ Disconnect(s) = [t EXCEPT !.smState = "FIN_WAIT_1"]
        \/ r.smState = "CLOSE_WAIT" /\ Disconnect(s) = [t EXCEPT !.smState = "LAST_ACK"]
        \/ r.smState \notin {"SYN_RECEIVED", "ESTABLISHED", "CLOSE_WAIT"}
           /\ Disconnect(s) = CloseSocket(u)
    BY DEF Disconnect
  <1> HIDE DEF r
  <1>6. SoundTCB(t) /\ SoundTCB(u)  BY <1>3, SendTCPSound, Zenon
  <1> HIDE DEF t, u
  <1>7. /\ [t EXCEPT !.smState = "FIN_WAIT_1"].smState = "FIN_WAIT_1"
        /\ [t EXCEPT !.smState = "LAST_ACK"].smState = "LAST_ACK"
    BY <1>6, StateSet, Zenon
  <1>8. Listens(CloseSocket(u))  BY <1>6, CloseSocketState, Zenon
  <1> QED BY <1>4, <1>5, <1>7, <1>8, Zenon

\* Flushing and writing leave it alone.
LEMMA FlushState ==
    ASSUME SizesAssumption, NEW s, SoundTCB(s) PROVE Flush(s).smState = s.smState
  BY SendTCPSound, Zenon DEF Flush

\* So does the half-full flush.
LEMMA HalfFullState ==
    ASSUME SizesAssumption, NEW s, SoundTCB(s), NEW space
    PROVE  HalfFull(s, space).smState = s.smState
  <1> DEFINE f == Flush(s)
             t == [f EXCEPT !.bHalfFullFlush = TRUE]
  <1>1. SoundTCB(f) /\ f.smState = s.smState  BY FlushSound, FlushState, Zenon
  <1>2. HalfFull(s, space) = s \/ HalfFull(s, space) = t  BY Zenon DEF HalfFull
  <1> HIDE DEF f
  <1>3. t.smState = f.smState  BY <1>1, Zenon DEF SoundTCB, TCBs
  <1> QED BY <1>1, <1>2, <1>3, Zenon

\* Writing n bytes into free space is sound; it and a later flush or timer leave
\* the state alone.
LEMMA WroteState ==
    ASSUME SizesAssumption, NEW s, SoundTCB(s), NEW n \in Nat, n <= TxSize - (s.txHead - s.txTail)
    PROVE  LET t == Wrote(s, n)
           IN  t.smState = s.smState /\ Flush(t).smState = s.smState /\ Timer2(t).smState = s.smState
  <1> DEFINE t == Wrote(s, n)
  <1>1. SoundTCB(t)  BY WroteSound
  <1>2. t.smState = s.smState  BY Zenon DEF Wrote, SoundTCB, TCBs
  <1> HIDE DEF t
  <1>3. Flush(t).smState = t.smState  BY <1>1, FlushState, Zenon
  <1>4. Timer2(t).smState = t.smState  BY <1>1, Zenon DEF Timer2, SoundTCB, TCBs
  <1> QED BY <1>2, <1>3, <1>4, Zenon DEF t
-----------------------------------------------------------------------------
(* The actions.                                                            *)

\* The states HandleTCPSeg() goes through for a segment it processes in full.
LEMMA ProcessedState ==
    ASSUME SizesAssumption, SoundTCB(tcb), NEW h, SegmentOK(h), SegProcessed(h)
    PROVE  Moves
  <1> DEFINE u == Heard(tcb)
             a == AckFreed(u, h)
             t == FinAcked(a, h)
             x == Text(t, h)
             y == AckText(x, h)
             z == Fin(y, h)
  <1>1. /\ Acceptable(tcb, h) /\ h.kind \in {"ACK", "URG"} /\ ~AckTooHigh(tcb, h)
        /\ tcb.smState \notin {"CLOSED", "LISTEN", "LAST_ACK", "CLOSING"}
        /\ tcb' \in {t, z}
        /\ t.smState = "CLOSE_WAIT" => tcb' = t
    BY Zenon DEF SegProcessed, AckProcessed, AckArrives, Arrives
  <1>2. SoundTCB(a) /\ SoundTCB(t)  BY <1>1, ProcessedSound, Zenon
  <1>3. /\ SoundTCB(u) /\ u.txHead = tcb.txHead /\ u.txUnackedTail = tcb.txUnackedTail
        /\ u.MySEQ = tcb.MySEQ /\ u.RemoteSEQ = tcb.RemoteSEQ /\ u.rxCount = tcb.rxCount
        /\ u.smState = tcb.smState
    BY HeardSound, Zenon
  <1> HIDE DEF u
  <1>4. ~AckTooHigh(u, h)  BY <1>1, <1>3 DEF AckTooHigh, Unsent
  <1>5. /\ a.smState = IF u.smState = "SYN_RECEIVED" THEN "ESTABLISHED" ELSE u.smState
        /\ a.RemoteSEQ = u.RemoteSEQ /\ a.rxCount = u.rxCount
    BY <1>3, <1>4, AckFreedSound, Zenon
  <1> HIDE DEF a
  <1>6. /\ \/ t.smState = a.smState
           \/ a.smState = "FIN_WAIT_1" /\ t.smState = "FIN_WAIT_2"
        /\ t.RemoteSEQ = a.RemoteSEQ /\ t.rxCount = a.rxCount
    BY <1>2, FinAckedSound, FinAckedState, Zenon
  <1> HIDE DEF t
  <1>7. Missing(t, h) = Missing(tcb, h) /\ Free(t) = Free(tcb)
    BY <1>3, <1>5, <1>6 DEF Missing, Free
  <1>8. h.len > 0 => Missing(t, h) + h.len >= 0 /\ Missing(t, h) < Free(t)
    BY <1>1, <1>7, AcceptedText, Zenon
  <1>9. SoundTCB(x) /\ x.smState = t.smState  BY <1>2, <1>8, TextSound, Zenon
  <1> HIDE DEF x
  <1>10. SoundTCB(y) /\ y.smState = x.smState  BY <1>9, AckTextSound, AckTextState, Zenon
  <1> HIDE DEF y
  <1>11. \/ z.smState = y.smState
         \/ y.smState \in {"FIN_WAIT_1", "FIN_WAIT_2"} /\ Listens(z)
         \/ y.smState = "ESTABLISHED" /\ z.smState = "CLOSE_WAIT"
         \/ y.smState = "FIN_WAIT_1" /\ z.smState = "CLOSING"
    BY <1>10, FinState, Zenon
  <1> HIDE DEF z
  <1>12. tcb.smState \in States  BY DEF SoundTCB, TCBs
  <1>13. \/ tcb'.smState = tcb.smState
         \/ Listens(tcb')
         \/ tcb.smState = "SYN_RECEIVED" /\ tcb'.smState \in {"ESTABLISHED", "CLOSE_WAIT"}
         \/ tcb.smState = "ESTABLISHED" /\ tcb'.smState = "CLOSE_WAIT"
         \/ tcb.smState = "FIN_WAIT_1" /\ tcb'.smState \in {"FIN_WAIT_2", "CLOSING"}
    BY <1>1, <1>3, <1>5, <1>6, <1>9, <1>10, <1>11
  <1> QED
    BY <1>1, <1>13 DEF Moves, Listens, RFC793!Next, RFC793!Delete, RFC793!ReceiveAckOfSYN,
                       RFC793!ReceiveFIN, RFC793!ReceiveAckOfFIN

\* The other segments that reach a bound socket leave the state alone or close it.
LEMMA SegMoves ==
    ASSUME SizesAssumption, SoundTCB(tcb), NEW h, SegmentOK(h),
           \/ SegUnacceptable(h) \/ SegReset(h) \/ SegWithoutAck(h) \/ SegBadSynAck(h)
           \/ SegLastAck(h) \/ SegAckTooHigh(h) \/ SegClosing(h) \/ SegFinWait2(h)
    PROVE  Moves
  <1> DEFINE u == Heard(tcb)
             a == AckFreed(u, h)
  <1>1. SoundTCB(u) /\ u.smState = tcb.smState /\ tcb \in TCBs  BY HeardSound, Zenon DEF SoundTCB
  <1>2. tcb.smState # "CLOSED"
    BY Zenon DEF SegUnacceptable, SegReset, SegWithoutAck, SegBadSynAck, SegLastAck, SegAckTooHigh,
                 SegClosing, SegFinWait2, AckProcessed, AckArrives, Arrives
  <1> SUFFICES tcb'.smState = tcb.smState \/ Listens(tcb')
    BY <1>2, ToListen, Zenon DEF Moves
  <1>3. Listens(CloseSocket(u))  BY <1>1, CloseSocketState, Zenon
  <1>4. AckProcessed(h) /\ ~AckTooHigh(tcb, h) => SoundTCB(a)
    BY ProcessedSound, Zenon DEF AckProcessed, AckArrives
  <1>5. ~AckTooHigh(tcb, h) =>
          a.smState = IF u.smState = "SYN_RECEIVED" THEN "ESTABLISHED" ELSE u.smState
    <2>1. u.txHead = tcb.txHead /\ u.txUnackedTail = tcb.txUnackedTail /\ u.MySEQ = tcb.MySEQ
      BY HeardSound, Zenon
    <2> HIDE DEF u
    <2>2. AckTooHigh(u, h) = AckTooHigh(tcb, h)  BY <2>1 DEF AckTooHigh, Unsent
    <2> QED BY <1>1, <2>2, AckFreedSound, Zenon
  <1> HIDE DEF u
  <1>6. CASE SegUnacceptable(h)
    <2>1. SendTCP(u, {"ACK"}, "RESET_TIMERS").smState = u.smState  BY <1>1, SendTCPSound, Zenon
    <2> QED BY <1>1, <1>6, <2>1, Zenon DEF SegUnacceptable, u
  <1>7. CASE SegReset(h)  BY <1>3, <1>7, Zenon DEF SegReset, u
  <1>8. CASE SegWithoutAck(h)  BY <1>1, <1>8, Zenon DEF SegWithoutAck, u
  <1>9. CASE SegBadSynAck(h)
    <2> DEFINE v == [u EXCEPT !.MySEQ = h.ackno]
               w == SendTCP(v, {"RST"}, "RESET_TIMERS")
    <2>1. h.ackno \in Int  BY DEF SegmentOK
    <2>2. SoundTCB(v)  BY <1>1, <2>1, SetMySEQ, Zenon
    <2>3. v.smState = u.smState  BY <1>1, Zenon DEF SoundTCB, TCBs
    <2>4. tcb' = [w EXCEPT !.MySEQ = tcb.MySEQ]  BY <1>9, Zenon DEF SegBadSynAck, u
    <2> HIDE DEF v
    <2>5. SoundTCB(w) /\ w.smState = v.smState  BY <2>2, SendTCPSound, Zenon
    <2> HIDE DEF w
    <2>6. tcb'.smState = w.smState  BY <2>4, <2>5, Zenon DEF SoundTCB, TCBs
    <2> QED BY <1>1, <2>3, <2>5, <2>6, Zenon
  <1>10. CASE SegLastAck(h)  BY <1>1, <1>3, <1>10, Zenon DEF SegLastAck, u
  <1>11. CASE SegAckTooHigh(h)
    <2>1. SendTCP(u, {"ACK"}, "NONE").smState = u.smState  BY <1>1, SendTCPSound, Zenon
    <2> QED BY <1>1, <1>11, <2>1, Zenon DEF SegAckTooHigh, u
  <1>12. CASE SegClosing(h)
    <2>1. SoundTCB(a) /\ tcb.smState = "CLOSING" /\ ~AckTooHigh(tcb, h)
      BY <1>4, <1>12, Zenon DEF SegClosing
    <2>2. a.smState = "CLOSING"  BY <1>1, <1>5, <2>1
    <2>3. tcb' = a \/ tcb' = CloseSocket(a)  BY <1>12, Zenon DEF SegClosing, u
    <2> HIDE DEF a
    <2>4. Listens(CloseSocket(a))  BY <2>1, CloseSocketState, Zenon
    <2> QED BY <2>1, <2>2, <2>3, <2>4, Zenon
  <1>13. CASE SegFinWait2(h)
    <2> DEFINE v == [a EXCEPT !.MySEQ = h.ackno]
               w == SendTCP(v, {"RST", "ACK"}, "NONE")
    <2>1. SoundTCB(a)  BY <1>4, <1>13, Zenon DEF SegFinWait2
    <2>2. tcb' = CloseSocket(w)  BY <1>13, Zenon DEF SegFinWait2, u
    <2> HIDE DEF a
    <2>3. h.ackno \in Int  BY DEF SegmentOK
    <2>4. SoundTCB(v)  BY <2>1, <2>3, SetMySEQ, Zenon
    <2> HIDE DEF v
    <2>5. SoundTCB(w)  BY <2>4, SendTCPSound, Zenon
    <2> QED BY <2>2, <2>5, CloseSocketState, Zenon
  <1> QED BY <1>6, <1>7, <1>8, <1>9, <1>10, <1>11, <1>12, <1>13

\* A listening socket answers a SYN, whether it arrives or waited in the queue,
\* or listens on.
LEMMA ListenStates ==
    ASSUME SizesAssumption, SoundTCB(tcb), ListenSYN \/ ListenOther \/ TickServeSYN
    PROVE  tcb'.smState = "SYN_RECEIVED" \/ Listens(tcb')
  <1> DEFINE u == Heard(tcb)
             w == SendTCP([u EXCEPT !.RemoteSEQ = 1], {"SYN", "ACK"}, "RESET_TIMERS")
  <1>2. SoundTCB(u) /\ 1 \in Nat /\ "SYN_RECEIVED" \in States  BY HeardSound DEF States
  <1> HIDE DEF u
  <1>3. CASE ListenSYN
    <2>1. tcb' = [w EXCEPT !.smState = "SYN_RECEIVED"]  BY <1>3, Zenon DEF ListenSYN, u
    <2>2. SoundTCB([u EXCEPT !.RemoteSEQ = 1])  BY <1>2, SetRemoteSEQ, Zenon
    <2>3. SoundTCB(w)  BY <2>2, SendTCPSound, Zenon
    <2> HIDE DEF w
    <2> QED BY <2>1, <2>3, StateSet, Zenon
  <1>4. CASE ListenOther
    <2>1. Listens(CloseSocket(u))  BY <1>2, CloseSocketState, Zenon
    <2>2. ASSUME NEW n \in 0..MaxTx
          PROVE  Listens(CloseSocket(SendTCP([u EXCEPT !.MySEQ = n], {"RST"}, "NONE")))
      <3>1. n \in Int  OBVIOUS
      <3>2. SoundTCB([u EXCEPT !.MySEQ = n])  BY <1>2, <3>1, SetMySEQ, Zenon
      <3>3. SoundTCB(SendTCP([u EXCEPT !.MySEQ = n], {"RST"}, "NONE"))
        BY <3>2, SendTCPSound, Zenon
      <3> QED BY <3>3, CloseSocketState, Zenon
    <2> QED BY <1>4, <2>1, <2>2, Zenon DEF ListenOther, u
  <1>5. CASE TickServeSYN
    <2> DEFINE r == [tcb EXCEPT !.RemoteSEQ = 1]
               v == [r EXCEPT !.smState = "SYN_RECEIVED"]
    <2>1. tcb' = SendTCP(v, {"SYN", "ACK"}, "RESET_TIMERS")
      <3>1. v = [tcb EXCEPT !.RemoteSEQ = 1, !.smState = "SYN_RECEIVED"]  BY Zenon
      <3> QED BY <1>5, <3>1, Zenon DEF TickServeSYN
    <2>2. SoundTCB(r)  BY <1>2, SetRemoteSEQ, Zenon
    <2> HIDE DEF r
    <2>3. SoundTCB(v) /\ v.smState = "SYN_RECEIVED"  BY <1>2, <2>2, SetState, StateSet, Zenon
    <2> HIDE DEF v
    <2>4. tcb'.smState = v.smState  BY <2>1, <2>3, SendTCPSound, Zenon
    <2> QED BY <2>3, <2>4, Zenon
  <1> QED BY <1>3, <1>4, <1>5

\* That is a step of the diagram.
LEMMA ListenMoves ==
    ASSUME SizesAssumption, SoundTCB(tcb), ListenSYN \/ ListenOther \/ TickServeSYN
    PROVE  Moves
  <1>1. tcb.smState = "LISTEN"  BY Zenon DEF ListenSYN, ListenOther, TickServeSYN
  <1>2. tcb'.smState = "SYN_RECEIVED" \/ Listens(tcb')  BY ListenStates, Zenon
  <1> QED BY <1>1, <1>2 DEF Moves, Listens, RFC793!Next, RFC793!ReceiveSYN

\* One pass of TCPTick() takes at most one step of the diagram: a socket whose
\* CLOSE_WAIT timed out may be aborted in the same pass, but not go on from there.
LEMMA TickMoves ==
    ASSUME SizesAssumption, SoundTCB(tcb), NEW x \in SUBSET Running(tcb), Tick(x)
    PROVE  Moves
  <1> DEFINE s == TickSend(tcb, x)
             g == [s EXCEPT !.smState = "FIN_WAIT_1"]
             k == SendTCP(s, {"ACK"}, "KEEP_ALIVE")
  <1>1. SoundTCB(s)  BY TickSendSound, Zenon
  <1>2. s.smState = tcb.smState \/ (tcb.smState = "CLOSE_WAIT" /\ s.smState = "LAST_ACK")
    BY TickSendState, Zenon
  <1>3. tcb.smState # "CLOSED"
    BY Zenon DEF Tick, TickOnly, TickKeepAlive, TickPeerLost, TickRetry, TickGiveUp, TickAbort, Ticks
  <1> HIDE DEF s
  <1>4. SoundTCB(k) /\ k.smState = s.smState  BY <1>1, SendTCPSound, Zenon
  <1> HIDE DEF k
  <1>5. ASSUME tcb'.smState = s.smState PROVE Moves
    BY <1>2, <1>5 DEF Moves, RFC793!Next, RFC793!Close
  <1>6. CASE TickOnly(x)  BY <1>5, <1>6, Zenon DEF TickOnly, s
  <1>7. CASE TickKeepAlive(x)
    <2>1. tcb' = [k EXCEPT !.due = FALSE]  BY <1>7, Zenon DEF TickKeepAlive, s, k
    <2>2. tcb'.smState = k.smState  BY <1>4, <2>1, Zenon DEF SoundTCB, TCBs
    <2> QED BY <1>4, <1>5, <2>2, Zenon
  <1>8. CASE TickPeerLost(x)
    <2> DEFINE d == Disconnect(s)
    <2>1. s.smState = "ESTABLISHED" /\ tcb' = Disconnect(d)
      BY <1>8, Zenon DEF TickPeerLost, KeepAliveDue, s
    <2>2. SoundTCB(d) /\ d.smState = "FIN_WAIT_1"
      <3>1. SoundTCB(d)  BY <1>1, DisconnectSound, Zenon
      <3> QED BY <1>1, <2>1, <3>1, DisconnectState
    <2> HIDE DEF d
    <2>3. Listens(tcb')  BY <2>1, <2>2, DisconnectState
    <2> QED BY <1>3, <2>3, ToListen
  <1>9. CASE TickRetry(x)
    <2>1. tcb' \in {Retry(s, {"SYN", "ACK"}), Retry(s, {"ACK"}), Retry(s, {"FIN", "ACK"})}
      BY <1>9, Zenon DEF TickRetry, s
    <2>2. tcb'.smState = s.smState  BY <1>1, <2>1, RetryState, Zenon
    <2> QED BY <1>5, <2>2, Zenon
  <1>10. CASE TickGiveUp(x)
    <2>1. s.smState \in {"ESTABLISHED", "CLOSE_WAIT"}
          /\ tcb' = SendTCP(g, {"FIN", "ACK"}, "RESET_TIMERS")
      BY <1>10, Zenon DEF TickGiveUp, s
    <2>2. SoundTCB(g) /\ g.smState = "FIN_WAIT_1"
      <3>1. "FIN_WAIT_1" \in States  BY DEF States
      <3> QED BY <1>1, <3>1, SetState, StateSet, Zenon
    <2> HIDE DEF g
    <2>3. SendTCP(g, {"FIN", "ACK"}, "RESET_TIMERS").smState = g.smState
      BY <2>2, SendTCPSound, Zenon
    <2>4. tcb'.smState = "FIN_WAIT_1"  BY <2>1, <2>2, <2>3, Zenon
    <2> QED BY <1>2, <2>1, <2>4 DEF Moves, RFC793!Next, RFC793!Close, RFC793!GiveUpInCloseWait
  <1>11. CASE TickAbort(x)
    <2>1. tcb' = Abort(s)  BY <1>11, Zenon DEF TickAbort, s
    <2> QED BY <1>1, <1>3, <2>1, AbortState, ToListen, Zenon
  <1> QED BY <1>6, <1>7, <1>8, <1>9, <1>10, <1>11, Zenon DEF Tick

\* Of the API only TCPOpen() and TCPDisconnect() change the state.
LEMMA ApplicationMoves ==
    ASSUME SizesAssumption, SoundTCB(tcb), Application PROVE Moves
  <1>0. tcb \in TCBs /\ Sound(tcb)  BY DEF SoundTCB
  <1>1. CASE TCPOpen
    <2>1. tcb.smState = "CLOSED" /\ tcb'.smState = "LISTEN"  BY <1>1, StateSet, Zenon DEF TCPOpen
    <2> QED BY <2>1 DEF Moves, RFC793!Next, RFC793!PassiveOpen
  <1>2. CASE TCPDisconnect
    <2>1. tcb.smState # "CLOSED" /\ tcb' = Disconnect(tcb)  BY <1>2, Zenon DEF TCPDisconnect
    <2> QED BY <2>1, DisconnectState DEF Moves, Listens, RFC793!Next, RFC793!Close, RFC793!Delete
  <1>3. CASE TCPWasReset  BY <1>0, <1>3, Zenon DEF TCPWasReset, TCBs, Moves
  <1>4. CASE TCPFlush  BY <1>4, FlushState, Zenon DEF TCPFlush, Moves
  <1>5. CASE TCPPut
    <2> DEFINE space == IsPutReady(tcb)
               first == IF space = 1 THEN Flush(tcb) ELSE tcb
               half  == HalfFull(first, space)
               s     == Wrote(half, 1)
    <2>1. space > 0 /\ tcb' \in {Flush(s), Timer2(s)}  BY <1>5, Zenon DEF TCPPut
    <2>2. space = TxSize - (tcb.txHead - tcb.txTail) \/ space = 0  BY DEF IsPutReady
    <2> HIDE DEF space
    <2>3. SoundTCB(first) /\ first.txHead = tcb.txHead /\ first.txTail = tcb.txTail
          /\ first.smState = tcb.smState
      BY FlushSound, FlushState, Zenon
    <2> HIDE DEF first
    <2>4. SoundTCB(half) /\ half.txHead = first.txHead /\ half.txTail = first.txTail
          /\ half.smState = first.smState
      BY <2>3, HalfFullSound, HalfFullState, Zenon
    <2> HIDE DEF half
    <2>5. 1 \in Nat /\ 1 <= TxSize - (half.txHead - half.txTail)
      BY <1>0, <2>1, <2>2, <2>3, <2>4 DEF TCBs, SizesAssumption
    <2>6. Flush(s).smState = half.smState /\ Timer2(s).smState = half.smState
      BY <2>4, <2>5, WroteState
    <2> QED BY <2>1, <2>3, <2>4, <2>6, Zenon DEF Moves
  <1>6. ASSUME NEW len \in 1..TxSize, TCPPutArray(len) PROVE Moves
    <2> DEFINE space == IsPutReady(tcb)
               half  == HalfFull(tcb, space)
               n     == LesserOf(space, len)
               s     == Wrote(half, n)
    <2>1. tcb' = Flush(tcb) \/ (space # 0 /\ tcb' \in {Flush(s), Timer2(s)})
      BY <1>6, Zenon DEF TCPPutArray
    <2>2. space = TxSize - (tcb.txHead - tcb.txTail) \/ space = 0  BY DEF IsPutReady
    <2> HIDE DEF space
    <2>3. Flush(tcb).smState = tcb.smState  BY FlushState, Zenon
    <2>4. SoundTCB(half) /\ half.txHead = tcb.txHead /\ half.txTail = tcb.txTail
          /\ half.smState = tcb.smState
      BY HalfFullSound, HalfFullState, Zenon
    <2> HIDE DEF half
    <2>5. space # 0 => n \in Nat /\ n <= TxSize - (half.txHead - half.txTail)
      BY <1>0, <2>2, <2>4 DEF TCBs, SizesAssumption, LesserOf, Sound
    <2> HIDE DEF n
    <2>6. space # 0 => Flush(s).smState = half.smState /\ Timer2(s).smState = half.smState
      BY <2>4, <2>5, WroteState
    <2> QED BY <2>1, <2>3, <2>4, <2>6, Zenon DEF Moves
  <1>7. ASSUME NEW k PROVE Read(tcb, k).smState = tcb.smState
    BY <1>0, Zenon DEF Read, Timer2, TCBs
  <1>8. CASE TCPGet  BY <1>0, <1>8, Zenon DEF TCPGet, Timer2, TCBs, Moves
  <1>9. ASSUME NEW len \in 1..RxSize, TCPGetArray(len) PROVE Moves
    BY <1>7, <1>9, Zenon DEF TCPGetArray, Moves
  <1>10. CASE TCPDiscard
    <2> DEFINE r == [tcb EXCEPT !.rxCount = 0]
    <2>1. 0 \in Nat /\ 0 <= tcb.rxCount /\ RxSize \in Nat  BY <1>0 DEF TCBs, SizesAssumption
    <2>2. SoundTCB(r)  BY <2>1, SetRxCount
    <2>3. r.smState = tcb.smState  BY <1>0, Zenon DEF TCBs
    <2>4. tcb' = SendTCP(r, {"ACK"}, "RESET_TIMERS")  BY <1>10, Zenon DEF TCPDiscard
    <2> HIDE DEF r
    <2>5. SendTCP(r, {"ACK"}, "RESET_TIMERS").smState = r.smState  BY <2>2, SendTCPSound, Zenon
    <2> QED BY <2>3, <2>4, <2>5, Zenon DEF Moves
  <1> QED BY <1>1, <1>2, <1>3, <1>4, <1>5, <1>6, <1>8, <1>9, <1>10, Zenon DEF Application
-----------------------------------------------------------------------------
\* Every step of the program is at most one step of the state diagram.
LEMMA NextMoves == SizesAssumption /\ Inv /\ [Next]_vars => Moves
  <1> SUFFICES ASSUME SizesAssumption, Inv, [Next]_vars PROVE Moves  OBVIOUS
  <1>0. SoundTCB(tcb)  BY DEF Inv
  <1>1. CASE Application  BY <1>0, <1>1, ApplicationMoves, Zenon
  <1>2. CASE HandleTCPSeg
    <2>1. CASE ListenSYN \/ ListenOther  BY <1>0, <2>1, ListenMoves, Zenon
    <2>2. ASSUME NEW h \in AckSegments \union OtherSegments,
                 \/ SegUnacceptable(h) \/ SegReset(h) \/ SegWithoutAck(h) \/ SegBadSynAck(h)
                 \/ SegLastAck(h) \/ SegAckTooHigh(h) \/ SegClosing(h) \/ SegFinWait2(h)
                 \/ SegProcessed(h)
          PROVE  Moves
      <3>1. SegmentOK(h)  BY <2>2, SegmentsOK, Zenon DEF Inv
      <3> QED BY <1>0, <2>2, <3>1, SegMoves, ProcessedState, Zenon
    <2> QED BY <1>2, <2>1, <2>2, Zenon DEF HandleTCPSeg
  <1>3. CASE TCPTick
    <2>1. CASE TickServeSYN  BY <1>0, <2>1, ListenMoves, Zenon
    <2>2. ASSUME NEW x \in SUBSET Running(tcb), Tick(x) PROVE Moves
      BY <1>0, <2>2, TickMoves, Zenon
    <2> QED BY <1>3, <2>1, <2>2, Zenon DEF TCPTick
  <1>4. CASE TimePasses  BY <1>0, <1>4, Zenon DEF TimePasses, Moves, SoundTCB, TCBs
  <1>5. CASE PeerReceives \/ PeerDies \/ UNCHANGED vars
    BY <1>5, Zenon DEF PeerReceives, PeerDies, vars, Moves
  <1> QED BY <1>1, <1>2, <1>3, <1>4, <1>5, Zenon DEF Next

\* The socket implements the state diagram of RFC 793 that TCP.h refers to, as
\* TCPStates states it: whatever segments arrive, and whatever the timers and
\* the application do, no handler, tick or call leaves it.
THEOREM ImplementsRFC793 == Spec => StatesOfRFC793
  <1>1. Init => RFC793!Init  BY DEF Init, InitialTCB, RFC793!Init
  <1>2. Inv /\ [Next]_vars => [RFC793!Next]_(tcb.smState)  BY NextMoves, SizesAssumption DEF Moves
  <1> QED BY <1>1, <1>2, Invariance, PTL DEF Spec, StatesOfRFC793, RFC793!Spec
-----------------------------------------------------------------------------
(* A socket between two connections.                                       *)

\* No connection.
Unbound == tcb.smState \in {"CLOSED", "LISTEN"}

\* Without a connection there is no trace of one.
CleanInv == Unbound => Idle(tcb)

\* A socket without a connection has no timer for a tick to serve, nothing to
\* flush and nothing to read: it stays idle until a SYN arrives.
LEMMA IdleKept ==
    ASSUME SizesAssumption, Inv, Unbound, Idle(tcb), Unbound', [Next]_vars PROVE Idle(tcb')
  <1>0. SoundTCB(tcb) /\ tcb \in TCBs  BY DEF Inv, SoundTCB
  <1>1. ASSUME tcb' = tcb PROVE Idle(tcb')  BY <1>1
  <1>2. ASSUME Listens(tcb') PROVE Idle(tcb')  BY <1>2 DEF Listens
  <1>3. Unsent(tcb) = 0 /\ ~(Unsent(tcb) > 0)  BY DEF Idle, Unsent
  <1>4. Flush(tcb) = tcb  BY <1>3, Zenon DEF Flush
  <1>5. tcb.rxCount = 0 /\ ~(tcb.rxCount > 0) /\ IsPutReady(tcb) = 0 /\ ~(IsPutReady(tcb) > 0)
    BY DEF Idle, Unbound, IsPutReady
  <1>6. CASE Application
    <2>1. CASE TCPOpen
      <3>1. tcb' = [tcb EXCEPT !.smState = "LISTEN"]  BY <2>1, Zenon DEF TCPOpen
      <3> QED BY <1>0, <3>1, Zenon DEF Idle, TCBs
    <2>2. CASE TCPDisconnect
      <3>1. tcb.smState = "LISTEN" /\ tcb' = Disconnect(tcb)
        BY <2>2, Zenon DEF TCPDisconnect, Unbound
      <3> QED BY <1>0, <1>2, <3>1, DisconnectState
    <2>3. CASE TCPWasReset
      <3>1. tcb' = [tcb EXCEPT !.bSocketReset = FALSE]  BY <2>3, Zenon DEF TCPWasReset
      <3> QED BY <1>0, <3>1, Zenon DEF Idle, TCBs
    <2>4. CASE TCPFlush  BY <1>1, <1>4, <2>4, Zenon DEF TCPFlush
    <2>5. CASE TCPPut  BY <1>5, <2>5, Zenon DEF TCPPut
    <2>6. ASSUME NEW len \in 1..TxSize, TCPPutArray(len) PROVE Idle(tcb')
      BY <1>1, <1>4, <1>5, <2>6, Zenon DEF TCPPutArray
    <2>7. CASE TCPGet  BY <1>5, <2>7, Zenon DEF TCPGet
    <2>8. ASSUME NEW len \in 1..RxSize, TCPGetArray(len) PROVE Idle(tcb')
      BY <1>5, <2>8, Zenon DEF TCPGetArray
    <2>9. CASE TCPDiscard  BY <1>5, <2>9, Zenon DEF TCPDiscard
    <2> QED BY <1>6, <2>1, <2>2, <2>3, <2>4, <2>5, <2>6, <2>7, <2>8, <2>9, Zenon DEF Application
  <1>7. CASE HandleTCPSeg
    <2>1. CASE ListenSYN \/ ListenOther
      <3>1. tcb'.smState = "SYN_RECEIVED" \/ Listens(tcb')  BY <1>0, <2>1, ListenStates, Zenon
      <3> QED BY <1>2, <3>1 DEF Unbound
    <2>2. ASSUME NEW h, Arrives(h) PROVE FALSE  BY <2>2, Zenon DEF Arrives, Unbound
    <2> QED
      BY <1>7, <2>1, <2>2, Zenon
      DEF HandleTCPSeg, SegUnacceptable, SegReset, SegWithoutAck, SegBadSynAck, SegLastAck,
          SegAckTooHigh, SegClosing, SegFinWait2, SegProcessed, AckProcessed, AckArrives
  <1>8. CASE TCPTick
    <2>1. CASE TickServeSYN
      <3>1. tcb'.smState = "SYN_RECEIVED" \/ Listens(tcb')  BY <1>0, <2>1, ListenStates, Zenon
      <3> QED BY <1>2, <3>1 DEF Unbound
    <2>2. ASSUME NEW x \in SUBSET Running(tcb), Tick(x) PROVE Idle(tcb')
      <3>1. x = {}  BY DEF Running, Idle, Unbound
      <3>2. TickSend(tcb, x) = tcb  BY <3>1, Zenon DEF TickSend
      <3>3. ~KeepAliveDue(tcb) /\ ~TimedOut(tcb)  BY DEF KeepAliveDue, TimedOut, Idle, Unbound
      <3> QED
        BY <1>1, <2>2, <3>2, <3>3, Zenon
        DEF Tick, TickOnly, TickKeepAlive, TickPeerLost, TickRetry, TickGiveUp, TickAbort
    <2> QED BY <1>8, <2>1, <2>2, Zenon DEF TCPTick
  <1>9. CASE TimePasses  BY <1>9 DEF TimePasses, Idle, Unbound
  <1>10. CASE PeerReceives \/ PeerDies \/ UNCHANGED vars
    BY <1>1, <1>10, Zenon DEF PeerReceives, PeerDies, vars
  <1> QED BY <1>6, <1>7, <1>8, <1>9, <1>10, Zenon DEF Next

\* Every step keeps it: a connection ends in CloseSocket(), whatever ends it.
LEMMA CleanStep == SizesAssumption /\ Inv /\ CleanInv /\ [Next]_vars => CleanInv'
  <1> SUFFICES ASSUME SizesAssumption, Inv, CleanInv, [Next]_vars, Unbound' PROVE Idle(tcb')
    BY DEF CleanInv, Unbound, Idle
  <1>1. CASE Unbound  BY <1>1, IdleKept, Zenon DEF CleanInv
  <1>2. CASE ~Unbound
    <2>1. Moves  BY NextMoves, Zenon
    <2>2. tcb'.smState = "LISTEN"
      BY <1>2, <2>1 DEF Moves, Unbound, RFC793!Next, RFC793!PassiveOpen, RFC793!ReceiveSYN,
         RFC793!ReceiveAckOfSYN, RFC793!Close, RFC793!ReceiveFIN, RFC793!ReceiveAckOfFIN,
         RFC793!Delete, RFC793!GiveUpInCloseWait
    <2> QED BY <1>2, <2>1, <2>2 DEF Moves, Unbound, Listens
  <1> QED BY <1>1, <1>2

\* A control block without a trace is the initial one but for the fields that
\* CloseSocket() leaves.
LEMMA IdleIsInitial ==
    ASSUME tcb \in TCBs, Listens(tcb) PROVE ListenIsClean
  <1> DEFINE i == [InitialTCB EXCEPT !.smState = "LISTEN", !.bSocketReset = tcb.bSocketReset,
                                     !.RemoteSEQ = tcb.RemoteSEQ, !.retryCount = tcb.retryCount,
                                     !.wFutureDataSize = tcb.wFutureDataSize,
                                     !.due = tcb.due, !.lastAck = tcb.lastAck]
  <1>1. InitialTCB \in TCBs  BY DEF InitialTCB, TCBs, States, NoHole, BYTE, Segments
  <1>2. "LISTEN" \in States  BY DEF States
  <1>3. i \in TCBs  BY <1>1, <1>2, Zenon DEF TCBs
  <1>4. /\ i.smState = "LISTEN" /\ i.bSocketReset = tcb.bSocketReset
        /\ i.RemoteSEQ = tcb.RemoteSEQ /\ i.retryCount = tcb.retryCount
        /\ i.wFutureDataSize = tcb.wFutureDataSize
        /\ i.due = tcb.due /\ i.lastAck = tcb.lastAck
    BY <1>1, Zenon DEF TCBs
  <1>5. Idle(i)
    <2>1. Idle(InitialTCB)  BY DEF Idle, InitialTCB
    <2> QED BY <1>1, <2>1, Zenon DEF Idle, TCBs
  <1> HIDE DEF i
  <1>6. tcb = i  BY <1>3, <1>4, <1>5, SMT DEF Listens, Idle, TCBs
  <1> QED BY <1>6 DEF ListenIsClean, i

\* A socket that listens carries nothing over from its last connection, however
\* that ended, and nothing it is asked to do before the next one changes that.
THEOREM ReuseIsClean == Spec => []ListenIsClean
  <1>1. Init => CleanInv
    BY DEF Init, InitialTCB, CleanInv, Idle
  <1>2. Inv /\ CleanInv /\ [Next]_vars => CleanInv'  BY CleanStep, SizesAssumption
  <1>3. Inv /\ CleanInv => ListenIsClean
    <2>1. CASE tcb.smState = "LISTEN"
      BY <2>1, IdleIsInitial DEF CleanInv, Unbound, Listens, Inv, SoundTCB
    <2>2. CASE tcb.smState # "LISTEN"  BY <2>2 DEF ListenIsClean
    <2> QED BY <2>1, <2>2
  <1> QED BY <1>1, <1>2, <1>3, Invariance, PTL DEF Spec
=============================================================================
