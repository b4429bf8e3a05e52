--------------------------- MODULE TCPReassembly ---------------------------
(***************************************************************************)
(* The arithmetic of one hole in the receive FIFO of a TCP socket: the     *)
(* part of HandleTCPSeg() (TCP.c) that keeps sHoleSize and wFutureDataSize *)
(* while segments arrive out of order.  sHoleSize counts the bytes missing *)
(* between rxHead and the future data, NoHole (-1) when nothing is         *)
(* missing; wFutureDataSize counts the bytes stored beyond the hole.       *)
(* Sizes stay below 2^15 (the receive FIFO has 301 bytes), so the WORD and *)
(* SHORT casts of the code are the identity here.                          *)
(***************************************************************************)
EXTENDS Integers

NoHole == -1

LesserOf(a, b) == IF a <= b THEN a ELSE b

\* Free bytes of a receive FIFO of capacity size that holds count bytes.
FreeRx(size, count) == size - count

\* Bytes of a segment stored at rxHead when it starts "missing" <= 0 bytes
\* from RemoteSEQ: the old part is skipped, the rest truncated to the space.
InOrderLen(missing, len, free) == LesserOf(len + missing, free)

\* Seeded fault: a segment beyond the window is stored whole.
AheadLenUntruncated(missing, len, free) == len

\* Bytes stored when the segment starts "missing" > 0 bytes ahead.
AheadLen(missing, len, free) == IF len + missing > free THEN free - missing ELSE len

\* Seeded fault: the head jumps over the whole hole, not what was left of it.
FillHoleTwice(hole, future, n) ==
    IF hole = NoHole \/ future + hole - n < 0
    THEN [hole |-> NoHole, jump |-> 0]
    ELSE IF hole - n <= 0 THEN [hole |-> NoHole, jump |-> future + hole]
                          ELSE [hole |-> hole - n, jump |-> 0]

\* n bytes have arrived at rxHead: by how much the head jumps over the future
\* data, and what is left of the hole.
FillHole(hole, future, n) ==
    LET left == hole - n
        over == future + left
    IN  IF hole = NoHole \/ over < 0
        THEN [hole |-> NoHole, jump |-> 0]
        ELSE IF left <= 0 THEN [hole |-> NoHole, jump |-> over]
                          ELSE [hole |-> left, jump |-> 0]

\* n bytes have been stored "missing" bytes ahead of rxHead.
RecordHole(hole, future, missing, n) ==
    LET end == hole + future      \* first byte after the known future data
    IN  IF hole = NoHole
        THEN [hole |-> missing, future |-> n]
        ELSE IF missing < hole
        THEN [hole   |-> missing,
              future |-> IF missing + n > end \/ missing + n < hole
                         THEN n ELSE end - missing]
        ELSE [hole   |-> hole,
              future |-> IF missing + n > end /\ missing <= end
                         THEN missing + n - hole ELSE future]
=============================================================================
