--------------------------- MODULE MACRingsProofs ---------------------------
(***************************************************************************)
(* The proofs about the two rings of the Ethernet driver, for rings of any *)
(* length and any number of frames: the engine is never left asleep on     *)
(* work, and the rings implement the queues of FrameQueues.  Both rest on  *)
(* one fact: the descriptors that wait are a run that begins at the place  *)
(* of the side that empties the ring and ends at the place of the side     *)
(* that fills it.                                                          *)
(***************************************************************************)
EXTENDS MACRings, Integers, FiniteSetTheorems, SequenceTheorems, TLAPS

\* The j-th place after s in a ring of n.
At(s, j, n) == IF s + j < n THEN s + j ELSE (s + j) - n

\* The k places from s on.
Run(s, k, n) == {At(s, j, n) : j \in 0 .. k - 1}

\* The places of S wait, from s to e, which is the first one behind them.
Filled(S, s, e, n) ==
  /\ S \subseteq Slot(n) /\ s \in Slot(n) /\ IsFiniteSet(S)
  /\ Cardinality(S) \in 0 .. n
  /\ S = Run(s, Cardinality(S), n) /\ e = At(s, Cardinality(S), n)

-----------------------------------------------------------------------------
(* Places in a ring.                                                       *)

\* A number is a multiple of another and a rest.
LEMMA Division ==
    ASSUME NEW a \in Int, NEW n \in Int, n > 0, a >= 0
    PROVE a = n * (a \div n) + (a % n) /\ a \div n \in Nat /\ a % n \in 0 .. n - 1
  BY SMT

\* A place that runs past the end of the ring goes on at its beginning.
LEMMA WrapOnce ==
    ASSUME NEW n \in Nat \ {0}, NEW a \in Nat, a < n + n
    PROVE a % n = IF a < n THEN a ELSE a - n
  <1> DEFINE d == a \div n
             x == a % n
  <1>1. a = n * d + x /\ d \in Nat /\ x \in 0 .. n - 1  BY Division
  <1> HIDE DEF d, x
  <1>2. CASE d = 0  BY <1>1, <1>2, SMT DEF x
  <1>3. CASE d = 1  BY <1>1, <1>3, SMT DEF x
  <1>4. CASE d >= 2
    <2>1. n * d >= n * 2  BY <1>1, <1>4, SMT
    <2>2. n * 2 = n + n /\ n * d \in Nat  BY <1>1, SMT
    <2> QED  BY <1>1, <2>1, <2>2, SMT
  <1> QED  BY <1>1, <1>2, <1>3, <1>4, SMT

\* The places of a ring are in the ring.
LEMMA AtIn ==
    ASSUME NEW n \in Nat \ {0}, NEW s \in Slot(n), NEW j \in 0 .. n
    PROVE At(s, j, n) \in Slot(n) /\ (s + j) % n = At(s, j, n)
  <1>1. s + j \in Nat /\ s + j < n + n  BY SMT DEF Slot
  <1>2. (s + j) % n = At(s, j, n)
    <2> DEFINE a == s + j
    <2>1. a \in Nat /\ a < n + n  BY <1>1
    <2>2. At(s, j, n) = IF a < n THEN a ELSE a - n  BY Zenon DEF At
    <2> HIDE DEF a
    <2>3. a % n = At(s, j, n)  BY <2>1, <2>2, WrapOnce
    <2> QED  BY <2>3 DEF a
  <1> QED  BY <1>2, SMT DEF At, Slot

\* The descriptor after a place is the next place.
LEMMA AtNext ==
    ASSUME NEW n \in Nat \ {0}, NEW s \in Slot(n), NEW j \in 0 .. n - 1
    PROVE /\ NextDesc(At(s, j, n), n) = At(s, j + 1, n)
          /\ NextDesc(s, n) \in Slot(n)
          /\ At(NextDesc(s, n), j, n) = At(s, j + 1, n)
  <1>1. At(s, j, n) \in Slot(n)  BY AtIn, SMT
  <1>2. At(s, j, n) + 1 \in Nat /\ At(s, j, n) + 1 < n + n  BY <1>1, SMT DEF Slot
  <1>3. NextDesc(At(s, j, n), n) = At(s, j + 1, n)
    <2> DEFINE a == At(s, j, n) + 1
    <2>1. a % n = IF a < n THEN a ELSE a - n  BY <1>2, WrapOnce
    <2> QED  BY <1>1, <2>1, SMT DEF NextDesc, At, Slot
  <1>4. s + 1 \in Nat /\ s + 1 < n + n  BY SMT DEF Slot
  <1>5. NextDesc(s, n) = IF s + 1 < n THEN s + 1 ELSE (s + 1) - n
    <2> DEFINE a == s + 1
    <2>1. a \in Nat /\ a < n + n  BY <1>4
    <2> HIDE DEF a
    <2>2. a % n = IF a < n THEN a ELSE a - n  BY <2>1, WrapOnce
    <2>3. NextDesc(s, n) = a % n  BY Zenon DEF NextDesc, a
    <2> QED  BY <2>2, <2>3, Zenon DEF a
  <1>6. NextDesc(s, n) \in Slot(n) /\ At(NextDesc(s, n), j, n) = At(s, j + 1, n)
    BY <1>5, SMT DEF At, Slot
  <1> QED  BY <1>3, <1>6

\* A ring of n descriptors has n places.
LEMMA AtInjective ==
    ASSUME NEW n \in Nat \ {0}, NEW s \in Slot(n), NEW i \in 0 .. n - 1, NEW j \in 0 .. n - 1,
           At(s, i, n) = At(s, j, n)
    PROVE i = j
  BY SMT DEF At, Slot

\* A ring in which nothing waits, at its beginning.
LEMMA FilledNone ==
    ASSUME NEW n \in Nat \ {0}, NEW s \in Slot(n) PROVE Filled({}, s, s, n)
  <1>1. IsFiniteSet({}) /\ Cardinality({}) = 0  BY FS_EmptySet
  <1>2. Run(s, 0, n) = {}  BY SMT DEF Run
  <1>3. At(s, 0, n) = s  BY SMT DEF At, Slot
  <1>4. 0 \in 0 .. n  BY SMT
  <1> QED  BY <1>1, <1>2, <1>3, <1>4 DEF Filled

\* The first place waits unless none does; the place behind the last one waits
\* only if all do.
LEMMA FilledEnds ==
    ASSUME NEW n \in Nat \ {0}, NEW S, NEW s, NEW e, Filled(S, s, e, n)
    PROVE /\ s \in S <=> S # {}
          /\ s \in S <=> Cardinality(S) > 0
          /\ e \in S <=> Cardinality(S) = n
          /\ e \in Slot(n)
  <1> DEFINE k == Cardinality(S)
  <1>1. /\ S = Run(s, k, n) /\ e = At(s, k, n) /\ k \in 0 .. n /\ s \in Slot(n)
    BY DEF Filled
  <1> HIDE DEF k
  <1>2. e \in Slot(n)  BY <1>1, AtIn
  <1>3. k > 0 => s \in S
    <2> SUFFICES ASSUME k > 0 PROVE s \in S  OBVIOUS
    <2>1. 0 \in 0 .. k - 1 /\ At(s, 0, n) = s  BY <1>1, SMT DEF At, Slot
    <2> QED  BY <1>1, <2>1 DEF Run
  <1>4. k = 0 => S = {}  BY <1>1, SMT DEF Run
  <1>5. k = n => e = s /\ k > 0  BY <1>1, SMT DEF At, Slot
  <1>6. k # n => e \notin S
    <2> SUFFICES ASSUME k # n, e \in S PROVE FALSE  OBVIOUS
    <2>1. PICK j \in 0 .. k - 1 : At(s, k, n) = At(s, j, n)  BY <1>1 DEF Run
    <2>2. k \in 0 .. n - 1 /\ j \in 0 .. n - 1  BY <1>1, SMT
    <2>3. k = j  BY <1>1, <2>1, <2>2, AtInjective
    <2> QED  BY <1>1, <2>3, SMT
  <1>7. k = 0 \/ k > 0  BY <1>1, SMT
  <1> QED  BY <1>2, <1>3, <1>4, <1>5, <1>6, <1>7 DEF k

\* One side fills a place.
LEMMA FilledGrows ==
    ASSUME NEW n \in Nat \ {0}, NEW S, NEW s, NEW e, Filled(S, s, e, n), e \notin S
    PROVE /\ Filled(S \cup {e}, s, NextDesc(e, n), n)
          /\ Cardinality(S \cup {e}) = Cardinality(S) + 1
          /\ Cardinality(S) \in 0 .. n - 1
  <1> DEFINE k == Cardinality(S)
             T == S \cup {e}
  <1>1. /\ S = Run(s, k, n) /\ e = At(s, k, n) /\ k \in 0 .. n /\ s \in Slot(n)
        /\ IsFiniteSet(S) /\ S \subseteq Slot(n)
    BY DEF Filled
  <1>2. IsFiniteSet(T) /\ Cardinality(T) = k + 1  BY <1>1, FS_AddElement
  <1>3. k # n /\ e \in Slot(n)  BY FilledEnds
  <1>4. k \in 0 .. n - 1 /\ k + 1 \in 0 .. n  BY <1>1, <1>3, SMT
  <1>5. NextDesc(e, n) = At(s, k + 1, n)
    <2> HIDE DEF k
    <2> QED  BY <1>1, <1>4, AtNext
  <1>6. T = Run(s, k + 1, n)
    <2> HIDE DEF k
    <2>1. \A j \in 0 .. k : j \in 0 .. k - 1 \/ j = k  BY <1>4, SMT
    <2>2. (k + 1) - 1 = k /\ \A j \in 0 .. k - 1 : j \in 0 .. k  BY <1>4, SMT
    <2>3. k \in 0 .. k  BY <1>4, SMT
    <2>4. Run(s, k + 1, n) = {At(s, j, n) : j \in 0 .. k}  BY <2>2, Zenon DEF Run
    <2> QED  BY <1>1, <2>1, <2>2, <2>3, <2>4, Zenon DEF Run
  <1> QED  BY <1>1, <1>2, <1>3, <1>4, <1>5, <1>6 DEF Filled

\* The other side takes the first one.
LEMMA FilledShrinks ==
    ASSUME NEW n \in Nat \ {0}, NEW S, NEW s, NEW e, Filled(S, s, e, n), s \in S
    PROVE /\ Filled(S \ {s}, NextDesc(s, n), e, n)
          /\ Cardinality(S \ {s}) = Cardinality(S) - 1
          /\ Cardinality(S) \in 1 .. n
  <1> DEFINE k == Cardinality(S)
             T == S \ {s}
             t == NextDesc(s, n)
  <1>1. /\ S = Run(s, k, n) /\ e = At(s, k, n) /\ k \in 0 .. n /\ s \in Slot(n)
        /\ IsFiniteSet(S) /\ S \subseteq Slot(n)
    BY DEF Filled
  <1>2. IsFiniteSet(T) /\ Cardinality(T) = k - 1  BY <1>1, FS_RemoveElement
  <1>3. k > 0  BY FilledEnds
  <1>4. k \in 1 .. n /\ k - 1 \in 0 .. n - 1 /\ k - 1 \in 0 .. n /\ (k - 1) + 1 = k
    BY <1>1, <1>3, SMT
  <1> HIDE DEF k
  <1>5. t \in Slot(n)
    <2>1. 0 \in 0 .. n - 1  BY SMT
    <2> QED  BY <1>1, <2>1, AtNext
  <1>6. At(t, k - 1, n) = e  BY <1>1, <1>4, AtNext
  <1>7. T = Run(t, k - 1, n)
    <2>1. ASSUME NEW j \in 0 .. k - 1 - 1 PROVE At(t, j, n) \in T
      <3>1. j \in 0 .. n - 1 /\ j + 1 \in 0 .. k - 1 /\ j + 1 \in 0 .. n - 1 /\ j + 1 # 0
        BY <1>4, SMT
      <3>2. At(t, j, n) = At(s, j + 1, n)  BY <1>1, <3>1, AtNext
      <3>3. At(s, 0, n) = s /\ 0 \in 0 .. n - 1  BY <1>1, SMT DEF At, Slot
      <3>4. At(s, j + 1, n) # s  BY <1>1, <3>1, <3>3, AtInjective
      <3> QED  BY <1>1, <3>1, <3>2, <3>4 DEF Run
    <2>2. ASSUME NEW x \in T PROVE \E j \in 0 .. k - 1 - 1 : x = At(t, j, n)
      <3>1. PICK i \in 0 .. k - 1 : x = At(s, i, n)  BY <1>1 DEF Run
      <3>2. At(s, 0, n) = s  BY <1>1, SMT DEF At, Slot
      <3>3. i # 0  BY <3>1, <3>2
      <3>4. i - 1 \in 0 .. k - 1 - 1 /\ i - 1 \in 0 .. n - 1 /\ (i - 1) + 1 = i
        BY <1>4, <3>3, SMT
      <3>5. At(t, i - 1, n) = At(s, i, n)
        <4> DEFINE j == i - 1
        <4>1. j \in 0 .. n - 1 /\ j + 1 = i  BY <3>4
        <4> HIDE DEF j
        <4>2. At(t, j, n) = At(s, i, n)  BY <1>1, <4>1, AtNext
        <4> QED  BY <4>2 DEF j
      <3> QED  BY <3>1, <3>4, <3>5
    <2> QED  BY <2>1, <2>2, Zenon DEF Run
  <1>8. T \subseteq Slot(n)  BY <1>1
  <1> QED  BY <1>1, <1>2, <1>4, <1>5, <1>6, <1>7, <1>8 DEF Filled, k

-----------------------------------------------------------------------------
(* The frames of a ring, read as a sequence.                               *)

\* The frames of the first c places from s on: RxQueue and TxQueue read so.
Read(r, s, c, n) == [k \in 1 .. c |-> r[(s + k - 1) % n].frame]

\* The frame at every place of the ring r.
FramesIn(r, S, F) == \A i \in S : r[i].frame \in F

\* The ring t holds the same frames in the places of S.
SameFrames(r, t, S, F) == FramesIn(r, S, F) /\ \A i \in S : t[i].frame = r[i].frame

\* A function on 1 .. c is a sequence of length c.
LEMMA FunctionIsSeq ==
    ASSUME NEW c \in Nat, NEW F, NEW q \in [1 .. c -> F]
    PROVE q \in Seq(F) /\ Len(q) = c
  <1>1. q \in Seq(F)  BY SMT
  <1> QED  BY <1>1, LenProperties, SMT

\* What is read from a run of descriptors is their frames.
LEMMA ReadAt ==
    ASSUME NEW n \in Nat \ {0}, NEW r, NEW s \in Slot(n), NEW c \in 0 .. n,
           NEW F, FramesIn(r, Run(s, c, n), F)
    PROVE /\ Read(r, s, c, n) \in Seq(F) /\ Len(Read(r, s, c, n)) = c
          /\ \A k \in 1 .. c : /\ Read(r, s, c, n)[k] = r[At(s, k - 1, n)].frame
                               /\ At(s, k - 1, n) \in Run(s, c, n)
  <1> DEFINE q == Read(r, s, c, n)
  <1>1. ASSUME NEW k \in 1 .. c
        PROVE /\ q[k] = r[At(s, k - 1, n)].frame /\ q[k] \in F
              /\ At(s, k - 1, n) \in Run(s, c, n)
    <2> DEFINE j == k - 1
    <2>1. j \in 0 .. n /\ j \in 0 .. c - 1 /\ s + k - 1 = s + j  BY SMT
    <2>2. At(s, j, n) \in Run(s, c, n)  BY <2>1 DEF Run
    <2>3. q[k] = r[(s + j) % n].frame  BY <2>1 DEF Read
    <2> HIDE DEF j
    <2>4. (s + j) % n = At(s, j, n)  BY <2>1, AtIn
    <2>5. r[At(s, j, n)].frame \in F  BY <2>2 DEF FramesIn
    <2> QED  BY <2>2, <2>3, <2>4, <2>5 DEF j
  <1>2. q \in [1 .. c -> F]  BY <1>1 DEF Read
  <1>3. c \in Nat  BY SMT
  <1> HIDE DEF q
  <1>4. q \in Seq(F) /\ Len(q) = c  BY <1>2, <1>3, FunctionIsSeq
  <1> QED  BY <1>1, <1>4 DEF q

\* A frame put at the end is appended.
LEMMA ReadGrows ==
    ASSUME NEW n \in Nat \ {0}, NEW S, NEW s, NEW e, Filled(S, s, e, n), e \notin S,
           NEW r, NEW t, NEW F, SameFrames(r, t, S, F), t[e].frame \in F
    PROVE Read(t, s, Cardinality(S) + 1, n) = Append(Read(r, s, Cardinality(S), n), t[e].frame)
  <1> DEFINE c == Cardinality(S)
             p == Read(r, s, c, n)
             q == Read(t, s, c + 1, n)
  <1>1. /\ S = Run(s, c, n) /\ s \in Slot(n) /\ c \in 0 .. n - 1 /\ c \in 0 .. n
        /\ c + 1 \in 0 .. n /\ e = At(s, c, n)
        /\ S \cup {e} = Run(s, c + 1, n)
    <2>1. Cardinality(S) \in 0 .. n - 1 /\ Cardinality(S \cup {e}) = Cardinality(S) + 1
          /\ Filled(S \cup {e}, s, NextDesc(e, n), n)
      BY FilledGrows
    <2>2. c + 1 \in 0 .. n  BY <2>1, SMT
    <2> QED  BY <2>1, <2>2 DEF Filled
  <1>0. FramesIn(r, S, F) /\ \A i \in S : t[i].frame = r[i].frame  BY DEF SameFrames
  <1>2. FramesIn(t, S \cup {e}, F)  BY <1>0 DEF FramesIn
  <1> HIDE DEF c
  <1>3. /\ p \in Seq(F) /\ Len(p) = c
        /\ \A k \in 1 .. c : p[k] = r[At(s, k - 1, n)].frame /\ At(s, k - 1, n) \in S
    BY <1>0, <1>1, ReadAt
  <1>4. /\ q \in Seq(F) /\ Len(q) = c + 1
        /\ \A k \in 1 .. c + 1 : q[k] = t[At(s, k - 1, n)].frame
    <2> DEFINE d == c + 1
    <2>1. d \in 0 .. n /\ FramesIn(t, Run(s, d, n), F)  BY <1>1, <1>2
    <2> HIDE DEF d
    <2>2. /\ Read(t, s, d, n) \in Seq(F) /\ Len(Read(t, s, d, n)) = d
          /\ \A k \in 1 .. d : Read(t, s, d, n)[k] = t[At(s, k - 1, n)].frame
      BY <1>1, <2>1, ReadAt
    <2> QED  BY <2>2 DEF d
  <1>5. \A k \in 1 .. c : q[k] = p[k]
    <2> SUFFICES ASSUME NEW k \in 1 .. c PROVE q[k] = p[k]  OBVIOUS
    <2>1. k \in 1 .. c + 1  BY <1>1, SMT
    <2> QED  BY <1>0, <1>3, <1>4, <2>1
  <1>6. q[c + 1] = t[e].frame
    <2>1. c + 1 \in 1 .. c + 1 /\ (c + 1) - 1 = c  BY <1>1, SMT
    <2> QED  BY <1>1, <1>4, <2>1
  <1> HIDE DEF p, q
  <1>7. q = Append(p, t[e].frame)
    BY <1>1, <1>3, <1>4, <1>5, <1>6, AppendProperties, SeqEqual
  <1> QED  BY <1>7 DEF c, p, q

\* The first frame is the head, and what is left when it is gone the tail.
LEMMA ReadShrinks ==
    ASSUME NEW n \in Nat \ {0}, NEW S, NEW s, NEW e, Filled(S, s, e, n), s \in S,
           NEW r, NEW t, NEW F, SameFrames(r, t, S, F)
    PROVE LET q == Read(r, s, Cardinality(S), n)
          IN  /\ q # <<>> /\ Head(q) = r[s].frame
              /\ Read(t, NextDesc(s, n), Cardinality(S) - 1, n) = Tail(q)
  <1> DEFINE c == Cardinality(S)
             q == Read(r, s, c, n)
             d == c - 1
             u == NextDesc(s, n)
             p == Read(t, u, d, n)
  <1>0. FramesIn(r, S, F) /\ \A i \in S : t[i].frame = r[i].frame  BY DEF SameFrames
  <1>1. /\ S = Run(s, c, n) /\ s \in Slot(n) /\ c \in 1 .. n /\ c \in 0 .. n
        /\ S \ {s} = Run(u, d, n) /\ u \in Slot(n) /\ d \in 0 .. n
    <2>1. Cardinality(S) \in 1 .. n /\ Cardinality(S \ {s}) = Cardinality(S) - 1
          /\ Filled(S \ {s}, NextDesc(s, n), e, n)
      BY FilledShrinks
    <2>2. c \in 0 .. n /\ d \in 0 .. n  BY <2>1, SMT
    <2>3. S = Run(s, c, n) /\ s \in Slot(n)  BY DEF Filled
    <2>4. S \ {s} = Run(u, d, n) /\ u \in Slot(n)  BY <2>1 DEF Filled
    <2> QED  BY <2>1, <2>2, <2>3, <2>4
  <1>2. FramesIn(r, Run(s, c, n), F) /\ FramesIn(t, Run(u, d, n), F)
    BY <1>0, <1>1 DEF FramesIn
  <1>3. c \in Nat /\ d \in Nat /\ d = c - 1  BY <1>1, SMT
  <1> HIDE DEF c, d, u
  <1>4. /\ q \in Seq(F) /\ Len(q) = c
        /\ \A k \in 1 .. c : q[k] = r[At(s, k - 1, n)].frame
    <2>1. s \in Slot(n) /\ c \in 0 .. n /\ FramesIn(r, Run(s, c, n), F)
      BY <1>1, <1>2
    <2> QED  BY <2>1, ReadAt
  <1>5. /\ p \in Seq(F) /\ Len(p) = d
        /\ \A k \in 1 .. d : /\ p[k] = t[At(u, k - 1, n)].frame
                             /\ At(u, k - 1, n) \in Run(u, d, n)
    BY <1>1, <1>2, ReadAt
  <1>6. \A k \in 1 .. d : p[k] = q[k + 1]
    <2> SUFFICES ASSUME NEW k \in 1 .. d PROVE p[k] = q[k + 1]  OBVIOUS
    <2>1. k + 1 \in 1 .. c /\ k - 1 \in 0 .. n - 1 /\ (k - 1) + 1 = k /\ (k + 1) - 1 = k
      BY <1>1, <1>3, SMT
    <2>2. At(u, k - 1, n) = At(s, k, n)
      <3> DEFINE j == k - 1
      <3>1. j \in 0 .. n - 1 /\ j + 1 = k  BY <2>1
      <3> HIDE DEF j
      <3>2. At(u, j, n) = At(s, k, n)  BY <1>1, <3>1, AtNext DEF u
      <3> QED  BY <3>2 DEF j
    <2>3. q[k + 1] = r[At(s, k, n)].frame  BY <1>4, <2>1
    <2>4. p[k] = t[At(s, k, n)].frame /\ At(s, k, n) \in S  BY <1>1, <1>5, <2>2
    <2> QED  BY <1>0, <2>3, <2>4
  <1>7. q[1] = r[s].frame
    <2>1. 1 \in 1 .. c /\ 1 - 1 = 0 /\ At(s, 0, n) = s  BY <1>1, SMT DEF At, Slot
    <2> QED  BY <1>4, <2>1
  <1> HIDE DEF p, q
  <1>8. q # <<>>  BY <1>1, <1>4, EmptySeq, SMT
  <1>9. Head(q) = r[s].frame  BY <1>4, <1>7, <1>8, SMT
  <1>10. p = Tail(q)
    <2>1. /\ Tail(q) \in Seq(F) /\ Len(Tail(q)) = d
          /\ \A i \in 1 .. Len(Tail(q)) : Tail(q)[i] = q[i + 1]
      BY <1>3, <1>4, <1>8, HeadTailProperties
    <2> QED  BY <1>5, <1>6, <2>1, SeqEqual
  <1> QED  BY <1>8, <1>9, <1>10 DEF p, q, u, d, c

-----------------------------------------------------------------------------
(* The invariant: each ring has its type, its waiting descriptors are a    *)
(* run between the places of its two sides, each of them holds a frame,    *)
(* and its engine does not sleep on work.                                  *)

RxDescriptors == [own : BOOLEAN, frame : 0 .. RxFrames, es : BOOLEAN]
TxDescriptors == [own : BOOLEAN, frame : 0 .. TxFrames]

RxInv ==
  /\ rx \in [Slot(RxN) -> RxDescriptors]
  /\ rbus \in BOOLEAN /\ wasDiscarded \in BOOLEAN /\ rxCall \in {"idle", "resume"}
  /\ arrived \in 0 .. RxFrames /\ taken \in Seq(1 .. RxFrames)
  /\ Filled(RxPending, rxGet, rxDMA, RxN)
  /\ FramesIn(rx, RxPending, 1 .. RxFrames)
  /\ ~wasDiscarded => rxGet \in RxPending
  /\ rbus => RxPending # {} \/ rxCall = "resume"

TxInv ==
  /\ tx \in [Slot(TxN) -> TxDescriptors]
  /\ tbus \in BOOLEAN /\ txCall \in {"idle", "built", "resume"}
  /\ written \in 0 .. TxFrames /\ sent \in Seq(1 .. TxFrames)
  /\ Filled(TxPending, txDMA, txSet, TxN)
  /\ FramesIn(tx, TxPending, 1 .. TxFrames)
  /\ txCall = "built" => tx[txSet].frame \in 1 .. TxFrames
  /\ tbus /\ TxPending # {} => txCall = "resume"

RingsInv == RxInv /\ TxInv /\ linkUp \in BOOLEAN

\* The abstract queues are what the rings hold, now and after the step.
LEMMA RxQueueIs == RxQueue = Read(rx, rxGet, Cardinality(RxPending), RxN)
  BY DEF RxQueue, Read
\* (RX, after.)
LEMMA RxQueueIsPrime == RxQueue' = Read(rx', rxGet', Cardinality(RxPending'), RxN)
  BY DEF RxQueue, Read
\* (TX, now.)
LEMMA TxQueueIs == TxQueue = Read(tx, txDMA, Cardinality(TxPending), TxN)
  BY DEF TxQueue, Read
\* (TX, after.)
LEMMA TxQueueIsPrime == TxQueue' = Read(tx', txDMA', Cardinality(TxPending'), TxN)
  BY DEF TxQueue, Read

\* The queue of a ring is as long as the number of its waiting descriptors.
LEMMA RxQueueIn ==
    ASSUME RxInv
    PROVE /\ RxQueue \in Seq(1 .. RxFrames) /\ Len(RxQueue) = Cardinality(RxPending)
          /\ RxN \in Nat \ {0}
  <1>1. RxN \in Nat \ {0}  BY RingsAssumption
  <1>2. /\ rxGet \in Slot(RxN) /\ Cardinality(RxPending) \in 0 .. RxN
        /\ FramesIn(rx, Run(rxGet, Cardinality(RxPending), RxN), 1 .. RxFrames)
    BY DEF RxInv, Filled
  <1> QED  BY <1>1, <1>2, ReadAt, RxQueueIs
\* So is that of the transmit ring.
LEMMA TxQueueIn ==
    ASSUME TxInv
    PROVE /\ TxQueue \in Seq(1 .. TxFrames) /\ Len(TxQueue) = Cardinality(TxPending)
          /\ TxN \in Nat \ {0}
  <1>1. TxN \in Nat \ {0}  BY RingsAssumption
  <1>2. /\ txDMA \in Slot(TxN) /\ Cardinality(TxPending) \in 0 .. TxN
        /\ FramesIn(tx, Run(txDMA, Cardinality(TxPending), TxN), 1 .. TxFrames)
    BY DEF TxInv, Filled
  <1> QED  BY <1>1, <1>2, ReadAt, TxQueueIs

-----------------------------------------------------------------------------
(* Reception.                                                              *)

\* A frame fills the engine's descriptor and is appended to the queue, or it is
\* lost.
LEMMA ReceiveKeeps ==
    ASSUME RxInv, DMAReceive
    PROVE /\ RxInv'
          /\ \/ RxQueue' = RxQueue
             \/ /\ Len(RxQueue) < RxN
                /\ \E f \in 1 .. RxFrames : RxQueue' = Append(RxQueue, f)
  <1> DEFINE f == arrived + 1
             b == f \in DamagedFrames
             d == [own |-> FALSE, frame |-> f, es |-> b]
  <1>1. /\ UNCHANGED <<rxGet, rbus, wasDiscarded, rxCall, taken>>
        /\ arrived < RxFrames /\ arrived' = arrived + 1
    BY DEF DMAReceive
  <1>2. f \in 1 .. RxFrames /\ f \in 0 .. RxFrames
    BY <1>1, RingsAssumption, SMT DEF RxInv
  <1>3. CASE UNCHANGED <<rx, rxDMA>>
    <2>1. RxPending' = RxPending  BY <1>3 DEF RxPending
    <2>2. RxQueue' = RxQueue  BY <1>1, <1>3, <2>1, RxQueueIs, RxQueueIsPrime
    <2> QED  BY <1>1, <1>2, <1>3, <2>1, <2>2 DEF RxInv, FramesIn
  <1>4. CASE /\ rx[rxDMA].own /\ rx' = [rx EXCEPT ![rxDMA] = d]
             /\ rxDMA' = NextDesc(rxDMA, RxN)
    <2>1. RxN \in Nat \ {0} /\ Filled(RxPending, rxGet, rxDMA, RxN)
      BY RingsAssumption DEF RxInv
    <2>2. rxDMA \in Slot(RxN) /\ rxDMA \notin RxPending
      BY <1>4, <2>1, FilledEnds DEF RxPending
    <2> b \in BOOLEAN  OBVIOUS
    <2> HIDE DEF f, b
    <2>3. d \in RxDescriptors /\ d.frame = f /\ ~d.own  BY <1>2 DEF RxDescriptors
    <2> HIDE DEF d
    <2>4. /\ rx' \in [Slot(RxN) -> RxDescriptors]
          /\ rx'[rxDMA] = d
          /\ \A i \in Slot(RxN) \ {rxDMA} : rx'[i] = rx[i]
      BY <1>4, <2>2, <2>3, Zenon DEF RxInv
    <2>5. rx'[rxDMA].frame = f /\ ~rx'[rxDMA].own  BY <2>3, <2>4
    <2>6. RxPending' = RxPending \cup {rxDMA}
      BY <2>2, <2>4, <2>5 DEF RxPending
    <2>7. Filled(RxPending', rxGet', rxDMA', RxN)
      BY <1>1, <1>4, <2>1, <2>2, <2>6, FilledGrows
    <2>8. \A i \in RxPending : rx'[i].frame = rx[i].frame
      BY <2>2, <2>4 DEF RxPending
    <2>9. FramesIn(rx', RxPending', 1 .. RxFrames)
      BY <1>2, <2>5, <2>6, <2>8 DEF RxInv, FramesIn
    <2>10. RxInv'
      BY <1>1, <1>2, <2>4, <2>6, <2>7, <2>9 DEF RxInv, f, FramesIn
    <2>11. /\ Cardinality(RxPending') = Cardinality(RxPending) + 1
           /\ Cardinality(RxPending) \in 0 .. RxN - 1
      BY <2>1, <2>2, <2>6, FilledGrows
    <2>12. RxQueue' = Append(RxQueue, f)
      <3> DEFINE F == 1 .. RxFrames
      <3>1. SameFrames(rx, rx', RxPending, F) /\ rx'[rxDMA].frame \in F
        BY <1>2, <2>5, <2>8 DEF RxInv, SameFrames
      <3> HIDE DEF F
      <3>2. Read(rx', rxGet, Cardinality(RxPending) + 1, RxN)
              = Append(Read(rx, rxGet, Cardinality(RxPending), RxN), rx'[rxDMA].frame)
        BY <2>1, <2>2, <3>1, ReadGrows
      <3> QED  BY <1>1, <2>5, <2>11, <3>2, RxQueueIs, RxQueueIsPrime
    <2>13. Len(RxQueue) < RxN  BY <2>1, <2>11, RxQueueIn, SMT
    <2> QED  BY <1>2, <2>10, <2>12, <2>13
  <1> QED  BY <1>3, <1>4 DEF DMAReceive

\* A descriptor that is given back keeps its frame and is the engine's again.
LEMMA GivenBack ==
    ASSUME RxInv, rxGet \in Slot(RxN), GiveBack
    PROVE /\ rx' \in [Slot(RxN) -> RxDescriptors] /\ rx'[rxGet].own
          /\ \A i \in Slot(RxN) \ {rxGet} : rx'[i] = rx[i]
          /\ \A i \in Slot(RxN) : rx'[i].frame = rx[i].frame
  <1> DEFINE d == [rx[rxGet] EXCEPT !.own = TRUE, !.es = FALSE]
  <1>1. rx[rxGet] \in RxDescriptors  BY DEF RxInv
  <1>2. d \in RxDescriptors /\ d.own /\ d.frame = rx[rxGet].frame
    BY <1>1, Zenon DEF RxDescriptors
  <1>3. rx' = [rx EXCEPT ![rxGet] = d]  BY <1>1, Zenon DEF GiveBack, RxInv, RxDescriptors
  <1> HIDE DEF d
  <1>4. /\ rx' \in [Slot(RxN) -> RxDescriptors] /\ rx'[rxGet] = d
        /\ \A i \in Slot(RxN) \ {rxGet} : rx'[i] = rx[i]
    BY <1>2, <1>3, Zenon DEF RxInv
  <1>5. \A i \in Slot(RxN) : rx'[i].frame = rx[i].frame
    <2> SUFFICES ASSUME NEW i \in Slot(RxN) PROVE rx'[i].frame = rx[i].frame  OBVIOUS
    <2>1. CASE i = rxGet  BY <1>2, <1>4, <2>1, Zenon
    <2>2. CASE i # rxGet  BY <1>4, <2>2
    <2> QED  BY <2>1, <2>2
  <1> QED  BY <1>2, <1>4, <1>5

\* MACDiscardRx() takes the first frame out of the queue.
LEMMA ReleaseKeeps ==
    ASSUME RxInv, GiveBack, ~wasDiscarded, UNCHANGED <<rxDMA, rbus, arrived, taken>>
    PROVE RxInv' /\ wasDiscarded' /\ RxQueue' = Tail(RxQueue)
  <1>1. /\ RxN \in Nat \ {0} /\ Filled(RxPending, rxGet, rxDMA, RxN)
        /\ rxGet \in RxPending /\ rxGet \in Slot(RxN)
    BY RingsAssumption DEF RxInv, Filled
  <1>2. /\ rx' \in [Slot(RxN) -> RxDescriptors] /\ rx'[rxGet].own
        /\ \A i \in Slot(RxN) \ {rxGet} : rx'[i] = rx[i]
        /\ \A i \in Slot(RxN) : rx'[i].frame = rx[i].frame
    BY <1>1, GivenBack
  <1>3. RxPending' = RxPending \ {rxGet}  BY <1>1, <1>2 DEF RxPending
  <1>4. /\ wasDiscarded' = TRUE /\ rxGet' = NextDesc(rxGet, RxN) /\ rxCall' = "resume"
    BY DEF GiveBack
  <1>5. /\ Filled(RxPending', rxGet', rxDMA', RxN)
        /\ Cardinality(RxPending') = Cardinality(RxPending) - 1
    BY <1>1, <1>3, <1>4, FilledShrinks
  <1>6. SameFrames(rx, rx', RxPending, 1 .. RxFrames)
    BY <1>2 DEF RxInv, SameFrames, RxPending
  <1>7. FramesIn(rx', RxPending', 1 .. RxFrames)
    BY <1>3, <1>6 DEF SameFrames, FramesIn
  <1>8. RxInv'  BY <1>2, <1>4, <1>5, <1>7 DEF RxInv
  <1>9. Read(rx', rxGet', Cardinality(RxPending'), RxN)
          = Tail(Read(rx, rxGet, Cardinality(RxPending), RxN))
    <2> DEFINE F == 1 .. RxFrames
    <2>1. SameFrames(rx, rx', RxPending, F)  BY <1>6
    <2> HIDE DEF F
    <2>2. Read(rx', NextDesc(rxGet, RxN), Cardinality(RxPending) - 1, RxN)
            = Tail(Read(rx, rxGet, Cardinality(RxPending), RxN))
      BY <1>1, <2>1, ReadShrinks
    <2> QED  BY <1>4, <1>5, <2>2
  <1> QED  BY <1>4, <1>8, <1>9, RxQueueIs, RxQueueIsPrime

\* MACGetHeader() hands the first frame over and leaves it in the queue.
LEMMA TakeKeeps ==
    ASSUME RxInv, wasDiscarded, ~rx[rxGet].own, wasDiscarded' = FALSE,
           taken' = Append(taken, rx[rxGet].frame),
           UNCHANGED <<rx, rxGet, rxCall, rxDMA, rbus, arrived>>
    PROVE RxInv' /\ RxQueue' = RxQueue /\ RxQueue # <<>>
  <1>1. RxN \in Nat \ {0} /\ Filled(RxPending, rxGet, rxDMA, RxN) /\ rxGet \in RxPending
    BY RingsAssumption DEF RxInv, Filled, RxPending
  <1>2. RxPending' = RxPending  BY DEF RxPending
  <1>3. rx[rxGet].frame \in 1 .. RxFrames  BY <1>1 DEF RxInv, FramesIn
  <1>4. taken' \in Seq(1 .. RxFrames)  BY <1>3, AppendProperties DEF RxInv
  <1>5. RxInv'  BY <1>1, <1>2, <1>4 DEF RxInv, FramesIn
  <1>6. RxQueue' = RxQueue  BY <1>2, RxQueueIs, RxQueueIsPrime
  <1>7. Cardinality(RxPending) > 0  BY <1>1, FilledEnds
  <1>8. Len(<<>>) = 0  OBVIOUS
  <1>9. RxQueue # <<>>  BY <1>7, <1>8, RxQueueIn, SMT
  <1> QED  BY <1>5, <1>6, <1>9

\* The other steps of reception leave the queue alone: the engine suspends itself
\* only when the ring is full, and MACDiscardRx() resumes it.
LEMMA RxSleepKeeps ==
    ASSUME RxInv, DMARxSuspend \/ MACDiscardRxResume
    PROVE RxInv' /\ RxQueue' = RxQueue /\ wasDiscarded' = wasDiscarded
  <1>1. UNCHANGED <<rx, rxGet, rxDMA, wasDiscarded, arrived, taken>>
    BY DEF DMARxSuspend, MACDiscardRxResume
  <1>2. RxPending' = RxPending  BY <1>1 DEF RxPending
  <1>3. RxQueue' = RxQueue  BY <1>1, <1>2, RxQueueIs, RxQueueIsPrime
  <1>4. CASE DMARxSuspend
    <2>1. rxDMA \in Slot(RxN)
      BY RingsAssumption, FilledEnds DEF RxInv
    <2>2. RxPending # {}  BY <1>4, <2>1 DEF DMARxSuspend, RxPending
    <2> QED  BY <1>1, <1>2, <1>3, <1>4, <2>2 DEF RxInv, FramesIn, DMARxSuspend
  <1>5. CASE MACDiscardRxResume
    <2>1. rbus' = FALSE /\ rbus' \in BOOLEAN /\ rxCall' \in {"idle", "resume"}
      BY <1>5 DEF MACDiscardRxResume
    <2>2. RxInv'
      BY <1>1, <1>2, <2>1 DEF RxInv, FramesIn
    <2> QED  BY <1>1, <1>3, <2>2
  <1> QED  BY <1>4, <1>5

\* A step of the transmit side leaves the receive side alone ...
LEMMA RxUnchanged ==
    ASSUME RxInv, UNCHANGED rxVars
    PROVE RxInv' /\ RxQueue' = RxQueue /\ wasDiscarded' = wasDiscarded
  <1>1. UNCHANGED <<rx, rxGet, rxDMA, rbus, wasDiscarded, rxCall, arrived, taken>>
    BY DEF rxVars
  <1>2. RxPending' = RxPending  BY <1>1 DEF RxPending
  <1>3. RxQueue' = RxQueue  BY <1>1, <1>2, RxQueueIs, RxQueueIsPrime
  <1> QED  BY <1>1, <1>2, <1>3 DEF RxInv, FramesIn

-----------------------------------------------------------------------------
(* Transmission.                                                           *)

\* The engine sends the first frame of the queue.
LEMMA TransmitKeeps ==
    ASSUME TxInv, DMATransmit
    PROVE /\ TxInv' /\ TxQueue # <<>> /\ sent' = Append(sent, Head(TxQueue))
          /\ TxQueue' = Tail(TxQueue)
  <1>1. /\ UNCHANGED <<txSet, tbus, txCall, written>> /\ tx[txDMA].own /\ ~tbus
        /\ tx' = [tx EXCEPT ![txDMA].own = FALSE]
        /\ sent' = Append(sent, tx[txDMA].frame) /\ txDMA' = NextDesc(txDMA, TxN)
    BY DEF DMATransmit
  <1>2. /\ TxN \in Nat \ {0} /\ Filled(TxPending, txDMA, txSet, TxN)
        /\ txDMA \in TxPending /\ txDMA \in Slot(TxN)
    BY <1>1, RingsAssumption DEF TxInv, Filled, TxPending
  <1>3. /\ tx' \in [Slot(TxN) -> TxDescriptors] /\ ~tx'[txDMA].own
        /\ \A i \in Slot(TxN) \ {txDMA} : tx'[i] = tx[i]
        /\ \A i \in Slot(TxN) : tx'[i].frame = tx[i].frame
    <2> DEFINE d == [tx[txDMA] EXCEPT !.own = FALSE]
    <2>1. tx[txDMA] \in TxDescriptors  BY <1>2 DEF TxInv
    <2>2. d \in TxDescriptors /\ ~d.own /\ d.frame = tx[txDMA].frame
      BY <2>1, Zenon DEF TxDescriptors
    <2>3. tx' = [tx EXCEPT ![txDMA] = d]  BY <1>1, <2>1, Zenon DEF TxInv, TxDescriptors
    <2> HIDE DEF d
    <2>4. /\ tx' \in [Slot(TxN) -> TxDescriptors] /\ tx'[txDMA] = d
          /\ \A i \in Slot(TxN) \ {txDMA} : tx'[i] = tx[i]
      BY <1>2, <2>2, <2>3, Zenon DEF TxInv
    <2>5. \A i \in Slot(TxN) : tx'[i].frame = tx[i].frame
      <3> SUFFICES ASSUME NEW i \in Slot(TxN) PROVE tx'[i].frame = tx[i].frame  OBVIOUS
      <3>1. CASE i = txDMA  BY <2>2, <2>4, <3>1, Zenon
      <3>2. CASE i # txDMA  BY <2>4, <3>2
      <3> QED  BY <3>1, <3>2
    <2> QED  BY <2>2, <2>4, <2>5
  <1>4. TxPending' = TxPending \ {txDMA}  BY <1>2, <1>3 DEF TxPending
  <1>5. /\ Filled(TxPending', txDMA', txSet', TxN)
        /\ Cardinality(TxPending') = Cardinality(TxPending) - 1
    BY <1>1, <1>2, <1>4, FilledShrinks
  <1>6. SameFrames(tx, tx', TxPending, 1 .. TxFrames)
    BY <1>3 DEF TxInv, SameFrames, TxPending
  <1>7. FramesIn(tx', TxPending', 1 .. TxFrames)
    BY <1>4, <1>6 DEF SameFrames, FramesIn
  <1>8. /\ TxQueue # <<>> /\ Head(TxQueue) = tx[txDMA].frame
        /\ TxQueue' = Tail(TxQueue)
    <2> DEFINE F == 1 .. TxFrames
               q == Read(tx, txDMA, Cardinality(TxPending), TxN)
    <2>1. SameFrames(tx, tx', TxPending, F)  BY <1>6
    <2> HIDE DEF F
    <2>2. /\ q # <<>> /\ Head(q) = tx[txDMA].frame
          /\ Read(tx', NextDesc(txDMA, TxN), Cardinality(TxPending) - 1, TxN) = Tail(q)
      BY <1>2, <2>1, ReadShrinks
    <2> QED  BY <1>1, <1>5, <2>2, TxQueueIs, TxQueueIsPrime
  <1>9. tx[txDMA].frame \in 1 .. TxFrames  BY <1>2 DEF TxInv, FramesIn
  <1>10. sent' \in Seq(1 .. TxFrames)  BY <1>1, <1>9, AppendProperties DEF TxInv
  <1>11. txSet \in Slot(TxN)  BY <1>2, FilledEnds
  <1>12. TxInv'  BY <1>1, <1>3, <1>5, <1>7, <1>10, <1>11 DEF TxInv
  <1> QED  BY <1>1, <1>8, <1>12

\* The engine suspends itself only when nothing waits: what waits begins at its
\* place. MACFlush() resumes it after the descriptor is its own.
LEMMA TxSleepKeeps ==
    ASSUME TxInv, DMATxSuspend \/ MACFlushResume
    PROVE TxInv' /\ TxQueue' = TxQueue /\ sent' = sent
  <1>1. UNCHANGED <<tx, txSet, txDMA, written, sent>>
    BY DEF DMATxSuspend, MACFlushResume
  <1>2. TxPending' = TxPending  BY <1>1 DEF TxPending
  <1>3. TxQueue' = TxQueue  BY <1>1, <1>2, TxQueueIs, TxQueueIsPrime
  <1>4. CASE DMATxSuspend
    <2>1. txDMA \notin TxPending  BY <1>4 DEF DMATxSuspend, TxPending
    <2>2. TxPending = {}  BY <2>1, RingsAssumption, FilledEnds DEF TxInv
    <2>3. tbus' \in BOOLEAN /\ txCall' = txCall  BY <1>4 DEF DMATxSuspend
    <2>4. TxInv'  BY <1>1, <1>2, <2>2, <2>3 DEF TxInv, FramesIn
    <2> QED  BY <1>1, <1>3, <2>4
  <1>5. CASE MACFlushResume
    <2>1. tbus' = FALSE /\ tbus' \in BOOLEAN /\ txCall' = "idle"
      BY <1>5 DEF MACFlushResume
    <2>2. TxInv'  BY <1>1, <1>2, <2>1 DEF TxInv, FramesIn
    <2> QED  BY <1>1, <1>3, <2>2
  <1> QED  BY <1>4, <1>5

\* A frame is built in a descriptor that does not wait, so that the queue does
\* not change.
LEMMA PutHeaderKeeps ==
    ASSUME TxInv, MACPutHeader
    PROVE TxInv' /\ TxQueue' = TxQueue /\ sent' = sent
  <1> DEFINE f == written + 1
  <1>1. /\ UNCHANGED <<txSet, txDMA, tbus, sent>> /\ ~tx[txSet].own
        /\ tx' = [tx EXCEPT ![txSet].frame = f] /\ written' = f
        /\ txCall' = "built" /\ txCall \in {"idle", "built"}
    BY DEF MACPutHeader, MACIsTxReady
  <1>2. f \in 1 .. TxFrames /\ f \in 0 .. TxFrames
    BY RingsAssumption, SMT DEF TxInv, MACPutHeader
  <1> HIDE DEF f
  <1>3. /\ TxN \in Nat \ {0} /\ Filled(TxPending, txDMA, txSet, TxN)
        /\ txSet \in Slot(TxN) /\ txDMA \in Slot(TxN) /\ txSet \notin TxPending
    <2>1. TxN \in Nat \ {0} /\ Filled(TxPending, txDMA, txSet, TxN)
      BY RingsAssumption DEF TxInv
    <2>2. txSet \in Slot(TxN) /\ txDMA \in Slot(TxN)  BY <2>1, FilledEnds DEF Filled
    <2>3. txSet \notin TxPending  BY <1>1 DEF TxPending
    <2> QED  BY <2>1, <2>2, <2>3
  <1>4. /\ tx' \in [Slot(TxN) -> TxDescriptors]
        /\ tx'[txSet].own = tx[txSet].own /\ tx'[txSet].frame = f
        /\ \A i \in Slot(TxN) \ {txSet} : tx'[i] = tx[i]
    <2> DEFINE d == [tx[txSet] EXCEPT !.frame = f]
    <2>1. tx[txSet] \in TxDescriptors  BY <1>3 DEF TxInv
    <2>2. d \in TxDescriptors /\ d.own = tx[txSet].own /\ d.frame = f
      BY <1>2, <2>1, Zenon DEF TxDescriptors
    <2>3. tx' = [tx EXCEPT ![txSet] = d]  BY <1>1, <2>1, Zenon DEF TxInv, TxDescriptors
    <2> HIDE DEF d
    <2>4. /\ tx' \in [Slot(TxN) -> TxDescriptors] /\ tx'[txSet] = d
          /\ \A i \in Slot(TxN) \ {txSet} : tx'[i] = tx[i]
      BY <1>3, <2>2, <2>3, Zenon DEF TxInv
    <2> QED  BY <2>2, <2>4
  <1>5. TxPending' = TxPending
    <2>1. \A i \in Slot(TxN) : tx'[i].own <=> tx[i].own
      <3> SUFFICES ASSUME NEW i \in Slot(TxN) PROVE tx'[i].own <=> tx[i].own  OBVIOUS
      <3>1. CASE i = txSet  BY <1>4, <3>1
      <3>2. CASE i # txSet  BY <1>4, <3>2
      <3> QED  BY <3>1, <3>2
    <2> QED  BY <2>1 DEF TxPending
  <1>6. \A i \in TxPending : tx'[i] = tx[i]  BY <1>3, <1>4 DEF TxPending
  <1>7. TxInv'
    <2>1. FramesIn(tx', TxPending', 1 .. TxFrames)
      BY <1>5, <1>6 DEF TxInv, FramesIn
    <2>2. tx'[txSet'].frame \in 1 .. TxFrames  BY <1>1, <1>2, <1>4
    <2>3. Filled(TxPending', txDMA', txSet', TxN)  BY <1>1, <1>3, <1>5
    <2>4. ~(tbus' /\ TxPending' # {})
      BY <1>1, <1>5 DEF TxInv
    <2> QED  BY <1>1, <1>2, <1>4, <2>1, <2>2, <2>3, <2>4, Zenon DEF TxInv
  <1>8. TxQueue' = TxQueue
    <2>1. \A k \in 1 .. Cardinality(TxPending) : (txDMA + k - 1) % TxN \in TxPending
      <3> SUFFICES ASSUME NEW k \in 1 .. Cardinality(TxPending)
                   PROVE (txDMA + k - 1) % TxN \in TxPending
        OBVIOUS
      <3> DEFINE j == k - 1
                 c == Cardinality(TxPending)
      <3>1. c \in 0 .. TxN /\ TxPending = Run(txDMA, c, TxN)  BY <1>3 DEF Filled
      <3>2. j \in 0 .. c - 1 /\ j \in 0 .. TxN  BY <1>3, <3>1, SMT
      <3>3. txDMA + k - 1 = txDMA + j  OBVIOUS
      <3> HIDE DEF j, c
      <3>4. (txDMA + j) % TxN = At(txDMA, j, TxN)  BY <1>3, <3>2, AtIn
      <3>5. At(txDMA, j, TxN) \in TxPending  BY <3>1, <3>2 DEF Run
      <3> QED  BY <3>3, <3>4, <3>5
    <2>2. \A k \in 1 .. Cardinality(TxPending) :
            tx'[(txDMA + k - 1) % TxN].frame = tx[(txDMA + k - 1) % TxN].frame
      BY <1>6, <2>1
    <2> QED  BY <1>1, <1>5, <2>2, Zenon DEF TxQueue
  <1> QED  BY <1>1, <1>7, <1>8

\* MACFlush() appends the frame that was built, unless the descriptor is the
\* engine's: then nothing is sent.
LEMMA FlushKeeps ==
    ASSUME TxInv, MACFlush
    PROVE /\ TxInv' /\ sent' = sent
          /\ \/ TxQueue' = TxQueue
             \/ /\ Len(TxQueue) < TxN
                /\ \E f \in 1 .. TxFrames : TxQueue' = Append(TxQueue, f)
  <1>1. UNCHANGED <<txDMA, tbus, written, sent>> /\ txCall = "built"
    BY DEF MACFlush
  <1>2. /\ TxN \in Nat \ {0} /\ Filled(TxPending, txDMA, txSet, TxN) /\ txSet \in Slot(TxN)
    BY RingsAssumption, FilledEnds DEF TxInv
  <1>3. CASE tx[txSet].own
    <2>1. txCall' = "idle" /\ UNCHANGED <<tx, txSet>>  BY <1>3 DEF MACFlush
    <2>2. TxPending' = TxPending  BY <2>1 DEF TxPending
    <2>3. TxQueue' = TxQueue  BY <1>1, <2>1, <2>2, TxQueueIs, TxQueueIsPrime
    <2>4. TxInv'  BY <1>1, <2>1, <2>2 DEF TxInv, FramesIn
    <2> QED  BY <1>1, <2>3, <2>4
  <1>4. CASE ~tx[txSet].own
    <2>1. /\ tx' = [tx EXCEPT ![txSet].own = TRUE]
          /\ txSet' = NextDesc(txSet, TxN) /\ txCall' = "resume"
      BY <1>4 DEF MACFlush
    <2>2. /\ tx' \in [Slot(TxN) -> TxDescriptors]
          /\ tx'[txSet].own /\ tx'[txSet].frame = tx[txSet].frame
          /\ \A i \in Slot(TxN) \ {txSet} : tx'[i] = tx[i]
      <3> DEFINE d == [tx[txSet] EXCEPT !.own = TRUE]
      <3>1. tx[txSet] \in TxDescriptors  BY <1>2 DEF TxInv
      <3>2. d \in TxDescriptors /\ d.own /\ d.frame = tx[txSet].frame
        BY <3>1, Zenon DEF TxDescriptors
      <3>3. tx' = [tx EXCEPT ![txSet] = d]  BY <2>1, <3>1, Zenon DEF TxInv, TxDescriptors
      <3> HIDE DEF d
      <3>4. /\ tx' \in [Slot(TxN) -> TxDescriptors] /\ tx'[txSet] = d
            /\ \A i \in Slot(TxN) \ {txSet} : tx'[i] = tx[i]
        BY <1>2, <3>2, <3>3, Zenon DEF TxInv
      <3> QED  BY <3>2, <3>4
    <2>3. txSet \notin TxPending  BY <1>4 DEF TxPending
    <2>4. TxPending' = TxPending \cup {txSet}  BY <1>2, <2>2 DEF TxPending
    <2>5. /\ Filled(TxPending', txDMA', txSet', TxN)
          /\ Cardinality(TxPending') = Cardinality(TxPending) + 1
          /\ Cardinality(TxPending) \in 0 .. TxN - 1
      BY <1>1, <1>2, <2>1, <2>3, <2>4, FilledGrows
    <2>6. tx'[txSet].frame \in 1 .. TxFrames  BY <1>1, <2>2 DEF TxInv
    <2>7. SameFrames(tx, tx', TxPending, 1 .. TxFrames)
      BY <2>2, <2>3 DEF TxInv, SameFrames, TxPending
    <2>8. FramesIn(tx', TxPending', 1 .. TxFrames)
      BY <2>4, <2>6, <2>7 DEF SameFrames, FramesIn
    <2>9. TxInv'  BY <1>1, <2>1, <2>2, <2>5, <2>8 DEF TxInv
    <2>10. TxQueue' = Append(TxQueue, tx'[txSet].frame)
      <3> DEFINE F == 1 .. TxFrames
      <3>1. SameFrames(tx, tx', TxPending, F) /\ tx'[txSet].frame \in F  BY <2>6, <2>7
      <3> HIDE DEF F
      <3>2. Read(tx', txDMA, Cardinality(TxPending) + 1, TxN)
              = Append(Read(tx, txDMA, Cardinality(TxPending), TxN), tx'[txSet].frame)
        BY <1>2, <2>3, <3>1, ReadGrows
      <3> QED  BY <1>1, <2>5, <3>2, TxQueueIs, TxQueueIsPrime
    <2>11. Len(TxQueue) < TxN  BY <1>2, <2>5, TxQueueIn, SMT
    <2> QED  BY <1>1, <2>6, <2>9, <2>10, <2>11
  <1> QED  BY <1>3, <1>4

\* ... and the other way around.
LEMMA TxUnchanged ==
    ASSUME TxInv, UNCHANGED txVars
    PROVE TxInv' /\ TxQueue' = TxQueue /\ sent' = sent
  <1>1. UNCHANGED <<tx, txSet, txDMA, tbus, txCall, written, sent>>
    BY DEF txVars
  <1>2. TxPending' = TxPending  BY <1>1 DEF TxPending
  <1>3. TxQueue' = TxQueue  BY <1>1, <1>2, TxQueueIs, TxQueueIsPrime
  <1> QED  BY <1>1, <1>2, <1>3 DEF TxInv, FramesIn

-----------------------------------------------------------------------------
(* The two sides together.                                                 *)

\* The rings as the driver sets them up satisfy the invariant.
LEMMA RingsInvInit == MACInit => RingsInv
  <1> SUFFICES ASSUME MACInit PROVE RingsInv  OBVIOUS
  <1>1. /\ RxN \in Nat \ {0} /\ TxN \in Nat \ {0} /\ RxFrames \in Nat /\ TxFrames \in Nat
    BY RingsAssumption
  <1>2. 0 \in Slot(RxN) /\ 0 \in Slot(TxN) /\ 0 \in 0 .. RxFrames /\ 0 \in 0 .. TxFrames
    BY <1>1, SMT DEF Slot
  <1>3. RxPending = {} /\ TxPending = {}
    BY DEF MACInit, RxPending, TxPending
  <1>4. rx \in [Slot(RxN) -> RxDescriptors] /\ tx \in [Slot(TxN) -> TxDescriptors]
    <2>1. [own |-> TRUE, frame |-> NoFrame, es |-> FALSE] \in RxDescriptors
      BY <1>2, Zenon DEF RxDescriptors, NoFrame
    <2>2. [own |-> FALSE, frame |-> NoFrame] \in TxDescriptors
      BY <1>2, Zenon DEF TxDescriptors, NoFrame
    <2> QED  BY <2>1, <2>2, Zenon DEF MACInit
  <1>5. Filled(RxPending, rxGet, rxDMA, RxN) /\ Filled(TxPending, txDMA, txSet, TxN)
    BY <1>1, <1>2, <1>3, FilledNone DEF MACInit
  <1>6. taken \in Seq(1 .. RxFrames) /\ sent \in Seq(1 .. TxFrames)
    BY EmptySeq DEF MACInit
  <1>7. RxInv  BY <1>2, <1>3, <1>4, <1>5, <1>6 DEF MACInit, RxInv, FramesIn
  <1>8. TxInv  BY <1>2, <1>3, <1>4, <1>5, <1>6 DEF MACInit, TxInv, FramesIn
  <1> QED  BY <1>7, <1>8 DEF MACInit, RingsInv

\* A step of the rings is a step of the two queues, or none.
QueueStep ==
  \/ Queues!Next
  \/ UNCHANGED <<RxQueue, wasDiscarded, TxQueue, sent>>

\* Every step keeps it, and is a step of the queues or none of theirs.
LEMMA RingsStep ==
    ASSUME RingsInv, [RingsNext]_ringVars PROVE RingsInv' /\ QueueStep
  <1>0. RxInv /\ TxInv /\ linkUp \in BOOLEAN  BY DEF RingsInv
  <1>1. RxFrames \in Nat /\ TxFrames \in Nat  BY RingsAssumption
  <1>2. /\ \A f \in 1 .. RxFrames : f \in 1 .. (RxFrames + TxFrames)
        /\ \A f \in 1 .. TxFrames : f \in 1 .. (RxFrames + TxFrames)
    BY <1>1, SMT
  <1>3. UNCHANGED txVars => TxInv' /\ TxQueue' = TxQueue /\ sent' = sent
    BY <1>0, TxUnchanged
  <1>4. UNCHANGED rxVars => RxInv' /\ RxQueue' = RxQueue /\ wasDiscarded' = wasDiscarded
    BY <1>0, RxUnchanged
  <1>5. CASE DMAReceive
    <2>1. /\ RxInv'
          /\ \/ RxQueue' = RxQueue
             \/ /\ Len(RxQueue) < RxN
                /\ \E f \in 1 .. RxFrames : RxQueue' = Append(RxQueue, f)
      BY <1>0, <1>5, ReceiveKeeps
    <2>2. UNCHANGED <<txVars, linkUp, wasDiscarded>>  BY <1>5 DEF DMAReceive
    <2>3. RingsInv'  BY <1>0, <1>3, <2>1, <2>2 DEF RingsInv
    <2>4. QueueStep
      BY <1>2, <1>3, <2>1, <2>2 DEF QueueStep, Queues!Next, Queues!Arrive
    <2> QED  BY <2>3, <2>4
  <1>6. CASE DMARxSuspend \/ MACDiscardRxResume
    <2>1. RxInv' /\ RxQueue' = RxQueue /\ wasDiscarded' = wasDiscarded
      BY <1>0, <1>6, RxSleepKeeps
    <2>2. UNCHANGED <<txVars, linkUp>>  BY <1>6 DEF DMARxSuspend, MACDiscardRxResume
    <2> QED  BY <1>0, <1>3, <2>1, <2>2 DEF RingsInv, QueueStep
  <1>7. CASE DMATransmit
    <2>1. /\ TxInv' /\ TxQueue # <<>> /\ sent' = Append(sent, Head(TxQueue))
          /\ TxQueue' = Tail(TxQueue)
      BY <1>0, <1>7, TransmitKeeps
    <2>2. UNCHANGED <<rxVars, linkUp>>  BY <1>7 DEF DMATransmit
    <2>3. RingsInv'  BY <1>0, <1>4, <2>1, <2>2 DEF RingsInv
    <2>4. QueueStep
      BY <1>4, <2>1, <2>2 DEF QueueStep, Queues!Next, Queues!Transmit
    <2> QED  BY <2>3, <2>4
  <1>8. CASE DMATxSuspend \/ MACFlushResume
    <2>1. TxInv' /\ TxQueue' = TxQueue /\ sent' = sent
      BY <1>0, <1>8, TxSleepKeeps
    <2>2. UNCHANGED <<rxVars, linkUp>>  BY <1>8 DEF DMATxSuspend, MACFlushResume
    <2> QED  BY <1>0, <1>4, <2>1, <2>2 DEF RingsInv, QueueStep
  <1>9. CASE LinkChanges
    <2>1. UNCHANGED <<rxVars, txVars>> /\ linkUp' \in BOOLEAN  BY <1>9 DEF LinkChanges
    <2> QED  BY <1>3, <1>4, <2>1 DEF RingsInv, QueueStep
  <1>10. ASSUME GiveBack, ~wasDiscarded, UNCHANGED <<rxDMA, rbus, arrived, taken>>,
                UNCHANGED <<txVars, linkUp>>
         PROVE RingsInv' /\ QueueStep
    <2>1. RxInv' /\ wasDiscarded' /\ RxQueue' = Tail(RxQueue)
      BY <1>0, <1>10, ReleaseKeeps
    <2>2. RingsInv'  BY <1>0, <1>3, <1>10, <2>1 DEF RingsInv
    <2>3. QueueStep
      BY <1>3, <1>10, <2>1 DEF QueueStep, Queues!Next, Queues!Release
    <2> QED  BY <2>2, <2>3
  <1>11. CASE MACDiscardRx  BY <1>10, <1>11 DEF MACDiscardRx
  <1>12. CASE MACGetHeader
    <2>1. ~rx[rxGet].own /\ UNCHANGED <<rxDMA, rbus, arrived, txVars, linkUp>>
      BY <1>12 DEF MACGetHeader
    <2>2. CASE ~wasDiscarded /\ GiveBack /\ UNCHANGED taken
      BY <1>10, <2>1, <2>2
    <2>3. CASE UNCHANGED <<rx, rxGet, wasDiscarded, rxCall, taken>>
      <3>1. UNCHANGED rxVars  BY <2>1, <2>3 DEF rxVars
      <3> QED  BY <1>0, <1>3, <1>4, <2>1, <3>1 DEF RingsInv, QueueStep
    <2>4. CASE /\ wasDiscarded /\ wasDiscarded' = FALSE
               /\ taken' = Append(taken, rx[rxGet].frame)
               /\ UNCHANGED <<rx, rxGet, rxCall>>
      <3>1. RxInv' /\ RxQueue' = RxQueue /\ RxQueue # <<>>
        BY <1>0, <2>1, <2>4, TakeKeeps
      <3>2. RingsInv'  BY <1>0, <1>3, <2>1, <3>1 DEF RingsInv
      <3>3. QueueStep
        BY <1>3, <2>1, <2>4, <3>1 DEF QueueStep, Queues!Next, Queues!Take
      <3> QED  BY <3>2, <3>3
    <2> QED  BY <1>12, <2>2, <2>3, <2>4 DEF MACGetHeader
  <1>13. CASE MACPutHeader
    <2>1. TxInv' /\ TxQueue' = TxQueue /\ sent' = sent
      BY <1>0, <1>13, PutHeaderKeeps
    <2>2. UNCHANGED <<rxVars, linkUp>>  BY <1>13 DEF MACPutHeader
    <2> QED  BY <1>0, <1>4, <2>1, <2>2 DEF RingsInv, QueueStep
  <1>14. CASE MACFlush
    <2>1. /\ TxInv' /\ sent' = sent
          /\ \/ TxQueue' = TxQueue
             \/ /\ Len(TxQueue) < TxN
                /\ \E f \in 1 .. TxFrames : TxQueue' = Append(TxQueue, f)
      BY <1>0, <1>14, FlushKeeps
    <2>2. UNCHANGED <<rxVars, linkUp>>  BY <1>14 DEF MACFlush
    <2>3. RingsInv'  BY <1>0, <1>4, <2>1, <2>2 DEF RingsInv
    <2>4. QueueStep
      BY <1>2, <1>4, <2>1, <2>2 DEF QueueStep, Queues!Next, Queues!Submit
    <2> QED  BY <2>3, <2>4
  <1>15. CASE UNCHANGED ringVars
    <2>1. UNCHANGED <<rxVars, txVars, linkUp>>  BY <1>15 DEF ringVars, rxVars, txVars
    <2> QED  BY <1>0, <1>3, <1>4, <2>1 DEF RingsInv, QueueStep
  <1> QED
    BY <1>5, <1>6, <1>7, <1>8, <1>9, <1>11, <1>12, <1>13, <1>14, <1>15 DEF RingsNext

\* The invariant of both rings, whoever runs between whose steps.
THEOREM RingsInvariance == RingsSpec => []RingsInv
  BY RingsInvInit, RingsStep, PTL DEF RingsSpec

LEMMA RingsInvTypes == RingsInv => RingsTypeOK
  <1> SUFFICES ASSUME RingsInv PROVE RingsTypeOK  OBVIOUS
  <1>1. rxGet \in Slot(RxN) /\ rxDMA \in Slot(RxN)
    BY RingsAssumption, FilledEnds DEF RingsInv, RxInv, Filled
  <1>2. txSet \in Slot(TxN) /\ txDMA \in Slot(TxN)
    BY RingsAssumption, FilledEnds DEF RingsInv, TxInv, Filled
  <1> QED
    BY <1>1, <1>2, Zenon
       DEF RingsInv, RxInv, TxInv, RingsTypeOK, RxDescriptors, TxDescriptors

\* The descriptors, the places of both sides and the calls under way keep their
\* types, for rings of any length.
THEOREM RingsTypeCorrect == RingsSpec => []RingsTypeOK
  BY RingsInvTypes, RingsInvariance, PTL

\* MACFlush() and MACDiscardRx() lose no wakeup, although the engine runs between
\* the OWN bit and the status register: whatever the engine does between the two
\* accesses, it is not left asleep on a descriptor that is its own.
THEOREM NoLostWakeup == RingsSpec => []EngineNeverSleepsOnWork
  <1>1. RingsInv => EngineNeverSleepsOnWork
    BY DEF RingsInv, RxInv, TxInv, EngineNeverSleepsOnWork
  <1> QED  BY <1>1, RingsInvariance, PTL

\* The driver implements the queues of FrameQueues: frames are handed over and
\* sent in the order in which they came, and none is lost, repeated or overwritten
\* once it is in a ring, for rings of any length.
THEOREM RingsImplementQueues == RingsSpec => RingsAreQueues
  <1>1. MACInit => Queues!Init
    <2> SUFFICES ASSUME MACInit PROVE Queues!Init  OBVIOUS
    <2>1. RxInv /\ TxInv  BY RingsInvInit DEF RingsInv
    <2>2. RxPending = {} /\ TxPending = {}
      BY DEF MACInit, RxPending, TxPending
    <2>3. Len(RxQueue) = 0 /\ Len(TxQueue) = 0
      BY <2>1, <2>2, RxQueueIn, TxQueueIn, FS_EmptySet
    <2>4. RxQueue = <<>> /\ TxQueue = <<>>
      BY <2>1, <2>3, RxQueueIn, TxQueueIn, EmptySeq
    <2> QED  BY <2>4 DEF MACInit, Queues!Init
  <1>2. RingsInv /\ [RingsNext]_ringVars => [Queues!Next]_Queues!queueVars
    BY RingsStep DEF QueueStep, Queues!queueVars
  <1> QED
    BY <1>1, <1>2, RingsInvariance, PTL DEF RingsSpec, RingsAreQueues, Queues!Spec
=============================================================================
