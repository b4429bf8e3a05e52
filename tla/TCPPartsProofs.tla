--------------------------- MODULE TCPPartsProofs ---------------------------
(***************************************************************************)
(* Proofs about the two parts of TCP.c that MCTCPParts runs side by side:  *)
(* the accept queue, for any number of sockets, slots, ports and remote    *)
(* nodes, and the receive FIFO, for a block of memory of any size.         *)
(*                                                                         *)
(* TCPTick() goes through the sockets and then through the queue, so both  *)
(* loops are recursive functions.  Their properties are proved by          *)
(* induction: a set of numbers that is not empty has a least element.      *)
(***************************************************************************)
EXTENDS MCTCPParts, FiniteSetTheorems, SequenceTheorems, WellFoundedInduction, TLAPS

-----------------------------------------------------------------------------
(* Induction.                                                              *)

Below == {ss \in Nat \X Nat : ss[1] < ss[2]}

\* A set of numbers that is not empty has a least element.
LEMMA LeastNumber ==
    ASSUME NEW S, S \subseteq Nat, S # {}
    PROVE \E x \in S : \A y \in S : x =< y
  <1>1. IsWellFoundedOn(Below, Nat)
    BY NatLessThanWellFounded DEF OpToRel, Below
  <1>2. \E x \in S : \A y \in S : ~ (<<y, x>> \in Below)  BY <1>1, WFMin
  <1>3. \A x \in S, y \in S : ~ (<<y, x>> \in Below) => x =< y  BY DEF Below
  <1> QED  BY <1>2, <1>3

\* Induction from 0 to n, over the set of the numbers for which a claim holds.
LEMMA Induction ==
    ASSUME NEW n \in Nat, NEW K, 0 \in K, \A k \in 1..n : k - 1 \in K => k \in K
    PROVE \A k \in 0..n : k \in K
  <1> DEFINE Rest == {k \in 0..n : k \notin K}
  <1> SUFFICES ASSUME Rest # {} PROVE FALSE  OBVIOUS
  <1>1. Rest \subseteq Nat  OBVIOUS
  <1>2. PICK k \in Rest : \A j \in Rest : k =< j  BY <1>1, LeastNumber
  <1>3. k # 0 /\ k \in 1..n /\ k - 1 \in 0..n  BY <1>2
  <1>4. k - 1 \notin Rest  BY <1>2, <1>3
  <1> QED  BY <1>2, <1>3, <1>4

\* f[k] is what k of the n passes make of a.
IsLoop(f, n, S, a, step) ==
    f \in [0..n -> S] /\ f[0] = a /\ \A k \in 1..n : f[k] = step[k][f[k - 1]]

\* A loop of n passes over states in S computes a function.
LEMMA LoopExists ==
    ASSUME NEW n \in Nat, NEW S, NEW a \in S, NEW step \in [1..n -> [S -> S]]
    PROVE \E f : IsLoop(f, n, S, a, step)
  <1> DEFINE Runs(f, m) == f[0] = a /\ \A k \in 1..m : f[k] = step[k][f[k - 1]]
             K == {m \in 0..n : \E f \in [0..m -> S] : Runs(f, m)}
  <1>1. 0 \in K
    <2>1. [i \in 0..0 |-> a] \in [0..0 -> S] /\ Runs([i \in 0..0 |-> a], 0)  OBVIOUS
    <2> HIDE DEF Runs
    <2>2. \E f \in [0..0 -> S] : Runs(f, 0)  BY <2>1
    <2>3. 0 \in 0..n  OBVIOUS
    <2> QED  BY <2>2, <2>3
  <1>2. ASSUME NEW m \in 1..n, m - 1 \in K PROVE m \in K
    <2>1. PICK f \in [0..(m - 1) -> S] : Runs(f, m - 1)  BY <1>2
    <2> DEFINE g == [i \in 0..m |-> IF i = m THEN step[m][f[m - 1]] ELSE f[i]]
    <2>2. \A i \in 0..m : i = m \/ i \in 0..(m - 1)  OBVIOUS
    <2>3. f[m - 1] \in S /\ step[m] \in [S -> S]  BY <2>1
    <2>4. step[m][f[m - 1]] \in S  BY <2>3
    <2>5. g \in [0..m -> S]  BY <2>1, <2>2, <2>4
    <2>6. Runs(g, m)
      <3>1. g[0] = a  BY <2>1
      <3>2. ASSUME NEW k \in 1..m PROVE g[k] = step[k][g[k - 1]]
        <4>1. CASE k = m  BY <4>1, <2>1
        <4>2. CASE k # m
          <5>1. k \in 1..(m - 1) /\ k \in 0..m /\ k - 1 \in 0..m /\ k - 1 # m
            BY <4>2
          <5> QED  BY <2>1, <4>2, <5>1
        <4> QED  BY <4>1, <4>2
      <3> QED  BY <3>1, <3>2
    <2> HIDE DEF g, Runs
    <2>7. \E h \in [0..m -> S] : Runs(h, m)  BY <2>5, <2>6
    <2>8. m \in 0..n  OBVIOUS
    <2> QED  BY <2>7, <2>8
  <1>3. n \in K
    <2> HIDE DEF K
    <2>1. \A m \in 1..n : m - 1 \in K => m \in K  BY <1>2
    <2>2. \A m \in 0..n : m \in K  BY <1>1, <2>1, Induction
    <2> QED  BY <2>2
  <1> QED  BY <1>3 DEF IsLoop

-----------------------------------------------------------------------------
(* Least and greatest elements.                                            *)

LEMMA MinIn ==
    ASSUME NEW S, S \subseteq Nat, S # {}
    PROVE Min(S) \in S /\ \A y \in S : Min(S) =< y
  <1>1. \E x \in S : \A y \in S : x =< y  BY LeastNumber
  <1> QED  BY <1>1 DEF Min

LEMMA MaxIn ==
    ASSUME NEW n \in Nat, NEW S, S \subseteq 0..n, S # {}
    PROVE Max(S) \in S
  <1> DEFINE Bounds == {b \in 0..n : \A y \in S : y =< b}
  <1>1. n \in Bounds  OBVIOUS
  <1>2. Bounds \subseteq Nat /\ Bounds # {}  BY <1>1
  <1>3. PICK m \in Bounds : \A b \in Bounds : m =< b  BY <1>2, LeastNumber
  <1>4. m \in S
    <2> SUFFICES ASSUME m \notin S PROVE FALSE  OBVIOUS
    <2>1. PICK z \in S : TRUE  OBVIOUS
    <2>2. m \in 0..n /\ z \in 0..n /\ z =< m /\ z # m  BY <1>3, <2>1
    <2>3. m - 1 \in 0..n  BY <2>2
    <2>4. \A y \in S : y =< m - 1  BY <1>3, <2>2
    <2>5. m - 1 \in Bounds  BY <2>3, <2>4
    <2> QED  BY <1>3, <2>2, <2>5
  <1>5. \E x \in S : \A y \in S : x >= y  BY <1>3, <1>4
  <1> QED  BY <1>5 DEF Max

-----------------------------------------------------------------------------
(* The SYN queue: what a slot and a queue are, which slots hold a request, *)
(* and what it means that a queue has no gap and holds a request once.     *)

SlotType == [source : Remotes \cup {NoRemote}, wDestPort : Ports \cup {0},
             wTimestamp : 0..(WORD - 1), age : 0..(Timeout + 1)]

Queues == [1..QueueLen -> SlotType]

Held(q) == {w \in 1..QueueLen : q[w].wDestPort # 0}

SameRequest(d, e) == d.source = e.source /\ d.wDestPort = e.wDestPort

NoGap(q) == \A v, w \in 1..QueueLen : v < w /\ q[w].wDestPort # 0 => q[v].wDestPort # 0
Distinct(q) == \A v, w \in Held(q) : SameRequest(q[v], q[w]) => v = w

\* Nothing is in p that is not in q.
Within(p, q) == \A v \in Held(p) : \E u \in Held(q) : p[v] = q[u]

\* Where slot i of a queue from which slot w was deleted comes from.
Compacted(q, w) == [i \in 1..QueueLen |-> IF i < w THEN q[i]
                                       ELSE IF i < QueueLen THEN q[i + 1] ELSE FreeSlot]

LEMMA FreeSlotType == FreeSlot \in SlotType
  <1>1. 0 \in 0..(WORD - 1) /\ 0 \in 0..(Timeout + 1)  BY AcceptAssumption
  <1> QED  BY <1>1 DEF FreeSlot, SlotType

\* Deleting slot w moves the slots behind it up and frees the last one.
LEMMA DeleteIs ==
    ASSUME NEW q \in Queues, NEW w \in 1..QueueLen
    PROVE Delete(q, w) = Compacted(q, w) /\ Delete(q, w) \in Queues
  <1> DEFINE n == QueueLen
             a == SubSeq(q, 1, w - 1)
             b == SubSeq(q, w + 1, Len(q))
             r == RemoveAt(q, w)
             d == Delete(q, w)
             m == Compacted(q, w)
  <1>0. n \in Nat /\ w \in Nat /\ 1 =< w /\ w =< n  BY AcceptAssumption
  <1>1. Len(q) = n
    <2>1. q \in [1..n -> SlotType]  BY DEF Queues
    <2>2. q \in Seq(SlotType)  BY <1>0, <2>1
    <2> QED  BY <1>0, <2>1, <2>2, LenProperties
  <1>2. \A i \in 1..n : q[i] \in SlotType  BY DEF Queues
  <1>3. /\ a \in Seq(SlotType) /\ Len(a) = w - 1
        /\ \A i \in 1..(w - 1) : a[i] = q[i]
    <2>1. \A i \in 1..(w - 1) : q[i] \in SlotType  BY <1>0, <1>2
    <2>2. /\ a \in Seq(SlotType)
          /\ Len(a) = IF 1 =< w - 1 THEN (w - 1) - 1 + 1 ELSE 0
          /\ \A i \in 1..((w - 1) - 1 + 1) : a[i] = q[1 + i - 1]
      BY <1>0, <2>1, SubSeqProperties
    <2> HIDE DEF a
    <2>3. Len(a) = w - 1  BY <1>0, <2>2
    <2>4. (w - 1) - 1 + 1 = w - 1 /\ \A i \in 1..(w - 1) : 1 + i - 1 = i  BY <1>0
    <2> QED  BY <2>2, <2>3, <2>4
  <1>4. /\ b \in Seq(SlotType) /\ Len(b) = n - w
        /\ \A i \in 1..(n - w) : b[i] = q[w + i]
    <2>1. \A i \in (w + 1)..n : q[i] \in SlotType  BY <1>0, <1>2
    <2>2. /\ b \in Seq(SlotType)
          /\ Len(b) = IF w + 1 =< n THEN n - (w + 1) + 1 ELSE 0
          /\ \A i \in 1..(n - (w + 1) + 1) : b[i] = q[(w + 1) + i - 1]
      BY <1>0, <1>1, <2>1, SubSeqProperties
    <2> HIDE DEF b
    <2>3. Len(b) = n - w  BY <1>0, <2>2
    <2>4. n - (w + 1) + 1 = n - w /\ \A i \in 1..(n - w) : (w + 1) + i - 1 = w + i  BY <1>0
    <2> QED  BY <2>2, <2>3, <2>4
  <1>5. r = a \o b  BY DEF RemoveAt
  <1> HIDE DEF a, b, n, r
  <1>6. /\ r \in Seq(SlotType) /\ Len(r) = n - 1
        /\ \A i \in 1..(n - 1) : r[i] = IF i < w THEN q[i] ELSE q[i + 1]
    <2>1. /\ r \in Seq(SlotType) /\ Len(r) = Len(a) + Len(b)
          /\ \A i \in 1..(Len(a) + Len(b)) : r[i] = IF i =< Len(a) THEN a[i] ELSE b[i - Len(a)]
      BY <1>3, <1>4, <1>5, ConcatProperties
    <2>2. Len(a) + Len(b) = n - 1  BY <1>0, <1>3, <1>4
    <2>3. ASSUME NEW i \in 1..(n - 1) PROVE r[i] = IF i < w THEN q[i] ELSE q[i + 1]
      <3>1. CASE i < w
        <4>1. i =< w - 1 /\ i \in 1..(w - 1)  BY <1>0, <3>1
        <4> QED  BY <1>3, <2>1, <2>2, <3>1, <4>1
      <3>2. CASE ~ (i < w)
        <4>1. ~ (i =< w - 1) /\ i - (w - 1) \in 1..(n - w) /\ w + (i - (w - 1)) = i + 1
          BY <1>0, <3>2
        <4>2. r[i] = b[i - (w - 1)]  BY <1>3, <2>1, <2>2, <4>1
        <4> QED  BY <1>4, <3>2, <4>1, <4>2
      <3> QED  BY <3>1, <3>2
    <2> QED  BY <2>1, <2>2, <2>3
  <1>7. d = Append(r, FreeSlot)  BY DEF Delete, r
  <1> HIDE DEF d
  <1>8. /\ d \in Seq(SlotType) /\ Len(d) = n
        /\ \A i \in 1..(n - 1) : d[i] = r[i]
        /\ d[n] = FreeSlot
    <2>1. /\ d \in Seq(SlotType) /\ Len(d) = Len(r) + 1
          /\ \A i \in 1..Len(r) : d[i] = r[i]
          /\ d[Len(r) + 1] = FreeSlot
      BY <1>6, <1>7, FreeSlotType, AppendProperties
    <2>2. Len(r) + 1 = n  BY <1>0, <1>6
    <2> QED  BY <1>6, <2>1, <2>2
  <1>9. d \in [1..n -> SlotType]  BY <1>8, LenProperties
  <1>10. ASSUME NEW i \in 1..n PROVE d[i] = m[i]
    <2>1. CASE i = n
      <3>1. ~ (i < w) /\ ~ (i < n)  BY <1>0, <2>1
      <3>2. m[i] = FreeSlot  BY <3>1 DEF Compacted, n
      <3> QED  BY <1>8, <2>1, <3>2
    <2>2. CASE i # n
      <3>1. i \in 1..(n - 1) /\ i < n  BY <1>0, <2>2
      <3>2. m[i] = IF i < w THEN q[i] ELSE q[i + 1]  BY <3>1 DEF Compacted, n
      <3> QED  BY <1>6, <1>8, <3>1, <3>2
    <2> QED  BY <2>1, <2>2
  <1>11. m = [i \in 1..n |-> m[i]]  BY DEF Compacted, n
  <1>12. d = [i \in 1..n |-> d[i]]  BY <1>9
  <1> HIDE DEF m
  <1>13. d = m  BY <1>10, <1>11, <1>12
  <1> QED  BY <1>9, <1>13 DEF d, m, n, Queues

\* Deleting a request loses no other one, brings in none and leaves no gap.
LEMMA DeleteKeeps ==
    ASSUME NEW q \in Queues, NoGap(q), Distinct(q), NEW w \in Held(q)
    PROVE /\ Delete(q, w) \in Queues
          /\ NoGap(Delete(q, w)) /\ Distinct(Delete(q, w))
          /\ Within(Delete(q, w), q)
          /\ \A u \in Held(q) \ {w} : \E v \in Held(Delete(q, w)) : Delete(q, w)[v] = q[u]
  <1> DEFINE d == Delete(q, w)
             From(i) == IF i < w THEN i ELSE i + 1
  <1>0. QueueLen \in Nat /\ w \in 1..QueueLen  BY AcceptAssumption DEF Held
  <1>1. d = Compacted(q, w) /\ d \in Queues  BY <1>0, DeleteIs
  <1> HIDE DEF d
  <1>2. ASSUME NEW i \in Held(d) PROVE From(i) \in Held(q) /\ d[i] = q[From(i)]
    <2>1. i \in 1..QueueLen /\ d[i].wDestPort # 0  BY DEF Held
    <2>2. d[i] = IF i < w THEN q[i] ELSE IF i < QueueLen THEN q[i + 1] ELSE FreeSlot
      BY <1>1, <2>1 DEF Compacted
    <2>3. FreeSlot.wDestPort = 0  BY DEF FreeSlot
    <2>4. i < w \/ i < QueueLen  BY <2>1, <2>2, <2>3
    <2>5. d[i] = q[From(i)]  BY <2>2, <2>4
    <2>6. From(i) \in 1..QueueLen  BY <1>0, <2>1, <2>4
    <2> QED  BY <2>1, <2>5, <2>6 DEF Held
  <1>3. ASSUME NEW u \in Held(q) \ {w}
        PROVE \E v \in Held(d) : d[v] = q[u]
    <2> DEFINE v == IF u < w THEN u ELSE u - 1
    <2>1. u \in 1..QueueLen /\ u # w /\ q[u].wDestPort # 0  BY DEF Held
    <2>2. v \in 1..QueueLen  BY <1>0, <2>1
    <2>3. d[v] = IF v < w THEN q[v] ELSE IF v < QueueLen THEN q[v + 1] ELSE FreeSlot
      BY <1>1, <2>2 DEF Compacted
    <2>4. d[v] = q[u]
      <3>1. CASE u < w  BY <2>3, <3>1
      <3>2. CASE ~ (u < w)
        <4>1. ~ (v < w) /\ v < QueueLen /\ v + 1 = u  BY <1>0, <2>1, <3>2
        <4> QED  BY <2>3, <4>1
      <3> QED  BY <3>1, <3>2
    <2> HIDE DEF v
    <2>5. v \in Held(d)  BY <2>1, <2>2, <2>4 DEF Held
    <2> QED  BY <2>4, <2>5
  <1>4. NoGap(d)
    <2> SUFFICES ASSUME NEW i \in 1..QueueLen, NEW j \in 1..QueueLen, i < j, d[j].wDestPort # 0
                 PROVE d[i].wDestPort # 0
      BY DEF NoGap
    <2>1. From(j) \in Held(q)  BY <1>2 DEF Held
    <2>2. From(j) \in 1..QueueLen /\ q[From(j)].wDestPort # 0  BY <2>1 DEF Held
    <2>3. d[i] = IF i < w THEN q[i] ELSE IF i < QueueLen THEN q[i + 1] ELSE FreeSlot
      BY <1>1 DEF Compacted
    <2>4. i < QueueLen  BY <1>0
    <2>5. d[i] = q[From(i)]  BY <2>3, <2>4
    <2>6. From(i) \in 1..QueueLen /\ From(i) < From(j)  BY <1>0, <2>4
    <2>7. q[From(i)].wDestPort # 0  BY <2>2, <2>6 DEF NoGap
    <2> QED  BY <2>5, <2>7
  <1>5. Distinct(d)
    <2> SUFFICES ASSUME NEW i \in Held(d), NEW j \in Held(d), SameRequest(d[i], d[j])
                 PROVE i = j
      BY DEF Distinct
    <2>1. From(i) \in Held(q) /\ From(j) \in Held(q) /\ d[i] = q[From(i)] /\ d[j] = q[From(j)]
      BY <1>2
    <2>2. From(i) = From(j)  BY <2>1 DEF Distinct
    <2>3. i \in 1..QueueLen /\ j \in 1..QueueLen  BY DEF Held
    <2> QED  BY <1>0, <2>2, <2>3
  <1>6. Within(d, q)  BY <1>2 DEF Within
  <1> QED  BY <1>1, <1>3, <1>4, <1>5, <1>6 DEF d

\* What is within a part of a queue is within the queue.
LEMMA WithinPart ==
    ASSUME NEW p, NEW r, NEW q, Within(p, r), Within(r, q)
    PROVE Within(p, q)
  <1> SUFFICES ASSUME NEW v \in Held(p) PROVE \E u \in Held(q) : p[v] = q[u]
    BY DEF Within
  <1>1. PICK i \in Held(r) : p[v] = r[i]  BY DEF Within
  <1>2. PICK u \in Held(q) : r[i] = q[u]  BY DEF Within
  <1> QED  BY <1>1, <1>2

-----------------------------------------------------------------------------
(* The expiry of the queue.                                                *)

\* A slot of the scan and the queue it is at.
Scans == [queue : {q \in Queues : NoGap(q) /\ Distinct(q)}, w : 1..(QueueLen + 1)]

\* One step of the scan, while it is in the queue.
LEMMA ScanStep ==
    ASSUME NEW at \in Scans, at.w =< QueueLen
    PROVE /\ ScanSlot(at) \in Scans /\ ScanSlot(at).w =< at.w + 1
          /\ Within(ScanSlot(at).queue, at.queue)
          /\ \A u \in Held(at.queue) : ~ Expired(at.queue[u]) =>
               \E v \in Held(ScanSlot(at).queue) : ScanSlot(at).queue[v] = at.queue[u]
  <1> DEFINE q == at.queue
             w == at.w
             e == q[w]
  <1>0. QueueLen \in Nat  BY AcceptAssumption
  <1>1. q \in Queues /\ NoGap(q) /\ Distinct(q) /\ w \in 1..QueueLen
    BY <1>0 DEF Scans
  <1>2. Within(q, q) /\ \A u \in Held(q) : \E v \in Held(q) : q[v] = q[u]
    BY DEF Within
  <1>3. CASE e.wDestPort = 0
    <2>1. ScanSlot(at) = at  BY <1>3 DEF ScanSlot
    <2> QED  BY <1>1, <1>2, <2>1
  <1>4. CASE e.wDestPort # 0 /\ Expired(e)
    <2>1. ScanSlot(at) = [at EXCEPT !.queue = Delete(@, at.w)]  BY <1>4 DEF ScanSlot
    <2>2. w \in Held(q)  BY <1>1, <1>4 DEF Held
    <2>3. /\ Delete(q, w) \in Queues /\ NoGap(Delete(q, w)) /\ Distinct(Delete(q, w))
          /\ Within(Delete(q, w), q)
          /\ \A u \in Held(q) \ {w} : \E v \in Held(Delete(q, w)) : Delete(q, w)[v] = q[u]
      BY <1>1, <2>2, DeleteKeeps
    <2>4. ScanSlot(at).queue = Delete(q, w) /\ ScanSlot(at).w = w
      BY <2>1 DEF Scans
    <2>5. ScanSlot(at) \in Scans  BY <2>1, <2>3 DEF Scans
    <2>6. \A u \in Held(q) : ~ Expired(q[u]) => u # w  BY <1>4
    <2> QED  BY <1>1, <2>3, <2>4, <2>5, <2>6
  <1>5. CASE e.wDestPort # 0 /\ ~ Expired(e)
    <2>1. ScanSlot(at) = [at EXCEPT !.w = @ + 1]  BY <1>5 DEF ScanSlot
    <2>2. ScanSlot(at).queue = q /\ ScanSlot(at).w = w + 1  BY <2>1 DEF Scans
    <2>3. ScanSlot(at) \in Scans  BY <1>0, <1>1, <2>1 DEF Scans
    <2> QED  BY <1>1, <1>2, <2>2, <2>3
  <1> QED  BY <1>3, <1>4, <1>5

\* The recursive function of Expire is the loop: pass k sees a slot up to k.
LEMMA ExpireLoop ==
    ASSUME NEW q \in Queues, NoGap(q), Distinct(q)
    PROVE \E f \in [0..QueueLen -> Scans] :
             /\ f[0].queue = q
             /\ \A k \in 1..QueueLen : f[k - 1].w =< QueueLen /\ f[k] = ScanSlot(f[k - 1])
             /\ Expire(q) = f[QueueLen].queue
  <1> DEFINE n == QueueLen
             a == [queue |-> q, w |-> 1]
             pass == [at \in Scans |-> IF at.w =< n THEN ScanSlot(at) ELSE at]
             step == [k \in 1..n |-> pass]
  <1>0. n \in Nat /\ n >= 1  BY AcceptAssumption
  <1>1. a \in Scans  BY <1>0 DEF Scans
  <1>2. \A at \in Scans : pass[at] \in Scans  BY ScanStep
  <1>3. step \in [1..n -> [Scans -> Scans]]  BY <1>2
  <1>4. \A k \in 1..n, at \in Scans : step[k][at] = IF at.w =< n THEN ScanSlot(at) ELSE at
    OBVIOUS
  <1> HIDE DEF n, a, step, pass
  <1>4a. PICK f : IsLoop(f, n, Scans, a, step)  BY <1>0, <1>1, <1>3, LoopExists
  <1>5. f \in [0..n -> Scans] /\ f[0] = a /\ \A k \in 1..n : f[k] = step[k][f[k - 1]]
    BY <1>4a DEF IsLoop
  <1> DEFINE K == {k \in 0..n : f[k].w =< k + 1}
  <1>6. 0 \in K  BY <1>0, <1>5 DEF a
  <1>7. ASSUME NEW k \in 1..n, f[k - 1].w =< (k - 1) + 1
        PROVE f[k - 1].w =< n /\ f[k] = ScanSlot(f[k - 1]) /\ f[k].w =< k + 1
    <2>1. k - 1 \in 0..n /\ f[k - 1] \in Scans  BY <1>0, <1>5
    <2>2. f[k - 1].w \in Nat  BY <2>1, AcceptAssumption DEF Scans
    <2>3. f[k - 1].w =< n  BY <1>0, <1>7, <2>2
    <2>4. f[k] = ScanSlot(f[k - 1])  BY <1>4, <1>5, <2>1, <2>3
    <2>5. f[k].w =< f[k - 1].w + 1  BY <2>1, <2>3, <2>4, ScanStep DEF n
    <2>6. f[k] \in Scans  BY <1>0, <1>5
    <2>7. f[k].w \in Nat  BY <2>6, AcceptAssumption DEF Scans
    <2> QED  BY <1>0, <1>7, <2>2, <2>3, <2>4, <2>5, <2>7
  <1>8. ASSUME NEW k \in 1..n, k - 1 \in K PROVE k \in K
    <2>1. f[k - 1].w =< (k - 1) + 1 /\ k \in 0..n  BY <1>0, <1>8
    <2> QED  BY <1>7, <2>1
  <1> HIDE DEF K
  <1>9. \A k \in 0..n : k \in K  BY <1>0, <1>6, <1>8, Induction
  <1>10. ASSUME NEW k \in 1..n PROVE f[k - 1].w =< n /\ f[k] = ScanSlot(f[k - 1])
    <2>1. k - 1 \in 0..n  BY <1>0
    <2>2. f[k - 1].w =< (k - 1) + 1  BY <1>9, <2>1 DEF K
    <2> QED  BY <1>7, <2>2
  <1> DEFINE Loop(g) == g = [k \in 0..n |-> IF k = 0 THEN a ELSE ScanSlot(g[k - 1])]
             after == CHOOSE g : Loop(g)
  <1>11. ASSUME NEW k \in 0..n PROVE f[k] = IF k = 0 THEN a ELSE ScanSlot(f[k - 1])
    <2>1. CASE k = 0  BY <1>5, <2>1
    <2>2. CASE k # 0
      <3>1. k \in 1..n  BY <2>2
      <3> QED  BY <1>10, <2>2, <3>1
    <2> QED  BY <2>1, <2>2
  <1>12. Loop(f)
    <2>1. f = [k \in 0..n |-> f[k]]  BY <1>5
    <2> QED  BY <1>11, <2>1
  <1> HIDE DEF Loop
  <1>13. Loop(after)  BY <1>12
  <1>14. Expire(q) = after[n].queue  BY DEF Expire, Loop, a, n
  <1> HIDE DEF after
  <1>15. after = f
    <2>1. \A k \in 0..n : after[k] = IF k = 0 THEN a ELSE ScanSlot(after[k - 1])
      BY <1>13 DEF Loop
    <2>2. DOMAIN after = 0..n /\ after = [k \in 0..n |-> after[k]]  BY <1>13 DEF Loop
    <2> DEFINE M == {k \in 0..n : after[k] = f[k]}
    <2>3. 0 \in M  BY <1>0, <1>11, <2>1
    <2>4. ASSUME NEW k \in 1..n, k - 1 \in M PROVE k \in M
      <3>1. k \in 0..n /\ k # 0 /\ after[k - 1] = f[k - 1]  BY <2>4
      <3> QED  BY <1>11, <2>1, <3>1
    <2> HIDE DEF M
    <2>5. \A k \in 0..n : k \in M  BY <1>0, <2>3, <2>4, Induction
    <2>6. \A k \in 0..n : after[k] = f[k]  BY <2>5 DEF M
    <2>7. f = [k \in 0..n |-> f[k]]  BY <1>5
    <2> QED  BY <2>2, <2>6, <2>7
  <1>16. f[0].queue = q  BY <1>5 DEF a
  <1> HIDE DEF after
  <1>17. Expire(q) = f[n].queue  BY <1>14, <1>15
  <1> QED  BY <1>5, <1>10, <1>16, <1>17 DEF n

\* What the expiry leaves is a queue, keeps every request that is not too old
\* and brings in none.
LEMMA ExpireKeeps ==
    ASSUME NEW q \in Queues, NoGap(q), Distinct(q)
    PROVE /\ Expire(q) \in Queues /\ NoGap(Expire(q)) /\ Distinct(Expire(q))
          /\ Within(Expire(q), q)
          /\ \A u \in Held(q) : ~ Expired(q[u]) =>
               \E v \in Held(Expire(q)) : Expire(q)[v] = q[u]
  <1> DEFINE n == QueueLen
             Kept(p) == \A u \in Held(q) : ~ Expired(q[u]) => \E v \in Held(p) : p[v] = q[u]
  <1>0. n \in Nat  BY AcceptAssumption
  <1>1. PICK f \in [0..n -> Scans] :
             /\ f[0].queue = q
             /\ \A k \in 1..n : f[k - 1].w =< n /\ f[k] = ScanSlot(f[k - 1])
             /\ Expire(q) = f[n].queue
    BY ExpireLoop
  <1> DEFINE K == {k \in 0..n : Within(f[k].queue, q) /\ Kept(f[k].queue)}
  <1>2. 0 \in K
    <2>1. Within(q, q) /\ Kept(q)  BY DEF Within
    <2> QED  BY <1>0, <1>1, <2>1
  <1>3. ASSUME NEW k \in 1..n, k - 1 \in K PROVE k \in K
    <2> DEFINE p == f[k - 1].queue
               r == f[k].queue
    <2>1. k - 1 \in 0..n /\ f[k - 1] \in Scans /\ f[k - 1].w =< n /\ f[k] = ScanSlot(f[k - 1])
      BY <1>0, <1>1
    <2>2. /\ Within(r, p)
          /\ \A u \in Held(p) : ~ Expired(p[u]) => \E v \in Held(r) : r[v] = p[u]
      BY <2>1, ScanStep
    <2>3. Within(p, q) /\ Kept(p)  BY <1>3
    <2> HIDE DEF p, r
    <2>4. Within(r, q)  BY <2>2, <2>3, WithinPart
    <2>5. ASSUME NEW u \in Held(q), ~ Expired(q[u]) PROVE \E v \in Held(r) : r[v] = q[u]
      <3>1. PICK i \in Held(p) : p[i] = q[u]  BY <2>3, <2>5
      <3>2. ~ Expired(p[i])  BY <2>5, <3>1
      <3>3. PICK v \in Held(r) : r[v] = p[i]  BY <2>2, <3>2
      <3> QED  BY <3>1, <3>3
    <2>6. k \in 0..n  BY <1>0
    <2> QED  BY <2>4, <2>5, <2>6 DEF r
  <1> HIDE DEF K
  <1>4. \A k \in 0..n : k \in K  BY <1>0, <1>2, <1>3, Induction
  <1>5. n \in 0..n  BY <1>0
  <1>6. Within(f[n].queue, q) /\ Kept(f[n].queue)  BY <1>4, <1>5 DEF K
  <1>7. f[n].queue \in Queues /\ NoGap(f[n].queue) /\ Distinct(f[n].queue)
    BY <1>1, <1>5 DEF Scans
  <1> QED  BY <1>1, <1>6, <1>7

-----------------------------------------------------------------------------
(* The sockets.                                                            *)

HashType == (Remotes \cup {NoRemote}) \X (Ports \cup {0})

SocketType == [smState : {"CLOSED", "LISTEN", "BOUND"}, localPort : Ports \cup {0},
               remoteHash : HashType, remote : Remotes \cup {NoRemote}]

HashFits(s) ==
    /\ s.smState = "LISTEN" => s.remoteHash = PortHash(s.localPort)
    /\ s.smState = "BOUND" => s.remoteHash = <<s.remote, s.localPort>>

\* A closed socket has no port, the others have one.
PortFits(s) == s.smState = "CLOSED" <=> s.localPort = 0

LEMMA CloseSocketIs ==
    ASSUME NEW s \in SocketType
    PROVE /\ CloseSocket(s) \in SocketType /\ HashFits(CloseSocket(s))
          /\ CloseSocket(s).localPort = s.localPort /\ CloseSocket(s).smState = "LISTEN"
          /\ CloseSocket(s).remoteHash = PortHash(s.localPort)
          /\ (s.smState # "CLOSED" /\ PortFits(s) => PortFits(CloseSocket(s)))
  <1> DEFINE c == CloseSocket(s)
  <1>1. c = [s EXCEPT !.smState = "LISTEN", !.remoteHash = PortHash(s.localPort)]
    BY DEF CloseSocket
  <1>2. PortHash(s.localPort) \in HashType  BY DEF PortHash, HashType, SocketType
  <1>3. c.smState = "LISTEN" /\ c.remoteHash = PortHash(s.localPort) /\ c.localPort = s.localPort
    BY <1>1, Zenon DEF SocketType
  <1>4. c \in SocketType  BY <1>1, <1>2 DEF SocketType
  <1> QED  BY <1>3, <1>4 DEF HashFits, PortFits

LEMMA BoundIs ==
    ASSUME NEW s \in SocketType, NEW r \in Remotes \cup {NoRemote}
    PROVE /\ Bound(s, r) \in SocketType /\ HashFits(Bound(s, r))
          /\ Bound(s, r).localPort = s.localPort /\ Bound(s, r).smState = "BOUND"
          /\ Bound(s, r).remoteHash = <<r, s.localPort>>
          /\ (s.smState # "CLOSED" /\ PortFits(s) => PortFits(Bound(s, r)))
  <1> DEFINE c == Bound(s, r)
  <1>1. c = [s EXCEPT !.smState = "BOUND", !.remote = r, !.remoteHash = <<r, s.localPort>>]
    BY DEF Bound
  <1>2. <<r, s.localPort>> \in HashType  BY DEF HashType, SocketType
  <1>3. /\ c.smState = "BOUND" /\ c.remoteHash = <<r, s.localPort>>
        /\ c.localPort = s.localPort /\ c.remote = r
    BY <1>1, Zenon DEF SocketType
  <1>4. c \in SocketType  BY <1>1, <1>2 DEF SocketType
  <1> QED  BY <1>3, <1>4 DEF HashFits, PortFits

-----------------------------------------------------------------------------
(* The round of TCPTick() over the sockets.                                *)

\* The sockets and the queue after some of the passes.
Rounds == [sock : {s \in [Sockets -> SocketType] : \A i \in Sockets : HashFits(s[i])},
           queue : {q \in Queues : NoGap(q) /\ Distinct(q)}]

\* The pass of socket i.
Pass(st, i, ended) ==
    IF i \in ended THEN [st EXCEPT !.sock[i] = CloseSocket(@)] ELSE ServeSYN(st, i)

\* What one pass may do: it changes socket i only, and takes a request from the
\* queue only for that socket, which listens on only if there is none for it.
PassFacts(st, r, i) ==
    /\ \A j \in Sockets : j # i => r.sock[j] = st.sock[j]
    /\ r.sock[i].localPort = st.sock[i].localPort
    /\ Within(r.queue, st.queue)
    /\ \A u \in Held(st.queue) :
          \/ \E v \in Held(r.queue) : r.queue[v] = st.queue[u]
          \/ r.sock[i].remoteHash = <<st.queue[u].source, st.queue[u].wDestPort>>
    /\ st.sock[i].smState # "CLOSED" /\ PortFits(st.sock[i]) => PortFits(r.sock[i])
    /\ st.sock[i].smState = "CLOSED" => r.sock[i] = st.sock[i] \/ r.sock[i].smState = "LISTEN"
    /\ st.sock[i].smState = "LISTEN" /\ r.sock[i].smState = "LISTEN" =>
          \A w \in Held(st.queue) : st.queue[w].wDestPort # st.sock[i].localPort

LEMMA ServeStep ==
    ASSUME NEW st \in Rounds, NEW i \in Sockets
    PROVE /\ ServeSYN(st, i) \in Rounds
          /\ PassFacts(st, ServeSYN(st, i), i)
          /\ st.sock[i].smState = "CLOSED" => ServeSYN(st, i) = st
  <1> DEFINE s == st.sock[i]
             q == st.queue
             r == ServeSYN(st, i)
             hits == {w \in 1..QueueLen : /\ \A v \in 1..w : q[v].wDestPort # 0
                                          /\ PortHash(q[w].wDestPort) = s.remoteHash}
             w == Min(hits)
  <1>0. QueueLen \in Nat  BY AcceptAssumption
  <1>1. /\ st.sock \in [Sockets -> SocketType] /\ \A j \in Sockets : HashFits(st.sock[j])
        /\ s \in SocketType /\ HashFits(s) /\ q \in Queues /\ NoGap(q) /\ Distinct(q)
    BY DEF Rounds
  <1>2. Within(q, q) /\ \A u \in Held(q) : \E v \in Held(q) : q[v] = q[u]  BY DEF Within
  <1>3. ASSUME NEW v \in Held(q), PortHash(q[v].wDestPort) = s.remoteHash PROVE v \in hits
    <2>1. v \in 1..QueueLen /\ q[v].wDestPort # 0  BY DEF Held
    <2>2. \A j \in 1..v : j \in 1..QueueLen /\ (j < v \/ j = v)  BY <1>0, <2>1
    <2>3. \A j \in 1..v : q[j].wDestPort # 0  BY <1>1, <2>1, <2>2 DEF NoGap
    <2> QED  BY <1>3, <2>1, <2>3
  <1>4. CASE ~ (s.smState = "LISTEN" /\ hits # {})
    <2>1. r = st  BY <1>4 DEF ServeSYN
    <2>2. s.smState = "LISTEN" => \A v \in Held(q) : q[v].wDestPort # s.localPort
      <3> SUFFICES ASSUME s.smState = "LISTEN", NEW v \in Held(q), q[v].wDestPort = s.localPort
                   PROVE FALSE
        OBVIOUS
      <3>1. s.remoteHash = PortHash(s.localPort)  BY <1>1 DEF HashFits
      <3> QED  BY <1>3, <1>4, <3>1
    <2> HIDE DEF hits, w
    <2> QED  BY <1>2, <2>1, <2>2 DEF PassFacts
  <1>5. CASE s.smState = "LISTEN" /\ hits # {}
    <2>1. r = [sock |-> [st.sock EXCEPT ![i] = Bound(s, q[w].source)], queue |-> Delete(q, w)]
      BY <1>5 DEF ServeSYN
    <2>2. w \in hits
      <3>1. hits \subseteq Nat /\ hits # {}  BY <1>0, <1>5
      <3> HIDE DEF hits
      <3> QED  BY <3>1, MinIn
    <2>15. \A x \in hits : /\ x \in 1..QueueLen /\ q[x].wDestPort # 0
                           /\ PortHash(q[x].wDestPort) = s.remoteHash
      BY <1>0
    <2> HIDE DEF hits, w
    <2>3. w \in 1..QueueLen /\ q[w].wDestPort # 0 /\ PortHash(q[w].wDestPort) = s.remoteHash
      BY <2>2, <2>15
    <2>4. w \in Held(q)  BY <2>3 DEF Held
    <2>5. q[w] \in SlotType /\ q[w].source \in Remotes \cup {NoRemote}
      BY <1>1, <2>3 DEF Queues, SlotType
    <2>6. s.remoteHash = PortHash(s.localPort)  BY <1>1, <1>5 DEF HashFits
    <2>7. q[w].wDestPort = s.localPort  BY <2>3, <2>6 DEF PortHash
    <2> DEFINE b == Bound(s, q[w].source)
    <2>8. /\ b \in SocketType /\ HashFits(b) /\ b.localPort = s.localPort
          /\ b.smState = "BOUND" /\ b.remoteHash = <<q[w].source, s.localPort>>
          /\ (s.smState # "CLOSED" /\ PortFits(s) => PortFits(b))
      BY <1>1, <2>5, BoundIs
    <2>9. /\ Delete(q, w) \in Queues /\ NoGap(Delete(q, w)) /\ Distinct(Delete(q, w))
          /\ Within(Delete(q, w), q)
          /\ \A u \in Held(q) \ {w} : \E v \in Held(Delete(q, w)) : Delete(q, w)[v] = q[u]
      BY <1>1, <2>4, DeleteKeeps
    <2> HIDE DEF b
    <2>10. r.sock = [st.sock EXCEPT ![i] = b] /\ r.queue = Delete(q, w)  BY <2>1 DEF b
    <2>11. r.sock[i] = b /\ \A j \in Sockets : j # i => r.sock[j] = st.sock[j]
      BY <1>1, <2>10
    <2>12. r.sock \in [Sockets -> SocketType] /\ \A j \in Sockets : HashFits(r.sock[j])
      BY <1>1, <2>8, <2>10, <2>11
    <2>13. r \in Rounds  BY <2>1, <2>9, <2>10, <2>12 DEF Rounds, b
    <2>14. \A u \in Held(q) : \/ \E v \in Held(r.queue) : r.queue[v] = q[u]
                              \/ r.sock[i].remoteHash = <<q[u].source, q[u].wDestPort>>
      BY <2>7, <2>8, <2>9, <2>10, <2>11
    <2> HIDE DEF r
    <2> QED  BY <1>5, <2>8, <2>9, <2>10, <2>11, <2>13, <2>14 DEF PassFacts, r
  <1> QED  BY <1>4, <1>5

LEMMA PassStep ==
    ASSUME NEW st \in Rounds, NEW i \in Sockets, NEW ended
    PROVE /\ Pass(st, i, ended) \in Rounds
          /\ (i \in ended => st.sock[i].smState = "BOUND") => PassFacts(st, Pass(st, i, ended), i)
          /\ i \notin ended /\ st.sock[i].smState = "CLOSED" => Pass(st, i, ended) = st
  <1> DEFINE r == Pass(st, i, ended)
             s == st.sock[i]
             c == CloseSocket(s)
  <1>1. CASE i \notin ended  BY <1>1, ServeStep DEF Pass
  <1>2. CASE i \in ended
    <2>1. /\ st.sock \in [Sockets -> SocketType] /\ \A j \in Sockets : HashFits(st.sock[j])
          /\ s \in SocketType /\ st.queue \in Queues /\ NoGap(st.queue) /\ Distinct(st.queue)
          /\ st = [sock |-> st.sock, queue |-> st.queue]
      BY DEF Rounds
    <2>2. r = [st EXCEPT !.sock[i] = CloseSocket(@)]  BY <1>2 DEF Pass
    <2>3. r = [sock |-> [st.sock EXCEPT ![i] = c], queue |-> st.queue]
      BY <2>1, <2>2, Zenon
    <2>4. /\ c \in SocketType /\ HashFits(c) /\ c.localPort = s.localPort /\ c.smState = "LISTEN"
          /\ (s.smState # "CLOSED" /\ PortFits(s) => PortFits(c))
      BY <2>1, CloseSocketIs
    <2> HIDE DEF c, r
    <2>5. r.sock = [st.sock EXCEPT ![i] = c] /\ r.queue = st.queue  BY <2>3
    <2>6. r.sock[i] = c /\ \A j \in Sockets : j # i => r.sock[j] = st.sock[j]
      BY <2>1, <2>5
    <2>7. r.sock \in [Sockets -> SocketType] /\ \A j \in Sockets : HashFits(r.sock[j])
      BY <2>1, <2>4, <2>5, <2>6
    <2>8. r \in Rounds  BY <2>1, <2>3, <2>5, <2>7 DEF Rounds
    <2>9. Within(r.queue, st.queue) /\ \A u \in Held(st.queue) : \E v \in Held(r.queue) : r.queue[v] = st.queue[u]
      BY <2>5 DEF Within
    <2> QED  BY <1>2, <2>4, <2>6, <2>8, <2>9 DEF PassFacts, r
  <1> QED  BY <1>1, <1>2

SocketsOK(s) == /\ s \in [Sockets -> SocketType]
                /\ \A i \in Sockets : HashFits(s[i]) /\ PortFits(s[i])

QueueOK(q) == q \in Queues /\ NoGap(q) /\ Distinct(q)

\* The recursive function of Round is the loop over the sockets.
LEMMA RoundLoop ==
    ASSUME SocketsOK(sock), QueueOK(SYNQueue), NEW ended
    PROVE \E f \in [0..N -> Rounds] :
             /\ f[0].sock = sock /\ f[0].queue = SYNQueue
             /\ \A k \in 1..N : f[k] = Pass(f[k - 1], k, ended)
             /\ Round(ended) = f[N]
  <1> DEFINE n == N
             a == [sock |-> sock, queue |-> SYNQueue]
             step == [k \in 1..n |-> [st \in Rounds |-> Pass(st, k, ended)]]
  <1>0. n \in Nat  BY AcceptAssumption
  <1>1. a \in Rounds  BY DEF Rounds, SocketsOK, QueueOK
  <1>2. \A k \in 1..n, st \in Rounds : Pass(st, k, ended) \in Rounds  BY PassStep DEF Sockets
  <1>3. step \in [1..n -> [Rounds -> Rounds]]  BY <1>2
  <1>4. \A k \in 1..n, st \in Rounds : step[k][st] = Pass(st, k, ended)  OBVIOUS
  <1> HIDE DEF n, a, step
  <1>4a. PICK f : IsLoop(f, n, Rounds, a, step)  BY <1>0, <1>1, <1>3, LoopExists
  <1>5. f \in [0..n -> Rounds] /\ f[0] = a /\ \A k \in 1..n : f[k] = step[k][f[k - 1]]
    BY <1>4a DEF IsLoop
  <1>6. ASSUME NEW k \in 1..n PROVE f[k] = Pass(f[k - 1], k, ended)
    <2>1. k - 1 \in 0..n  BY <1>0
    <2> QED  BY <1>4, <1>5, <2>1
  <1> DEFINE Loop(g) == g = [i \in 0..n |->
                               IF i = 0 THEN a
                               ELSE IF i \in ended
                               THEN [g[i - 1] EXCEPT !.sock[i] = CloseSocket(@)]
                               ELSE ServeSYN(g[i - 1], i)]
             after == CHOOSE g : Loop(g)
  <1>7. ASSUME NEW g, Loop(g)
        PROVE /\ g = [i \in 0..n |-> g[i]] /\ g[0] = a
              /\ \A k \in 1..n : g[k] = Pass(g[k - 1], k, ended)
    <2>1. g = [i \in 0..n |-> g[i]]  BY <1>7
    <2>2. \A i \in 0..n : g[i] = IF i = 0 THEN a
                                 ELSE IF i \in ended
                                 THEN [g[i - 1] EXCEPT !.sock[i] = CloseSocket(@)]
                                 ELSE ServeSYN(g[i - 1], i)
      BY <1>7
    <2>3. 0 \in 0..n /\ \A k \in 1..n : k \in 0..n /\ k # 0  BY <1>0
    <2> HIDE DEF Loop
    <2>4. g[0] = a  BY <2>2, <2>3
    <2>5. ASSUME NEW k \in 1..n PROVE g[k] = Pass(g[k - 1], k, ended)
      <3>1. g[k] = IF k \in ended THEN [g[k - 1] EXCEPT !.sock[k] = CloseSocket(@)]
                   ELSE ServeSYN(g[k - 1], k)
        BY <2>2, <2>3, Zenon
      <3> QED  BY <3>1 DEF Pass
    <2> QED  BY <2>1, <2>4, <2>5
  <1>8. Loop(f)
    <2>1. f = [k \in 0..n |-> f[k]]  BY <1>5
    <2>2. ASSUME NEW k \in 0..n
          PROVE f[k] = IF k = 0 THEN a
                       ELSE IF k \in ended
                       THEN [f[k - 1] EXCEPT !.sock[k] = CloseSocket(@)]
                       ELSE ServeSYN(f[k - 1], k)
      <3>1. CASE k = 0  BY <1>5, <3>1
      <3>2. CASE k # 0
        <4>1. k \in 1..n  BY <3>2
        <4>2. f[k] = Pass(f[k - 1], k, ended)  BY <1>6, <4>1
        <4> QED  BY <3>2, <4>2, Zenon DEF Pass
      <3> QED  BY <3>1, <3>2
    <2> QED  BY <2>1, <2>2, Zenon
  <1>9. Round(ended) = after[n]  BY DEF Round, a, n
  <1> HIDE DEF Loop
  <1>10. Loop(after)  BY <1>8
  <1> HIDE DEF after
  <1>11. after = f
    <2>1. /\ after = [i \in 0..n |-> after[i]] /\ after[0] = a
          /\ \A k \in 1..n : after[k] = Pass(after[k - 1], k, ended)
      BY <1>7, <1>10
    <2> DEFINE M == {k \in 0..n : after[k] = f[k]}
    <2>2. 0 \in M  BY <1>0, <1>5, <2>1
    <2>3. ASSUME NEW k \in 1..n, k - 1 \in M PROVE k \in M
      <3>1. k \in 0..n /\ after[k - 1] = f[k - 1]  BY <2>3
      <3> QED  BY <1>6, <2>1, <3>1
    <2> HIDE DEF M
    <2>4. \A k \in 0..n : k \in M  BY <1>0, <2>2, <2>3, Induction
    <2>5. \A k \in 0..n : after[k] = f[k]  BY <2>4 DEF M
    <2>6. f = [k \in 0..n |-> f[k]]  BY <1>5
    <2> QED  BY <2>1, <2>5, <2>6
  <1>12. f[0].sock = sock /\ f[0].queue = SYNQueue  BY <1>5 DEF a
  <1>13. Round(ended) = f[n]  BY <1>9, <1>11
  <1> QED  BY <1>5, <1>6, <1>12, <1>13 DEF n

\* What holds after the passes of the sockets 1 to k.
RoundFacts(r, k) ==
    /\ \A i \in Sockets : /\ r.sock[i].localPort = sock[i].localPort
                          /\ PortFits(r.sock[i])
                          /\ i > k => r.sock[i] = sock[i]
    /\ Within(r.queue, SYNQueue)
    /\ \A u \in Held(SYNQueue) :
          \/ \E v \in Held(r.queue) : r.queue[v] = SYNQueue[u]
          \/ \E i \in 1..k : r.sock[i].remoteHash = <<SYNQueue[u].source, SYNQueue[u].wDestPort>>
    /\ \A i \in 1..k : sock[i].smState = "LISTEN" /\ r.sock[i].smState = "LISTEN" =>
          \A w \in Held(r.queue) : r.queue[w].wDestPort # sock[i].localPort

LEMMA RoundKeeps ==
    ASSUME SocketsOK(sock), QueueOK(SYNQueue),
           NEW ended \in SUBSET {i \in Sockets : sock[i].smState = "BOUND"}
    PROVE /\ SocketsOK(Round(ended).sock) /\ QueueOK(Round(ended).queue)
          /\ RoundFacts(Round(ended), N)
  <1>0. N \in Nat /\ Sockets = 1..N  BY AcceptAssumption DEF Sockets
  <1>1. PICK f \in [0..N -> Rounds] :
             /\ f[0].sock = sock /\ f[0].queue = SYNQueue
             /\ \A k \in 1..N : f[k] = Pass(f[k - 1], k, ended)
             /\ Round(ended) = f[N]
    BY RoundLoop
  <1> DEFINE K == {k \in 0..N : RoundFacts(f[k], k)}
  <1>2. 0 \in K
    <2>1. Within(f[0].queue, SYNQueue)
          /\ \A u \in Held(SYNQueue) : \E v \in Held(f[0].queue) : f[0].queue[v] = SYNQueue[u]
      BY <1>1 DEF Within
    <2>2. \A i \in Sockets : /\ f[0].sock[i].localPort = sock[i].localPort
                             /\ PortFits(f[0].sock[i])
                             /\ f[0].sock[i] = sock[i]
      BY <1>1 DEF SocketsOK
    <2>3. \A i \in 1..0 : FALSE  OBVIOUS
    <2>4. RoundFacts(f[0], 0)  BY <2>1, <2>2, <2>3 DEF RoundFacts
    <2> QED  BY <1>0, <2>4
  <1>3. ASSUME NEW k \in 1..N, k - 1 \in K PROVE k \in K
    <2> DEFINE p == f[k - 1]
               r == f[k]
    <2>1. p \in Rounds /\ k \in Sockets /\ r = Pass(p, k, ended) /\ RoundFacts(p, k - 1)
          /\ k > k - 1 /\ k \in 0..N
      BY <1>0, <1>1, <1>3
    <2> HIDE DEF p, r
    <2>2. p.sock[k] = sock[k] /\ PortFits(p.sock[k]) /\ p.sock[k].localPort = sock[k].localPort
      BY <2>1 DEF RoundFacts
    <2>3. k \in ended => p.sock[k].smState = "BOUND"  BY <2>2
    <2>4. PassFacts(p, r, k)  BY <2>1, <2>3, PassStep
    <2>5. k \notin ended /\ p.sock[k].smState = "CLOSED" => r = p  BY <2>1, PassStep
    <2>6. \A j \in Sockets : j # k => r.sock[j] = p.sock[j]  BY <2>4 DEF PassFacts
    <2>7. Within(r.queue, p.queue)  BY <2>4 DEF PassFacts
    <2>8. Within(r.queue, SYNQueue)  BY <2>1, <2>7, WithinPart DEF RoundFacts
    <2>9. PortFits(r.sock[k]) /\ r.sock[k].localPort = sock[k].localPort
      <3>1. r.sock[k].localPort = p.sock[k].localPort  BY <2>4 DEF PassFacts
      <3>2. CASE p.sock[k].smState = "CLOSED"
        <4>1. k \notin ended  BY <2>3, <3>2
        <4> QED  BY <2>2, <2>5, <3>2, <4>1
      <3>3. CASE p.sock[k].smState # "CLOSED"  BY <2>2, <2>4, <3>1, <3>3 DEF PassFacts
      <3> QED  BY <3>2, <3>3
    <2>10. ASSUME NEW i \in Sockets
           PROVE /\ r.sock[i].localPort = sock[i].localPort /\ PortFits(r.sock[i])
                 /\ i > k => r.sock[i] = sock[i]
      <3>1. CASE i = k  BY <1>0, <2>9, <3>1
      <3>2. CASE i # k
        <4>1. r.sock[i] = p.sock[i]  BY <2>6, <3>2
        <4>2. i > k => i > k - 1  BY <1>0
        <4> QED  BY <2>1, <4>1, <4>2 DEF RoundFacts
      <3> QED  BY <3>1, <3>2
    <2>11. ASSUME NEW u \in Held(SYNQueue)
           PROVE \/ \E v \in Held(r.queue) : r.queue[v] = SYNQueue[u]
                 \/ \E i \in 1..k : r.sock[i].remoteHash = <<SYNQueue[u].source, SYNQueue[u].wDestPort>>
      <3>1. CASE \E i \in Held(p.queue) : p.queue[i] = SYNQueue[u]
        <4>1. PICK i \in Held(p.queue) : p.queue[i] = SYNQueue[u]  BY <3>1
        <4>2. \/ \E v \in Held(r.queue) : r.queue[v] = p.queue[i]
              \/ r.sock[k].remoteHash = <<p.queue[i].source, p.queue[i].wDestPort>>
          BY <2>4 DEF PassFacts
        <4>3. k \in 1..k  OBVIOUS
        <4> QED  BY <4>1, <4>2, <4>3
      <3>2. CASE \E i \in 1..(k - 1) : p.sock[i].remoteHash = <<SYNQueue[u].source, SYNQueue[u].wDestPort>>
        <4>1. PICK i \in 1..(k - 1) : p.sock[i].remoteHash = <<SYNQueue[u].source, SYNQueue[u].wDestPort>>
          BY <3>2
        <4>2. i \in Sockets /\ i # k /\ i \in 1..k  BY <1>0
        <4>3. r.sock[i] = p.sock[i]  BY <2>6, <4>2
        <4> QED  BY <4>1, <4>2, <4>3
      <3> QED  BY <2>1, <3>1, <3>2 DEF RoundFacts
    <2>12. ASSUME NEW i \in 1..k, sock[i].smState = "LISTEN", r.sock[i].smState = "LISTEN",
                  NEW w \in Held(r.queue)
           PROVE r.queue[w].wDestPort # sock[i].localPort
      <3>1. PICK v \in Held(p.queue) : r.queue[w] = p.queue[v]  BY <2>7 DEF Within
      <3>2. CASE i = k
        <4>1. \A x \in Held(p.queue) : p.queue[x].wDestPort # p.sock[k].localPort
          BY <2>2, <2>4, <2>12, <3>2 DEF PassFacts
        <4> QED  BY <2>2, <3>1, <3>2, <4>1
      <3>3. CASE i # k
        <4>1. i \in 1..(k - 1) /\ i \in Sockets  BY <1>0, <3>3
        <4>2. r.sock[i] = p.sock[i]  BY <2>6, <3>3, <4>1
        <4> QED  BY <2>1, <2>12, <3>1, <4>1, <4>2 DEF RoundFacts
      <3> QED  BY <3>2, <3>3
    <2>13. RoundFacts(r, k)  BY <2>8, <2>10, <2>11, <2>12 DEF RoundFacts
    <2> QED  BY <2>1, <2>13 DEF r
  <1> HIDE DEF K
  <1>4. \A k \in 0..N : k \in K  BY <1>0, <1>2, <1>3, Induction
  <1>5. N \in 0..N /\ f[N] \in Rounds  BY <1>0, <1>1
  <1>6. RoundFacts(f[N], N)  BY <1>4, <1>5 DEF K
  <1>7. SocketsOK(f[N].sock) /\ QueueOK(f[N].queue)
    BY <1>5, <1>6 DEF Rounds, RoundFacts, SocketsOK, QueueOK
  <1> QED  BY <1>1, <1>6, <1>7

-----------------------------------------------------------------------------
(* The invariant of the accept queue. Beside the types and the properties  *)
(* that a run checks it says that a socket is closed as long as it has no  *)
(* port, so that a port once served is served for ever, and that the WORD  *)
(* timestamp of a request never makes it look older than it is.            *)

Served(q, s) == \A w \in Held(q) : \E i \in Sockets : s[i].localPort = q[w].wDestPort

Young(q, t) == \A w \in Held(q) : q[w].age <= Timeout => t - q[w].wTimestamp <= q[w].age

AcceptInv ==
    /\ SocketsOK(sock) /\ QueueOK(SYNQueue) /\ now \in 0..(WORD - 1)
    /\ Served(SYNQueue, sock) /\ Young(SYNQueue, now)

\* What a step does to the requests that are not too old.
FreshKept ==
    \A w \in Requests : SYNQueue[w].age <= Timeout =>
         \/ \E v \in Requests' : /\ SYNQueue'[v].source = SYNQueue[w].source
                                 /\ SYNQueue'[v].wDestPort = SYNQueue[w].wDestPort
         \/ \E i \in Sockets : sock'[i].remoteHash = <<SYNQueue[w].source, SYNQueue[w].wDestPort>>

LEMMA RequestsAreHeld == Requests = Held(SYNQueue) /\ Requests' = Held(SYNQueue')
  BY DEF Requests, Held

\* A step that leaves the queue alone keeps its requests.
LEMMA SameQueueKeeps == ASSUME UNCHANGED SYNQueue PROVE FreshKept
  BY DEF FreshKept, Requests

LEMMA AcceptInitially == AcceptInit => AcceptInv
  <1> SUFFICES ASSUME AcceptInit PROVE AcceptInv  OBVIOUS
  <1>1. FreeSlot \in SlotType /\ FreeSlot.wDestPort = 0  BY FreeSlotType DEF FreeSlot
  <1>2. SYNQueue \in Queues /\ Held(SYNQueue) = {}  BY <1>1 DEF AcceptInit, Queues, Held
  <1>3. NoGap(SYNQueue)  BY <1>1 DEF AcceptInit, NoGap
  <1>4. QueueOK(SYNQueue) /\ Served(SYNQueue, sock) /\ Young(SYNQueue, now)
    BY <1>2, <1>3 DEF QueueOK, Distinct, Served, Young
  <1>5. SocketsOK(sock)
    <2> DEFINE s == [smState |-> "CLOSED", localPort |-> 0,
                     remoteHash |-> PortHash(0), remote |-> NoRemote]
    <2>1. s \in SocketType  BY DEF SocketType, HashType, PortHash
    <2>2. HashFits(s) /\ PortFits(s)  BY DEF HashFits, PortFits
    <2>3. sock = [i \in Sockets |-> s]  BY DEF AcceptInit
    <2> HIDE DEF s
    <2> QED  BY <2>1, <2>2, <2>3 DEF SocketsOK
  <1>6. now \in 0..(WORD - 1)  BY AcceptAssumption DEF AcceptInit
  <1> QED  BY <1>4, <1>5, <1>6 DEF AcceptInv

\* A step that gives one socket a new state, and keeps its port if it has one.
LEMMA SocketChange ==
    ASSUME AcceptInv, UNCHANGED <<SYNQueue, now>>, NEW i \in Sockets, NEW c \in SocketType,
           HashFits(c), PortFits(c), c.localPort = sock[i].localPort \/ sock[i].localPort = 0,
           sock' = [sock EXCEPT ![i] = c]
    PROVE AcceptInv'
  <1>1. SocketsOK(sock) /\ sock \in [Sockets -> SocketType]  BY DEF AcceptInv, SocketsOK
  <1>2. sock'[i] = c /\ \A j \in Sockets : j # i => sock'[j] = sock[j]  BY <1>1
  <1>3. SocketsOK(sock')  BY <1>1, <1>2 DEF SocketsOK
  <1>4. Served(SYNQueue, sock')
    <2> SUFFICES ASSUME NEW w \in Held(SYNQueue)
                 PROVE \E j \in Sockets : sock'[j].localPort = SYNQueue[w].wDestPort
      BY DEF Served
    <2>1. PICK j \in Sockets : sock[j].localPort = SYNQueue[w].wDestPort
      BY DEF AcceptInv, Served
    <2>2. SYNQueue[w].wDestPort # 0  BY DEF Held
    <2>3. sock'[j].localPort = sock[j].localPort  BY <1>2, <2>1, <2>2
    <2> QED  BY <2>1, <2>3
  <1>5. QueueOK(SYNQueue') /\ now' \in 0..(WORD - 1) /\ Served(SYNQueue', sock') /\ Young(SYNQueue', now')
    BY <1>4 DEF AcceptInv
  <1> QED  BY <1>3, <1>5 DEF AcceptInv

\* A socket that is not closed goes back to LISTEN, perhaps with another
\* remote node entered in the meantime.
LEMMA CloseStep ==
    ASSUME AcceptInv, UNCHANGED <<SYNQueue, now>>, NEW i \in Sockets, sock[i].smState # "CLOSED",
           NEW s \in SocketType, s.smState = sock[i].smState, s.localPort = sock[i].localPort,
           sock' = [sock EXCEPT ![i] = CloseSocket(s)]
    PROVE AcceptInv'
  <1> DEFINE c == CloseSocket(s)
  <1>1. PortFits(s)  BY DEF AcceptInv, SocketsOK, PortFits
  <1>2. /\ c \in SocketType /\ HashFits(c) /\ c.localPort = s.localPort
        /\ (s.smState # "CLOSED" /\ PortFits(s) => PortFits(c))
    BY CloseSocketIs
  <1> HIDE DEF c
  <1>3. PortFits(c) /\ c.localPort = sock[i].localPort  BY <1>1, <1>2
  <1>4. sock' = [sock EXCEPT ![i] = c]  BY DEF c
  <1> QED  BY <1>2, <1>3, <1>4, SocketChange

LEMMA OpenStep ==
    ASSUME AcceptInv, NEW p \in Ports, TCPOpen(p)
    PROVE AcceptInv' /\ FreshKept
  <1> DEFINE closed == {i \in Sockets : sock[i].smState = "CLOSED"}
             m == Min(closed)
             c == [smState |-> "LISTEN", localPort |-> p,
                   remoteHash |-> PortHash(p), remote |-> sock[m].remote]
  <1>1. closed \subseteq Nat /\ closed # {}
    <2>1. closed # {}  BY DEF TCPOpen
    <2>2. Sockets \subseteq Nat  BY AcceptAssumption DEF Sockets
    <2> QED  BY <2>1, <2>2
  <1>2. m \in closed  BY <1>1, MinIn
  <1>3. m \in Sockets /\ sock[m].smState = "CLOSED"  BY <1>2
  <1>4. sock' = [sock EXCEPT ![m].smState = "LISTEN", ![m].localPort = p,
                             ![m].remoteHash = PortHash(p)]
        /\ UNCHANGED <<SYNQueue, now>>
    BY DEF TCPOpen
  <1> HIDE DEF m, closed
  <1>5. sock \in [Sockets -> SocketType] /\ sock[m] \in SocketType /\ PortFits(sock[m])
    BY <1>3 DEF AcceptInv, SocketsOK
  <1>6. sock[m].localPort = 0  BY <1>3, <1>5 DEF PortFits
  <1>7. p # 0 /\ PortHash(p) \in HashType  BY AcceptAssumption DEF PortHash, HashType
  <1>8. c \in SocketType  BY <1>5, <1>7 DEF SocketType
  <1>9. HashFits(c) /\ PortFits(c)  BY <1>7 DEF HashFits, PortFits
  <1>10. sock' = [sock EXCEPT ![m] = c]
    <2> DEFINE t == sock[m]
               d == [[[t EXCEPT !.smState = "LISTEN"] EXCEPT !.localPort = p]
                       EXCEPT !.remoteHash = PortHash(p)]
    <2>1. t \in SocketType  BY <1>5
    <2> HIDE DEF t
    <2>2. d \in SocketType  BY <1>7, <2>1 DEF SocketType
    <2>5. d.smState = "LISTEN" /\ d.localPort = p /\ d.remoteHash = PortHash(p)
          /\ d.remote = t.remote
      BY <2>1, Zenon DEF SocketType
    <2>6. c.smState = "LISTEN" /\ c.localPort = p /\ c.remoteHash = PortHash(p)
          /\ c.remote = t.remote
      BY DEF t
    <2>3. \A j \in Sockets : sock'[j] = IF j = m THEN d ELSE sock[j]
      BY <1>3, <1>4, <1>5 DEF t
    <2> HIDE DEF c, d
    <2>7. d = c  BY <1>8, <2>2, <2>5, <2>6 DEF SocketType
    <2>4. sock' = [j \in Sockets |-> sock'[j]]  BY <1>4, <1>5
    <2> QED  BY <1>3, <1>5, <2>3, <2>4, <2>7
  <1> HIDE DEF c
  <1>11. AcceptInv'  BY <1>3, <1>4, <1>6, <1>8, <1>9, <1>10, SocketChange
  <1> QED  BY <1>4, <1>11, SameQueueKeeps

LEMMA DisconnectStep ==
    ASSUME AcceptInv, NEW i \in Sockets, TCPDisconnect(i)
    PROVE AcceptInv' /\ FreshKept
  <1>1. sock[i] \in SocketType /\ sock[i].smState # "CLOSED"
        /\ UNCHANGED <<SYNQueue, now>> /\ sock' = [sock EXCEPT ![i] = CloseSocket(sock[i])]
    BY DEF AcceptInv, SocketsOK, TCPDisconnect
  <1>2. AcceptInv'  BY <1>1, CloseStep
  <1> QED  BY <1>1, <1>2, SameQueueKeeps

LEMMA ToConnectionStep ==
    ASSUME AcceptInv, NEW r \in Remotes, NEW p \in Ports, ToConnection(r, p)
    PROVE AcceptInv' /\ FreshKept
  <1> DEFINE i == Min(Matching(r, p))
  <1>1. Matching(r, p) \subseteq Nat /\ Matching(r, p) # {}
    BY AcceptAssumption DEF Matching, Sockets, ToConnection
  <1>2. i \in Matching(r, p)  BY <1>1, MinIn
  <1>3. UNCHANGED <<SYNQueue, now>> /\ (UNCHANGED sock \/ sock' = [sock EXCEPT ![i] = CloseSocket(sock[i])])
    BY DEF ToConnection
  <1> HIDE DEF i
  <1>4. i \in Sockets /\ sock[i].smState # "CLOSED"  BY <1>2 DEF Matching
  <1>5. sock[i] \in SocketType  BY <1>4 DEF AcceptInv, SocketsOK
  <1>6. AcceptInv'
    <2>1. CASE UNCHANGED sock  BY <1>3, <2>1 DEF AcceptInv
    <2>2. CASE sock' = [sock EXCEPT ![i] = CloseSocket(sock[i])]
      BY <1>3, <1>4, <1>5, <2>2, CloseStep
    <2> QED  BY <1>3, <2>1, <2>2
  <1> QED  BY <1>3, <1>6, SameQueueKeeps

LEMMA ToListenerStep ==
    ASSUME AcceptInv, NEW r \in Remotes, NEW p \in Ports, NEW flags, ToListener(r, p, flags)
    PROVE AcceptInv' /\ FreshKept
  <1> DEFINE i == Max(Listening(p))
             s == [sock[i] EXCEPT !.remote = r, !.remoteHash = <<r, p>>]
             b == Bound(s, r)
  <1>1. N \in Nat /\ Listening(p) \subseteq 0..N /\ Listening(p) # {}
    BY AcceptAssumption DEF Listening, Sockets, ToListener
  <1>2. i \in Listening(p)  BY <1>1, MaxIn
  <1>3. /\ UNCHANGED <<SYNQueue, now>>
        /\ sock' = [sock EXCEPT ![i] = IF flags = {"SYN"} THEN b ELSE CloseSocket(s)]
    BY DEF ToListener
  <1> HIDE DEF i
  <1>4. i \in Sockets /\ sock[i].smState = "LISTEN"  BY <1>2 DEF Listening
  <1>5. sock[i] \in SocketType /\ PortFits(sock[i])  BY <1>4 DEF AcceptInv, SocketsOK
  <1>6. <<r, p>> \in HashType  BY DEF HashType
  <1>7. s \in SocketType  BY <1>5, <1>6 DEF SocketType
  <1>8. s.smState = sock[i].smState /\ s.localPort = sock[i].localPort
    BY <1>5, Zenon DEF SocketType
  <1> HIDE DEF s
  <1>9. PortFits(s)  BY <1>5, <1>8 DEF PortFits
  <1>10. /\ b \in SocketType /\ HashFits(b) /\ b.localPort = s.localPort
         /\ (s.smState # "CLOSED" /\ PortFits(s) => PortFits(b))
    BY <1>7, BoundIs
  <1> HIDE DEF b
  <1>11. AcceptInv'
    <2>1. CASE flags = {"SYN"}
      <3>1. sock' = [sock EXCEPT ![i] = b]  BY <1>3, <2>1
      <3>2. PortFits(b) /\ b.localPort = sock[i].localPort  BY <1>4, <1>8, <1>9, <1>10
      <3> QED  BY <1>3, <1>4, <1>10, <3>1, <3>2, SocketChange
    <2>2. CASE flags # {"SYN"}
      <3>1. sock' = [sock EXCEPT ![i] = CloseSocket(s)]  BY <1>3, <2>2
      <3>2. sock[i].smState # "CLOSED"  BY <1>4
      <3> QED  BY <1>3, <1>4, <1>7, <1>8, <3>1, <3>2, CloseStep
    <2> QED  BY <2>1, <2>2
  <1> QED  BY <1>3, <1>11, SameQueueKeeps

\* While the last slot is free the searches visit all requests, which are the
\* slots before the first free one.
LEMMA VisitedIs ==
    ASSUME QueueOK(SYNQueue), SYNQueue[QueueLen].wDestPort = 0
    PROVE \E c \in 1..QueueLen :
             /\ SYNQueue[c].wDestPort = 0 /\ Visited = 1..(c - 1) /\ Held(SYNQueue) = Visited
             /\ Cardinality(Visited) + 1 = c
  <1> DEFINE Free == {w \in 1..QueueLen : SYNQueue[w].wDestPort = 0}
  <1>0. QueueLen \in Nat \ {0} /\ QueueLen \in 1..QueueLen  BY AcceptAssumption
  <1>1. QueueLen \in Free /\ Free \subseteq Nat  BY <1>0
  <1>2. Free # {}  BY <1>1
  <1> HIDE DEF Free
  <1>3. PICK c \in Free : \A w \in Free : c =< w  BY <1>1, <1>2, LeastNumber
  <1>4. c \in 1..QueueLen /\ SYNQueue[c].wDestPort = 0  BY <1>3 DEF Free
  <1>5. \A w \in 1..(c - 1) : w \in 1..QueueLen /\ SYNQueue[w].wDestPort # 0
    BY <1>0, <1>3, <1>4 DEF Free
  <1>6. Visited = 1..(c - 1)
    <2>1. ASSUME NEW w \in Visited PROVE w \in 1..(c - 1)
      <3>1. w \in 1..QueueLen /\ \A v \in 1..w : SYNQueue[v].wDestPort # 0  BY DEF Visited
      <3>2. c \notin 1..w  BY <1>4, <3>1
      <3> QED  BY <1>0, <1>4, <3>1, <3>2
    <2>2. ASSUME NEW w \in 1..(c - 1) PROVE w \in Visited
      <3>1. \A v \in 1..w : v \in 1..(c - 1)  BY <1>4
      <3> QED  BY <1>5, <3>1 DEF Visited
    <2> QED  BY <2>1, <2>2
  <1>7. Held(SYNQueue) = Visited
    <2>1. ASSUME NEW w \in Held(SYNQueue) PROVE w \in 1..(c - 1)
      <3>1. w \in 1..QueueLen /\ SYNQueue[w].wDestPort # 0  BY DEF Held
      <3>2. ~ (c < w)  BY <1>4, <3>1 DEF QueueOK, NoGap
      <3>3. c # w  BY <1>4, <3>1
      <3> QED  BY <1>0, <1>4, <3>1, <3>2, <3>3
    <2>2. ASSUME NEW w \in 1..(c - 1) PROVE w \in Held(SYNQueue)
      BY <1>5 DEF Held
    <2> QED  BY <1>6, <2>1, <2>2
  <1>8. Cardinality(1..(c - 1)) = c - 1
    <2>1. Cardinality(1..(c - 1)) = IF 1 > c - 1 THEN 0 ELSE (c - 1) - 1 + 1
      BY <1>4, FS_Interval
    <2> QED  BY <1>4, <2>1
  <1>9. Cardinality(Visited) + 1 = c  BY <1>4, <1>6, <1>8
  <1> QED  BY <1>4, <1>6, <1>7, <1>9

\* A new request behind the others.
LEMMA NewRequest ==
    ASSUME AcceptInv, NEW r \in Remotes, NEW p \in Ports, NEW c \in 1..QueueLen,
           SYNQueue[c].wDestPort = 0, Held(SYNQueue) = 1..(c - 1),
           \A w \in Held(SYNQueue) : ~ IsRequest(w, r, p),
           \E i \in Sockets : sock[i].localPort = p, UNCHANGED <<sock, now>>,
           SYNQueue' = [SYNQueue EXCEPT ![c] =
                          [source |-> r, wDestPort |-> p, wTimestamp |-> now, age |-> 0]]
    PROVE AcceptInv' /\ FreshKept
  <1> DEFINE e == [source |-> r, wDestPort |-> p, wTimestamp |-> now, age |-> 0]
  <1>0. QueueLen \in Nat /\ Timeout \in Nat /\ now \in 0..(WORD - 1) /\ p # 0 /\ p \in Nat
        /\ SYNQueue \in Queues /\ SYNQueue \in [1..QueueLen -> SlotType]
    BY AcceptAssumption DEF AcceptInv, QueueOK, Queues
  <1>1. e \in SlotType  BY <1>0 DEF SlotType
  <1>2. e.source = r /\ e.wDestPort = p /\ e.wTimestamp = now /\ e.age = 0  OBVIOUS
  <1>3. SYNQueue' = [SYNQueue EXCEPT ![c] = e]  OBVIOUS
  <1> HIDE DEF e
  <1>4. SYNQueue' \in Queues /\ SYNQueue'[c] = e
        /\ \A w \in 1..QueueLen : w # c => SYNQueue'[w] = SYNQueue[w]
    BY <1>0, <1>1, <1>3 DEF Queues
  <1>5. Held(SYNQueue') = 1..c
    <2>1. \A w \in 1..QueueLen : SYNQueue[w].wDestPort # 0 <=> w \in 1..(c - 1)
      BY DEF Held
    <2>2. \A w \in 1..QueueLen : SYNQueue'[w].wDestPort # 0 <=> w \in 1..c
      <3> SUFFICES ASSUME NEW w \in 1..QueueLen
                   PROVE SYNQueue'[w].wDestPort # 0 <=> w \in 1..c
        OBVIOUS
      <3>1. CASE w = c  BY <1>0, <1>2, <1>4, <3>1
      <3>2. CASE w # c
        <4>1. w \in 1..c <=> w \in 1..(c - 1)  BY <1>0, <3>2
        <4> QED  BY <1>4, <2>1, <3>2, <4>1
      <3> QED  BY <3>1, <3>2
    <2>3. \A w \in 1..c : w \in 1..QueueLen  BY <1>0
    <2> QED  BY <2>2, <2>3 DEF Held
  <1>6. \A w \in Held(SYNQueue') : w = c \/ w \in Held(SYNQueue)
    BY <1>0, <1>5
  <1>7. \A w \in Held(SYNQueue) : w # c /\ w \in 1..QueueLen /\ SYNQueue'[w] = SYNQueue[w] /\ w \in Held(SYNQueue')
    BY <1>0, <1>4, <1>5
  <1>8. NoGap(SYNQueue')
    <2> SUFFICES ASSUME NEW v \in 1..QueueLen, NEW w \in 1..QueueLen, v < w,
                        SYNQueue'[w].wDestPort # 0
                 PROVE SYNQueue'[v].wDestPort # 0
      BY DEF NoGap
    <2>1. w \in Held(SYNQueue')  BY DEF Held
    <2>2. v \in 1..c  BY <1>0, <1>5, <2>1
    <2>3. v \in Held(SYNQueue')  BY <1>5, <2>2
    <2> QED  BY <2>3 DEF Held
  <1>9. Distinct(SYNQueue')
    <2> SUFFICES ASSUME NEW v \in Held(SYNQueue'), NEW w \in Held(SYNQueue'),
                        SameRequest(SYNQueue'[v], SYNQueue'[w])
                 PROVE v = w
      BY DEF Distinct
    <2>1. \A x \in Held(SYNQueue) : ~ SameRequest(SYNQueue[x], e) /\ ~ SameRequest(e, SYNQueue[x])
      BY <1>2 DEF IsRequest, SameRequest
    <2>2. CASE v = c /\ w # c  BY <1>4, <1>6, <1>7, <2>1, <2>2
    <2>3. CASE v # c /\ w = c  BY <1>4, <1>6, <1>7, <2>1, <2>3
    <2>4. CASE v # c /\ w # c
      BY <1>6, <1>7, <2>4 DEF AcceptInv, QueueOK, Distinct
    <2> QED  BY <2>2, <2>3, <2>4
  <1>10. Served(SYNQueue', sock')
    <2> SUFFICES ASSUME NEW w \in Held(SYNQueue')
                 PROVE \E i \in Sockets : sock[i].localPort = SYNQueue'[w].wDestPort
      BY DEF Served
    <2>1. CASE w = c  BY <1>2, <1>4, <2>1
    <2>2. CASE w # c  BY <1>6, <1>7, <2>2 DEF AcceptInv, Served
    <2> QED  BY <2>1, <2>2
  <1>11. Young(SYNQueue', now')
    <2> SUFFICES ASSUME NEW w \in Held(SYNQueue'), SYNQueue'[w].age <= Timeout
                 PROVE now - SYNQueue'[w].wTimestamp <= SYNQueue'[w].age
      BY DEF Young
    <2>1. CASE w = c  BY <1>0, <1>2, <1>4, <2>1
    <2>2. CASE w # c  BY <1>6, <1>7, <2>2 DEF AcceptInv, Young
    <2> QED  BY <2>1, <2>2
  <1>12. SocketsOK(sock') /\ now' \in 0..(WORD - 1)  BY DEF AcceptInv
  <1>13. QueueOK(SYNQueue')  BY <1>4, <1>8, <1>9 DEF QueueOK
  <1>14. FreshKept  BY <1>7, RequestsAreHeld DEF FreshKept
  <1> QED  BY <1>10, <1>11, <1>12, <1>13, <1>14 DEF AcceptInv

\* A request that is in the queue gets a new age and timestamp, or time passes
\* for all requests: the slots stay where they are.
LEMMA SameSlots ==
    ASSUME AcceptInv, UNCHANGED sock, now' \in 0..(WORD - 1), SYNQueue' \in Queues,
           \A w \in 1..QueueLen : SameRequest(SYNQueue'[w], SYNQueue[w]),
           Young(SYNQueue', now')
    PROVE AcceptInv' /\ FreshKept
  <1>1. Held(SYNQueue') = Held(SYNQueue)  BY DEF Held, SameRequest
  <1>2. \A w \in Held(SYNQueue) : w \in 1..QueueLen  BY DEF Held
  <1>3. NoGap(SYNQueue')  BY DEF AcceptInv, QueueOK, NoGap, SameRequest
  <1>4. Distinct(SYNQueue')
    BY <1>1, <1>2 DEF AcceptInv, QueueOK, Distinct, SameRequest
  <1>5. Served(SYNQueue', sock')  BY <1>1, <1>2 DEF AcceptInv, Served, SameRequest
  <1>6. SocketsOK(sock') /\ QueueOK(SYNQueue')  BY <1>3, <1>4 DEF AcceptInv, QueueOK
  <1>7. FreshKept  BY <1>1, <1>2, RequestsAreHeld DEF FreshKept, SameRequest
  <1> QED  BY <1>5, <1>6, <1>7 DEF AcceptInv

LEMMA ToQueueStep ==
    ASSUME AcceptInv, NEW r \in Remotes, NEW p \in Ports, NEW flags, ToQueue(r, p, flags)
    PROVE AcceptInv' /\ FreshKept
  <1> DEFINE known == {w \in Visited : IsRequest(w, r, p)}
             m == Min(known)
  <1>0. QueueLen \in Nat /\ Timeout \in Nat /\ now \in 0..(WORD - 1) /\ QueueOK(SYNQueue)
        /\ SYNQueue \in [1..QueueLen -> SlotType]
    BY AcceptAssumption DEF AcceptInv, QueueOK, Queues
  <1>1. PICK c \in 1..QueueLen :
             /\ SYNQueue[c].wDestPort = 0 /\ Visited = 1..(c - 1) /\ Held(SYNQueue) = Visited
             /\ Cardinality(Visited) + 1 = c
    BY <1>0, VisitedIs DEF ToQueue
  <1>2. CASE known # {}
    <2>1. SYNQueue' = [SYNQueue EXCEPT ![m].wTimestamp = now, ![m].age = 0]
          /\ UNCHANGED <<sock, now>>
      BY <1>2 DEF ToQueue
    <2>2. known \subseteq Nat  BY <1>1
    <2>3. m \in known  BY <1>2, <2>2, MinIn
    <2>4. m \in 1..QueueLen  BY <2>3 DEF Visited
    <2> HIDE DEF m, known
    <2> DEFINE t == SYNQueue[m]
               e == [[t EXCEPT !.wTimestamp = now] EXCEPT !.age = 0]
    <2>5. t \in SlotType  BY <1>0, <2>4
    <2>6. SYNQueue'[m] = e /\ (\A w \in 1..QueueLen : w # m => SYNQueue'[w] = SYNQueue[w])
          /\ SYNQueue' = [w \in 1..QueueLen |-> SYNQueue'[w]]
      BY <1>0, <2>1, <2>4
    <2> HIDE DEF t
    <2>7. e.source = t.source /\ e.wDestPort = t.wDestPort /\ e.wTimestamp = now /\ e.age = 0
      BY <2>5, Zenon DEF SlotType
    <2>8. e \in SlotType
      <3> DEFINE d == [t EXCEPT !.wTimestamp = now]
      <3>1. 0 \in 0..(Timeout + 1)  BY <1>0
      <3>2. d \in SlotType  BY <1>0, <2>5 DEF SlotType
      <3> HIDE DEF d
      <3>3. [d EXCEPT !.age = 0] \in SlotType  BY <3>1, <3>2 DEF SlotType
      <3> QED  BY <3>3 DEF d
    <2> HIDE DEF e
    <2>9. \A w \in 1..QueueLen : SYNQueue'[w] \in SlotType  BY <1>0, <2>6, <2>8
    <2>10. SYNQueue' \in Queues  BY <2>6, <2>9 DEF Queues
    <2>11. ASSUME NEW w \in 1..QueueLen PROVE SameRequest(SYNQueue'[w], SYNQueue[w])
      BY <2>6, <2>7 DEF SameRequest, t
    <2>12. Young(SYNQueue', now')
      <3> SUFFICES ASSUME NEW w \in Held(SYNQueue'), SYNQueue'[w].age <= Timeout
                   PROVE now - SYNQueue'[w].wTimestamp <= SYNQueue'[w].age
        BY <2>1 DEF Young
      <3>1. w \in 1..QueueLen /\ SYNQueue'[w].wDestPort # 0  BY DEF Held
      <3>2. CASE w = m  BY <1>0, <2>6, <2>7, <3>2
      <3>3. CASE w # m
        <4>1. SYNQueue'[w] = SYNQueue[w]  BY <2>6, <3>1, <3>3
        <4>2. w \in Held(SYNQueue)  BY <3>1, <4>1 DEF Held
        <4> QED  BY <4>1, <4>2 DEF AcceptInv, Young
      <3> QED  BY <3>2, <3>3
    <2> QED  BY <1>0, <2>1, <2>10, <2>11, <2>12, SameSlots
  <1>3. CASE known = {}
    <2>1. /\ \E i \in Sockets : sock[i].localPort = p
          /\ SYNQueue' = [SYNQueue EXCEPT ![Cardinality(Visited) + 1] =
               [source |-> r, wDestPort |-> p, wTimestamp |-> now, age |-> 0]]
          /\ UNCHANGED <<sock, now>>
      BY <1>3 DEF ToQueue
    <2>2. SYNQueue' = [SYNQueue EXCEPT ![c] =
               [source |-> r, wDestPort |-> p, wTimestamp |-> now, age |-> 0]]
      BY <1>1, <2>1
    <2>3. \A w \in Held(SYNQueue) : ~ IsRequest(w, r, p)  BY <1>1, <1>3
    <2>4. Held(SYNQueue) = 1..(c - 1) /\ SYNQueue[c].wDestPort = 0  BY <1>1
    <2> QED  BY <2>1, <2>2, <2>3, <2>4, NewRequest
  <1> QED  BY <1>2, <1>3

LEMMA TimeStep ==
    ASSUME AcceptInv, TimePasses
    PROVE AcceptInv' /\ FreshKept
  <1>0. QueueLen \in Nat /\ Timeout \in Nat /\ WORD \in Nat /\ WORD > 0 /\ now \in 0..(WORD - 1)
        /\ SYNQueue \in [1..QueueLen -> SlotType]
    BY AcceptAssumption DEF AcceptInv, QueueOK, Queues
  <1>1. UNCHANGED sock /\ now' = (now + 1) % WORD  BY DEF TimePasses
  <1>2. now' \in 0..(WORD - 1) /\ now' <= now + 1
    <2>1. CASE now + 1 < WORD
      <3>1. now + 1 \in Nat /\ now + 1 \in 0..(WORD - 1)  BY <1>0, <2>1
      <3>2. (now + 1) % WORD = now + 1  BY <1>0, <3>1
      <3> QED  BY <1>1, <3>1, <3>2
    <2>2. CASE ~ (now + 1 < WORD)
      <3>1. now + 1 = WORD  BY <1>0, <2>2
      <3>2. WORD % WORD = 0  BY <1>0
      <3> QED  BY <1>0, <1>1, <3>1, <3>2
    <2> QED  BY <2>1, <2>2
  <1>3. ASSUME NEW w \in 1..QueueLen
        PROVE /\ SYNQueue'[w] \in SlotType /\ SameRequest(SYNQueue'[w], SYNQueue[w])
              /\ SYNQueue'[w].wTimestamp = SYNQueue[w].wTimestamp
              /\ SYNQueue[w].wDestPort # 0 /\ SYNQueue[w].age <= Timeout =>
                    SYNQueue'[w].age = SYNQueue[w].age + 1
              /\ ~ (SYNQueue[w].age <= Timeout) => SYNQueue'[w] = SYNQueue[w]
    <2> DEFINE t == SYNQueue[w]
               e == [t EXCEPT !.age = @ + 1]
    <2>1. SYNQueue'[w] = IF t.wDestPort = 0 \/ t.age > Timeout THEN t ELSE e
      BY DEF TimePasses
    <2>2. t \in SlotType  BY <1>0
    <2> HIDE DEF t
    <2>3. t.age \in Nat  BY <1>0, <2>2 DEF SlotType
    <2>4. e.source = t.source /\ e.wDestPort = t.wDestPort /\ e.wTimestamp = t.wTimestamp
          /\ e.age = t.age + 1
      BY <2>2, Zenon DEF SlotType
    <2>5. t.age <= Timeout => e \in SlotType  BY <1>0, <2>2, <2>3 DEF SlotType
    <2>6. t.age > Timeout <=> ~ (t.age <= Timeout)  BY <1>0, <2>3
    <2> HIDE DEF e
    <2> QED  BY <2>1, <2>2, <2>4, <2>5, <2>6 DEF SameRequest, t
  <1>4. SYNQueue' \in Queues
    <2>1. SYNQueue' = [w \in 1..QueueLen |-> SYNQueue'[w]]  BY DEF TimePasses
    <2> QED  BY <1>3, <2>1 DEF Queues
  <1>5. Young(SYNQueue', now')
    <2> SUFFICES ASSUME NEW w \in Held(SYNQueue'), SYNQueue'[w].age <= Timeout
                 PROVE now' - SYNQueue'[w].wTimestamp <= SYNQueue'[w].age
      BY DEF Young
    <2>1. w \in 1..QueueLen /\ SYNQueue'[w].wDestPort # 0  BY DEF Held
    <2>2. w \in Held(SYNQueue) /\ SYNQueue[w].wDestPort # 0
      BY <1>3, <2>1 DEF Held, SameRequest
    <2>3. SYNQueue[w].age <= Timeout  BY <1>3, <2>1
    <2>4. now - SYNQueue[w].wTimestamp <= SYNQueue[w].age  BY <2>2, <2>3 DEF AcceptInv, Young
    <2>5. SYNQueue'[w].age = SYNQueue[w].age + 1 /\ SYNQueue'[w].wTimestamp = SYNQueue[w].wTimestamp
      BY <1>3, <2>1, <2>2, <2>3
    <2>6. SYNQueue[w].wTimestamp \in Nat /\ SYNQueue[w].age \in Nat
      BY <1>0, <2>1 DEF SlotType
    <2> QED  BY <1>0, <1>2, <2>4, <2>5, <2>6
  <1> QED  BY <1>1, <1>2, <1>3, <1>4, <1>5, SameSlots

\* No request waits beside a socket that listened on its port in the whole round.
NoneBeside ==
    \A i \in Sockets, w \in Requests' :
        sock[i].smState = "LISTEN" /\ sock'[i].smState = "LISTEN"
           => SYNQueue'[w].wDestPort # sock[i].localPort

LEMMA TickStep ==
    ASSUME AcceptInv, TCPTick
    PROVE AcceptInv' /\ FreshKept /\ NoneBeside
  <1>1. PICK ended \in SUBSET {i \in Sockets : sock[i].smState = "BOUND"} :
             /\ sock' = Round(ended).sock
             /\ SYNQueue' = Expire(Round(ended).queue)
             /\ UNCHANGED now
    BY DEF TCPTick
  <1> DEFINE r == Round(ended)
             q == r.queue
  <1>2. SocketsOK(sock) /\ QueueOK(SYNQueue)  BY DEF AcceptInv
  <1>3. SocketsOK(r.sock) /\ QueueOK(q) /\ RoundFacts(r, N)  BY <1>2, RoundKeeps
  <1>4. sock' = r.sock /\ SYNQueue' = Expire(q) /\ UNCHANGED now  BY <1>1
  <1> HIDE DEF r
  <1>5. /\ Expire(q) \in Queues /\ NoGap(Expire(q)) /\ Distinct(Expire(q))
        /\ Within(Expire(q), q)
        /\ \A u \in Held(q) : ~ Expired(q[u]) => \E v \in Held(Expire(q)) : Expire(q)[v] = q[u]
    BY <1>3, ExpireKeeps DEF QueueOK
  <1> HIDE DEF q
  <1>6. Within(q, SYNQueue)  BY <1>3 DEF RoundFacts, q
  <1>7. Within(SYNQueue', q) /\ Within(SYNQueue', SYNQueue)  BY <1>4, <1>5, <1>6, WithinPart
  <1>8. \A i \in Sockets : sock'[i].localPort = sock[i].localPort  BY <1>3, <1>4 DEF RoundFacts
  <1>9. Served(SYNQueue', sock')
    <2> SUFFICES ASSUME NEW w \in Held(SYNQueue')
                 PROVE \E i \in Sockets : sock'[i].localPort = SYNQueue'[w].wDestPort
      BY DEF Served
    <2>1. PICK u \in Held(SYNQueue) : SYNQueue'[w] = SYNQueue[u]  BY <1>7 DEF Within
    <2>2. PICK i \in Sockets : sock[i].localPort = SYNQueue[u].wDestPort
      BY DEF AcceptInv, Served
    <2> QED  BY <1>8, <2>1, <2>2
  <1>10. Young(SYNQueue', now')
    <2> SUFFICES ASSUME NEW w \in Held(SYNQueue'), SYNQueue'[w].age <= Timeout
                 PROVE now - SYNQueue'[w].wTimestamp <= SYNQueue'[w].age
      BY <1>4 DEF Young
    <2>1. PICK u \in Held(SYNQueue) : SYNQueue'[w] = SYNQueue[u]  BY <1>7 DEF Within
    <2> QED  BY <2>1 DEF AcceptInv, Young
  <1>11. AcceptInv'
    <2>1. SocketsOK(sock')  BY <1>3, <1>4
    <2>2. QueueOK(SYNQueue')  BY <1>4, <1>5 DEF QueueOK
    <2>3. now' \in 0..(WORD - 1)  BY <1>4 DEF AcceptInv
    <2> QED  BY <1>9, <1>10, <2>1, <2>2, <2>3 DEF AcceptInv
  <1>12. FreshKept
    <2> SUFFICES ASSUME NEW w \in Held(SYNQueue), SYNQueue[w].age <= Timeout
                 PROVE \/ \E v \in Held(SYNQueue') : SYNQueue'[v] = SYNQueue[w]
                       \/ \E i \in Sockets : sock'[i].remoteHash = <<SYNQueue[w].source, SYNQueue[w].wDestPort>>
      BY RequestsAreHeld DEF FreshKept
    <2>1. ~ Expired(SYNQueue[w])
      <3>1. now - SYNQueue[w].wTimestamp <= SYNQueue[w].age  BY DEF AcceptInv, Young
      <3>2. w \in 1..QueueLen  BY DEF Held
      <3>3. SYNQueue[w] \in SlotType /\ now \in 0..(WORD - 1)
        BY <3>2 DEF AcceptInv, QueueOK, Queues
      <3>4. SYNQueue[w].wTimestamp \in Nat /\ SYNQueue[w].age \in Nat /\ now \in Nat /\ Timeout \in Nat
        BY <3>3, AcceptAssumption DEF SlotType
      <3> QED  BY <3>1, <3>4 DEF Expired
    <2>2. \/ \E v \in Held(q) : q[v] = SYNQueue[w]
          \/ \E i \in 1..N : r.sock[i].remoteHash = <<SYNQueue[w].source, SYNQueue[w].wDestPort>>
      BY <1>3 DEF RoundFacts, q
    <2>3. CASE \E v \in Held(q) : q[v] = SYNQueue[w]
      <3>1. PICK v \in Held(q) : q[v] = SYNQueue[w]  BY <2>3
      <3>2. ~ Expired(q[v])  BY <2>1, <3>1
      <3>3. PICK x \in Held(Expire(q)) : Expire(q)[x] = q[v]  BY <1>5, <3>2
      <3> QED  BY <1>4, <3>1, <3>3
    <2>4. CASE \E i \in 1..N : r.sock[i].remoteHash = <<SYNQueue[w].source, SYNQueue[w].wDestPort>>
      BY <1>4, <2>4 DEF Sockets
    <2> QED  BY <2>2, <2>3, <2>4
  <1>13. NoneBeside
    <2> SUFFICES ASSUME NEW i \in Sockets, NEW w \in Held(SYNQueue'),
                        sock[i].smState = "LISTEN", sock'[i].smState = "LISTEN"
                 PROVE SYNQueue'[w].wDestPort # sock[i].localPort
      BY RequestsAreHeld DEF NoneBeside
    <2>1. PICK u \in Held(q) : SYNQueue'[w] = q[u]  BY <1>7 DEF Within
    <2>2. i \in 1..N /\ r.sock[i].smState = "LISTEN"  BY <1>4 DEF Sockets
    <2>3. q[u].wDestPort # sock[i].localPort  BY <1>3, <2>2 DEF RoundFacts, q
    <2> QED  BY <2>1, <2>3
  <1> QED  BY <1>11, <1>12, <1>13

LEMMA AcceptStep ==
    ASSUME AcceptInv, [AcceptNext]_acceptVars
    PROVE AcceptInv' /\ (AcceptNext => FreshKept) /\ (TCPTick => NoneBeside)
  <1>1. CASE UNCHANGED acceptVars
    <2>1. UNCHANGED <<sock, SYNQueue, now>>  BY <1>1 DEF acceptVars
    <2>2. AcceptInv'  BY <2>1 DEF AcceptInv
    <2> QED  BY <2>1, <2>2, SameQueueKeeps, TickStep
  <1>2. CASE \E p \in Ports : TCPOpen(p)  BY <1>2, OpenStep, TickStep
  <1>3. CASE \E i \in Sockets : TCPDisconnect(i)  BY <1>3, DisconnectStep, TickStep
  <1>4. CASE TCPProcess
    <2>1. PICK r \in Remotes, p \in Ports, flags \in {{"SYN"}, {"SYN", "ACK"}, {"ACK"}, {"RST"}} :
              ToConnection(r, p) \/ ToListener(r, p, flags) \/ ToQueue(r, p, flags)
      BY <1>4 DEF TCPProcess
    <2>2. AcceptInv' /\ FreshKept
      BY <2>1, ToConnectionStep, ToListenerStep, ToQueueStep
    <2> QED  BY <2>2, TickStep
  <1>5. CASE TCPTick  BY <1>5, TickStep
  <1>6. CASE TimePasses  BY <1>6, TimeStep, TickStep
  <1> QED  BY <1>1, <1>2, <1>3, <1>4, <1>5, <1>6 DEF AcceptNext

\* The invariant implies the properties that the run checks.
LEMMA AcceptInvImplies ==
    ASSUME AcceptInv PROVE AcceptTypeOK /\ HashFollowsState /\ QueueCompact
  <1>1. AcceptTypeOK
    BY DEF AcceptInv, AcceptTypeOK, SocketsOK, SocketType, HashType, QueueOK, Queues, SlotType
  <1>2. HashFollowsState  BY DEF AcceptInv, SocketsOK, HashFits, HashFollowsState
  <1>3. QueueCompact
    <2>1. \A w \in Held(SYNQueue) : w \in 1..QueueLen  BY DEF Held
    <2>2. \A v, w \in 1..QueueLen : v < w /\ w \in Held(SYNQueue) => v \in Held(SYNQueue)
      BY DEF AcceptInv, QueueOK, NoGap, Held
    <2>3. \A v, w \in Held(SYNQueue) :
            SYNQueue[v].source = SYNQueue[w].source /\ SYNQueue[v].wDestPort = SYNQueue[w].wDestPort
              => v = w
      BY DEF AcceptInv, QueueOK, Distinct, SameRequest
    <2>4. \A w \in Held(SYNQueue) : \E i \in Sockets : sock[i].localPort = SYNQueue[w].wDestPort
      BY DEF AcceptInv, Served
    <2> QED  BY <2>2, <2>3, <2>4, RequestsAreHeld DEF QueueCompact
  <1> QED  BY <1>1, <1>2, <1>3

\* The invariant holds in every state.
THEOREM AcceptInvariance == AcceptSpec => []AcceptInv
  <1>1. AcceptInit => AcceptInv  BY AcceptInitially
  <1>2. AcceptInv /\ [AcceptNext]_acceptVars => AcceptInv'  BY AcceptStep
  <1> QED  BY <1>1, <1>2, PTL DEF AcceptSpec

\* The types, for any number of sockets, slots, ports and remote nodes.
THEOREM AcceptTypeCorrect == AcceptSpec => []AcceptTypeOK
  <1>1. AcceptInv => AcceptTypeOK  BY AcceptInvImplies
  <1> QED  BY <1>1, AcceptInvariance, PTL

\* FindMatchingSocket() never loses a socket: whatever ended its connection, a
\* listening socket is found under its port, a connected one under its remote node.
THEOREM SocketsAreFound == AcceptSpec => []HashFollowsState
  <1>1. AcceptInv => HashFollowsState  BY AcceptInvImplies
  <1> QED  BY <1>1, AcceptInvariance, PTL

\* However requests come, are served and expire, the SYN queue has no gap, holds
\* each request once, and only requests for a port that some socket serves.
THEOREM QueueStaysCompact == AcceptSpec => []QueueCompact
  <1>1. AcceptInv => QueueCompact  BY AcceptInvImplies
  <1> QED  BY <1>1, AcceptInvariance, PTL

\* After a round of TCPTick() no request waits while a socket that listened on
\* its port all the time still does.
THEOREM NobodyWaitsInVain == AcceptSpec => NoneWaitsBesideListener
  <1>1. AcceptInv /\ [AcceptNext]_acceptVars =>
          [TCPTick => \A i \in Sockets, w \in Requests' :
             sock[i].smState = "LISTEN" /\ sock'[i].smState = "LISTEN"
                => SYNQueue'[w].wDestPort # sock[i].localPort]_acceptVars
    BY AcceptStep DEF NoneBeside
  <1> QED  BY <1>1, AcceptInvariance, PTL DEF AcceptSpec, NoneWaitsBesideListener

\* A request that is not too old leaves the SYN queue only to be accepted,
\* although its age is the difference of two WORDs of a clock that wraps.
THEOREM FreshRequestsStay == AcceptSpec => FreshRequestKept
  <1>1. AcceptInv /\ [AcceptNext]_acceptVars =>
          [\A w \in Requests : SYNQueue[w].age <= Timeout =>
             \/ \E v \in Requests' : /\ SYNQueue'[v].source = SYNQueue[w].source
                                     /\ SYNQueue'[v].wDestPort = SYNQueue[w].wDestPort
             \/ \E i \in Sockets : sock'[i].remoteHash = <<SYNQueue[w].source, SYNQueue[w].wDestPort>>]_acceptVars
    BY AcceptStep DEF FreshKept
  <1> QED  BY <1>1, AcceptInvariance, PTL DEF AcceptSpec, FreshRequestKept

-----------------------------------------------------------------------------
(* The receive ring. The place of a byte is its distance from rxTail, so   *)
(* that nothing below depends on where the ring wraps.                     *)

Dist(start, t, a) == IF a >= t THEN a - t ELSE a - t + (BufferEnd - start + 1)

\* What the FIFO has at distance o: received data, or data beyond the hole.
Stored(o, r, hole, future) ==
    o < r \/ (hole # NoHole /\ r + hole <= o /\ o < r + hole + future)

\* A ring from start on, with its pointers, the next sequence number, the hole
\* and the memory: everything it has stored is the byte the remote node sent.
Ring(start, t, h, seq, hole, future, mem) ==
    /\ start \in 1..BufferEnd-1 /\ t \in start..BufferEnd /\ h \in start..BufferEnd
    /\ seq \in 0..MaxRx /\ future \in Nat /\ mem \in [0..BufferEnd -> Bytes \cup {Junk}]
    /\ \/ hole = NoHole
       \/ /\ hole \in Nat /\ hole >= 1 /\ seq + hole + future <= MaxRx
          /\ Dist(start, t, h) + hole + future <= BufferEnd - start
    /\ \A a \in start..BufferEnd :
          Stored(Dist(start, t, a), Dist(start, t, h), hole, future) =>
             mem[a] = seq - Dist(start, t, h) + Dist(start, t, a)

LEMMA BufferNumbers == BufferEnd \in Nat /\ BufferEnd >= 2 /\ MaxRx \in Nat
  BY FifoAssumption

\* Going on i bytes and counting how far one has come are inverse.
LEMMA WrapDist ==
    ASSUME NEW start \in 1..BufferEnd-1, NEW t \in start..BufferEnd, NEW i \in Nat,
           i <= BufferEnd - start
    PROVE /\ Wrap(start, t + i) \in start..BufferEnd
          /\ Dist(start, t, Wrap(start, t + i)) = i
          /\ \A a \in start..BufferEnd : Dist(start, t, a) = i => a = Wrap(start, t + i)
  BY BufferNumbers DEF Wrap, Dist

LEMMA DistNat ==
    ASSUME NEW start \in 1..BufferEnd-1, NEW t \in start..BufferEnd, NEW a \in start..BufferEnd
    PROVE Dist(start, t, a) \in 0..(BufferEnd - start)
  BY BufferNumbers DEF Dist

\* The distances from two places of the ring.
LEMMA DistAdd ==
    ASSUME NEW start \in 1..BufferEnd-1, NEW t \in start..BufferEnd, NEW h \in start..BufferEnd,
           NEW a \in start..BufferEnd
    PROVE Dist(start, t, a) =
             IF Dist(start, t, h) + Dist(start, h, a) <= BufferEnd - start
             THEN Dist(start, t, h) + Dist(start, h, a)
             ELSE Dist(start, t, h) + Dist(start, h, a) - (BufferEnd - start + 1)
  BY BufferNumbers DEF Dist

\* Reading n bytes leaves a ring.
LEMMA RingRead ==
    ASSUME NEW start, NEW t, NEW h, NEW seq, NEW hole, NEW future, NEW mem,
           Ring(start, t, h, seq, hole, future, mem),
           NEW n \in Nat, n <= Dist(start, t, h)
    PROVE LET u == Wrap(start, t + n)
          IN  /\ Ring(start, u, h, seq, hole, future, mem)
              /\ Dist(start, u, h) = Dist(start, t, h) - n
  <1> DEFINE u == Wrap(start, t + n)
             r == Dist(start, t, h)
  <1>1. start \in 1..BufferEnd-1 /\ t \in start..BufferEnd /\ h \in start..BufferEnd
        /\ BufferEnd \in Nat /\ seq \in Nat
    BY BufferNumbers DEF Ring
  <1>2. r \in 0..(BufferEnd - start)  BY <1>1, DistNat
  <1>3. n <= BufferEnd - start  BY <1>1, <1>2
  <1>4. u \in start..BufferEnd /\ Dist(start, t, u) = n  BY <1>1, <1>3, WrapDist
  <1> HIDE DEF u
  <1>5. \A a \in start..BufferEnd :
           /\ Dist(start, u, a) \in 0..(BufferEnd - start)
           /\ Dist(start, t, a) = IF n + Dist(start, u, a) <= BufferEnd - start
                                  THEN n + Dist(start, u, a)
                                  ELSE n + Dist(start, u, a) - (BufferEnd - start + 1)
    BY <1>1, <1>4, DistAdd, DistNat
  <1>6. Dist(start, u, h) = r - n
    <2>1. /\ Dist(start, u, h) \in 0..(BufferEnd - start)
          /\ r = IF n + Dist(start, u, h) <= BufferEnd - start
                 THEN n + Dist(start, u, h)
                 ELSE n + Dist(start, u, h) - (BufferEnd - start + 1)
      BY <1>1, <1>5
    <2> HIDE DEF r
    <2>2. n <= r  BY DEF r
    <2> QED  BY <1>1, <1>2, <2>1, <2>2
  <1> HIDE DEF r
  <1>7. /\ seq \in 0..MaxRx /\ future \in Nat /\ mem \in [0..BufferEnd -> Bytes \cup {Junk}]
        /\ \/ hole = NoHole
           \/ hole \in Nat /\ hole >= 1 /\ seq + hole + future <= MaxRx /\ r + hole + future <= BufferEnd - start
        /\ \A a \in start..BufferEnd :
             Stored(Dist(start, t, a), r, hole, future) => mem[a] = seq - r + Dist(start, t, a)
    BY DEF Ring, r
  <1>8. ASSUME NEW a \in start..BufferEnd, Stored(Dist(start, u, a), r - n, hole, future)
        PROVE mem[a] = seq - (r - n) + Dist(start, u, a)
    <2> DEFINE o == Dist(start, t, a)
               p == Dist(start, u, a)
    <2>1. p \in 0..(BufferEnd - start) /\ n <= r /\ r \in 0..(BufferEnd - start)
          /\ o = IF n + p <= BufferEnd - start THEN n + p ELSE n + p - (BufferEnd - start + 1)
      BY <1>2, <1>5 DEF r
    <2>2. Stored(p, r - n, hole, future)  BY <1>8
    <2>3. Stored(o, r, hole, future) => mem[a] = seq - r + o  BY <1>7
    <2> HIDE DEF o, p
    <2>4. n + p <= BufferEnd - start
      BY <1>1, <1>7, <2>1, <2>2, BufferNumbers DEF Stored
    <2>5. o = n + p  BY <2>1, <2>4
    <2>6. Stored(o, r, hole, future)
      BY <1>1, <1>7, <2>1, <2>2, <2>5, BufferNumbers DEF Stored, NoHole
    <2> QED  BY <1>1, <2>1, <2>3, <2>5, <2>6 DEF p
  <1>9. r - n \in Nat /\ r - n <= r  BY <1>2 DEF r
  <1>10. hole = NoHole \/ (hole \in Nat /\ hole >= 1 /\ seq + hole + future <= MaxRx /\ (r - n) + hole + future <= BufferEnd - start)
    BY <1>1, <1>2, <1>7, BufferNumbers
  <1>11. Ring(start, u, h, seq, hole, future, mem)
    BY <1>1, <1>4, <1>6, <1>7, <1>8, <1>10 DEF Ring
  <1> QED  BY <1>6, <1>11 DEF u, r

\* When the bytes that were read are all there are, the pointers meet.
LEMMA ReadAll ==
    ASSUME NEW start \in 1..BufferEnd-1, NEW t \in start..BufferEnd, NEW h \in start..BufferEnd
    PROVE Wrap(start, t + Dist(start, t, h)) = h
  BY DistNat, WrapDist, BufferNumbers

\* The memory when n bytes of text are stored in order, from the head on.
TextStored(new, mem, start, h, seq, n) ==
    /\ new \in [0..BufferEnd -> Bytes \cup {Junk}]
    /\ \A a \in start..BufferEnd :
          new[a] = IF Dist(start, h, a) < n THEN seq + Dist(start, h, a) ELSE mem[a]

\* n bytes of text are stored in order, from the head on, and the head goes on
\* over them and over the future data if they close the hole.
LEMMA RingInOrder ==
    ASSUME NEW start, NEW t, NEW h, NEW seq, NEW hole, NEW future, NEW mem,
           Ring(start, t, h, seq, hole, future, mem),
           NEW n \in Nat, n >= 1, Dist(start, t, h) + n <= BufferEnd - start, seq + n <= MaxRx,
           NEW new, TextStored(new, mem, start, h, seq, n),
           NEW f, f = FillHole(hole, future, n),
           NEW g, g = Wrap(start, Wrap(start, h + n) + f.jump)
    PROVE /\ Ring(start, t, g, seq + n + f.jump, f.hole, future, new)
          /\ Dist(start, t, g) = Dist(start, t, h) + n + f.jump
          /\ f.jump \in Nat
  <1> DEFINE j == f.jump
             x == f.hole
             r == Dist(start, t, h)
  <1>1. start \in 1..BufferEnd-1 /\ t \in start..BufferEnd /\ h \in start..BufferEnd
        /\ BufferEnd \in Nat /\ seq \in 0..MaxRx /\ future \in Nat /\ MaxRx \in Nat
    BY BufferNumbers DEF Ring
  <1>2. r \in 0..(BufferEnd - start) /\ r + n <= BufferEnd - start  BY <1>1, DistNat
  <1> HIDE DEF r
  <1>3. /\ \/ hole = NoHole
           \/ hole \in Nat /\ hole >= 1 /\ seq + hole + future <= MaxRx /\ r + hole + future <= BufferEnd - start
        /\ \A a \in start..BufferEnd :
             Stored(Dist(start, t, a), r, hole, future) => mem[a] = seq - r + Dist(start, t, a)
    BY DEF Ring, r
  <1>4. \/ j = 0 /\ x = NoHole
        \/ j = 0 /\ hole # NoHole /\ x = hole - n /\ x >= 1
        \/ hole # NoHole /\ x = NoHole /\ j = future + hole - n /\ j >= 0 /\ hole <= n
    BY <1>1, <1>3 DEF FillHole, NoHole
  <1> HIDE DEF j, x
  <1>5. /\ j \in Nat /\ r + n + j <= BufferEnd - start /\ seq + n + j <= MaxRx
        /\ \/ x = NoHole
           \/ x \in Nat /\ x >= 1 /\ (seq + n + j) + x + future <= MaxRx
              /\ (r + n + j) + x + future <= BufferEnd - start
    <2>1. CASE j = 0 /\ x = NoHole  BY <1>1, <1>2, <2>1
    <2>2. CASE j = 0 /\ hole # NoHole /\ x = hole - n /\ x >= 1
      <3>1. hole \in Nat /\ seq + hole + future <= MaxRx /\ r + hole + future <= BufferEnd - start
        BY <1>3, <2>2
      <3>2. x \in Nat /\ (seq + n + j) + x + future = seq + hole + future
            /\ (r + n + j) + x + future = r + hole + future
        BY <1>1, <1>2, <2>2, <3>1
      <3> QED  BY <1>1, <1>2, <2>2, <3>1, <3>2
    <2>3. CASE hole # NoHole /\ x = NoHole /\ j = future + hole - n /\ j >= 0 /\ hole <= n
      BY <1>1, <1>2, <1>3, <2>3
    <2> QED  BY <1>4, <2>1, <2>2, <2>3
  <1>6. g \in start..BufferEnd /\ Dist(start, t, g) = r + n + j
    <2>1. r = Dist(start, t, h)  BY DEF r
    <2>2. Wrap(start, t + (r + n + j)) = g
      <3>1. g = Wrap(start, Wrap(start, h + n) + j)  BY DEF j
      <3>2. Wrap(start, h + n) = Wrap(start, t + (r + n))
        BY <1>1, <1>2, <2>1 DEF Wrap, Dist
      <3>3. Wrap(start, Wrap(start, t + (r + n)) + j) = Wrap(start, t + (r + n + j))
        BY <1>1, <1>2, <1>5 DEF Wrap
      <3> QED  BY <3>1, <3>2, <3>3
    <2>3. r + n + j \in Nat  BY <1>1, <1>2, <1>5
    <2> QED  BY <1>1, <1>5, <2>2, <2>3, WrapDist
  <1>7. ASSUME NEW a \in start..BufferEnd, Stored(Dist(start, t, a), r + n + j, x, future)
        PROVE new[a] = (seq + n + j) - (r + n + j) + Dist(start, t, a)
    <2> DEFINE o == Dist(start, t, a)
               d == Dist(start, h, a)
    <2>1. o \in 0..(BufferEnd - start) /\ d \in 0..(BufferEnd - start)
          /\ o = IF r + d <= BufferEnd - start THEN r + d ELSE r + d - (BufferEnd - start + 1)
      BY <1>1, DistNat, DistAdd DEF r
    <2>2. new[a] = IF d < n THEN seq + d ELSE mem[a]  BY DEF TextStored
    <2>3. Stored(o, r, hole, future) => mem[a] = seq - r + o  BY <1>3
    <2>4. Stored(o, r + n + j, x, future)  BY <1>7
    <2> HIDE DEF o, d
    <2>5. CASE d < n
      <3>1. o = r + d  BY <1>1, <1>2, <2>1, <2>5
      <3> QED  BY <1>1, <1>2, <1>5, <2>1, <2>2, <2>5, <3>1 DEF o
    <2>6. CASE ~ (d < n)
      <3>1. Stored(o, r, hole, future)
        <4>1. o < r \/ (o = r + d /\ o >= r + n)  BY <1>1, <1>2, <2>1, <2>6
        <4>2. CASE o < r  BY <4>2 DEF Stored
        <4>3. CASE o = r + d /\ o >= r + n
          <5>1. CASE j = 0 /\ x = NoHole
            BY <1>1, <1>2, <2>1, <2>4, <4>3, <5>1 DEF Stored
          <5>2. CASE j = 0 /\ hole # NoHole /\ x = hole - n /\ x >= 1
            BY <1>1, <1>2, <1>3, <2>1, <2>4, <4>3, <5>2 DEF Stored
          <5>3. CASE hole # NoHole /\ x = NoHole /\ j = future + hole - n /\ j >= 0 /\ hole <= n
            <6>1. hole \in Nat  BY <1>3, <5>3
            <6>2. o < r + n + j  BY <2>4, <5>3 DEF Stored
            <6>3. r + hole <= o /\ o < r + hole + future
              BY <1>1, <1>2, <2>1, <4>3, <5>3, <6>1, <6>2
            <6> QED  BY <5>3, <6>3 DEF Stored
          <5> QED  BY <1>4, <5>1, <5>2, <5>3
        <4> QED  BY <4>1, <4>2, <4>3
      <3> QED  BY <1>1, <1>2, <1>5, <2>1, <2>2, <2>3, <2>6, <3>1 DEF o
    <2> QED  BY <2>5, <2>6
  <1>8. seq + n + j \in 0..MaxRx  BY <1>1, <1>5
  <1>9. Ring(start, t, g, seq + n + j, x, future, new)
    BY <1>1, <1>5, <1>6, <1>7, <1>8 DEF Ring, TextStored
  <1> QED  BY <1>5, <1>6, <1>9 DEF j, x, r

\* n bytes of text are stored beyond a gap, and the hole is recorded.
LEMMA RingAhead ==
    ASSUME NEW start, NEW t, NEW h, NEW seq, NEW hole, NEW future, NEW mem,
           Ring(start, t, h, seq, hole, future, mem),
           NEW k \in Nat, k >= 1, NEW n \in Nat, n >= 1,
           Dist(start, t, h) + k + n <= BufferEnd - start, seq + k + n <= MaxRx,
           NEW new \in [0..BufferEnd -> Bytes \cup {Junk}],
           \A a \in start..BufferEnd :
              new[a] = IF Dist(start, h, a) \in k..(k + n - 1) THEN seq + Dist(start, h, a)
                       ELSE mem[a]
    PROVE LET x == RecordHole(hole, future, k, n)
          IN  Ring(start, t, h, seq, x.hole, x.future, new)
  <1> DEFINE f == RecordHole(hole, future, k, n)
             x == f.hole
             y == f.future
             r == Dist(start, t, h)
  <1>1. start \in 1..BufferEnd-1 /\ t \in start..BufferEnd /\ h \in start..BufferEnd
        /\ BufferEnd \in Nat /\ seq \in 0..MaxRx /\ future \in Nat /\ MaxRx \in Nat
    BY BufferNumbers DEF Ring
  <1>2. r \in 0..(BufferEnd - start) /\ r + k + n <= BufferEnd - start  BY <1>1, DistNat
  <1> HIDE DEF r
  <1>3. /\ \/ hole = NoHole
           \/ hole \in Nat /\ hole >= 1 /\ seq + hole + future <= MaxRx /\ r + hole + future <= BufferEnd - start
        /\ \A a \in start..BufferEnd :
             Stored(Dist(start, t, a), r, hole, future) => mem[a] = seq - r + Dist(start, t, a)
    BY DEF Ring, r
  <1>4. /\ x \in Nat /\ x >= 1 /\ y \in Nat
        /\ \/ x = k /\ y = n
           \/ hole # NoHole /\ k < hole /\ x = k /\ hole <= k + n /\ k + n <= hole + future /\ y = hole + future - k
           \/ hole # NoHole /\ hole <= k /\ x = hole /\ k <= hole + future /\ y = k + n - hole
           \/ hole # NoHole /\ x = hole /\ y = future
    <2> DEFINE end == hole + future
    <2>1. CASE hole = NoHole
      <3>1. f = [hole |-> k, future |-> n]  BY <2>1, Zenon DEF RecordHole
      <3>2. x = k /\ y = n  BY <3>1
      <3> QED  BY <3>2
    <2>2. CASE hole # NoHole /\ k < hole
      <3>1. f = [hole |-> k, future |-> IF k + n > end \/ k + n < hole THEN n ELSE end - k]
        BY <2>2, Zenon DEF RecordHole
      <3>2. x = k /\ y = IF k + n > end \/ k + n < hole THEN n ELSE end - k  BY <3>1
      <3> HIDE DEF f, x, y
      <3> QED  BY <1>1, <1>3, <2>2, <3>2
    <2>3. CASE hole # NoHole /\ ~ (k < hole)
      <3>1. f = [hole |-> hole, future |-> IF k + n > end /\ k <= end THEN k + n - hole ELSE future]
        BY <2>3, Zenon DEF RecordHole
      <3>2. x = hole /\ y = IF k + n > end /\ k <= end THEN k + n - hole ELSE future  BY <3>1
      <3> HIDE DEF f, x, y
      <3> QED  BY <1>1, <1>3, <2>3, <3>2
    <2> QED  BY <2>1, <2>2, <2>3
  <1> HIDE DEF f, x, y
  <1>5. seq + x + y <= MaxRx /\ r + x + y <= BufferEnd - start
    <2>1. CASE x = k /\ y = n  BY <1>1, <1>2, <2>1
    <2>2. CASE hole # NoHole /\ ~ (x = k /\ y = n)
      <3>1. /\ hole \in Nat /\ seq + hole + future <= MaxRx
            /\ r + hole + future <= BufferEnd - start
        BY <1>3, <2>2
      <3>2. x + y = hole + future \/ x + y = k + n  BY <1>1, <1>4, <2>2, <3>1
      <3>3. x + y \in Nat  BY <1>4
      <3>4. seq + (x + y) <= MaxRx /\ r + (x + y) <= BufferEnd - start
        BY <1>1, <1>2, <3>1, <3>2, <3>3
      <3>5. seq + x + y = seq + (x + y) /\ r + x + y = r + (x + y)  BY <1>1, <1>2, <1>4
      <3> QED  BY <3>4, <3>5
    <2> QED  BY <1>4, <2>1, <2>2
  <1>6. ASSUME NEW a \in start..BufferEnd, Stored(Dist(start, t, a), r, x, y)
        PROVE new[a] = seq - r + Dist(start, t, a)
    <2> DEFINE o == Dist(start, t, a)
               d == Dist(start, h, a)
    <2>1. o \in 0..(BufferEnd - start) /\ d \in 0..(BufferEnd - start)
          /\ o = IF r + d <= BufferEnd - start THEN r + d ELSE r + d - (BufferEnd - start + 1)
      BY <1>1, DistNat, DistAdd DEF r
    <2>2. new[a] = IF d \in k..(k + n - 1) THEN seq + d ELSE mem[a]  OBVIOUS
    <2>3. Stored(o, r, hole, future) => mem[a] = seq - r + o  BY <1>3
    <2>4. Stored(o, r, x, y)  BY <1>6
    <2> HIDE DEF o, d
    <2>5. CASE d \in k..(k + n - 1)
      <3>1. o = r + d  BY <1>1, <1>2, <2>1, <2>5
      <3> QED  BY <1>1, <1>2, <2>1, <2>2, <2>5, <3>1 DEF o
    <2>6. CASE d \notin k..(k + n - 1)
      <3>1. Stored(o, r, hole, future)
        <4>1. o < r \/ (o = r + d /\ (o < r + k \/ o >= r + k + n))
          BY <1>1, <1>2, <2>1, <2>6
        <4>2. CASE o < r  BY <4>2 DEF Stored
        <4>3. CASE ~ (o < r)
          <5>1. r + x <= o /\ o < r + x + y /\ (o < r + k \/ o >= r + k + n)
            BY <2>4, <4>1, <4>3 DEF Stored
          <5>2. hole # NoHole /\ r + hole <= o /\ o < r + hole + future
            <6>1. ~ (x = k /\ y = n)  BY <1>1, <1>2, <2>1, <5>1
            <6>2. hole # NoHole  BY <1>4, <6>1
            <6>3. hole \in Nat  BY <1>3, <6>2
            <6>4. CASE k < hole /\ x = k /\ hole <= k + n /\ k + n <= hole + future /\ y = hole + future - k
              BY <1>1, <1>2, <2>1, <5>1, <6>2, <6>3, <6>4
            <6>5. CASE hole <= k /\ x = hole /\ k <= hole + future /\ y = k + n - hole
              BY <1>1, <1>2, <2>1, <5>1, <6>2, <6>3, <6>5
            <6>6. CASE x = hole /\ y = future  BY <5>1, <6>2, <6>6
            <6> QED  BY <1>4, <6>1, <6>4, <6>5, <6>6
          <5> QED  BY <5>2 DEF Stored
        <4> QED  BY <4>1, <4>2, <4>3
      <3> QED  BY <2>2, <2>3, <2>6, <3>1 DEF o
    <2> QED  BY <2>5, <2>6
  <1>7. Ring(start, t, h, seq, x, y, new)
    BY <1>1, <1>3, <1>4, <1>5, <1>6 DEF Ring, r
  <1> QED  BY <1>7 DEF f, x, y

-----------------------------------------------------------------------------
(* The border of the ring moves.                                           *)

\* LastHead: behind all that is stored.
BehindLast(start, h, hole, future) ==
    IF hole = NoHole THEN h ELSE Wrap(start, h + hole + future)

\* All that is stored lies within a distance of total from rxTail.
LEMMA BehindLastDist ==
    ASSUME NEW start, NEW t, NEW h, NEW seq, NEW hole, NEW future, NEW mem,
           Ring(start, t, h, seq, hole, future, mem)
    PROVE \E total \in Nat :
             /\ Dist(start, t, h) <= total /\ total <= BufferEnd - start
             /\ hole # NoHole => total = Dist(start, t, h) + hole + future
             /\ hole = NoHole => total = Dist(start, t, h)
             /\ (hole # NoHole => total >= 1)
             /\ BehindLast(start, h, hole, future) = Wrap(start, t + total)
             /\ \A o : Stored(o, Dist(start, t, h), hole, future) /\ o \in Nat => o < total
  <1> DEFINE r == Dist(start, t, h)
  <1>1. start \in 1..BufferEnd-1 /\ t \in start..BufferEnd /\ h \in start..BufferEnd
        /\ BufferEnd \in Nat /\ future \in Nat
    BY BufferNumbers DEF Ring
  <1>2. r \in 0..(BufferEnd - start)  BY <1>1, DistNat
  <1>3. Wrap(start, t + r) = h  BY <1>1, ReadAll
  <1>4. CASE hole = NoHole
    <2>1. BehindLast(start, h, hole, future) = h  BY <1>4 DEF BehindLast
    <2> HIDE DEF r
    <2>2. \A o : Stored(o, r, hole, future) /\ o \in Nat => o < r  BY <1>4 DEF Stored
    <2> QED  BY <1>1, <1>2, <1>3, <1>4, <2>1, <2>2 DEF r
  <1>5. CASE hole # NoHole
    <2> DEFINE total == r + hole + future
    <2>1. hole \in Nat /\ hole >= 1 /\ total <= BufferEnd - start  BY <1>5 DEF Ring
    <2>2. BehindLast(start, h, hole, future) = Wrap(start, h + hole + future)  BY <1>5 DEF BehindLast
    <2>3. Wrap(start, h + hole + future) = Wrap(start, t + total)
      BY <1>1, <1>2, <2>1 DEF Wrap, Dist
    <2> HIDE DEF r
    <2>4. total \in Nat /\ r <= total /\ total >= 1  BY <1>1, <1>2, <2>1
    <2>5. \A o : Stored(o, r, hole, future) /\ o \in Nat => o < total
      BY <1>1, <1>2, <2>1 DEF Stored
    <2> QED  BY <1>5, <2>1, <2>2, <2>3, <2>4, <2>5 DEF r
  <1> QED  BY <1>4, <1>5

\* An empty ring may begin anywhere.
LEMMA RingEmpty ==
    ASSUME NEW start \in 1..BufferEnd-1, NEW seq \in 0..MaxRx, NEW future \in Nat,
           NEW mem \in [0..BufferEnd -> Bytes \cup {Junk}],
           NEW t \in start..BufferEnd
    PROVE Ring(start, t, t, seq, NoHole, future, mem) /\ Dist(start, t, t) = 0
  <1>1. Dist(start, t, t) = 0  BY BufferNumbers DEF Dist
  <1>2. \A a \in start..BufferEnd : ~ Stored(Dist(start, t, a), 0, NoHole, future)
    <2> SUFFICES ASSUME NEW a \in start..BufferEnd, NEW d, d = Dist(start, t, a)
                 PROVE ~ Stored(d, 0, NoHole, future)
      OBVIOUS
    <2>1. d \in Nat  BY DistNat, BufferNumbers
    <2> QED  BY <2>1 DEF Stored
  <1>3. start \in 1..BufferEnd-1 /\ t \in start..BufferEnd  OBVIOUS
  <1> QED  BY <1>1, <1>2, <1>3 DEF Ring

\* What does not wrap stays where it is.
LEMMA RingStraight ==
    ASSUME NEW start, NEW t, NEW h, NEW seq, NEW hole, NEW future, NEW mem,
           Ring(start, t, h, seq, hole, future, mem),
           t < BehindLast(start, h, hole, future),
           NEW s2 \in 1..BufferEnd-1, s2 <= t,
           NEW new \in [0..BufferEnd -> Bytes \cup {Junk}],
           \A a \in s2..BufferEnd : new[a] = mem[a]
    PROVE Ring(s2, t, h, seq, hole, future, new) /\ Dist(s2, t, h) = Dist(start, t, h)
  <1> DEFINE r == Dist(start, t, h)
  <1>1. start \in 1..BufferEnd-1 /\ t \in start..BufferEnd /\ h \in start..BufferEnd
        /\ BufferEnd \in Nat /\ future \in Nat /\ seq \in 0..MaxRx
    BY BufferNumbers DEF Ring
  <1>2. r \in 0..(BufferEnd - start)  BY <1>1, DistNat
  <1>3. PICK total \in Nat :
             /\ r <= total /\ total <= BufferEnd - start
             /\ hole # NoHole => total = r + hole + future
             /\ BehindLast(start, h, hole, future) = Wrap(start, t + total)
             /\ \A o : Stored(o, r, hole, future) /\ o \in Nat => o < total
    BY BehindLastDist
  <1>4. t + total <= BufferEnd  BY <1>1, <1>3 DEF Wrap
  <1>5. h = t + r /\ h >= t
    <2>1. Wrap(start, t + r) = h  BY <1>1, ReadAll
    <2> HIDE DEF r
    <2>2. t + r <= BufferEnd /\ t + r \in Nat  BY <1>1, <1>2, <1>3, <1>4
    <2> QED  BY <1>1, <1>2, <2>1, <2>2 DEF Wrap
  <1>6. Dist(s2, t, h) = r  BY <1>1, <1>5 DEF Dist
  <1>7. t \in s2..BufferEnd /\ h \in s2..BufferEnd  BY <1>1, <1>5
  <1> HIDE DEF r
  <1>8. ASSUME NEW a \in s2..BufferEnd, Stored(Dist(s2, t, a), r, hole, future)
        PROVE new[a] = seq - r + Dist(s2, t, a)
    <2> DEFINE p == Dist(s2, t, a)
    <2>1. p \in Nat
      <3>1. p \in 0..(BufferEnd - s2)  BY <1>7, DistNat
      <3> HIDE DEF p
      <3> QED  BY <1>1, <3>1
    <2>2. p < total  BY <1>3, <1>8, <2>1
    <2>3. a >= t  BY <1>1, <1>4, <2>2 DEF Dist
    <2>4. p = a - t /\ Dist(start, t, a) = a - t /\ a \in start..BufferEnd
      BY <1>1, <2>3 DEF Dist
    <2>5. Stored(Dist(start, t, a), r, hole, future)  BY <1>8, <2>4
    <2>6. mem[a] = seq - r + Dist(start, t, a)  BY <2>4, <2>5 DEF Ring, r
    <2> QED  BY <2>4, <2>6
  <1>9. \/ hole = NoHole
        \/ hole \in Nat /\ hole >= 1 /\ seq + hole + future <= MaxRx /\ r + hole + future <= BufferEnd - s2
    <2>1. total <= BufferEnd - s2  BY <1>1, <1>3, <1>4
    <2>2. hole # NoHole => hole \in Nat /\ hole >= 1 /\ seq + hole + future <= MaxRx  BY DEF Ring
    <2> QED  BY <1>3, <2>1, <2>2
  <1> QED  BY <1>1, <1>6, <1>7, <1>8, <1>9 DEF Ring, r

\* What wraps is copied down from the old start to s2.
CopiedTo(new, mem, start, s2, last) ==
    /\ new \in [0..BufferEnd -> Bytes \cup {Junk}]
    /\ \A a \in s2..BufferEnd :
          new[a] = IF a \in s2..s2+(last-start)-1 THEN mem[a - s2 + start] ELSE mem[a]

LEMMA RingDown ==
    ASSUME NEW start, NEW t, NEW h, NEW seq, NEW hole, NEW future, NEW mem,
           Ring(start, t, h, seq, hole, future, mem),
           NEW last, last = BehindLast(start, h, hole, future), last < t,
           NEW s2 \in 1..BufferEnd-1, s2 <= start,
           NEW new, CopiedTo(new, mem, start, s2, last),
           NEW h2, h2 = IF h < t THEN h - (start - s2) ELSE h
    PROVE Ring(s2, t, h2, seq, hole, future, new) /\ Dist(s2, t, h2) = Dist(start, t, h)
  <1> DEFINE r == Dist(start, t, h)
  <1>1. start \in 1..BufferEnd-1 /\ t \in start..BufferEnd /\ h \in start..BufferEnd
        /\ BufferEnd \in Nat /\ future \in Nat /\ seq \in 0..MaxRx
    BY BufferNumbers DEF Ring
  <1>2. r \in 0..(BufferEnd - start)  BY <1>1, DistNat
  <1>3. PICK total \in Nat :
             /\ r <= total /\ total <= BufferEnd - start
             /\ hole # NoHole => total = r + hole + future
             /\ last = Wrap(start, t + total)
             /\ \A o : Stored(o, r, hole, future) /\ o \in Nat => o < total
    BY BehindLastDist
  <1>4. t + total > BufferEnd /\ last = t + total - (BufferEnd - start + 1)
        /\ last \in start..BufferEnd
    BY <1>1, <1>3 DEF Wrap
  <1>5. h2 \in s2..BufferEnd /\ t \in s2..BufferEnd /\ Dist(s2, t, h2) = r
    BY <1>1 DEF Dist
  <1> HIDE DEF r
  <1>6. ASSUME NEW a \in s2..BufferEnd, Stored(Dist(s2, t, a), r, hole, future)
        PROVE new[a] = seq - r + Dist(s2, t, a)
    <2> DEFINE p == Dist(s2, t, a)
               b == a - s2 + start
    <2>1. p \in Nat
      <3>1. p \in 0..(BufferEnd - s2)  BY <1>5, DistNat
      <3> HIDE DEF p
      <3> QED  BY <1>1, <3>1
    <2>2. p < total  BY <1>3, <1>6, <2>1
    <2>3. \A c \in start..BufferEnd :
             Stored(Dist(start, t, c), r, hole, future) => mem[c] = seq - r + Dist(start, t, c)
      BY DEF Ring, r
    <2>4. CASE a >= t
      <3>1. p = a - t /\ Dist(start, t, a) = a - t /\ a \in start..BufferEnd
            /\ ~ (a \in s2..s2+(last-start)-1)
        BY <1>1, <1>4, <2>4 DEF Dist
      <3>2. new[a] = mem[a]  BY <3>1 DEF CopiedTo
      <3> QED  BY <1>6, <2>3, <3>1, <3>2
    <2>5. CASE a < t
      <3>1. p = a - t + (BufferEnd - s2 + 1)  BY <1>1, <2>5 DEF Dist
      <3>2. a \in s2..s2+(last-start)-1  BY <1>1, <1>4, <2>2, <3>1
      <3>3. b \in start..BufferEnd /\ b < t /\ b \in start..(last - 1)  BY <1>1, <1>4, <3>2
      <3>4. Dist(start, t, b) = p  BY <1>1, <3>1, <3>3 DEF Dist
      <3>5. new[a] = mem[b]  BY <3>2 DEF CopiedTo
      <3> HIDE DEF b
      <3> QED  BY <1>6, <2>3, <3>3, <3>4, <3>5
    <2> QED  BY <1>1, <2>4, <2>5
  <1>7. \/ hole = NoHole
        \/ hole \in Nat /\ hole >= 1 /\ seq + hole + future <= MaxRx /\ r + hole + future <= BufferEnd - s2
    <2>1. total <= BufferEnd - s2  BY <1>1, <1>3
    <2>2. hole # NoHole => hole \in Nat /\ hole >= 1 /\ seq + hole + future <= MaxRx  BY DEF Ring
    <2> QED  BY <1>3, <2>1, <2>2
  <1> QED  BY <1>1, <1>5, <1>6, <1>7 DEF Ring, CopiedTo, r

-----------------------------------------------------------------------------
(* The socket.                                                             *)

SktType == [smState : {"LISTEN", "ESTABLISHED", "FIN_WAIT"}, bufferRxStart : 1..BufferEnd-1,
            rxTail : Nat, rxHead : Nat, RemoteSEQ : 0..MaxRx, sHoleSize : {NoHole} \cup Nat,
            wFutureDataSize : Nat, bSocketReset : BOOLEAN,
            mem : [0..BufferEnd -> Bytes \cup {Junk}]]

RingOf(s) == Ring(s.bufferRxStart, s.rxTail, s.rxHead, s.RemoteSEQ, s.sHoleSize,
                  s.wFutureDataSize, s.mem)

Good(s) == s \in SktType /\ RingOf(s)

\* How full the ring is.
LEMMA ReadyIsDist ==
    ASSUME NEW s, Good(s)
    PROVE /\ Ready(s) = Dist(s.bufferRxStart, s.rxTail, s.rxHead)
          /\ Ready(s) \in Nat
          /\ FreeFifo(s) = (BufferEnd - s.bufferRxStart) - Ready(s)
          /\ LastHead(s) = BehindLast(s.bufferRxStart, s.rxHead, s.sHoleSize, s.wFutureDataSize)
          /\ LastHead(s) \in s.bufferRxStart..BufferEnd
  <1> DEFINE b == s.bufferRxStart
             t == s.rxTail
             h == s.rxHead
  <1>1. b \in 1..BufferEnd-1 /\ t \in b..BufferEnd /\ h \in b..BufferEnd
    BY DEF Good, RingOf, Ring
  <1>2. Ready(s) = Dist(b, t, h)
    <2>1. h - t = h - t /\ (BufferEnd - t + 1) + (h - b) = h - t + (BufferEnd - b + 1)
      BY <1>1, BufferNumbers
    <2> QED  BY <2>1 DEF Ready, Dist
  <1>3. Ready(s) \in Nat  BY <1>1, <1>2, DistNat, BufferNumbers
  <1>4. FreeFifo(s) = (BufferEnd - b) - Dist(b, t, h)
    <2>1. FreeFifo(s) = IF h >= t THEN (BufferEnd - b) - (h - t) ELSE t - h - 1
      BY DEF FreeFifo
    <2> HIDE DEF b, t, h
    <2> QED  BY <1>1, <2>1, BufferNumbers DEF Dist
  <1>5. LastHead(s) = BehindLast(b, h, s.sHoleSize, s.wFutureDataSize)  BY DEF LastHead, BehindLast
  <1>6. LastHead(s) \in b..BufferEnd
    <2>1. PICK total \in Nat :
             /\ total <= BufferEnd - b
             /\ BehindLast(b, h, s.sHoleSize, s.wFutureDataSize) = Wrap(b, t + total)
      BY BehindLastDist DEF Good, RingOf
    <2> HIDE DEF b, t, h
    <2> QED  BY <1>1, <1>5, <2>1, WrapDist
  <1> QED  BY <1>2, <1>3, <1>4, <1>5, <1>6

\* What reads, resizes and the loss of the data leave alone.
Same(s, d) == /\ d.smState = s.smState /\ d.bSocketReset = s.bSocketReset
              /\ d.RemoteSEQ = s.RemoteSEQ /\ d.sHoleSize = s.sHoleSize

LEMMA GoodRing ==
    ASSUME NEW s, Good(s)
    PROVE /\ s \in SktType
          /\ Ring(s.bufferRxStart, s.rxTail, s.rxHead, s.RemoteSEQ, s.sHoleSize,
                  s.wFutureDataSize, s.mem)
          /\ s.bufferRxStart \in 1..BufferEnd-1 /\ s.rxTail \in s.bufferRxStart..BufferEnd
          /\ s.rxHead \in s.bufferRxStart..BufferEnd
  BY DEF Good, RingOf, Ring

LEMMA GetGood ==
    ASSUME NEW s, Good(s), NEW n \in Nat, n <= Ready(s)
    PROVE Good(Get(s, n)) /\ Same(s, Get(s, n)) /\ Ready(Get(s, n)) = Ready(s) - n
  <1> DEFINE u == Wrap(s.bufferRxStart, s.rxTail + n)
             d == Get(s, n)
  <1>1. /\ s \in SktType
        /\ Ring(s.bufferRxStart, s.rxTail, s.rxHead, s.RemoteSEQ, s.sHoleSize,
                s.wFutureDataSize, s.mem)
        /\ s.bufferRxStart \in 1..BufferEnd-1
    BY GoodRing
  <1>2. Ready(s) = Dist(s.bufferRxStart, s.rxTail, s.rxHead)  BY ReadyIsDist
  <1>3. /\ Ring(s.bufferRxStart, u, s.rxHead, s.RemoteSEQ, s.sHoleSize, s.wFutureDataSize, s.mem)
        /\ Dist(s.bufferRxStart, u, s.rxHead) = Ready(s) - n
    BY <1>1, <1>2, RingRead
  <1>4. d = [s EXCEPT !.rxTail = u]  BY DEF Get
  <1>5. u \in Nat
    <2>1. u \in s.bufferRxStart..BufferEnd  BY <1>3 DEF Ring
    <2> HIDE DEF u
    <2> QED  BY <1>1, <2>1, BufferNumbers
  <1> HIDE DEF u, d
  <1>6. /\ d.smState = s.smState /\ d.bufferRxStart = s.bufferRxStart /\ d.rxTail = u
        /\ d.rxHead = s.rxHead /\ d.RemoteSEQ = s.RemoteSEQ /\ d.sHoleSize = s.sHoleSize
        /\ d.wFutureDataSize = s.wFutureDataSize /\ d.bSocketReset = s.bSocketReset
        /\ d.mem = s.mem
    BY <1>1, <1>4, Zenon DEF SktType
  <1>7. d \in SktType  BY <1>1, <1>4, <1>5 DEF SktType
  <1>8. Good(d)  BY <1>3, <1>6, <1>7 DEF Good, RingOf
  <1>9. Ready(d) = Ready(s) - n  BY <1>3, <1>6, <1>8, ReadyIsDist
  <1> QED  BY <1>6, <1>8, <1>9 DEF Same, d

LEMMA EmptiedGood ==
    ASSUME NEW s, Good(s)
    PROVE Good(Emptied(s)) /\ Same(s, Emptied(s)) /\ Emptied(s).rxTail = Emptied(s).rxHead
  <1> DEFINE d == Emptied(s)
             r == Ready(s)
  <1>1. /\ s \in SktType /\ s.bufferRxStart \in 1..BufferEnd-1
        /\ s.rxTail \in s.bufferRxStart..BufferEnd /\ s.rxHead \in s.bufferRxStart..BufferEnd
    BY GoodRing
  <1>2. r = Dist(s.bufferRxStart, s.rxTail, s.rxHead) /\ r \in Nat  BY ReadyIsDist
  <1>3. Wrap(s.bufferRxStart, s.rxTail + r) = s.rxHead  BY <1>1, <1>2, ReadAll
  <1>4. Get(s, r) = d  BY <1>3 DEF Get, Emptied
  <1>5. r <= r  BY <1>2
  <1>6. Good(d) /\ Same(s, d)  BY <1>2, <1>4, <1>5, GetGood
  <1>7. d = [s EXCEPT !.rxTail = s.rxHead]  BY DEF Emptied
  <1>8. d.rxTail = d.rxHead  BY <1>1, <1>7, Zenon DEF SktType
  <1> QED  BY <1>6, <1>8

LEMMA CloseGood ==
    ASSUME NEW s \in SktType
    PROVE LET d == CloseSocketFifo(s)
          IN  /\ Good(d) /\ d.smState = "LISTEN" /\ d.bSocketReset = TRUE
              /\ d.sHoleSize = NoHole /\ d.RemoteSEQ = 0 /\ d.rxTail = d.rxHead
  <1> DEFINE d == CloseSocketFifo(s)
             junk == [a \in 0..BufferEnd |-> Junk]
             b == s.bufferRxStart
  <1>1. s \in SktType /\ b \in 1..BufferEnd-1  BY DEF SktType
  <1>2. d = [s EXCEPT !.smState = "LISTEN", !.rxHead = b, !.rxTail = b,
                      !.bSocketReset = TRUE, !.sHoleSize = NoHole, !.RemoteSEQ = 0, !.mem = junk]
    BY DEF CloseSocketFifo
  <1>3. junk \in [0..BufferEnd -> Bytes \cup {Junk}] /\ 0 \in 0..MaxRx /\ b \in Nat /\ b \in b..BufferEnd
    BY <1>1, BufferNumbers
  <1>4. s.wFutureDataSize \in Nat  BY <1>1 DEF SktType
  <1> HIDE DEF d, junk, b
  <1>5. /\ d.smState = "LISTEN" /\ d.bufferRxStart = b /\ d.rxTail = b
        /\ d.rxHead = b /\ d.RemoteSEQ = 0 /\ d.sHoleSize = NoHole
        /\ d.wFutureDataSize = s.wFutureDataSize /\ d.bSocketReset = TRUE
        /\ d.mem = junk
    BY <1>1, <1>2, Zenon DEF SktType, b
  <1>6. d \in SktType  BY <1>1, <1>2, <1>3 DEF SktType
  <1>7. Ring(b, b, b, 0, NoHole, s.wFutureDataSize, junk)  BY <1>1, <1>3, <1>4, RingEmpty
  <1>8. Good(d)  BY <1>5, <1>6, <1>7 DEF Good, RingOf
  <1> QED  BY <1>5, <1>8 DEF d

-----------------------------------------------------------------------------
(* A segment.                                                              *)

\* Wherever n bytes of the stream are copied to, the memory holds bytes and junk.
LEMMA CopyInType ==
    ASSUME NEW s \in SktType, NEW p, NEW n \in Nat, NEW q \in Nat, q + n <= MaxRx
    PROVE CopyIn(s, p, q, n) \in [0..BufferEnd -> Bytes \cup {Junk}]
  <1> DEFINE at == [i \in 0..n-1 |-> Wrap(s.bufferRxStart, p + i)]
             m == CopyIn(s, p, q, n)
  <1>1. s.mem \in [0..BufferEnd -> Bytes \cup {Junk}]  BY DEF SktType
  <1>2. m = [a \in 0..BufferEnd |->
               IF \E i \in 0..n-1 : at[i] = a THEN q + (CHOOSE i \in 0..n-1 : at[i] = a)
                                              ELSE s.mem[a]]
    BY DEF CopyIn
  <1> HIDE DEF at, m
  <1>3. ASSUME NEW a \in 0..BufferEnd PROVE m[a] \in Bytes \cup {Junk}
    <2>1. CASE \E i \in 0..n-1 : at[i] = a
      <3>1. m[a] = q + (CHOOSE i \in 0..n-1 : at[i] = a)  BY <1>2, <2>1
      <3>2. (CHOOSE i \in 0..n-1 : at[i] = a) \in 0..n-1  BY <2>1
      <3> HIDE <2>1
      <3> DEFINE c == CHOOSE i \in 0..n-1 : at[i] = a
      <3>3. c \in 0..n-1 /\ m[a] = q + c  BY <3>1, <3>2
      <3> HIDE DEF c
      <3>4. q + c \in 0..MaxRx-1  BY <3>3, BufferNumbers
      <3> QED  BY <3>3, <3>4 DEF Bytes
    <2>2. CASE ~ \E i \in 0..n-1 : at[i] = a
      <3>1. m[a] = s.mem[a]  BY <1>2, <2>2
      <3> QED  BY <1>1, <3>1
    <2> QED  BY <2>1, <2>2
  <1>4. m = [a \in 0..BufferEnd |-> m[a]]  BY <1>2
  <1>5. m \in [0..BufferEnd -> Bytes \cup {Junk}]  BY <1>3, <1>4
  <1> QED  BY <1>5 DEF m

\* The n bytes from q on are copied to the places k .. k+n-1 beyond rxHead.
LEMMA CopyInIs ==
    ASSUME NEW s, Good(s), NEW k \in Nat, NEW n \in Nat, k + n <= BufferEnd - s.bufferRxStart,
           NEW q \in Nat, q + n <= MaxRx
    PROVE LET m == CopyIn(s, s.rxHead + k, q, n)
              d(a) == Dist(s.bufferRxStart, s.rxHead, a)
          IN  /\ m \in [0..BufferEnd -> Bytes \cup {Junk}]
              /\ \A a \in s.bufferRxStart..BufferEnd :
                    m[a] = IF d(a) \in k..(k + n - 1) THEN q + (d(a) - k) ELSE s.mem[a]
  <1> DEFINE b == s.bufferRxStart
             h == s.rxHead
             p == h + k
             at == [i \in 0..n-1 |-> Wrap(b, p + i)]
             m == CopyIn(s, s.rxHead + k, q, n)
             Hit(a) == {i \in 0..n-1 : at[i] = a}
  <1>1. b \in 1..BufferEnd-1 /\ h \in b..BufferEnd /\ s \in SktType  BY GoodRing
  <1> HIDE DEF b, h
  <1>3. ASSUME NEW i \in 0..n-1
        PROVE at[i] \in b..BufferEnd /\ Dist(b, h, at[i]) = k + i
              /\ \A a \in b..BufferEnd : Dist(b, h, a) = k + i => a = at[i]
    <2>1. k + i \in Nat /\ k + i <= BufferEnd - b /\ p + i = h + (k + i)
      BY <1>1, BufferNumbers DEF b
    <2>2. at[i] = Wrap(b, h + (k + i))  BY <2>1
    <2> HIDE DEF at, p
    <2> QED  BY <1>1, <2>1, <2>2, WrapDist
  <1>4. m = [a \in 0..BufferEnd |->
               IF \E i \in 0..n-1 : at[i] = a THEN q + (CHOOSE i \in 0..n-1 : at[i] = a)
                                              ELSE s.mem[a]]
    BY DEF CopyIn, b, h
  <1> HIDE DEF at, m
  <1>7. m \in [0..BufferEnd -> Bytes \cup {Junk}]  BY <1>1, CopyInType DEF m
  <1>8. ASSUME NEW a \in b..BufferEnd
        PROVE m[a] = IF Dist(b, h, a) \in k..(k + n - 1) THEN q + (Dist(b, h, a) - k) ELSE s.mem[a]
    <2> DEFINE d == Dist(b, h, a)
    <2>0. a \in 0..BufferEnd  BY <1>1, BufferNumbers
    <2>1. CASE d \in k..(k + n - 1)
      <3> DEFINE i == d - k
      <3>1. i \in 0..n-1 /\ d = k + i  BY <2>1
      <3> HIDE DEF d, i
      <3>2. at[i] = a  BY <1>3, <3>1 DEF d
      <3>3. \A j \in 0..n-1 : at[j] = a => j = i
        <4> SUFFICES ASSUME NEW j \in 0..n-1, at[j] = a PROVE j = i  OBVIOUS
        <4>1. d = k + j  BY <1>3 DEF d
        <4> QED  BY <3>1, <4>1
      <3>4. (CHOOSE j \in 0..n-1 : at[j] = a) = i  BY <3>1, <3>2, <3>3
      <3>5. m[a] = q + i  BY <1>4, <2>0, <3>1, <3>2, <3>4
      <3>6. m[a] = q + (d - k)  BY <3>5 DEF i
      <3> QED  BY <2>1, <3>6 DEF d
    <2>2. CASE ~ (d \in k..(k + n - 1))
      <3>1. \A j \in 0..n-1 : at[j] # a
        <4> SUFFICES ASSUME NEW j \in 0..n-1, at[j] = a PROVE FALSE  OBVIOUS
        <4>1. d = k + j  BY <1>3
        <4> QED  BY <2>2, <4>1
      <3>2. m[a] = s.mem[a]  BY <1>4, <2>0, <3>1
      <3> QED  BY <2>2, <3>2
    <2> QED  BY <2>1, <2>2
  <1> QED  BY <1>7, <1>8 DEF m, b, h

\* What a segment may do to the socket: it stays good, and what RemoteSEQ
\* acknowledges is what the application will be offered.
LEMMA InOrderGood ==
    ASSUME NEW s, Good(s), NEW missing \in Int, missing <= 0, NEW len \in Nat,
           Acceptable(missing, len, FreeFifo(s)), s.RemoteSEQ + missing + len <= MaxRx
    PROVE LET d == TextInOrder(s, missing, len)
          IN  /\ Good(d) /\ d.smState = s.smState /\ d.bSocketReset = s.bSocketReset
              /\ d.RemoteSEQ - Ready(d) = s.RemoteSEQ - Ready(s)
  <1> DEFINE b == s.bufferRxStart
             t == s.rxTail
             h == s.rxHead
             seq == s.RemoteSEQ
             free == FreeFifo(s)
             n == InOrderLen(missing, len, free)
             f == FillHole(s.sHoleSize, s.wFutureDataSize, n)
             g == Wrap(b, Wrap(b, h + n) + f.jump)
             new == CopyIn(s, h, seq, n)
             d == TextInOrder(s, missing, len)
  <1>1. /\ s \in SktType /\ b \in 1..BufferEnd-1 /\ t \in b..BufferEnd /\ h \in b..BufferEnd
        /\ Ring(b, t, h, seq, s.sHoleSize, s.wFutureDataSize, s.mem)
    BY GoodRing
  <1>2. /\ Ready(s) = Dist(b, t, h) /\ Ready(s) \in Nat
        /\ free = (BufferEnd - b) - Ready(s)
    BY ReadyIsDist
  <1>3. seq \in 0..MaxRx /\ s.wFutureDataSize \in Nat  BY <1>1 DEF SktType
  <1>4. free > 0 /\ missing + len > 0  BY DEF Acceptable
  <1>5. d = [s EXCEPT !.mem = new, !.RemoteSEQ = seq + n + f.jump, !.rxHead = g, !.sHoleSize = f.hole]
    BY DEF TextInOrder
  <1> HIDE DEF b, t, h, seq, free, f, g, new, d
  <1>6. n \in Nat /\ n >= 1 /\ n <= free /\ n <= missing + len
    <2>1. free \in Int  BY <1>1, <1>2, BufferNumbers
    <2> QED  BY <1>4, <2>1 DEF InOrderLen, LesserOf
  <1> HIDE DEF n
  <1>7. n <= BufferEnd - b /\ Dist(b, t, h) + n <= BufferEnd - b /\ seq + n <= MaxRx
    <2>1. seq + missing + len <= MaxRx  BY DEF seq
    <2> QED  BY <1>1, <1>2, <1>3, <1>6, <2>1, BufferNumbers
  <1>8. /\ new \in [0..BufferEnd -> Bytes \cup {Junk}]
        /\ \A a \in b..BufferEnd :
              new[a] = IF Dist(b, h, a) < n THEN seq + Dist(b, h, a) ELSE s.mem[a]
    <2>1. h + 0 = h /\ 0 + n = n /\ seq \in Nat /\ 0 \in Nat  BY <1>1, <1>3, <1>6, BufferNumbers
    <2>2. /\ CopyIn(s, h + 0, seq, n) \in [0..BufferEnd -> Bytes \cup {Junk}]
          /\ \A a \in b..BufferEnd :
                CopyIn(s, h + 0, seq, n)[a] =
                   IF Dist(b, h, a) \in 0..(0 + n - 1) THEN seq + (Dist(b, h, a) - 0) ELSE s.mem[a]
      BY <1>6, <1>7, <2>1, CopyInIs DEF b, h
    <2>3. \A a \in b..BufferEnd : /\ Dist(b, h, a) \in 0..(0 + n - 1) <=> Dist(b, h, a) < n
                                  /\ Dist(b, h, a) - 0 = Dist(b, h, a)
      <3> SUFFICES ASSUME NEW a \in b..BufferEnd, NEW x, x = Dist(b, h, a)
                   PROVE (x \in 0..(0 + n - 1) <=> x < n) /\ x - 0 = x
        OBVIOUS
      <3>1. x \in 0..(BufferEnd - b)  BY <1>1, DistNat
      <3> QED  BY <1>1, <1>6, <3>1, BufferNumbers
    <2> QED  BY <2>1, <2>2, <2>3 DEF new
  <1>9. /\ Ring(b, t, g, seq + n + f.jump, f.hole, s.wFutureDataSize, new)
        /\ Dist(b, t, g) = Dist(b, t, h) + n + f.jump
        /\ f.jump \in Nat
    <2>1. f = FillHole(s.sHoleSize, s.wFutureDataSize, n)  BY DEF f
    <2>2. g = Wrap(b, Wrap(b, h + n) + f.jump)  BY DEF g
    <2>3. Ring(b, t, h, seq, s.sHoleSize, s.wFutureDataSize, s.mem)  BY <1>1
    <2>4. TextStored(new, s.mem, b, h, seq, n)  BY <1>8 DEF TextStored
    <2> QED  BY <1>6, <1>7, <2>1, <2>2, <2>3, <2>4, RingInOrder
  <1>10. /\ d.smState = s.smState /\ d.bufferRxStart = b /\ d.rxTail = t
         /\ d.rxHead = g /\ d.RemoteSEQ = seq + n + f.jump /\ d.sHoleSize = f.hole
         /\ d.wFutureDataSize = s.wFutureDataSize /\ d.bSocketReset = s.bSocketReset
         /\ d.mem = new
    BY <1>1, <1>5, Zenon DEF SktType, b, t
  <1>11. d \in SktType
    <2>1. g \in Nat /\ seq + n + f.jump \in 0..MaxRx /\ f.hole \in {NoHole} \cup Nat
      BY <1>1, <1>9, BufferNumbers DEF Ring
    <2> QED  BY <1>1, <1>5, <1>8, <2>1 DEF SktType
  <1>12. Good(d)  BY <1>9, <1>10, <1>11 DEF Good, RingOf
  <1>13. Ready(d) = Ready(s) + n + f.jump  BY <1>2, <1>9, <1>10, <1>12, ReadyIsDist
  <1>14. d.RemoteSEQ - Ready(d) = seq - Ready(s)
    BY <1>2, <1>3, <1>6, <1>9, <1>10, <1>13
  <1> QED  BY <1>10, <1>12, <1>14 DEF d, seq

LEMMA AheadGood ==
    ASSUME NEW s, Good(s), NEW missing \in Int, missing > 0, NEW len \in Nat, len >= 1,
           Acceptable(missing, len, FreeFifo(s)), s.RemoteSEQ + missing + len <= MaxRx
    PROVE LET d == TextAhead(s, missing, len)
          IN  /\ Good(d) /\ d.smState = s.smState /\ d.bSocketReset = s.bSocketReset
              /\ d.RemoteSEQ - Ready(d) = s.RemoteSEQ - Ready(s)
  <1> DEFINE b == s.bufferRxStart
             t == s.rxTail
             h == s.rxHead
             seq == s.RemoteSEQ
             free == FreeFifo(s)
             n == AheadLen(missing, len, free)
             f == RecordHole(s.sHoleSize, s.wFutureDataSize, missing, n)
             new == CopyIn(s, h + missing, seq + missing, n)
             d == TextAhead(s, missing, len)
  <1>1. /\ s \in SktType /\ b \in 1..BufferEnd-1 /\ t \in b..BufferEnd /\ h \in b..BufferEnd
        /\ Ring(b, t, h, seq, s.sHoleSize, s.wFutureDataSize, s.mem)
    BY GoodRing
  <1>2. /\ Ready(s) = Dist(b, t, h) /\ Ready(s) \in Nat
        /\ free = (BufferEnd - b) - Ready(s)
    BY ReadyIsDist
  <1>3. seq \in 0..MaxRx  BY <1>1 DEF SktType
  <1>4. free > 0 /\ missing < free  BY DEF Acceptable
  <1>5. d = [s EXCEPT !.mem = new, !.sHoleSize = f.hole, !.wFutureDataSize = f.future]
    BY DEF TextAhead
  <1> HIDE DEF b, t, h, seq, free, f, new, d
  <1>6. n \in Nat /\ n >= 1 /\ missing + n <= free /\ n <= len
    <2>1. free \in Int  BY <1>1, <1>2, BufferNumbers
    <2> QED  BY <1>4, <2>1 DEF AheadLen
  <1> HIDE DEF n
  <1>7. missing \in Nat /\ missing >= 1 /\ missing + n <= BufferEnd - b
        /\ Dist(b, t, h) + missing + n <= BufferEnd - b /\ seq + missing + n <= MaxRx
    <2>1. seq + missing + len <= MaxRx  BY DEF seq
    <2> QED  BY <1>1, <1>2, <1>3, <1>6, <2>1, BufferNumbers
  <1>8. /\ new \in [0..BufferEnd -> Bytes \cup {Junk}]
        /\ \A a \in b..BufferEnd :
              new[a] = IF Dist(b, h, a) \in missing..(missing + n - 1) THEN seq + Dist(b, h, a)
                       ELSE s.mem[a]
    <2>1. seq + missing \in Nat /\ (seq + missing) + n <= MaxRx  BY <1>3, <1>6, <1>7
    <2>2. /\ new \in [0..BufferEnd -> Bytes \cup {Junk}]
          /\ \A a \in b..BufferEnd :
                new[a] = IF Dist(b, h, a) \in missing..(missing + n - 1)
                         THEN (seq + missing) + (Dist(b, h, a) - missing) ELSE s.mem[a]
      BY <1>6, <1>7, <2>1, CopyInIs DEF b, h, new
    <2>3. \A x \in missing..(missing + n - 1) : (seq + missing) + (x - missing) = seq + x
      BY <1>3, <1>6, <1>7
    <2> QED  BY <2>2, <2>3
  <1>9. Ring(b, t, h, seq, f.hole, f.future, new)
    BY <1>1, <1>6, <1>7, <1>8, RingAhead DEF f
  <1>10. /\ d.smState = s.smState /\ d.bufferRxStart = b /\ d.rxTail = t
         /\ d.rxHead = h /\ d.RemoteSEQ = seq /\ d.sHoleSize = f.hole
         /\ d.wFutureDataSize = f.future /\ d.bSocketReset = s.bSocketReset
         /\ d.mem = new
    BY <1>1, <1>5, Zenon DEF SktType, b, t, h, seq
  <1>11. d \in SktType
    <2>1. f.future \in Nat /\ f.hole \in {NoHole} \cup Nat  BY <1>9 DEF Ring
    <2> QED  BY <1>1, <1>5, <1>8, <2>1 DEF SktType
  <1>12. Good(d)  BY <1>9, <1>10, <1>11 DEF Good, RingOf
  <1>13. Ready(d) = Ready(s)  BY <1>2, <1>10, <1>12, ReadyIsDist
  <1> QED  BY <1>10, <1>12, <1>13 DEF d, seq

\* A segment, in order or ahead, while the connection lives or is being closed.
LEMMA TextGood ==
    ASSUME NEW s, Good(s), NEW missing \in Int, NEW len \in Nat, len >= 1,
           Acceptable(missing, len, FreeFifo(s)), s.RemoteSEQ + missing + len <= MaxRx
    PROVE LET d == Text(s, missing, len)
          IN  /\ Good(d) /\ d.smState = s.smState /\ d.bSocketReset = s.bSocketReset
              /\ s.smState = "ESTABLISHED" => d.RemoteSEQ - Ready(d) = s.RemoteSEQ - Ready(s)
              /\ s.smState # "ESTABLISHED" => d.rxTail = d.rxHead
  <1> DEFINE t == IF missing <= 0 THEN TextInOrder(s, missing, len) ELSE TextAhead(s, missing, len)
             d == Text(s, missing, len)
  <1>1. /\ Good(t) /\ t.smState = s.smState /\ t.bSocketReset = s.bSocketReset
        /\ t.RemoteSEQ - Ready(t) = s.RemoteSEQ - Ready(s)
    <2>1. CASE missing <= 0
      <3>1. t = TextInOrder(s, missing, len)  BY <2>1
      <3> HIDE DEF t
      <3> QED  BY <2>1, <3>1, InOrderGood
    <2>2. CASE ~ (missing <= 0)
      <3>1. t = TextAhead(s, missing, len) /\ missing > 0  BY <2>2
      <3> HIDE DEF t
      <3> QED  BY <3>1, AheadGood
    <2> QED  BY <2>1, <2>2
  <1>2. d = IF s.smState = "ESTABLISHED" THEN t ELSE Emptied(t)  BY DEF Text
  <1> HIDE DEF t, d
  <1>3. CASE s.smState = "ESTABLISHED"  BY <1>1, <1>2, <1>3 DEF d
  <1>4. CASE s.smState # "ESTABLISHED"
    <2>1. d = Emptied(t)  BY <1>2, <1>4
    <2>2. Good(d) /\ Same(t, d) /\ d.rxTail = d.rxHead  BY <1>1, <2>1, EmptiedGood
    <2> QED  BY <1>1, <1>4, <2>2 DEF Same, d
  <1> QED  BY <1>3, <1>4

-----------------------------------------------------------------------------
(* A resize.                                                               *)

LEMMA NewRxStartIn ==
    ASSUME NEW flags
    PROVE /\ NewRxStart(flags) \in 1..BufferEnd-1
          /\ "GIVE_REST_TO_TX" \in flags /\ "GIVE_REST_TO_RX" \notin flags =>
                NewRxStart(flags) = BufferEnd - 1
  <1> DEFINE rest == BufferEnd - 2
  <1>1. rest \in Nat /\ rest \div 2 \in 0..rest  BY BufferNumbers
  <1>2. NewRxStart(flags) \in {rest + 1, 0 + 1, rest \div 2 + 1}  BY DEF NewRxStart
  <1>3. "GIVE_REST_TO_TX" \in flags /\ "GIVE_REST_TO_RX" \notin flags => NewRxStart(flags) = rest + 1
    BY DEF NewRxStart
  <1>4. rest + 1 = BufferEnd - 1 /\ rest + 1 \in 1..BufferEnd-1 /\ 0 + 1 \in 1..BufferEnd-1
        /\ rest \div 2 + 1 \in 1..BufferEnd-1
    BY <1>1, BufferNumbers
  <1> QED  BY <1>2, <1>3, <1>4

\* The last step of a resize: the new start, and junk before it.
Resized(c, start) ==
    [c EXCEPT !.bufferRxStart = start,
              !.mem = [a \in 0..BufferEnd |-> IF a < start THEN Junk ELSE c.mem[a]]]

LEMMA ResizedIs ==
    ASSUME NEW c \in SktType, NEW start \in 1..BufferEnd-1
    PROVE LET d == Resized(c, start)
          IN  /\ d \in SktType /\ Same(c, d) /\ d.smState = c.smState
              /\ d.bufferRxStart = start /\ d.rxTail = c.rxTail /\ d.rxHead = c.rxHead
              /\ d.wFutureDataSize = c.wFutureDataSize
              /\ d.mem \in [0..BufferEnd -> Bytes \cup {Junk}]
              /\ \A a \in start..BufferEnd : d.mem[a] = c.mem[a]
  <1> DEFINE d == Resized(c, start)
             m == [a \in 0..BufferEnd |-> IF a < start THEN Junk ELSE c.mem[a]]
  <1>1. d = [c EXCEPT !.bufferRxStart = start, !.mem = m]  BY DEF Resized
  <1>2. c.mem \in [0..BufferEnd -> Bytes \cup {Junk}]  BY DEF SktType
  <1>3. m \in [0..BufferEnd -> Bytes \cup {Junk}]  BY <1>2
  <1>4. \A a \in start..BufferEnd : m[a] = c.mem[a]
    <2>1. \A a \in start..BufferEnd : a \in 0..BufferEnd /\ ~ (a < start)  BY BufferNumbers
    <2> QED  BY <2>1
  <1> HIDE DEF d, m
  <1>5. /\ d.smState = c.smState /\ d.bufferRxStart = start /\ d.rxTail = c.rxTail
        /\ d.rxHead = c.rxHead /\ d.RemoteSEQ = c.RemoteSEQ /\ d.sHoleSize = c.sHoleSize
        /\ d.wFutureDataSize = c.wFutureDataSize /\ d.bSocketReset = c.bSocketReset
        /\ d.mem = m
    BY <1>1, Zenon DEF SktType
  <1>6. d \in SktType  BY <1>1, <1>3 DEF SktType
  <1> QED  BY <1>3, <1>4, <1>5, <1>6 DEF Same, d

\* When rxTail is behind all that is stored, nothing is stored.
LEMMA NothingStored ==
    ASSUME NEW s, Good(s), s.rxTail = LastHead(s)
    PROVE s.sHoleSize = NoHole /\ Ready(s) = 0
  <1> DEFINE b == s.bufferRxStart
             t == s.rxTail
             h == s.rxHead
  <1>1. b \in 1..BufferEnd-1 /\ t \in b..BufferEnd  BY GoodRing
  <1>2. Ready(s) = Dist(b, t, h) /\ Ready(s) \in Nat
        /\ LastHead(s) = BehindLast(b, h, s.sHoleSize, s.wFutureDataSize)
    BY ReadyIsDist
  <1>3. PICK total \in Nat :
             /\ Dist(b, t, h) <= total /\ total <= BufferEnd - b
             /\ s.sHoleSize # NoHole => total >= 1
             /\ BehindLast(b, h, s.sHoleSize, s.wFutureDataSize) = Wrap(b, t + total)
    BY BehindLastDist, GoodRing
  <1> HIDE DEF b, t, h
  <1>4. Dist(b, t, Wrap(b, t + total)) = total  BY <1>1, <1>3, WrapDist
  <1>5. Wrap(b, t + total) = t  BY <1>2, <1>3 DEF t
  <1>6. Dist(b, t, t) = 0  BY <1>1, BufferNumbers DEF Dist
  <1>7. total = 0  BY <1>4, <1>5, <1>6
  <1> QED  BY <1>2, <1>3, <1>7

\* The pointers and the memory before the new start is set.
BeforeResize(s, flags) ==
    LET start == NewRxStart(flags)
        m == Moved(s, start)
    IN  IF "PRESERVE_RX" \in flags /\ LastHead(s) < m.rxTail THEN CopiedDown(s, m, start) ELSE m

LEMMA AdjustIs ==
    ASSUME NEW s, NEW flags
    PROVE TCPAdjustFIFOSize(s, flags) =
             IF "PRESERVE_RX" \in flags /\ Loses(s, NewRxStart(flags)) THEN s
             ELSE Resized(BeforeResize(s, flags), NewRxStart(flags))
  BY DEF TCPAdjustFIFOSize, Resized, BeforeResize

\* The copy of what wrapped.
LEMMA CopiedDownIs ==
    ASSUME NEW s, Good(s), NEW m \in SktType, NEW start \in 1..BufferEnd-1,
           m.rxHead - (s.bufferRxStart - start) \in Nat \/ ~ (m.rxHead < m.rxTail)
    PROVE LET c == CopiedDown(s, m, start)
              n == LastHead(s) - s.bufferRxStart
          IN  /\ c \in SktType /\ Same(m, c) /\ c.smState = m.smState
              /\ c.rxTail = m.rxTail /\ c.wFutureDataSize = m.wFutureDataSize
              /\ c.rxHead = IF m.rxHead < m.rxTail THEN m.rxHead - (s.bufferRxStart - start)
                            ELSE m.rxHead
              /\ \A a \in 0..BufferEnd :
                    c.mem[a] = IF a \in start..start+n-1
                               THEN s.mem[a - start + s.bufferRxStart] ELSE s.mem[a]
  <1> DEFINE c == CopiedDown(s, m, start)
             b == s.bufferRxStart
             n == LastHead(s) - b
             h == IF m.rxHead < m.rxTail THEN m.rxHead - (b - start) ELSE m.rxHead
             x == [a \in 0..BufferEnd |-> IF a \in start..start+n-1 THEN s.mem[a - start + b]
                                          ELSE s.mem[a]]
  <1>1. c = [m EXCEPT !.rxHead = h, !.mem = x]  BY DEF CopiedDown
  <1>2. s \in SktType /\ b \in 1..BufferEnd-1 /\ LastHead(s) \in b..BufferEnd
    BY GoodRing, ReadyIsDist
  <1>3. s.mem \in [0..BufferEnd -> Bytes \cup {Junk}] /\ m.rxHead \in Nat  BY <1>2 DEF SktType
  <1>4. h \in Nat  BY <1>3
  <1>5. x \in [0..BufferEnd -> Bytes \cup {Junk}]
    <2>1. n \in Nat /\ b + n <= BufferEnd  BY <1>2, BufferNumbers
    <2> HIDE DEF n, b
    <2>2. \A a \in start..start+n-1 : a - start + b \in 0..BufferEnd
      BY <1>2, <2>1, BufferNumbers
    <2> QED  BY <1>3, <2>2
  <1>6. \A a \in 0..BufferEnd : x[a] = IF a \in start..start+n-1 THEN s.mem[a - start + b]
                                       ELSE s.mem[a]
    OBVIOUS
  <1> HIDE DEF c, h, x
  <1>7. /\ c.smState = m.smState /\ c.bufferRxStart = m.bufferRxStart /\ c.rxTail = m.rxTail
        /\ c.rxHead = h /\ c.RemoteSEQ = m.RemoteSEQ /\ c.sHoleSize = m.sHoleSize
        /\ c.wFutureDataSize = m.wFutureDataSize /\ c.bSocketReset = m.bSocketReset
        /\ c.mem = x
    BY <1>1, Zenon DEF SktType
  <1>8. c \in SktType  BY <1>1, <1>4, <1>5 DEF SktType
  <1> QED  BY <1>6, <1>7, <1>8 DEF Same, c, h

\* Nothing is stored: the FIFO begins anew.
LEMMA AdjustEmpty ==
    ASSUME NEW s, Good(s), NEW flags, s.sHoleSize = NoHole,
           Moved(s, NewRxStart(flags)) =
              [s EXCEPT !.rxTail = NewRxStart(flags), !.rxHead = NewRxStart(flags)]
    PROVE LET d == Resized(BeforeResize(s, flags), NewRxStart(flags))
          IN  Good(d) /\ Same(s, d) /\ Ready(d) = 0
  <1> DEFINE start == NewRxStart(flags)
             m == Moved(s, start)
             c == BeforeResize(s, flags)
             d == Resized(c, start)
  <1>1. start \in 1..BufferEnd-1 /\ start \in Nat  BY NewRxStartIn, BufferNumbers
  <1>2. s \in SktType  BY GoodRing
  <1> HIDE DEF start
  <1>3. m = [s EXCEPT !.rxTail = start, !.rxHead = start]  BY DEF start
  <1> HIDE DEF m
  <1>4. /\ m.smState = s.smState /\ m.rxTail = start /\ m.rxHead = start
        /\ m.RemoteSEQ = s.RemoteSEQ /\ m.sHoleSize = s.sHoleSize
        /\ m.wFutureDataSize = s.wFutureDataSize /\ m.bSocketReset = s.bSocketReset
    BY <1>2, <1>3, Zenon DEF SktType
  <1>5. m \in SktType  BY <1>1, <1>2, <1>3 DEF SktType
  <1>6. c = m \/ c = CopiedDown(s, m, start)  BY DEF BeforeResize, m, start
  <1>7. ~ (m.rxHead < m.rxTail)  BY <1>1, <1>4
  <1> HIDE DEF c
  <1>8. /\ c \in SktType /\ Same(m, c) /\ c.rxTail = start /\ c.rxHead = start
        /\ c.wFutureDataSize = m.wFutureDataSize
    <2>1. CASE c = m  BY <1>4, <1>5, <2>1 DEF Same
    <2>2. CASE c = CopiedDown(s, m, start)
      <3>1. /\ c \in SktType /\ Same(m, c) /\ c.rxTail = m.rxTail
            /\ c.wFutureDataSize = m.wFutureDataSize
            /\ c.rxHead = IF m.rxHead < m.rxTail THEN m.rxHead - (s.bufferRxStart - start)
                          ELSE m.rxHead
        BY <1>1, <1>5, <1>7, <2>2, CopiedDownIs
      <3> QED  BY <1>4, <1>7, <3>1
    <2> QED  BY <1>6, <2>1, <2>2
  <1>9. /\ d \in SktType /\ Same(c, d) /\ d.bufferRxStart = start /\ d.rxTail = c.rxTail
        /\ d.rxHead = c.rxHead /\ d.wFutureDataSize = c.wFutureDataSize
        /\ d.mem \in [0..BufferEnd -> Bytes \cup {Junk}]
    BY <1>1, <1>8, ResizedIs
  <1> HIDE DEF d
  <1>10. d.rxTail = start /\ d.rxHead = start /\ d.sHoleSize = NoHole /\ Same(s, d)
    BY <1>4, <1>8, <1>9 DEF Same
  <1>11. start \in start..BufferEnd /\ d.RemoteSEQ \in 0..MaxRx /\ d.wFutureDataSize \in Nat
    BY <1>1, <1>9, BufferNumbers DEF SktType
  <1>12. Ring(start, start, start, d.RemoteSEQ, NoHole, d.wFutureDataSize, d.mem)
         /\ Dist(start, start, start) = 0
    BY <1>1, <1>9, <1>11, RingEmpty
  <1>13. Good(d)  BY <1>9, <1>10, <1>12 DEF Good, RingOf
  <1>14. Ready(d) = 0  BY <1>9, <1>10, <1>12, <1>13, ReadyIsDist
  <1> QED  BY <1>10, <1>13, <1>14 DEF d, c, start

\* The pointers stay, what is stored does not wrap.
LEMMA AdjustStraight ==
    ASSUME NEW s, Good(s), NEW start \in 1..BufferEnd-1, s.rxTail < LastHead(s), start <= s.rxTail
    PROVE LET d == Resized(s, start)
          IN  Good(d) /\ Same(s, d) /\ Ready(d) = Ready(s)
  <1> DEFINE d == Resized(s, start)
  <1>1. /\ s \in SktType
        /\ Ring(s.bufferRxStart, s.rxTail, s.rxHead, s.RemoteSEQ, s.sHoleSize,
                s.wFutureDataSize, s.mem)
    BY GoodRing
  <1>2. /\ Ready(s) = Dist(s.bufferRxStart, s.rxTail, s.rxHead)
        /\ LastHead(s) = BehindLast(s.bufferRxStart, s.rxHead, s.sHoleSize, s.wFutureDataSize)
    BY ReadyIsDist
  <1>3. /\ d \in SktType /\ Same(s, d)
        /\ d.bufferRxStart = start /\ d.rxTail = s.rxTail /\ d.rxHead = s.rxHead
        /\ d.wFutureDataSize = s.wFutureDataSize
        /\ d.mem \in [0..BufferEnd -> Bytes \cup {Junk}]
        /\ \A a \in start..BufferEnd : d.mem[a] = s.mem[a]
    BY <1>1, ResizedIs
  <1> HIDE DEF d
  <1>4. /\ Ring(start, s.rxTail, s.rxHead, s.RemoteSEQ, s.sHoleSize, s.wFutureDataSize, d.mem)
        /\ Dist(start, s.rxTail, s.rxHead) = Ready(s)
    BY <1>1, <1>2, <1>3, RingStraight
  <1>5. Good(d)  BY <1>3, <1>4 DEF Good, RingOf, Same
  <1>6. Ready(d) = Ready(s)  BY <1>3, <1>4, <1>5, ReadyIsDist
  <1> QED  BY <1>3, <1>5, <1>6 DEF d

\* The pointers stay, what is stored wraps and is copied down.
LEMMA AdjustDown ==
    ASSUME NEW s, Good(s), NEW start \in 1..BufferEnd-1, LastHead(s) < s.rxTail,
           start <= s.bufferRxStart
    PROVE LET d == Resized(CopiedDown(s, s, start), start)
          IN  Good(d) /\ Same(s, d) /\ Ready(d) = Ready(s)
  <1> DEFINE c == CopiedDown(s, s, start)
             d == Resized(c, start)
             b == s.bufferRxStart
             last == LastHead(s)
             h == IF s.rxHead < s.rxTail THEN s.rxHead - (b - start) ELSE s.rxHead
  <1>1. /\ s \in SktType /\ b \in 1..BufferEnd-1 /\ s.rxHead \in b..BufferEnd
        /\ Ring(b, s.rxTail, s.rxHead, s.RemoteSEQ, s.sHoleSize, s.wFutureDataSize, s.mem)
    BY GoodRing
  <1>2. /\ Ready(s) = Dist(b, s.rxTail, s.rxHead)
        /\ last = BehindLast(b, s.rxHead, s.sHoleSize, s.wFutureDataSize)
    BY ReadyIsDist
  <1>3. s.rxHead - (b - start) \in Nat  BY <1>1, BufferNumbers
  <1>4. /\ c \in SktType /\ Same(s, c) /\ c.rxTail = s.rxTail /\ c.wFutureDataSize = s.wFutureDataSize
        /\ c.rxHead = h
        /\ \A a \in 0..BufferEnd :
              c.mem[a] = IF a \in start..start+(last-b)-1 THEN s.mem[a - start + b] ELSE s.mem[a]
    BY <1>1, <1>3, CopiedDownIs
  <1> HIDE DEF c, last, b, h
  <1>5. /\ d \in SktType /\ Same(c, d)
        /\ d.bufferRxStart = start /\ d.rxTail = c.rxTail /\ d.rxHead = c.rxHead
        /\ d.wFutureDataSize = c.wFutureDataSize
        /\ d.mem \in [0..BufferEnd -> Bytes \cup {Junk}]
        /\ \A a \in start..BufferEnd : d.mem[a] = c.mem[a]
    BY <1>4, ResizedIs
  <1> HIDE DEF d
  <1>6. \A a \in start..BufferEnd :
           d.mem[a] = IF a \in start..start+(last-b)-1 THEN s.mem[a - start + b] ELSE s.mem[a]
    <2>1. \A a \in start..BufferEnd : a \in 0..BufferEnd  BY BufferNumbers
    <2> QED  BY <1>4, <1>5, <2>1
  <1>7. /\ Ring(start, s.rxTail, h, s.RemoteSEQ, s.sHoleSize, s.wFutureDataSize, d.mem)
        /\ Dist(start, s.rxTail, h) = Ready(s)
    <2>1. last < s.rxTail /\ start <= b  BY DEF last, b
    <2>2. h = IF s.rxHead < s.rxTail THEN s.rxHead - (b - start) ELSE s.rxHead  BY DEF h
    <2>3. CopiedTo(d.mem, s.mem, b, start, last)  BY <1>5, <1>6 DEF CopiedTo
    <2>4. Ring(b, s.rxTail, s.rxHead, s.RemoteSEQ, s.sHoleSize, s.wFutureDataSize, s.mem)
      BY <1>1
    <2>5. last = BehindLast(b, s.rxHead, s.sHoleSize, s.wFutureDataSize)  BY <1>2
    <2>6. /\ Ring(start, s.rxTail, h, s.RemoteSEQ, s.sHoleSize, s.wFutureDataSize, d.mem)
          /\ Dist(start, s.rxTail, h) = Dist(b, s.rxTail, s.rxHead)
      BY <2>1, <2>2, <2>3, <2>4, <2>5, RingDown
    <2> QED  BY <1>2, <2>6
  <1>8. Same(s, d) /\ d.rxTail = s.rxTail /\ d.rxHead = h /\ d.wFutureDataSize = s.wFutureDataSize
    BY <1>4, <1>5 DEF Same
  <1>9. Good(d)  BY <1>5, <1>7, <1>8 DEF Good, RingOf, Same
  <1>10. Ready(d) = Ready(s)  BY <1>5, <1>7, <1>8, <1>9, ReadyIsDist
  <1> QED  BY <1>8, <1>9, <1>10 DEF d, c

\* A resize that keeps what was received.
LEMMA AdjustKeeps ==
    ASSUME NEW s, Good(s), NEW flags, "PRESERVE_RX" \in flags
    PROVE LET d == TCPAdjustFIFOSize(s, flags)
          IN  Good(d) /\ Same(s, d) /\ Ready(d) = Ready(s)
  <1> DEFINE start == NewRxStart(flags)
             last == LastHead(s)
             c == BeforeResize(s, flags)
             d == TCPAdjustFIFOSize(s, flags)
  <1>1. d = IF Loses(s, start) THEN s ELSE Resized(c, start)  BY AdjustIs
  <1>2. start \in 1..BufferEnd-1  BY NewRxStartIn
  <1>3. /\ s \in SktType /\ s.bufferRxStart \in 1..BufferEnd-1
        /\ s.rxTail \in s.bufferRxStart..BufferEnd /\ last \in s.bufferRxStart..BufferEnd
    BY GoodRing, ReadyIsDist
  <1>4. Moved(s, start) = IF Loses(s, start) \/ s.rxTail = last
                          THEN [s EXCEPT !.rxTail = start, !.rxHead = start] ELSE s
    BY DEF Moved
  <1>5. c = IF last < Moved(s, start).rxTail THEN CopiedDown(s, Moved(s, start), start)
            ELSE Moved(s, start)
    BY DEF BeforeResize
  <1>6. Loses(s, start) <=> \/ s.rxTail < last /\ start > s.rxTail
                            \/ s.rxTail > last /\ start > s.bufferRxStart
    BY DEF Loses
  <1> HIDE DEF d, last
  <1>7. CASE Loses(s, start)
    BY <1>1, <1>7 DEF Same, d
  <1>8. CASE ~ Loses(s, start) /\ s.rxTail = last
    <2>1. s.sHoleSize = NoHole /\ Ready(s) = 0  BY <1>8, NothingStored DEF last
    <2>2. Moved(s, start) = [s EXCEPT !.rxTail = start, !.rxHead = start]  BY <1>4, <1>8
    <2>3. d = Resized(c, start)  BY <1>1, <1>8
    <2>4. LET e == Resized(BeforeResize(s, flags), NewRxStart(flags))
          IN  Good(e) /\ Same(s, e) /\ Ready(e) = 0
      BY <2>1, <2>2, AdjustEmpty
    <2>5. Good(d) /\ Same(s, d) /\ Ready(d) = 0  BY <2>3, <2>4
    <2> QED  BY <2>1, <2>5 DEF d
  <1>9. CASE ~ Loses(s, start) /\ s.rxTail # last
    <2>1. Moved(s, start) = s  BY <1>4, <1>9
    <2>2. d = Resized(c, start)  BY <1>1, <1>9
    <2>3. CASE s.rxTail < last
      <3>1. ~ (last < s.rxTail)  BY <1>3, <2>3, BufferNumbers
      <3>2. start <= s.rxTail  BY <1>2, <1>3, <1>6, <1>9, <2>3, BufferNumbers
      <3>3. c = s  BY <1>5, <2>1, <3>1
      <3> HIDE DEF c, start
      <3>4. d = Resized(s, start)  BY <2>2, <3>3
      <3>5. s.rxTail < LastHead(s)  BY <2>3 DEF last
      <3> QED  BY <1>2, <3>2, <3>4, <3>5, AdjustStraight DEF d
    <2>4. CASE s.rxTail > last
      <3>1. last < s.rxTail  BY <1>3, <2>4, BufferNumbers
      <3>2. start <= s.bufferRxStart  BY <1>2, <1>3, <1>6, <1>9, <2>4, BufferNumbers
      <3>3. c = CopiedDown(s, s, start)  BY <1>5, <2>1, <3>1
      <3> HIDE DEF c, start
      <3>4. d = Resized(CopiedDown(s, s, start), start)  BY <2>2, <3>3
      <3>5. LastHead(s) < s.rxTail  BY <3>1 DEF last
      <3> QED  BY <1>2, <3>2, <3>4, <3>5, AdjustDown DEF d
    <2>5. s.rxTail < last \/ s.rxTail > last  BY <1>3, <1>9, BufferNumbers
    <2> QED  BY <2>3, <2>4, <2>5
  <1> QED  BY <1>7, <1>8, <1>9

\* The resize before the response: the receive FIFO keeps two bytes, and what
\* was received may go. Nothing waits beyond a hole.
LEMMA AdjustGives ==
    ASSUME NEW s, Good(s), s.sHoleSize = NoHole
    PROVE LET d == TCPAdjustFIFOSize(s, {"GIVE_REST_TO_TX"})
          IN  Good(d) /\ Same(s, d)
  <1> DEFINE flags == {"GIVE_REST_TO_TX"}
             start == NewRxStart(flags)
             last == LastHead(s)
             c == BeforeResize(s, flags)
             d == TCPAdjustFIFOSize(s, flags)
  <1>1. d = Resized(c, start)
    <2>1. "PRESERVE_RX" \notin flags  OBVIOUS
    <2> HIDE DEF flags
    <2> QED  BY <2>1, AdjustIs
  <1>2. start \in 1..BufferEnd-1 /\ start = BufferEnd - 1
    <2>1. "GIVE_REST_TO_TX" \in flags /\ "GIVE_REST_TO_RX" \notin flags  OBVIOUS
    <2> HIDE DEF flags
    <2> QED  BY <2>1, NewRxStartIn
  <1>3. /\ s \in SktType /\ s.bufferRxStart \in 1..BufferEnd-1
        /\ s.rxTail \in s.bufferRxStart..BufferEnd /\ last \in s.bufferRxStart..BufferEnd
    BY GoodRing, ReadyIsDist
  <1>4. Moved(s, start) = IF Loses(s, start) \/ s.rxTail = last
                          THEN [s EXCEPT !.rxTail = start, !.rxHead = start] ELSE s
    BY DEF Moved
  <1>5. c = Moved(s, start)
    <2>1. "PRESERVE_RX" \notin flags  OBVIOUS
    <2> HIDE DEF flags
    <2> QED  BY <2>1 DEF BeforeResize
  <1>6. Loses(s, start) <=> \/ s.rxTail < last /\ start > s.rxTail
                            \/ s.rxTail > last /\ start > s.bufferRxStart
    BY DEF Loses
  <1>7. last = s.rxHead  BY DEF LastHead
  <1>8. CASE Loses(s, start) \/ s.rxTail = last
    <2>1. Moved(s, start) = [s EXCEPT !.rxTail = start, !.rxHead = start]  BY <1>4, <1>8
    <2> HIDE DEF flags, d
    <2> QED  BY <1>1, <2>1, AdjustEmpty DEF d, flags
  <1>9. CASE ~ (Loses(s, start) \/ s.rxTail = last)
    <2>1. c = s  BY <1>4, <1>5, <1>9
    <2> HIDE DEF c, start, last, d
    <2>2. d = Resized(s, start)  BY <1>1, <2>1
    <2>3. CASE s.rxTail < last
      <3>1. start <= s.rxTail  BY <1>2, <1>3, <1>6, <1>9, <2>3, BufferNumbers
      <3>2. s.rxTail < LastHead(s)  BY <2>3 DEF last
      <3> QED  BY <1>2, <2>2, <3>1, <3>2, AdjustStraight DEF d
    <2>4. CASE s.rxTail > last
      <3>1. start = s.bufferRxStart  BY <1>2, <1>3, <1>6, <1>9, <2>4, BufferNumbers
      <3>2. /\ d \in SktType /\ Same(s, d)
            /\ d.bufferRxStart = start /\ d.rxTail = s.rxTail /\ d.rxHead = s.rxHead
            /\ d.wFutureDataSize = s.wFutureDataSize
            /\ d.mem \in [0..BufferEnd -> Bytes \cup {Junk}]
            /\ \A a \in start..BufferEnd : d.mem[a] = s.mem[a]
        BY <1>2, <1>3, <2>2, ResizedIs
      <3>3. Ring(start, s.rxTail, s.rxHead, s.RemoteSEQ, s.sHoleSize, s.wFutureDataSize, s.mem)
        BY <3>1, GoodRing
      <3>4. Ring(start, s.rxTail, s.rxHead, s.RemoteSEQ, s.sHoleSize, s.wFutureDataSize, d.mem)
        BY <3>2, <3>3 DEF Ring
      <3>5. Good(d)  BY <3>2, <3>4 DEF Good, RingOf, Same
      <3> QED  BY <3>2, <3>5 DEF d
    <2>5. s.rxTail < last \/ s.rxTail > last  BY <1>3, <1>9, BufferNumbers
    <2> QED  BY <2>3, <2>4, <2>5
  <1> QED  BY <1>8, <1>9

-----------------------------------------------------------------------------
(* The border was moved over a hole: its sizes speak of a ring that is gone. *)
(* The pointers may leave the new one, but the numbers keep their bounds.    *)

\* The stream has room for the hole and for what was stored behind it.
HoleInStream(s) ==
    \/ s.sHoleSize = NoHole
    \/ s.sHoleSize >= 1 /\ s.RemoteSEQ + s.sHoleSize + s.wFutureDataSize <= MaxRx

Typed(s) == s \in SktType /\ HoleInStream(s)

\* Text in order: the stream has room for what it acknowledges.
LEMMA FillHoleFits ==
    ASSUME NEW seq \in Nat, NEW hole \in {NoHole} \cup Nat, NEW future \in Nat,
           hole = NoHole \/ (hole >= 1 /\ seq + hole + future <= MaxRx),
           NEW n \in Nat, n >= 1, seq + n <= MaxRx
    PROVE LET f == FillHole(hole, future, n)
          IN  /\ f.jump \in Nat /\ f.hole \in {NoHole} \cup Nat /\ seq + n + f.jump <= MaxRx
              /\ \/ f.hole = NoHole
                 \/ f.hole >= 1 /\ seq + n + f.jump + f.hole + future <= MaxRx
  <1> DEFINE f == FillHole(hole, future, n)
             left == hole - n
  <1>1. CASE hole = NoHole \/ future + left < 0
    <2>1. f = [hole |-> NoHole, jump |-> 0]  BY <1>1, Zenon DEF FillHole
    <2>2. f.hole = NoHole /\ f.jump = 0  BY <2>1
    <2> HIDE DEF f, left
    <2> QED  BY <2>2, BufferNumbers DEF f
  <1>2. CASE hole # NoHole /\ ~ (future + left < 0) /\ left <= 0
    <2>1. f = [hole |-> NoHole, jump |-> future + left]  BY <1>2, Zenon DEF FillHole
    <2>2. f.hole = NoHole /\ f.jump = future + left  BY <2>1
    <2> HIDE DEF f
    <2> QED  BY <1>2, <2>2, BufferNumbers DEF f
  <1>3. CASE hole # NoHole /\ ~ (future + left < 0) /\ ~ (left <= 0)
    <2>1. f = [hole |-> left, jump |-> 0]  BY <1>3, Zenon DEF FillHole
    <2>2. f.hole = left /\ f.jump = 0  BY <2>1
    <2> HIDE DEF f
    <2> QED  BY <1>3, <2>2, BufferNumbers DEF f
  <1> QED  BY <1>1, <1>2, <1>3

\* Text ahead: the stream has room for the hole that is recorded.
LEMMA RecordHoleFits ==
    ASSUME NEW seq \in Nat, NEW hole \in {NoHole} \cup Nat, NEW future \in Nat,
           hole = NoHole \/ (hole >= 1 /\ seq + hole + future <= MaxRx),
           NEW k \in Nat, k >= 1, NEW n \in Nat, seq + k + n <= MaxRx
    PROVE LET f == RecordHole(hole, future, k, n)
          IN  /\ f.hole \in Nat /\ f.hole >= 1 /\ f.future \in Nat
              /\ seq + f.hole + f.future <= MaxRx
  <1> DEFINE f == RecordHole(hole, future, k, n)
             end == hole + future
  <1>1. CASE hole = NoHole
    <2>1. f = [hole |-> k, future |-> n]  BY <1>1, Zenon DEF RecordHole
    <2>2. f.hole = k /\ f.future = n  BY <2>1
    <2> HIDE DEF f
    <2> QED  BY <2>2 DEF f
  <1>2. CASE hole # NoHole /\ k < hole
    <2>1. f = [hole |-> k, future |-> IF k + n > end \/ k + n < hole THEN n ELSE end - k]
      BY <1>2, Zenon DEF RecordHole
    <2>2. f.hole = k /\ f.future = IF k + n > end \/ k + n < hole THEN n ELSE end - k  BY <2>1
    <2> HIDE DEF f
    <2> QED  BY <1>2, <2>2 DEF f
  <1>3. CASE hole # NoHole /\ ~ (k < hole)
    <2>1. f = [hole |-> hole, future |-> IF k + n > end /\ k <= end THEN k + n - hole ELSE future]
      BY <1>3, Zenon DEF RecordHole
    <2>2. f.hole = hole /\ f.future = IF k + n > end /\ k <= end THEN k + n - hole ELSE future
      BY <2>1
    <2> HIDE DEF f
    <2> QED  BY <1>3, <2>2 DEF f
  <1> QED  BY <1>1, <1>2, <1>3

\* What was not read is dropped.
LEMMA EmptiedTyped ==
    ASSUME NEW s, Typed(s)
    PROVE LET d == Emptied(s)
          IN  Typed(d) /\ Same(s, d) /\ d.rxTail = d.rxHead
  <1> DEFINE d == Emptied(s)
  <1>1. d = [s EXCEPT !.rxTail = s.rxHead]  BY DEF Emptied
  <1>2. s \in SktType /\ s.rxHead \in Nat  BY DEF Typed, SktType
  <1> HIDE DEF d
  <1>3. /\ d.smState = s.smState /\ d.bSocketReset = s.bSocketReset /\ d.RemoteSEQ = s.RemoteSEQ
        /\ d.sHoleSize = s.sHoleSize /\ d.wFutureDataSize = s.wFutureDataSize
        /\ d.rxTail = s.rxHead /\ d.rxHead = s.rxHead
    BY <1>1, <1>2, Zenon DEF SktType
  <1>4. d \in SktType  BY <1>1, <1>2 DEF SktType
  <1>5. HoleInStream(d)  BY <1>3 DEF Typed, HoleInStream
  <1> QED  BY <1>3, <1>4, <1>5 DEF Typed, Same, d

\* A segment stores no more than it has and than is free.
LEMMA TextTyped ==
    ASSUME NEW s, Typed(s), NEW missing \in Int, NEW len \in Nat, len >= 1,
           Acceptable(missing, len, FreeFifo(s)), s.RemoteSEQ + missing + len <= MaxRx
    PROVE LET d == Text(s, missing, len)
          IN  /\ Typed(d) /\ d.smState = s.smState /\ d.bSocketReset = s.bSocketReset
              /\ s.smState # "ESTABLISHED" => d.rxTail = d.rxHead
  <1> DEFINE b == s.bufferRxStart
             seq == s.RemoteSEQ
             hole == s.sHoleSize
             future == s.wFutureDataSize
             free == FreeFifo(s)
             t == IF missing <= 0 THEN TextInOrder(s, missing, len) ELSE TextAhead(s, missing, len)
             d == Text(s, missing, len)
  <1>1. /\ s \in SktType /\ seq \in 0..MaxRx /\ seq \in Nat /\ hole \in {NoHole} \cup Nat
        /\ future \in Nat /\ b \in 1..BufferEnd-1 /\ s.rxHead \in Nat /\ s.rxTail \in Nat
        /\ hole = NoHole \/ (hole >= 1 /\ seq + hole + future <= MaxRx)
    BY BufferNumbers DEF Typed, SktType, HoleInStream
  <1>2. free \in Int  BY <1>1, BufferNumbers DEF FreeFifo
  <1>3. free > 0 /\ missing < free /\ missing + len > 0  BY DEF Acceptable
  <1>4. ASSUME NEW p \in Nat PROVE Wrap(b, p) \in Nat  BY <1>1, BufferNumbers DEF Wrap
  <1>5. Typed(t) /\ t.smState = s.smState /\ t.bSocketReset = s.bSocketReset
    <2>1. CASE missing <= 0
      <3> DEFINE n == InOrderLen(missing, len, free)
                 f == FillHole(hole, future, n)
                 g == Wrap(b, Wrap(b, s.rxHead + n) + f.jump)
                 new == CopyIn(s, s.rxHead, seq, n)
                 after == seq + n + f.jump
      <3>1. t = [s EXCEPT !.mem = new, !.RemoteSEQ = after, !.rxHead = g, !.sHoleSize = f.hole]
        BY <2>1 DEF TextInOrder
      <3>2. n \in Nat /\ n >= 1 /\ n <= missing + len
        BY <1>2, <1>3 DEF InOrderLen, LesserOf
      <3> HIDE DEF t, n, f, g, new, after
      <3>3. seq + n <= MaxRx  BY <1>1, <3>2, BufferNumbers
      <3>4. /\ f.jump \in Nat /\ f.hole \in {NoHole} \cup Nat /\ after <= MaxRx
            /\ f.hole = NoHole \/ (f.hole >= 1 /\ after + f.hole + future <= MaxRx)
        BY <1>1, <3>2, <3>3, FillHoleFits DEF f, after
      <3>5. after \in 0..MaxRx  BY <1>1, <3>2, <3>4, BufferNumbers DEF after
      <3>6. g \in Nat
        <4>1. s.rxHead + n \in Nat  BY <1>1, <3>2
        <4>2. Wrap(b, s.rxHead + n) \in Nat  BY <1>4, <4>1
        <4>3. Wrap(b, s.rxHead + n) + f.jump \in Nat  BY <3>4, <4>2
        <4> QED  BY <1>4, <4>3 DEF g
      <3>7. new \in [0..BufferEnd -> Bytes \cup {Junk}]  BY <1>1, <3>2, <3>3, CopyInType DEF new
      <3>8. /\ t.smState = s.smState /\ t.bSocketReset = s.bSocketReset /\ t.RemoteSEQ = after
            /\ t.sHoleSize = f.hole /\ t.wFutureDataSize = future
        BY <1>1, <3>1, Zenon DEF SktType
      <3>9. t \in SktType  BY <1>1, <3>1, <3>4, <3>5, <3>6, <3>7 DEF SktType
      <3> QED  BY <3>4, <3>8, <3>9 DEF Typed, HoleInStream
    <2>2. CASE ~ (missing <= 0)
      <3> DEFINE n == AheadLen(missing, len, free)
                 f == RecordHole(hole, future, missing, n)
                 new == CopyIn(s, s.rxHead + missing, seq + missing, n)
      <3>1. t = [s EXCEPT !.mem = new, !.sHoleSize = f.hole, !.wFutureDataSize = f.future]
        BY <2>2 DEF TextAhead
      <3>2. n \in Nat /\ n <= len  BY <1>2, <1>3 DEF AheadLen
      <3> HIDE DEF t, n, f, new
      <3>3. /\ missing \in Nat /\ missing >= 1 /\ seq + missing + n <= MaxRx
            /\ seq + missing \in Nat /\ (seq + missing) + n <= MaxRx
        BY <1>1, <2>2, <3>2, BufferNumbers
      <3>4. f.hole \in Nat /\ f.hole >= 1 /\ f.future \in Nat /\ seq + f.hole + f.future <= MaxRx
        BY <1>1, <3>2, <3>3, RecordHoleFits DEF f
      <3>5. new \in [0..BufferEnd -> Bytes \cup {Junk}]  BY <1>1, <3>2, <3>3, CopyInType DEF new
      <3>6. /\ t.smState = s.smState /\ t.bSocketReset = s.bSocketReset /\ t.RemoteSEQ = seq
            /\ t.sHoleSize = f.hole /\ t.wFutureDataSize = f.future
        BY <1>1, <3>1, Zenon DEF SktType
      <3>7. t \in SktType  BY <1>1, <3>1, <3>4, <3>5 DEF SktType
      <3> QED  BY <3>4, <3>6, <3>7 DEF Typed, HoleInStream
    <2> QED  BY <2>1, <2>2
  <1>6. d = IF s.smState = "ESTABLISHED" THEN t ELSE Emptied(t)  BY DEF Text
  <1> HIDE DEF t, d
  <1>7. CASE s.smState = "ESTABLISHED"  BY <1>5, <1>6, <1>7 DEF d
  <1>8. CASE s.smState # "ESTABLISHED"
    <2>1. d = Emptied(t)  BY <1>6, <1>8
    <2>2. Typed(d) /\ Same(t, d) /\ d.rxTail = d.rxHead  BY <1>5, <2>1, EmptiedTyped
    <2> QED  BY <1>5, <2>2, <1>8 DEF Same, d
  <1> QED  BY <1>7, <1>8

\* The resize that begins the response, whatever waits in the ring.
LEMMA AdjustTyped ==
    ASSUME NEW s, Typed(s)
    PROVE LET d == TCPAdjustFIFOSize(s, {"GIVE_REST_TO_TX"})
          IN  Typed(d) /\ Same(s, d)
  <1> DEFINE flags == {"GIVE_REST_TO_TX"}
             start == NewRxStart(flags)
             c == BeforeResize(s, flags)
             d == TCPAdjustFIFOSize(s, flags)
  <1>1. "PRESERVE_RX" \notin flags  OBVIOUS
  <1> HIDE DEF flags
  <1>2. start \in 1..BufferEnd-1 /\ start \in Nat  BY NewRxStartIn, BufferNumbers
  <1>3. d = Resized(c, start)  BY <1>1, AdjustIs
  <1>4. c = Moved(s, start)  BY <1>1 DEF BeforeResize
  <1>5. c = s \/ c = [s EXCEPT !.rxTail = start, !.rxHead = start]  BY <1>4 DEF Moved
  <1>6. s \in SktType  BY DEF Typed
  <1> HIDE DEF c, d, start
  <1>7. c \in SktType /\ Same(s, c) /\ c.wFutureDataSize = s.wFutureDataSize
    <2>1. CASE c = s  BY <1>6, <2>1 DEF Same
    <2>2. CASE c = [s EXCEPT !.rxTail = start, !.rxHead = start]
      <3>1. c \in SktType  BY <1>2, <1>6, <2>2 DEF SktType
      <3>2. /\ c.smState = s.smState /\ c.bSocketReset = s.bSocketReset
            /\ c.RemoteSEQ = s.RemoteSEQ /\ c.sHoleSize = s.sHoleSize
            /\ c.wFutureDataSize = s.wFutureDataSize
        BY <1>6, <2>2, Zenon DEF SktType
      <3> QED  BY <3>1, <3>2 DEF Same
    <2> QED  BY <1>5, <2>1, <2>2
  <1>8. d \in SktType /\ Same(c, d) /\ d.wFutureDataSize = c.wFutureDataSize
    BY <1>2, <1>3, <1>7, ResizedIs
  <1>9. HoleInStream(d)  BY <1>7, <1>8 DEF Typed, HoleInStream, Same
  <1> QED  BY <1>7, <1>8, <1>9 DEF Typed, Same, d, flags

LEMMA GoodTyped ==
    ASSUME NEW s, Good(s)
    PROVE Typed(s)
  BY DEF Good, RingOf, Ring, Typed, HoleInStream

-----------------------------------------------------------------------------
(* The connection and the application.                                     *)

\* What holds of a socket, the state of its HTTP connection and the number of
\* bytes that were read. Only an established connection has data: what was read
\* and what waits are together what was acknowledged, until the response begins.
Offered(s, http, n) ==
    /\ Good(s) /\ http \in {"IDLE", "PARSE", "SERVE"} /\ n \in 0..MaxRx
    /\ s.smState = "LISTEN" =>
          /\ Ready(s) = 0 /\ s.sHoleSize = NoHole /\ s.RemoteSEQ = 0
          /\ s.bSocketReset = FALSE => http = "IDLE"
    /\ s.smState = "FIN_WAIT" => Ready(s) = 0 /\ http = "IDLE" /\ s.bSocketReset = FALSE
    /\ s.smState = "ESTABLISHED" /\ (s.bSocketReset = TRUE \/ http # "SERVE") =>
          n + Ready(s) = s.RemoteSEQ

\* A border was moved over a hole: until the connection ends, the ring is not what
\* its sizes say. The response is being written, or is written and the socket waits
\* for the remote node, with nothing to read.
Stale(s, http, n) ==
    /\ Typed(s) /\ n \in 0..MaxRx /\ s.bSocketReset = FALSE
    /\ \/ s.smState = "ESTABLISHED" /\ http = "SERVE"
       \/ s.smState = "FIN_WAIT" /\ http = "IDLE" /\ s.rxTail = s.rxHead

FifoInv ==
    /\ overHole \in BOOLEAN
    /\ ~ overHole => Offered(skt, smHTTP, taken)
    /\ overHole => Stale(skt, smHTTP, taken)

LEMMA NoneReady ==
    ASSUME NEW s, Good(s), s.rxTail = s.rxHead
    PROVE Ready(s) = 0
  <1>1. s.rxHead \in Nat  BY DEF Good, SktType
  <1> QED  BY <1>1 DEF Ready

LEMMA GoodTypes ==
    ASSUME NEW s, Good(s)
    PROVE /\ s.smState \in {"LISTEN", "ESTABLISHED", "FIN_WAIT"} /\ s.bSocketReset \in BOOLEAN
          /\ s.RemoteSEQ \in 0..MaxRx /\ s.RemoteSEQ \in Nat /\ Ready(s) \in Nat
  <1>1. s \in SktType  BY DEF Good
  <1>2. s.smState \in {"LISTEN", "ESTABLISHED", "FIN_WAIT"} /\ s.bSocketReset \in BOOLEAN
        /\ s.RemoteSEQ \in 0..MaxRx
    BY <1>1 DEF SktType
  <1>3. s.RemoteSEQ \in Nat  BY <1>2, BufferNumbers
  <1> QED  BY <1>2, <1>3, ReadyIsDist

\* A new state of the connection, or an end of the reset, is all that changes.
Marked(s, state, reset) == [s EXCEPT !.smState = state, !.bSocketReset = reset]

LEMMA MarkedGood ==
    ASSUME NEW s, Good(s), NEW state \in {"LISTEN", "ESTABLISHED", "FIN_WAIT"},
           NEW reset \in BOOLEAN
    PROVE LET d == Marked(s, state, reset)
          IN  /\ Good(d) /\ d.smState = state /\ d.bSocketReset = reset
              /\ d.RemoteSEQ = s.RemoteSEQ /\ d.sHoleSize = s.sHoleSize /\ Ready(d) = Ready(s)
  <1> DEFINE d == Marked(s, state, reset)
  <1>1. s \in SktType /\ RingOf(s)  BY DEF Good
  <1>2. /\ d.smState = state /\ d.bufferRxStart = s.bufferRxStart /\ d.rxTail = s.rxTail
        /\ d.rxHead = s.rxHead /\ d.RemoteSEQ = s.RemoteSEQ /\ d.sHoleSize = s.sHoleSize
        /\ d.wFutureDataSize = s.wFutureDataSize /\ d.bSocketReset = reset
        /\ d.mem = s.mem
    BY <1>1, Zenon DEF SktType, Marked
  <1>3. d \in SktType  BY <1>1 DEF SktType, Marked
  <1> HIDE DEF d
  <1>4. RingOf(d)  BY <1>1, <1>2 DEF RingOf
  <1>5. Ready(d) = Ready(s)  BY <1>2 DEF Ready
  <1> QED  BY <1>2, <1>3, <1>4, <1>5 DEF Good, d

\* The socket after the reset was noticed, and with the first bytes of a request.
LEMMA AfterResetIs ==
    ASSUME Good(skt)
    PROVE LET a == AfterReset
          IN  /\ Good(a) /\ a.smState = skt.smState /\ a.bSocketReset = FALSE
              /\ a.RemoteSEQ = skt.RemoteSEQ /\ a.sHoleSize = skt.sHoleSize
              /\ Ready(a) = Ready(skt)
  <1> DEFINE a == AfterReset
             s == [skt EXCEPT !.bSocketReset = FALSE]
             flags == {"PRESERVE_RX"}
  <1>1. a = IF skt.bSocketReset THEN TCPAdjustFIFOSize(s, flags) ELSE skt  BY DEF AfterReset
  <1>2. skt \in SktType /\ skt.bSocketReset \in BOOLEAN
        /\ skt.smState \in {"LISTEN", "ESTABLISHED", "FIN_WAIT"}
    BY GoodTypes DEF Good
  <1>3. s = Marked(skt, skt.smState, FALSE)  BY <1>2 DEF SktType, Marked
  <1>4. "PRESERVE_RX" \in flags  OBVIOUS
  <1> HIDE DEF a, s, flags
  <1>5. /\ Good(s) /\ s.smState = skt.smState /\ s.bSocketReset = FALSE
        /\ s.RemoteSEQ = skt.RemoteSEQ /\ s.sHoleSize = skt.sHoleSize /\ Ready(s) = Ready(skt)
    BY <1>2, <1>3, MarkedGood
  <1>6. /\ Good(TCPAdjustFIFOSize(s, flags)) /\ Same(s, TCPAdjustFIFOSize(s, flags))
        /\ Ready(TCPAdjustFIFOSize(s, flags)) = Ready(s)
    BY <1>4, <1>5, AdjustKeeps
  <1>7. CASE skt.bSocketReset = TRUE
    <2>1. a = TCPAdjustFIFOSize(s, flags)  BY <1>1, <1>7
    <2> QED  BY <1>5, <1>6, <2>1 DEF Same, a
  <1>8. CASE skt.bSocketReset = FALSE
    <2>1. a = skt  BY <1>1, <1>8
    <2> QED  BY <1>8, <2>1 DEF a
  <1> QED  BY <1>2, <1>7, <1>8

LEMMA ParsingIs ==
    ASSUME Good(skt)
    PROVE LET p == Parsing
          IN  /\ Good(p) /\ p.smState = skt.smState /\ p.bSocketReset = FALSE
              /\ p.RemoteSEQ = skt.RemoteSEQ /\ p.sHoleSize = skt.sHoleSize
              /\ Ready(p) = Ready(skt)
  <1> DEFINE p == Parsing
             a == AfterReset
             flags == {"PRESERVE_RX", "GIVE_REST_TO_RX"}
  <1>1. /\ Good(a) /\ a.smState = skt.smState /\ a.bSocketReset = FALSE
        /\ a.RemoteSEQ = skt.RemoteSEQ /\ a.sHoleSize = skt.sHoleSize
        /\ Ready(a) = Ready(skt)
    BY AfterResetIs
  <1>2. p = TCPAdjustFIFOSize(a, flags) \/ p = a  BY DEF Parsing
  <1>3. "PRESERVE_RX" \in flags  OBVIOUS
  <1> HIDE DEF p, a, flags
  <1>4. /\ Good(TCPAdjustFIFOSize(a, flags)) /\ Same(a, TCPAdjustFIFOSize(a, flags))
        /\ Ready(TCPAdjustFIFOSize(a, flags)) = Ready(a)
    BY <1>1, <1>3, AdjustKeeps
  <1>5. /\ Good(p) /\ Same(a, p) /\ Ready(p) = Ready(a)  BY <1>1, <1>2, <1>4 DEF Same
  <1> QED  BY <1>1, <1>5 DEF Same, p

\* The connection is lost: nothing is left to read.
LEMMA Closed ==
    ASSUME NEW s \in SktType, NEW http \in {"IDLE", "PARSE", "SERVE"}, NEW n \in 0..MaxRx
    PROVE LET d == CloseSocketFifo(s)
          IN  Offered(d, http, n)
  <1> DEFINE d == CloseSocketFifo(s)
  <1>1. /\ Good(d) /\ d.smState = "LISTEN" /\ d.rxHead = d.rxTail /\ d.sHoleSize = NoHole
        /\ d.RemoteSEQ = 0 /\ d.bSocketReset = TRUE
    BY CloseGood
  <1> HIDE DEF d
  <1>2. Ready(d) = 0  BY <1>1, NoneReady
  <1>3. Offered(d, http, n)  BY <1>1, <1>2 DEF Offered
  <1> QED  BY <1>3 DEF d

\* TCPDisconnect(): what was not read is dropped.
LEMMA DisconnectIs ==
    ASSUME NEW s, Good(s)
    PROVE LET d == TCPDisconnectFifo(s)
          IN  /\ s.smState = "ESTABLISHED" =>
                    /\ Good(d) /\ d.smState = "FIN_WAIT" /\ d.bSocketReset = s.bSocketReset
                    /\ Ready(d) = 0
              /\ s.smState # "ESTABLISHED" => d = CloseSocketFifo(s)
  <1> DEFINE d == TCPDisconnectFifo(s)
             e == Emptied(s)
             f == Marked(e, "FIN_WAIT", e.bSocketReset)
  <1>1. d = IF s.smState = "ESTABLISHED" THEN [e EXCEPT !.smState = "FIN_WAIT"]
            ELSE CloseSocketFifo(s)
    BY DEF TCPDisconnectFifo
  <1>2. Good(e) /\ Same(s, e) /\ Ready(e) = 0  BY EmptiedGood, NoneReady
  <1> HIDE DEF e, d
  <1>3. e \in SktType /\ e.bSocketReset \in BOOLEAN /\ "FIN_WAIT" \in {"LISTEN", "ESTABLISHED", "FIN_WAIT"}
    BY <1>2, GoodTypes DEF Good
  <1>4. [e EXCEPT !.smState = "FIN_WAIT"] = f  BY <1>3 DEF SktType, Marked
  <1>5. Good(f) /\ f.smState = "FIN_WAIT" /\ f.bSocketReset = e.bSocketReset /\ Ready(f) = 0
    BY <1>2, <1>3, MarkedGood
  <1> HIDE DEF f
  <1>6. s.smState = "ESTABLISHED" => d = f  BY <1>1, <1>4
  <1>7. s.smState # "ESTABLISHED" => d = CloseSocketFifo(s)  BY <1>1
  <1> QED  BY <1>2, <1>5, <1>6, <1>7 DEF Same, d

LEMMA FifoInitially == FifoInit => FifoInv
  <1> SUFFICES ASSUME FifoInit PROVE FifoInv  OBVIOUS
  <1> DEFINE b == InitialRxStart
             junk == [a \in 0..BufferEnd |-> Junk]
  <1>1. b \in 1..BufferEnd-1 /\ b \in b..BufferEnd /\ b \in Nat /\ 0 \in 0..MaxRx
    BY BufferNumbers DEF InitialRxStart
  <1>2. junk \in [0..BufferEnd -> Bytes \cup {Junk}]  OBVIOUS
  <1> HIDE DEF b, junk
  <1>3. skt = [smState |-> "LISTEN", bufferRxStart |-> b, rxTail |-> b, rxHead |-> b,
               RemoteSEQ |-> 0, sHoleSize |-> NoHole, wFutureDataSize |-> 0,
               bSocketReset |-> TRUE, mem |-> junk]
        /\ smHTTP = "IDLE" /\ taken = 0 /\ overHole = FALSE
    BY DEF FifoInit, b, junk
  <1>4. skt \in SktType  BY <1>1, <1>2, <1>3 DEF SktType
  <1>5. /\ skt.smState = "LISTEN" /\ skt.bufferRxStart = b /\ skt.rxTail = b /\ skt.rxHead = b
        /\ skt.RemoteSEQ = 0 /\ skt.sHoleSize = NoHole /\ skt.wFutureDataSize = 0
        /\ skt.bSocketReset = TRUE /\ skt.mem = junk
    BY <1>3
  <1>6. Ring(b, b, b, 0, NoHole, 0, junk)  BY <1>1, <1>2, RingEmpty
  <1>7. Good(skt)  BY <1>4, <1>5, <1>6 DEF Good, RingOf
  <1>8. Ready(skt) = 0  BY <1>5, <1>7, NoneReady
  <1> QED  BY <1>1, <1>3, <1>5, <1>7, <1>8 DEF FifoInv, Offered

LEMMA ConnectStep ==
    ASSUME Offered(skt, smHTTP, taken), Connect
    PROVE Offered(skt', smHTTP', taken')
  <1> DEFINE d == Marked(skt, "ESTABLISHED", skt.bSocketReset)
  <1>1. /\ Good(skt) /\ smHTTP \in {"IDLE", "PARSE", "SERVE"} /\ skt.smState = "LISTEN"
        /\ Ready(skt) = 0 /\ skt.RemoteSEQ = 0
    BY DEF Offered, Connect
  <1>2. skt \in SktType /\ skt.bSocketReset \in BOOLEAN
        /\ "ESTABLISHED" \in {"LISTEN", "ESTABLISHED", "FIN_WAIT"}
    BY <1>1, GoodTypes DEF Good
  <1>3. [skt EXCEPT !.smState = "ESTABLISHED"] = d  BY <1>2 DEF SktType, Marked
  <1>4. Good(d) /\ d.smState = "ESTABLISHED" /\ Ready(d) = 0 /\ d.RemoteSEQ = 0
    BY <1>1, <1>2, MarkedGood
  <1> HIDE DEF d
  <1>5. skt' = d /\ smHTTP' = smHTTP /\ taken' = 0  BY <1>3 DEF Connect
  <1>6. 0 \in 0..MaxRx /\ 0 + 0 = 0  BY BufferNumbers
  <1> HIDE DEF Connect
  <1>7. Offered(d, smHTTP, 0)  BY <1>1, <1>4, <1>6 DEF Offered
  <1> QED  BY <1>5, <1>7

LEMMA SegmentStep ==
    ASSUME Offered(skt, smHTTP, taken), NEW q \in Bytes, NEW len \in 1..MaxRx, q + len <= MaxRx, HandleTCPSeg(q, len)
    PROVE Offered(skt', smHTTP', taken')
  <1> DEFINE missing == q - skt.RemoteSEQ
             d == Text(skt, missing, len)
  <1>1. /\ Good(skt) /\ smHTTP \in {"IDLE", "PARSE", "SERVE"} /\ taken \in 0..MaxRx
        /\ skt.smState = "FIN_WAIT" => smHTTP = "IDLE" /\ skt.bSocketReset = FALSE
        /\ skt.smState = "ESTABLISHED" /\ (skt.bSocketReset = TRUE \/ smHTTP # "SERVE") =>
              taken + Ready(skt) = skt.RemoteSEQ
    BY DEF Offered
  <1>2. skt.smState \in {"ESTABLISHED", "FIN_WAIT"} /\ Acceptable(missing, len, FreeFifo(skt))
        /\ skt' = d /\ smHTTP' = smHTTP /\ taken' = taken
    BY DEF HandleTCPSeg
  <1>3. skt.RemoteSEQ \in Nat /\ Ready(skt) \in Nat  BY <1>1, GoodTypes
  <1>4. missing \in Int /\ len \in Nat /\ len >= 1 /\ skt.RemoteSEQ + missing + len <= MaxRx
        /\ taken \in Nat
    BY <1>1, <1>3, BufferNumbers DEF Bytes
  <1> HIDE DEF missing, d
  <1>5. /\ Good(d) /\ d.smState = skt.smState /\ d.bSocketReset = skt.bSocketReset
        /\ skt.smState = "ESTABLISHED" => d.RemoteSEQ - Ready(d) = skt.RemoteSEQ - Ready(skt)
        /\ skt.smState # "ESTABLISHED" => d.rxTail = d.rxHead
    BY <1>1, <1>2, <1>4, TextGood DEF d
  <1>6. d.RemoteSEQ \in Nat /\ Ready(d) \in Nat  BY <1>5, GoodTypes
  <1>7. d.smState = "FIN_WAIT" => Ready(d) = 0  BY <1>5, NoneReady
  <1>8. d.smState = "ESTABLISHED" /\ (d.bSocketReset = TRUE \/ smHTTP # "SERVE") =>
           taken + Ready(d) = d.RemoteSEQ
    BY <1>1, <1>3, <1>4, <1>5, <1>6
  <1>9. Offered(d, smHTTP, taken)  BY <1>1, <1>2, <1>5, <1>7, <1>8 DEF Offered
  <1> QED  BY <1>2, <1>9

\* What Offered says of the connection that is being served.
LEMMA OfferedIs ==
    ASSUME Offered(skt, smHTTP, taken)
    PROVE /\ Good(skt) /\ smHTTP \in {"IDLE", "PARSE", "SERVE"} /\ taken \in 0..MaxRx /\ taken \in Nat
          /\ Ready(skt) \in Nat /\ skt.RemoteSEQ \in 0..MaxRx /\ skt.RemoteSEQ \in Nat
          /\ skt.smState \in {"LISTEN", "ESTABLISHED", "FIN_WAIT"}
          /\ Ready(skt) > 0 => skt.smState = "ESTABLISHED"
          /\ StateAfterReset \in {"IDLE", "PARSE", "SERVE"}
          /\ StateAfterReset # "IDLE" => skt.smState = "ESTABLISHED" /\ smHTTP = StateAfterReset
          /\ StateAfterReset # "SERVE" /\ skt.smState = "ESTABLISHED" =>
                taken + Ready(skt) = skt.RemoteSEQ
          /\ skt.smState = "LISTEN" => skt.sHoleSize = NoHole /\ skt.RemoteSEQ = 0
  <1>1. /\ Good(skt) /\ smHTTP \in {"IDLE", "PARSE", "SERVE"} /\ taken \in 0..MaxRx
        /\ skt.smState = "LISTEN" =>
              /\ Ready(skt) = 0 /\ skt.sHoleSize = NoHole /\ skt.RemoteSEQ = 0
              /\ skt.bSocketReset = FALSE => smHTTP = "IDLE"
        /\ skt.smState = "FIN_WAIT" => Ready(skt) = 0 /\ smHTTP = "IDLE" /\ skt.bSocketReset = FALSE
        /\ skt.smState = "ESTABLISHED" /\ (skt.bSocketReset = TRUE \/ smHTTP # "SERVE") =>
              taken + Ready(skt) = skt.RemoteSEQ
    BY DEF Offered
  <1>2. /\ skt.smState \in {"LISTEN", "ESTABLISHED", "FIN_WAIT"} /\ skt.bSocketReset \in BOOLEAN
        /\ skt.RemoteSEQ \in 0..MaxRx /\ skt.RemoteSEQ \in Nat /\ Ready(skt) \in Nat
    BY <1>1, GoodTypes
  <1>3. taken \in Nat  BY <1>1, BufferNumbers
  <1>4. StateAfterReset = IF skt.bSocketReset THEN "IDLE" ELSE smHTTP  BY DEF StateAfterReset
  <1>5. CASE skt.bSocketReset = TRUE
    <2>1. StateAfterReset = "IDLE"  BY <1>4, <1>5
    <2> QED  BY <1>1, <1>2, <1>3, <1>5, <2>1
  <1>6. CASE skt.bSocketReset = FALSE
    <2>1. StateAfterReset = smHTTP  BY <1>4, <1>6
    <2> QED  BY <1>1, <1>2, <1>3, <1>6, <2>1
  <1> QED  BY <1>2, <1>5, <1>6

LEMMA IdleStep ==
    ASSUME Offered(skt, smHTTP, taken), HTTPIdle
    PROVE Offered(skt', smHTTP', taken')
  <1> DEFINE a == AfterReset
  <1>1. StateAfterReset = "IDLE" /\ Ready(a) = 0 /\ skt' = a /\ smHTTP' = "IDLE" /\ taken' = taken
    BY DEF HTTPIdle
  <1>2. /\ Good(a) /\ a.smState = skt.smState /\ a.bSocketReset = FALSE
        /\ a.RemoteSEQ = skt.RemoteSEQ /\ a.sHoleSize = skt.sHoleSize
        /\ Ready(a) = Ready(skt)
    BY OfferedIs, AfterResetIs
  <1> HIDE DEF a
  <1>3. /\ taken \in 0..MaxRx
        /\ skt.smState = "LISTEN" => skt.sHoleSize = NoHole /\ skt.RemoteSEQ = 0
        /\ skt.smState = "ESTABLISHED" => taken + Ready(skt) = skt.RemoteSEQ
    BY <1>1, OfferedIs
  <1>4. Offered(a, "IDLE", taken)  BY <1>1, <1>2, <1>3 DEF Offered
  <1> QED  BY <1>1, <1>4

LEMMA ParseStep ==
    ASSUME Offered(skt, smHTTP, taken), NEW n \in 0..MaxRx, HTTPParse(n)
    PROVE Offered(skt', smHTTP', taken')
  <1> DEFINE p == Parsing
             d == Get(p, n)
  <1>1. /\ \/ StateAfterReset = "IDLE" /\ Ready(AfterReset) > 0
           \/ StateAfterReset = "PARSE"
        /\ n <= Ready(p) /\ skt' = d /\ smHTTP' = "PARSE" /\ taken' = taken + n
    BY DEF HTTPParse
  <1>2. /\ Good(p) /\ p.smState = skt.smState /\ p.bSocketReset = FALSE
        /\ p.RemoteSEQ = skt.RemoteSEQ /\ Ready(p) = Ready(skt)
    BY OfferedIs, ParsingIs
  <1>3. Ready(AfterReset) = Ready(skt)  BY OfferedIs, AfterResetIs
  <1> HIDE DEF p, d
  <1>4. skt.smState = "ESTABLISHED" /\ StateAfterReset # "SERVE"
    <2>1. StateAfterReset = "PARSE" => skt.smState = "ESTABLISHED"  BY OfferedIs
    <2>2. Ready(skt) > 0 => skt.smState = "ESTABLISHED"  BY OfferedIs
    <2> QED  BY <1>1, <1>3, <2>1, <2>2
  <1>5. /\ taken \in Nat /\ Ready(skt) \in Nat /\ skt.RemoteSEQ \in Nat
        /\ skt.RemoteSEQ \in 0..MaxRx /\ taken + Ready(skt) = skt.RemoteSEQ
    BY <1>4, OfferedIs
  <1>6. n \in Nat  BY BufferNumbers
  <1>7. Good(d) /\ Same(p, d) /\ Ready(d) = Ready(p) - n  BY <1>1, <1>2, <1>6, GetGood DEF d
  <1>8. taken + n \in 0..MaxRx /\ (taken + n) + Ready(d) = skt.RemoteSEQ
    BY <1>1, <1>2, <1>5, <1>6, <1>7, BufferNumbers
  <1>9. d.smState = "ESTABLISHED" /\ d.RemoteSEQ = skt.RemoteSEQ  BY <1>2, <1>4, <1>7 DEF Same
  <1>10. Offered(d, "PARSE", taken + n)  BY <1>7, <1>8, <1>9 DEF Offered
  <1> QED  BY <1>1, <1>10

LEMMA HeadersStep ==
    ASSUME Offered(skt, smHTTP, taken), NEW n \in 0..MaxRx, HTTPServeHeaders(n)
    PROVE /\ overHole' \in BOOLEAN
          /\ ~ overHole' => Offered(skt', smHTTP', taken')
          /\ overHole' => Stale(skt', smHTTP', taken')
  <1> DEFINE p == Parsing
             g == Get(p, n)
             d == TCPAdjustFIFOSize(g, {"GIVE_REST_TO_TX"})
  <1>1. /\ \/ StateAfterReset = "IDLE" /\ Ready(AfterReset) > 0
           \/ StateAfterReset = "PARSE"
        /\ n <= Ready(p) /\ skt' = d /\ smHTTP' = "SERVE" /\ taken' = taken + n
        /\ overHole' = (p.sHoleSize # NoHole)
    BY DEF HTTPServeHeaders
  <1>2. /\ Good(p) /\ p.smState = skt.smState /\ p.bSocketReset = FALSE
        /\ p.RemoteSEQ = skt.RemoteSEQ /\ Ready(p) = Ready(skt)
    BY OfferedIs, ParsingIs
  <1>3. Ready(AfterReset) = Ready(skt)  BY OfferedIs, AfterResetIs
  <1> HIDE DEF p, d
  <1>4. skt.smState = "ESTABLISHED" /\ StateAfterReset # "SERVE"
    <2>1. StateAfterReset = "PARSE" => skt.smState = "ESTABLISHED"  BY OfferedIs
    <2>2. Ready(skt) > 0 => skt.smState = "ESTABLISHED"  BY OfferedIs
    <2> QED  BY <1>1, <1>3, <2>1, <2>2
  <1>5. /\ taken \in Nat /\ Ready(skt) \in Nat /\ skt.RemoteSEQ \in Nat
        /\ skt.RemoteSEQ \in 0..MaxRx /\ taken + Ready(skt) = skt.RemoteSEQ
    BY <1>4, OfferedIs
  <1>6. n \in Nat  BY BufferNumbers
  <1>7. Good(g) /\ Same(p, g)  BY <1>1, <1>2, <1>6, GetGood
  <1> HIDE DEF g
  <1>8. Typed(d) /\ Same(g, d)  BY <1>7, GoodTyped, AdjustTyped DEF d
  <1>9. taken + n \in 0..MaxRx  BY <1>1, <1>2, <1>5, <1>6, BufferNumbers
  <1>10. d.smState = "ESTABLISHED" /\ d.bSocketReset = FALSE /\ g.sHoleSize = p.sHoleSize
    BY <1>2, <1>4, <1>7, <1>8 DEF Same
  <1>11. CASE overHole' = FALSE
    <2>1. g.sHoleSize = NoHole  BY <1>1, <1>10, <1>11
    <2>2. Good(d)  BY <1>7, <2>1, AdjustGives DEF d
    <2>3. Offered(d, "SERVE", taken + n)  BY <1>9, <1>10, <2>2 DEF Offered
    <2> QED  BY <1>1, <1>11, <2>3
  <1>12. CASE overHole' = TRUE
    <2>1. Stale(d, "SERVE", taken + n)  BY <1>8, <1>9, <1>10 DEF Stale
    <2> QED  BY <1>1, <1>12, <2>1
  <1> QED  BY <1>1, <1>11, <1>12

LEMMA TimeoutStep ==
    ASSUME Offered(skt, smHTTP, taken), HTTPTimeout
    PROVE Offered(skt', smHTTP', taken')
  <1> DEFINE p == Parsing
             e == TCPDisconnectFifo(p)
             d == TCPDisconnectFifo(e)
  <1>1. StateAfterReset = "PARSE" /\ skt' = d /\ smHTTP' = "IDLE" /\ taken' = taken
    BY DEF HTTPTimeout
  <1>2. Good(p) /\ p.smState = skt.smState  BY OfferedIs, ParsingIs
  <1>3. skt.smState = "ESTABLISHED" /\ taken \in 0..MaxRx  BY <1>1, OfferedIs
  <1> HIDE DEF p, d
  <1>4. Good(e) /\ e.smState = "FIN_WAIT"  BY <1>2, <1>3, DisconnectIs
  <1> HIDE DEF e
  <1>5. d = CloseSocketFifo(e)  BY <1>4, DisconnectIs DEF d
  <1>6. e \in SktType  BY <1>4 DEF Good
  <1>7. Offered(d, "IDLE", taken)  BY <1>3, <1>5, <1>6, Closed
  <1> QED  BY <1>1, <1>7

LEMMA ResponseStep ==
    ASSUME Offered(skt, smHTTP, taken), HTTPDisconnect
    PROVE Offered(skt', smHTTP', taken')
  <1> DEFINE a == AfterReset
             d == TCPDisconnectFifo(a)
  <1>1. StateAfterReset = "SERVE" /\ skt' = d /\ smHTTP' = "IDLE" /\ taken' = taken
    BY DEF HTTPDisconnect
  <1>2. Good(a) /\ a.smState = skt.smState /\ a.bSocketReset = FALSE  BY OfferedIs, AfterResetIs
  <1>3. skt.smState = "ESTABLISHED" /\ taken \in 0..MaxRx  BY <1>1, OfferedIs
  <1> HIDE DEF a, d
  <1>4. Good(d) /\ d.smState = "FIN_WAIT" /\ d.bSocketReset = FALSE /\ Ready(d) = 0
    BY <1>2, <1>3, DisconnectIs DEF d
  <1>5. Offered(d, "IDLE", taken)  BY <1>3, <1>4 DEF Offered
  <1> QED  BY <1>1, <1>5

\* What each step does to a connection whose border was moved over a hole.
LEMMA StaleStep ==
    ASSUME Stale(skt, smHTTP, taken), overHole = TRUE, FifoNext
    PROVE FifoInv'
  <1>1. /\ Typed(skt) /\ skt \in SktType /\ taken \in 0..MaxRx /\ skt.bSocketReset = FALSE
        /\ \/ skt.smState = "ESTABLISHED" /\ smHTTP = "SERVE"
           \/ skt.smState = "FIN_WAIT" /\ smHTTP = "IDLE" /\ skt.rxTail = skt.rxHead
    BY DEF Stale, Typed
  <1>2. AfterReset = skt /\ StateAfterReset = smHTTP  BY <1>1 DEF AfterReset, StateAfterReset
  <1>3. ASSUME Stale(skt', smHTTP', taken'), overHole' = overHole PROVE FifoInv'
    BY <1>3 DEF FifoInv
  <1>4. CASE Connect  BY <1>1, <1>4 DEF Connect
  <1>5. CASE \E q \in Bytes, len \in 1..MaxRx : q + len <= MaxRx /\ HandleTCPSeg(q, len)
    <2>1. PICK q \in Bytes, len \in 1..MaxRx : q + len <= MaxRx /\ HandleTCPSeg(q, len)
      BY <1>5
    <2> DEFINE missing == q - skt.RemoteSEQ
               d == Text(skt, missing, len)
    <2>2. Acceptable(missing, len, FreeFifo(skt)) /\ skt' = d
          /\ smHTTP' = smHTTP /\ taken' = taken /\ overHole' = overHole
      BY <2>1 DEF HandleTCPSeg
    <2>3. missing \in Int /\ len \in Nat /\ len >= 1 /\ skt.RemoteSEQ + missing + len <= MaxRx
      <3>1. skt.RemoteSEQ \in Nat  BY <1>1, BufferNumbers DEF SktType
      <3> QED  BY <2>1, <3>1, BufferNumbers DEF Bytes
    <2> HIDE DEF missing, d
    <2>4. /\ Typed(d) /\ d.smState = skt.smState /\ d.bSocketReset = skt.bSocketReset
          /\ skt.smState # "ESTABLISHED" => d.rxTail = d.rxHead
      BY <1>1, <2>2, <2>3, TextTyped DEF d
    <2>5. Stale(d, smHTTP, taken)  BY <1>1, <2>4 DEF Stale
    <2> QED  BY <1>3, <2>2, <2>5
  <1>6. CASE ConnectionEnds
    <2>1. skt' = CloseSocketFifo(skt) /\ smHTTP' = smHTTP /\ taken' = taken /\ overHole' = FALSE
      BY <1>6 DEF ConnectionEnds
    <2>2. Offered(CloseSocketFifo(skt), smHTTP, taken)  BY <1>1, Closed
    <2> QED  BY <2>1, <2>2 DEF FifoInv
  <1>7. CASE HTTPIdle
    <2>1. skt' = skt /\ smHTTP' = smHTTP /\ taken' = taken /\ overHole' = overHole
      BY <1>2, <1>7 DEF HTTPIdle
    <2> QED  BY <1>3, <2>1
  <1>8. CASE \E n \in 0..MaxRx : HTTPParse(n) \/ HTTPServeHeaders(n)
    <2>1. (smHTTP = "IDLE" /\ Ready(skt) > 0) \/ smHTTP = "PARSE"
      BY <1>2, <1>8 DEF HTTPParse, HTTPServeHeaders
    <2>2. skt.rxTail = skt.rxHead /\ Ready(skt) > 0  BY <1>1, <2>1
    <2>3. skt.rxHead \in Nat  BY <1>1 DEF SktType
    <2>4. Ready(skt) = 0  BY <2>2, <2>3 DEF Ready
    <2> QED  BY <2>2, <2>4
  <1>9. CASE HTTPTimeout  BY <1>1, <1>2, <1>9 DEF HTTPTimeout
  <1>10. CASE HTTPDisconnect
    <2> DEFINE d == TCPDisconnectFifo(skt)
               e == Emptied(skt)
    <2>1. smHTTP = "SERVE" /\ skt' = d /\ smHTTP' = "IDLE" /\ taken' = taken /\ overHole' = overHole
      BY <1>2, <1>10 DEF HTTPDisconnect
    <2>2. d = [e EXCEPT !.smState = "FIN_WAIT"]  BY <1>1, <2>1 DEF TCPDisconnectFifo
    <2>3. Typed(e) /\ Same(skt, e) /\ e.rxTail = e.rxHead  BY <1>1, EmptiedTyped
    <2> HIDE DEF d, e
    <2>4. e \in SktType  BY <2>3 DEF Typed
    <2>5. /\ d.smState = "FIN_WAIT" /\ d.bSocketReset = e.bSocketReset /\ d.RemoteSEQ = e.RemoteSEQ
          /\ d.sHoleSize = e.sHoleSize /\ d.wFutureDataSize = e.wFutureDataSize
          /\ d.rxTail = e.rxTail /\ d.rxHead = e.rxHead
      BY <2>2, <2>4, Zenon DEF SktType
    <2>6. d \in SktType  BY <2>2, <2>4 DEF SktType
    <2>7. Typed(d)  BY <2>3, <2>5, <2>6 DEF Typed, HoleInStream
    <2>8. Stale(d, "IDLE", taken)  BY <1>1, <2>3, <2>5, <2>7 DEF Stale, Same
    <2> QED  BY <1>3, <2>1, <2>8
  <1> QED  BY <1>4, <1>5, <1>6, <1>7, <1>8, <1>9, <1>10 DEF FifoNext, HTTPServer

\* What each step does to a ring whose sizes are right.
LEMMA OfferedStep ==
    ASSUME Offered(skt, smHTTP, taken), overHole = FALSE, FifoNext
    PROVE FifoInv'
  <1>1. ASSUME Offered(skt', smHTTP', taken'), overHole' = overHole PROVE FifoInv'
    BY <1>1 DEF FifoInv
  <1>2. CASE Connect  BY <1>1, <1>2, ConnectStep DEF Connect
  <1>3. CASE \E q \in Bytes, len \in 1..MaxRx : q + len <= MaxRx /\ HandleTCPSeg(q, len)
    <2>1. PICK q \in Bytes, len \in 1..MaxRx : q + len <= MaxRx /\ HandleTCPSeg(q, len)
      BY <1>3
    <2>2. overHole' = overHole  BY <2>1 DEF HandleTCPSeg
    <2>3. Offered(skt', smHTTP', taken')  BY <2>1, SegmentStep
    <2> QED  BY <1>1, <2>2, <2>3
  <1>4. CASE ConnectionEnds
    <2>1. skt' = CloseSocketFifo(skt) /\ smHTTP' = smHTTP /\ taken' = taken /\ overHole' = overHole
      BY <1>4 DEF ConnectionEnds
    <2>2. skt \in SktType  BY OfferedIs DEF Good
    <2>3. Offered(CloseSocketFifo(skt), smHTTP, taken)  BY <2>2, OfferedIs, Closed
    <2> QED  BY <1>1, <2>1, <2>3
  <1>5. CASE HTTPIdle
    <2>1. overHole' = overHole  BY <1>5 DEF HTTPIdle
    <2> QED  BY <1>1, <1>5, <2>1, IdleStep
  <1>6. CASE \E n \in 0..MaxRx : HTTPParse(n) \/ HTTPServeHeaders(n)
    <2>1. PICK n \in 0..MaxRx : HTTPParse(n) \/ HTTPServeHeaders(n)  BY <1>6
    <2>2. CASE HTTPParse(n)
      <3>1. overHole' = overHole  BY <2>2 DEF HTTPParse
      <3>2. Offered(skt', smHTTP', taken')  BY <2>2, ParseStep
      <3> QED  BY <1>1, <3>1, <3>2
    <2>3. CASE HTTPServeHeaders(n)  BY <2>3, HeadersStep DEF FifoInv
    <2> QED  BY <2>1, <2>2, <2>3
  <1>7. CASE HTTPTimeout
    <2>1. overHole' = overHole  BY <1>7 DEF HTTPTimeout
    <2> QED  BY <1>1, <1>7, <2>1, TimeoutStep
  <1>8. CASE HTTPDisconnect
    <2>1. overHole' = overHole  BY <1>8 DEF HTTPDisconnect
    <2> QED  BY <1>1, <1>8, <2>1, ResponseStep
  <1> QED  BY <1>2, <1>3, <1>4, <1>5, <1>6, <1>7, <1>8 DEF FifoNext, HTTPServer

LEMMA FifoStep ==
    ASSUME FifoInv, [FifoNext]_fifoVars
    PROVE FifoInv'
  <1>1. CASE FifoNext
    <2>1. overHole = TRUE => Stale(skt, smHTTP, taken)  BY DEF FifoInv
    <2>2. overHole = FALSE => Offered(skt, smHTTP, taken)  BY DEF FifoInv
    <2>3. overHole = TRUE \/ overHole = FALSE  BY DEF FifoInv
    <2> QED  BY <1>1, <2>1, <2>2, <2>3, StaleStep, OfferedStep
  <1>2. CASE UNCHANGED fifoVars
    <2>1. skt' = skt /\ smHTTP' = smHTTP /\ taken' = taken /\ overHole' = overHole
      BY <1>2 DEF fifoVars
    <2> QED  BY <2>1 DEF FifoInv
  <1> QED  BY <1>1, <1>2

\* A ring whose sizes are right is as the properties say.
LEMMA OfferedImplies ==
    ASSUME Offered(skt, smHTTP, taken), overHole = FALSE
    PROVE FifoTypeOK /\ RingIntact /\ NoReceivedByteLost
  <1> DEFINE b == skt.bufferRxStart
             t == skt.rxTail
             h == skt.rxHead
             seq == skt.RemoteSEQ
             hole == skt.sHoleSize
             future == skt.wFutureDataSize
             r == Ready(skt)
  <1>1. /\ Good(skt) /\ smHTTP \in {"IDLE", "PARSE", "SERVE"} /\ taken \in 0..MaxRx
        /\ skt.bSocketReset \in BOOLEAN
        /\ skt.smState = "ESTABLISHED" /\ (skt.bSocketReset = TRUE \/ smHTTP # "SERVE") =>
              taken + Ready(skt) = skt.RemoteSEQ
    BY GoodTypes DEF Offered
  <1>2. /\ skt \in SktType /\ b \in 1..BufferEnd-1 /\ t \in b..BufferEnd /\ h \in b..BufferEnd
        /\ Ring(b, t, h, seq, hole, future, skt.mem)
    BY <1>1, GoodRing
  <1>3. r = Dist(b, t, h) /\ r \in Nat  BY <1>1, ReadyIsDist
  <1>4. FifoTypeOK
    <2>1. RxPointersInBuffer  BY <1>2 DEF RxPointersInBuffer
    <2> QED  BY <1>1, <1>2, <2>1 DEF FifoTypeOK, SktType
  <1>5. NoReceivedByteLost  BY <1>1 DEF NoReceivedByteLost
  <1> HIDE DEF b, t, h, seq, hole, future, r
  <1>6. r \in 0..(BufferEnd - b)  BY <1>2, <1>3, DistNat
  <1>7. /\ seq \in 0..MaxRx /\ future \in Nat
        /\ \/ hole = NoHole
           \/ hole \in Nat /\ hole >= 1 /\ r + hole + future <= BufferEnd - b
        /\ \A a \in b..BufferEnd :
              Stored(Dist(b, t, a), r, hole, future) => skt.mem[a] = seq - r + Dist(b, t, a)
    BY <1>2, <1>3 DEF Ring
  <1>8. RxDataIntact
    <2> SUFFICES ASSUME NEW i \in 0..r-1
                 PROVE skt.mem[Wrap(b, t + i)] = seq - r + i
      BY DEF RxDataIntact, b, t, seq, r
    <2>1. i \in Nat /\ i <= BufferEnd - b /\ i < r  BY <1>2, <1>3, <1>6, BufferNumbers
    <2>2. Wrap(b, t + i) \in b..BufferEnd /\ Dist(b, t, Wrap(b, t + i)) = i
      BY <1>2, <2>1, WrapDist
    <2>3. Stored(i, r, hole, future)  BY <2>1 DEF Stored
    <2> QED  BY <1>7, <2>2, <2>3
  <1>9. FutureDataIntact
    <2> SUFFICES ASSUME hole # NoHole, NEW i \in 0..future-1
                 PROVE skt.mem[Wrap(b, h + hole + i)] = seq + hole + i
      BY DEF FutureDataIntact, b, h, seq, hole, future
    <2> DEFINE p == hole + i
               a == Wrap(b, h + p)
    <2>1. hole \in Nat /\ hole >= 1 /\ r + hole + future <= BufferEnd - b  BY <1>7
    <2>2. /\ p \in Nat /\ r + p <= BufferEnd - b /\ p <= BufferEnd - b /\ i \in Nat /\ i < future
          /\ h + hole + i = h + p /\ seq + hole + i = seq - r + (r + p) /\ p >= hole
          /\ r + p < r + hole + future /\ r + hole <= r + p
      BY <1>2, <1>3, <1>7, <2>1, BufferNumbers
    <2> HIDE DEF p
    <2>3. a \in b..BufferEnd /\ Dist(b, h, a) = p  BY <1>2, <2>2, WrapDist
    <2> HIDE DEF a
    <2>4. Dist(b, t, a) = r + p  BY <1>2, <1>3, <2>2, <2>3, DistAdd
    <2>5. Stored(r + p, r, hole, future)  BY <2>2 DEF Stored
    <2>6. skt.mem[a] = seq - r + (r + p)  BY <1>7, <2>3, <2>4, <2>5
    <2> QED  BY <2>2, <2>6 DEF a
  <1> QED  BY <1>4, <1>5, <1>8, <1>9 DEF RingIntact

LEMMA FifoInvImplies == FifoInv => FifoTypeOK /\ RingIntact /\ NoReceivedByteLost
  <1> SUFFICES ASSUME FifoInv PROVE FifoTypeOK /\ RingIntact /\ NoReceivedByteLost  OBVIOUS
  <1>1. CASE overHole = FALSE
    <2>1. Offered(skt, smHTTP, taken)  BY <1>1 DEF FifoInv
    <2> QED  BY <1>1, <2>1, OfferedImplies
  <1>2. CASE overHole = TRUE
    <2>1. /\ skt \in SktType /\ taken \in 0..MaxRx /\ smHTTP \in {"IDLE", "SERVE"}
          /\ skt.smState = "ESTABLISHED" => smHTTP = "SERVE"
      BY <1>2 DEF FifoInv, Stale, Typed
    <2>2. FifoTypeOK  BY <1>2, <2>1 DEF FifoTypeOK, SktType
    <2>3. RingIntact  BY <1>2 DEF RingIntact
    <2>4. NoReceivedByteLost  BY <2>1 DEF NoReceivedByteLost
    <2> QED  BY <2>2, <2>3, <2>4
  <1>3. overHole = TRUE \/ overHole = FALSE  BY DEF FifoInv
  <1> QED  BY <1>1, <1>2, <1>3

\* The ring and the HTTP connection are as FifoInv says in every state.
THEOREM FifoInvariance == FifoSpec => []FifoInv
  <1>1. FifoInit => FifoInv  BY FifoInitially
  <1>2. FifoInv /\ [FifoNext]_fifoVars => FifoInv'  BY FifoStep
  <1> QED  BY <1>1, <1>2, PTL DEF FifoSpec

\* The numbers of the ring keep their bounds, and its pointers never leave the receive
\* FIFO, unless TCPAdjustFIFOSize() drops the data while a hole is open (TCP.c:3620
\* does not clear sHoleSize): the run tcp_resize shows that they then do.
THEOREM FifoTypeCorrect == FifoSpec => []FifoTypeOK
  <1>1. FifoInv => FifoTypeOK  BY FifoInvImplies
  <1> QED  BY <1>1, FifoInvariance, PTL

\* Every byte that counts as received, or as received ahead, is the byte the
\* remote node sent there: HandleTCPSeg(), TCPGetArray(), TCPAdjustFIFOSize(), with
\* the same exception.
THEOREM RingStaysIntact == FifoSpec => []RingIntact
  <1>1. FifoInv => RingIntact  BY FifoInvImplies
  <1> QED  BY <1>1, FifoInvariance, PTL

\* Until the response begins, what was acknowledged is what was read and what
\* still waits: neither resize of a request drops a byte.
THEOREM EveryByteIsOffered == FifoSpec => []NoReceivedByteLost
  <1>1. FifoInv => NoReceivedByteLost  BY FifoInvImplies
  <1> QED  BY <1>1, FifoInvariance, PTL

-----------------------------------------------------------------------------
(* Both parts side by side, as they are checked.                           *)

\* The variables of both modules keep their types in every behaviour of the
\* composition: a step of one part leaves the other alone.
THEOREM PartsTypeCorrect == PartsSpec => []PartsTypeOK
  <1> DEFINE Both == FifoInv /\ AcceptInv
  <1>1. PartsInit => Both  BY FifoInitially, AcceptInitially DEF PartsInit
  <1>2. Both /\ [RingStep \/ QueueStep]_partsVars => Both'
    <2> SUFFICES ASSUME Both, [RingStep \/ QueueStep]_partsVars PROVE Both'  OBVIOUS
    <2>1. [FifoNext]_fifoVars /\ [AcceptNext]_acceptVars
      BY DEF RingStep, QueueStep, partsVars
    <2>2. FifoInv'  BY <2>1, FifoStep
    <2>3. AcceptInv'  BY <2>1, AcceptStep
    <2> QED  BY <2>2, <2>3
  <1>3. Both => PartsTypeOK  BY FifoInvImplies, AcceptInvImplies DEF PartsTypeOK
  <1> QED  BY <1>1, <1>2, <1>3, PTL DEF PartsSpec
=============================================================================
