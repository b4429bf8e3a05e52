----------------------------- MODULE UnitsProofs -----------------------------
(***************************************************************************)
(* Proofs about three of the parts that MCUnits runs side by side, and     *)
(* about all four of them together; those of the driver's rings are in     *)
(* MACRingsProofs.                                                         *)
(*                                                                         *)
(* The time GetTickCopy() returns is a time that really passed during the  *)
(* call, for any period of the timer and any width of the counter of its   *)
(* overflows.  The remainders come first: the counter wraps, and the       *)
(* provers know division only for numbers they are given.                  *)
(*                                                                         *)
(* The journal of settings survives a power failure between any two        *)
(* commands of the flash, for any number of sectors above two and any set  *)
(* of settings.  The invariant says, for each point at which the power may *)
(* fail, which sectors may hold a record and which of them the next boot   *)
(* takes.                                                                  *)
(*                                                                         *)
(* The DHCP client, for any set of servers, any lease times and any length *)
(* of the waits, holds a UDP socket exactly while it asks, and it uses an  *)
(* address only after it asked the server that leases it.  The second      *)
(* rests on what the client remembers of the offer it has taken: once it   *)
(* asks for an address, no message may change the address or the server    *)
(* any more, until the answer comes or it starts again.                    *)
(***************************************************************************)
EXTENDS MCUnits, MACRingsProofs, Integers, TLAPS

-----------------------------------------------------------------------------
(* Arithmetic.                                                             *)

\* A number is a multiple of another and a rest.
LEMMA DivisionWithRest ==
    ASSUME NEW a \in Int, NEW n \in Int, n > 0
    PROVE a = n * (a \div n) + (a % n)
  BY SMT

\* The quotient and the rest of a natural number.
LEMMA QuotientIn ==
    ASSUME NEW a \in Int, NEW n \in Int, n > 0, a >= 0
    PROVE a \div n \in Nat /\ a % n \in 0 .. n - 1
  BY SMT

\* One period more.
LEMMA TimesSucc ==
    ASSUME NEW p \in Nat, NEW n \in Nat PROVE n * (p + 1) = n * p + n /\ n * p \in Nat
  BY SMT

\* More periods are more ticks.
LEMMA TimesLe ==
    ASSUME NEW p \in Nat, NEW q \in Nat, NEW n \in Nat, p <= q
    PROVE n * p <= n * q
  BY SMT

\* There is one way to write a number as a multiple and a rest.
LEMMA ModUnique ==
    ASSUME NEW q \in Nat, NEW n \in Nat \ {0}, NEW r \in 0 .. n - 1
    PROVE (n * q + r) % n = r
  <1> DEFINE a == n * q + r
             x == a % n
             d == a \div n
  <1>1. a \in Nat  BY TimesSucc, SMT
  <1>2. a = n * d + x /\ x \in 0 .. n - 1 /\ d \in Nat
    BY <1>1, DivisionWithRest, QuotientIn
  <1>3. n * q + r = n * d + x  BY <1>2
  <1> HIDE DEF a, x, d
  <1>4. n * d \in Nat /\ n * q \in Nat  BY <1>2, TimesSucc
  <1>5. ~ (d < q)
    <2> SUFFICES ASSUME d < q PROVE FALSE  OBVIOUS
    <2>1. n * (d + 1) <= n * q  BY <1>2, TimesLe, SMT
    <2>2. n * (d + 1) = n * d + n  BY <1>2, TimesSucc
    <2> QED  BY <1>2, <1>3, <1>4, <2>1, <2>2, SMT
  <1>6. ~ (q < d)
    <2> SUFFICES ASSUME q < d PROVE FALSE  OBVIOUS
    <2>1. n * (q + 1) <= n * d  BY <1>2, TimesLe, SMT
    <2>2. n * (q + 1) = n * q + n  BY TimesSucc
    <2> QED  BY <1>2, <1>3, <1>4, <2>1, <2>2, SMT
  <1>7. d = q  BY <1>2, <1>5, <1>6, SMT
  <1>8. x = r  BY <1>2, <1>3, <1>4, <1>7, SMT
  <1> QED  BY <1>8 DEF x, a

\* A counter that wraps keeps the remainder of the count.
LEMMA ModNext ==
    ASSUME NEW a \in Nat, NEW n \in Nat \ {0}
    PROVE ((a % n) + 1) % n = (a + 1) % n
  <1> DEFINE r == a % n
             d == a \div n
  <1>1. a = n * d + r /\ r \in 0 .. n - 1 /\ d \in Nat  BY DivisionWithRest, QuotientIn
  <1> HIDE DEF r, d
  <1>2. n * d \in Nat  BY <1>1, TimesSucc
  <1>3. CASE r + 1 < n
    <2>1. r + 1 \in 0 .. n - 1  BY <1>1, <1>3, SMT
    <2>2. a + 1 = n * d + (r + 1)  BY <1>1, <1>2, SMT
    <2>3. (a + 1) % n = r + 1  BY <1>1, <2>1, <2>2, ModUnique
    <2>4. (n * 0 + (r + 1)) % n = r + 1  BY <2>1, ModUnique
    <2>5. n * 0 + (r + 1) = r + 1  BY <1>1, SMT
    <2> QED  BY <2>3, <2>4, <2>5 DEF r
  <1>4. CASE r + 1 = n
    <2>1. n * (d + 1) = n * d + n  BY <1>1, TimesSucc
    <2>2. a + 1 = n * (d + 1) + 0  BY <1>1, <1>2, <1>4, <2>1, SMT
    <2>3. 0 \in 0 .. n - 1 /\ d + 1 \in Nat  BY <1>1, SMT
    <2>4. (a + 1) % n = 0  BY <2>2, <2>3, ModUnique
    <2>5. (n * 1 + 0) % n = 0  BY <2>3, ModUnique
    <2>6. n * 1 + 0 = r + 1  BY <1>1, <1>4, SMT
    <2> QED  BY <2>4, <2>5, <2>6 DEF r
  <1> QED  BY <1>1, <1>3, <1>4, SMT

-----------------------------------------------------------------------------
(* The invariant.                                                          *)

\* The overflows that TICK_TIMER_ISR() has counted: all but the pending one.
Served == IF uif THEN periods - 1 ELSE periods

\* What GetTickCopy() knows at each access.  While the interrupt is off and no
\* overflow is pending, the halves it has stored are of the running period.
ReaderOK ==
  /\ reader \in {"low", "high", "check"} => ~irqEnabled
  /\ reader \in {"high", "check"} /\ ~uif =>
       asked <= periods * Period + vTickReading.low /\ vTickReading.low <= cnt
  /\ reader = "check" /\ ~uif => vTickReading.high = periods % HighWrap

TickInv ==
  /\ TickTypeOK
  /\ uif => periods > 0
  /\ dwInternalTicks = Served % HighWrap
  /\ reader # "idle" => asked <= Now
  /\ ReaderOK
  /\ TickWasTheTime

\* Time is a number, and only the timer makes it pass.
LEMMA NowIn ==
    ASSUME TickTypeOK PROVE Now \in Nat /\ periods * Period \in Nat
  <1>1. periods * Period \in Nat
    BY TickAssumption, SMT DEF TickTypeOK
  <1> QED  BY <1>1, TickAssumption, SMT DEF TickTypeOK, Now

\* The time stands while the timer does ...
LEMMA NowStays ==
    ASSUME UNCHANGED <<cnt, periods>> PROVE Now' = Now
  BY DEF Now

\* ... and goes on by one when it counts.
LEMMA NowGrows ==
    ASSUME TickTypeOK, TimerCounts
    PROVE Now' = Now + 1 /\ periods \in Nat /\ periods' \in Nat /\ periods <= periods'
  <1>1. periods \in Nat /\ cnt \in Nat /\ Period \in Nat /\ periods * Period \in Nat
    BY TickAssumption, NowIn, SMT DEF TickTypeOK
  <1>2. CASE cnt' = cnt + 1 /\ periods' = periods
    BY <1>1, <1>2, SMT DEF Now
  <1>3. CASE cnt = Period - 1 /\ cnt' = 0 /\ periods' = periods + 1
    <2>1. (periods + 1) * Period = periods * Period + Period  BY <1>1, SMT
    <2> QED  BY <1>1, <1>3, <2>1, SMT DEF Now
  <1> QED  BY <1>2, <1>3 DEF TimerCounts

\* A time that has passed has still passed later.
LEMMA PastStays ==
    ASSUME TickInv, periods' \in Nat, periods <= periods', Now' \in Nat, Now <= Now',
           UNCHANGED <<vTickReading, asked>>, reader' = "done" => reader = "done"
    PROVE TickWasTheTime'
  <1> SUFFICES ASSUME reader = "done"
               PROVE \E p \in 0 .. periods' : /\ p % HighWrap = vTickReading.high
                                              /\ asked <= p * Period + vTickReading.low
                                              /\ p * Period + vTickReading.low <= Now'
    BY DEF TickWasTheTime
  <1>1. PICK p \in 0 .. periods : /\ p % HighWrap = vTickReading.high
                                  /\ asked <= p * Period + vTickReading.low
                                  /\ p * Period + vTickReading.low <= Now
    BY DEF TickInv, TickWasTheTime
  <1> DEFINE m == p * Period
             v == vTickReading.low
  <1>2. v \in 0 .. Period - 1  BY Zenon DEF TickInv, TickTypeOK
  <1>3. p \in Nat /\ p \in 0 .. periods' /\ m \in Nat /\ v \in Nat /\ Now \in Nat
    <2>1. periods \in Nat /\ Now \in Nat  BY NowIn DEF TickInv, TickTypeOK
    <2>2. p \in Nat /\ p \in 0 .. periods'  BY <2>1, SMT
    <2> QED  BY <1>2, <2>1, <2>2, TickAssumption, SMT
  <1>4. m + v <= Now'
    <2> HIDE DEF m, v
    <2> QED  BY <1>1, <1>3, SMT DEF m, v
  <1> QED  BY <1>1, <1>3, <1>4

-----------------------------------------------------------------------------
(* One access at a time.                                                   *)

\* The initial state satisfies the invariant.
LEMMA TickInvInit == TickInit => TickInv
  <1> SUFFICES ASSUME TickInit PROVE TickInv  OBVIOUS
  <1>1. TickTypeOK
    <2>1. 0 \in Nat /\ 0 \in 0 .. Period - 1 /\ 0 \in 0 .. HighWrap - 1
      BY TickAssumption, SMT
    <2> QED  BY <2>1, Zenon DEF TickInit, TickTypeOK
  <1>2. Served = 0  BY DEF TickInit, Served
  <1>3. 0 % HighWrap = 0  BY TickAssumption, SMT
  <1> QED
    BY <1>1, <1>2, <1>3 DEF TickInit, TickInv, ReaderOK, TickWasTheTime

\* The timer counts, and may overflow.
LEMMA TickTimerCounts ==
    ASSUME TickInv, TimerCounts PROVE TickInv'
  <1>1. UNCHANGED <<dwInternalTicks, irqEnabled, reader, vTickReading, asked>>
    BY DEF TimerCounts
  <1>2. /\ Now' = Now + 1 /\ periods \in Nat /\ periods' \in Nat /\ periods <= periods'
        /\ Now \in Nat
    BY NowGrows, NowIn DEF TickInv
  <1>3. asked \in Nat /\ cnt \in 0 .. Period - 1 /\ uif \in BOOLEAN
    BY DEF TickInv, TickTypeOK
  <1>4. \/ cnt < Period - 1 /\ cnt' = cnt + 1 /\ UNCHANGED <<uif, periods>>
        \/ cnt = Period - 1 /\ ~uif /\ cnt' = 0 /\ uif' = TRUE /\ periods' = periods + 1
    BY DEF TimerCounts
  <1>5. cnt' \in 0 .. Period - 1 /\ uif' \in BOOLEAN
    <2>1. CASE cnt < Period - 1 /\ cnt' = cnt + 1 /\ uif' = uif
      <3>1. cnt' \in 0 .. Period - 1  BY <1>3, <2>1, TickAssumption, SMT
      <3> QED  BY <1>3, <2>1, <3>1
    <2>2. CASE cnt' = 0 /\ uif' = TRUE
      <3>1. 0 \in 0 .. Period - 1  BY TickAssumption, SMT
      <3> QED  BY <2>2, <3>1
    <2> QED  BY <1>4, <2>1, <2>2
  <1>6. TickTypeOK'
    BY <1>1, <1>2, <1>5, Zenon DEF TickInv, TickTypeOK
  <1>7. (uif' => periods' > 0) /\ Served' = Served
    <2>1. CASE UNCHANGED <<uif, periods>>  BY <2>1 DEF TickInv, Served
    <2>2. CASE ~uif /\ uif' = TRUE /\ periods' = periods + 1
      <3>1. periods' > 0 /\ periods' - 1 = periods  BY <1>2, <2>2, SMT
      <3> QED  BY <2>2, <3>1 DEF Served
    <2> QED  BY <1>4, <2>1, <2>2
  <1>8. reader' # "idle" => asked' <= Now'
    BY <1>1, <1>2, <1>3, SMT DEF TickInv
  <1>9. ReaderOK'
    <2>1. vTickReading.low \in 0 .. Period - 1
      BY Zenon DEF TickInv, TickTypeOK
    <2>2. CASE uif'
      BY <1>1, <2>2 DEF TickInv, ReaderOK
    <2>3. CASE ~uif'
      <3>1. cnt' = cnt + 1 /\ UNCHANGED <<uif, periods>>  BY <1>4, <2>3
      <3>2. vTickReading.low <= cnt => vTickReading.low <= cnt'
        BY <1>3, <2>1, <3>1, TickAssumption, SMT
      <3> QED  BY <1>1, <3>1, <3>2 DEF TickInv, ReaderOK
    <2> QED  BY <2>2, <2>3
  <1>10. TickWasTheTime'
    <2>1. Now <= Now' /\ Now' \in Nat  BY <1>2, SMT
    <2> QED  BY <1>1, <1>2, <2>1, PastStays
  <1> QED  BY <1>1, <1>6, <1>7, <1>8, <1>9, <1>10 DEF TickInv

\* The interrupt serves the overflow.
LEMMA TickTimerISR ==
    ASSUME TickInv, TimerISR PROVE TickInv'
  <1>1. /\ irqEnabled /\ uif /\ uif' = FALSE
        /\ dwInternalTicks' = (dwInternalTicks + 1) % HighWrap
        /\ UNCHANGED <<cnt, irqEnabled, reader, vTickReading, periods, asked>>
    BY DEF TimerISR
  <1>2. /\ periods \in Nat /\ periods > 0 /\ periods - 1 \in Nat
        /\ dwInternalTicks = (periods - 1) % HighWrap
        /\ (periods - 1) + 1 = periods
    BY <1>1, SMT DEF TickInv, TickTypeOK, Served
  <1>3. dwInternalTicks' = periods % HighWrap
    <2>1. (((periods - 1) % HighWrap) + 1) % HighWrap = ((periods - 1) + 1) % HighWrap
      BY <1>2, TickAssumption, ModNext
    <2> QED  BY <1>1, <1>2, <2>1
  <1>4. dwInternalTicks' \in 0 .. HighWrap - 1
    BY <1>2, <1>3, TickAssumption, QuotientIn, SMT
  <1>5. TickTypeOK'  BY <1>1, <1>4, Zenon DEF TickInv, TickTypeOK
  <1>6. Served' = periods /\ periods' = periods  BY <1>1 DEF Served
  <1>7. Now' = Now /\ Now \in Nat  BY <1>1, NowStays, NowIn DEF TickInv
  <1>8. ReaderOK'  BY <1>1 DEF TickInv, ReaderOK
  <1>9. TickWasTheTime'
    <2>1. periods <= periods' /\ Now <= Now' /\ Now' \in Nat  BY <1>2, <1>6, <1>7, SMT
    <2> QED  BY <1>1, <1>2, <1>6, <2>1, PastStays
  <1> QED  BY <1>1, <1>3, <1>5, <1>6, <1>7, <1>8, <1>9 DEF TickInv

\* An access of the reader leaves the timer and its counter alone.
LEMMA TickAccess ==
    ASSUME TickInv, UNCHANGED <<cnt, uif, dwInternalTicks, periods>>,
           TickTypeOK', reader' # "idle" => asked' <= Now', ReaderOK', TickWasTheTime'
    PROVE TickInv'
  <1>1. Served' = Served  BY DEF Served
  <1> QED  BY <1>1 DEF TickInv

\* TickGet() begins.
LEMMA TickAskTick ==
    ASSUME TickInv, AskTick PROVE TickInv'
  <1>1. Now' = Now /\ Now \in Nat  BY NowStays, NowIn DEF TickInv, AskTick
  <1>2. TickTypeOK'
    BY <1>1, Zenon DEF TickInv, TickTypeOK, AskTick, Access
  <1>3. asked' <= Now'  BY <1>1, SMT DEF AskTick
  <1> QED
    BY <1>2, <1>3, TickAccess DEF AskTick, Access, ReaderOK, TickWasTheTime

\* The reader masks the interrupt.
LEMMA TickCloseWindow ==
    ASSUME TickInv, CloseWindow PROVE TickInv'
  <1>1. Now' = Now  BY NowStays DEF CloseWindow
  <1>2. TickTypeOK'  BY Zenon DEF TickInv, TickTypeOK, CloseWindow, Access
  <1> QED
    BY <1>1, <1>2, TickAccess DEF TickInv, CloseWindow, Access, ReaderOK, TickWasTheTime

\* The low half is of the running period, if no overflow is pending.
LEMMA TickReadLow ==
    ASSUME TickInv, ReadLow PROVE TickInv'
  <1>1. Now' = Now  BY NowStays DEF ReadLow
  <1>2. /\ reader = "low" /\ reader' = "high"
        /\ vTickReading' = [vTickReading EXCEPT !.low = cnt]
        /\ UNCHANGED <<cnt, uif, dwInternalTicks, irqEnabled, periods, asked>>
    BY DEF ReadLow, Access
  <1>3. vTickReading'.low = cnt  BY <1>2, Zenon DEF TickInv, TickTypeOK
  <1>4. vTickReading' \in [low : 0 .. Period - 1, high : 0 .. HighWrap - 1]
    BY <1>2, Zenon DEF TickInv, TickTypeOK
  <1>5. TickTypeOK'  BY <1>2, <1>4, Zenon DEF TickInv, TickTypeOK
  <1>6. asked <= periods * Period + cnt  BY <1>2 DEF TickInv, Now
  <1>7. cnt <= cnt  BY TickAssumption, SMT DEF TickInv, TickTypeOK
  <1>8. ReaderOK'  BY <1>2, <1>3, <1>6, <1>7 DEF TickInv, ReaderOK
  <1> QED
    BY <1>1, <1>2, <1>5, <1>8, TickAccess DEF TickInv, TickWasTheTime

\* It reads the counter of overflows.
LEMMA TickReadHigh ==
    ASSUME TickInv, ReadHigh PROVE TickInv'
  <1>1. Now' = Now  BY NowStays DEF ReadHigh
  <1>2. /\ reader = "high" /\ reader' = "check"
        /\ vTickReading' = [vTickReading EXCEPT !.high = dwInternalTicks]
        /\ UNCHANGED <<cnt, uif, dwInternalTicks, irqEnabled, periods, asked>>
    BY DEF ReadHigh, Access
  <1>3. vTickReading'.low = vTickReading.low /\ vTickReading'.high = dwInternalTicks
    BY <1>2, Zenon DEF TickInv, TickTypeOK
  <1>4. vTickReading' \in [low : 0 .. Period - 1, high : 0 .. HighWrap - 1]
    BY <1>2, Zenon DEF TickInv, TickTypeOK
  <1>5. TickTypeOK'  BY <1>2, <1>4, Zenon DEF TickInv, TickTypeOK
  <1>6. ~uif => dwInternalTicks = periods % HighWrap  BY DEF TickInv, Served
  <1>7. ReaderOK'  BY <1>2, <1>3, <1>6 DEF TickInv, ReaderOK
  <1> QED
    BY <1>1, <1>2, <1>5, <1>7, TickAccess DEF TickInv, TickWasTheTime

\* An overflow was pending: it opens the window once more.
LEMMA TickReadAgain ==
    ASSUME TickInv, ReadAgain PROVE TickInv'
  <1>1. Now' = Now  BY NowStays DEF ReadAgain
  <1>2. TickTypeOK'  BY Zenon DEF TickInv, TickTypeOK, ReadAgain, Access
  <1> QED
    BY <1>1, <1>2, TickAccess DEF TickInv, ReadAgain, Access, ReaderOK, TickWasTheTime

\* No overflow came between the two halves: the running period is the witness.
LEMMA TickReadDone ==
    ASSUME TickInv, ReadDone PROVE TickInv'
  <1>1. Now' = Now  BY NowStays DEF ReadDone
  <1>2. /\ reader = "check" /\ reader' = "done" /\ ~uif
        /\ UNCHANGED <<cnt, uif, dwInternalTicks, vTickReading, periods, asked>>
    BY DEF ReadDone, Access
  <1>3. TickTypeOK'  BY Zenon DEF TickInv, TickTypeOK, ReadDone, Access
  <1>4. /\ vTickReading.high = periods % HighWrap
        /\ asked <= periods * Period + vTickReading.low /\ vTickReading.low <= cnt
    BY <1>2 DEF TickInv, ReaderOK
  <1>5. periods * Period + vTickReading.low <= Now
    <2>1. vTickReading.low \in 0 .. Period - 1  BY Zenon DEF TickInv, TickTypeOK
    <2>2. periods * Period \in Nat /\ cnt \in 0 .. Period - 1
      BY NowIn DEF TickInv, TickTypeOK
    <2> QED  BY <1>4, <2>1, <2>2, TickAssumption, SMT DEF Now
  <1>6. periods \in 0 .. periods  BY SMT DEF TickInv, TickTypeOK
  <1>7. TickWasTheTime'  BY <1>1, <1>2, <1>4, <1>5, <1>6 DEF TickWasTheTime
  <1> QED
    BY <1>1, <1>2, <1>3, <1>7, TickAccess DEF TickInv, ReaderOK

\* The caller takes what was read.
LEMMA TickTakeTick ==
    ASSUME TickInv, TakeTick PROVE TickInv'
  <1>1. TickTypeOK'  BY Zenon DEF TickInv, TickTypeOK, TakeTick, Access
  <1> QED
    BY <1>1, TickAccess DEF TickInv, TakeTick, Access, ReaderOK, TickWasTheTime

\* Nothing happens.
LEMMA TickStutters ==
    ASSUME TickInv, UNCHANGED tickVars PROVE TickInv'
  BY DEF tickVars, TickInv, TickTypeOK, Served, Now, ReaderOK, TickWasTheTime

\* Every step keeps the invariant.
LEMMA TickInvStep == TickInv /\ [TickNext]_tickVars => TickInv'
  BY TickTimerCounts, TickTimerISR, TickAskTick, TickCloseWindow, TickReadLow,
     TickReadHigh, TickReadAgain, TickReadDone, TickTakeTick, TickStutters
     DEF TickNext, GetTickCopy

\* The invariant holds whatever the timer and the interrupt do between two
\* instructions of the reader.
THEOREM TickInvariance == TickSpec => []TickInv
  BY TickInvInit, TickInvStep, PTL DEF TickSpec

\* The timer, the counter of its overflows and the reader keep their types, for
\* any period and any width of the counter.
THEOREM TickTypeCorrect == TickSpec => []TickTypeOK
  <1>1. TickInv => TickTypeOK  BY DEF TickInv
  <1> QED  BY <1>1, TickInvariance, PTL

\* GetTickCopy() never joins the low half of one period to the high half of
\* another, wherever the interrupt and the overflow fall: the time it returns
\* lies between the call and the return.
THEOREM TickIsNeverTorn == TickSpec => []TickWasTheTime
  <1>1. TickInv => TickWasTheTime  BY DEF TickInv
  <1> QED  BY <1>1, TickInvariance, PTL

-----------------------------------------------------------------------------
(* The settings.                                                           *)

\* The next boot may bring these settings, unless the page wrote over sector 0.
Kept(config) == posted = NoConfig => config \in promised

\* The records are that of sector n and at most that of the sector before it:
\* n is the newest.
Newest(n) ==
  /\ n \in Sectors
  /\ Valid = {n} \/ \E o \in Sectors : NextSector(o) = n /\ Valid = {o, n}
  /\ Kept(sectors[n])

\* Nothing is in the flash but the record in use, and that only if the page did
\* not write over it.
OnlyCurrent ==
  /\ Valid \subseteq {curParameterStart}
  /\ Valid = {} => Kept(Default)
  /\ \A s \in Valid : Kept(sectors[s])

\* What the flash holds at each point.
JournalOK ==
  /\ at \in {"idle", "program"} => OnlyCurrent
  /\ at = "program" => AppConfig \in promised
  /\ at = "off" => (Valid = {} /\ Kept(Default)) \/ \E n \in Sectors : Newest(n)
  /\ at = "erase" =>
       /\ curParameterStart \in Sectors
       /\ Valid \subseteq {curParameterStart, NextSector(curParameterStart)}
       /\ NextSector(curParameterStart) \in Valid
       /\ Kept(sectors[NextSector(curParameterStart)])
  /\ at = "erase older" =>
       /\ curParameterStart \in Sectors
       /\ \E o \in Sectors : NextSector(o) = curParameterStart /\ Valid = {o, curParameterStart}
       /\ Kept(sectors[curParameterStart])

JournalInv == ParametersTypeOK /\ JournalOK

-----------------------------------------------------------------------------
(* The sectors and the operators on them.                                  *)

\* The next sector is one of the sectors, and another one.
LEMMA NextSectorIn ==
    ASSUME NEW s \in Sectors
    PROVE NextSector(s) \in Sectors /\ NextSector(s) # s
  BY ParametersAssumption, SMT DEF Sectors, NextSector

\* With three sectors or more, only one of two neighbours follows the other.
LEMMA OneFollows ==
    ASSUME NEW o \in Sectors, NEW n \in Sectors, NextSector(o) = n
    PROVE Follows(o, n) /\ ~Follows(n, o)
  BY ParametersAssumption, SMT DEF Sectors, NextSector, Follows

\* The sector a save writes to is never the one in use.
LEMMA TargetIn ==
    ASSUME ParametersTypeOK
    PROVE Target \in Sectors /\ Target # curParameterStart
  BY NextSectorIn, ParametersAssumption, SMT
     DEF ParametersTypeOK, Target, Sectors, INVALID_PARAMATER_START

\* The number that stands for no sector is none.
LEMMA InvalidOut == INVALID_PARAMATER_START \notin Sectors
  BY ParametersAssumption, SMT DEF Sectors, INVALID_PARAMATER_START

\* An erasure takes one record away.
LEMMA EraseValid ==
    ASSUME ParametersTypeOK, NEW s \in Sectors, sectors' = Erased(s)
    PROVE Valid' = Valid \ {s} /\ \A t \in Valid' : sectors'[t] = sectors[t]
  BY Zenon DEF ParametersTypeOK, Valid, Erased

\* A write adds one.
LEMMA WriteValid ==
    ASSUME ParametersTypeOK, NEW s \in Sectors, NEW v \in Configs,
           sectors' = [sectors EXCEPT ![s] = v]
    PROVE /\ Valid' = Valid \cup {s} /\ sectors'[s] = v
          /\ \A t \in Sectors \ {s} : sectors'[t] = sectors[t]
  <1>1. v # NoConfig  BY ParametersAssumption
  <1> QED  BY <1>1, Zenon DEF ParametersTypeOK, Valid

\* The least of one number, and of two.
LEMMA MinOfOne ==
    ASSUME NEW x \in Nat PROVE Min({x}) = x
  BY SMT DEF Min
\* The lesser of two.
LEMMA MinOfTwo ==
    ASSUME NEW x \in Nat, NEW y \in Nat, x < y PROVE Min({x, y}) = x
  BY SMT DEF Min

\* What LoadParameters() finds: one record, or two in order.
LEMMA FirstOfOne ==
    ASSUME NEW n \in Sectors, Valid = {n} PROVE First = n /\ ~Several
  <1>1. n \in Nat  BY ParametersAssumption, SMT DEF Sectors
  <1>2. First = n  BY <1>1, MinOfOne DEF First
  <1> QED  BY <1>2 DEF Several
\* (Two records.)
LEMMA FirstOfTwo ==
    ASSUME NEW x \in Sectors, NEW y \in Sectors, x < y, Valid = {x, y}
    PROVE First = x /\ Second = y /\ Several
  <1>1. x \in Nat /\ y \in Nat /\ x # y  BY ParametersAssumption, SMT DEF Sectors
  <1>2. First = x  BY <1>1, MinOfTwo DEF First
  <1>3. Valid \ {First} = {y}  BY <1>1, <1>2
  <1>4. Second = y  BY <1>1, <1>3, MinOfOne DEF Second
  <1> QED  BY <1>1, <1>2, <1>4 DEF Several

-----------------------------------------------------------------------------
(* Type correctness.                                                       *)

\* A flash that was never written is well typed.
LEMMA ParametersTypeInit == ParametersInit => ParametersTypeOK
  BY ParametersAssumption
     DEF ParametersInit, ParametersTypeOK, Points, INVALID_PARAMATER_START

\* A write to one sector keeps the flash a flash.
LEMMA SectorsTyped ==
    ASSUME ParametersTypeOK, NEW s \in Sectors, NEW v \in Configs \cup {NoConfig}
    PROVE [sectors EXCEPT ![s] = v] \in [Sectors -> Configs \cup {NoConfig}]
  BY Zenon DEF ParametersTypeOK

\* So does an erasure.
LEMMA ErasedTyped ==
    ASSUME ParametersTypeOK, NEW s \in Sectors
    PROVE Erased(s) \in [Sectors -> Configs \cup {NoConfig}]
  BY SectorsTyped, Zenon DEF Erased

\* There is a sector to begin with.
LEMMA SectorZero == 0 \in Sectors
  BY ParametersAssumption, SMT DEF Sectors

-----------------------------------------------------------------------------
(* A boot.                                                                 *)

\* Of two neighbours LoadParameters() takes the second, wherever they lie.
LEMMA NeighboursFound ==
    ASSUME NEW o \in Sectors, NEW n \in Sectors, NextSector(o) = n, Valid = {o, n}
    PROVE /\ Several
          /\ \/ First = o /\ Second = n /\ Follows(First, Second)
             \/ First = n /\ Second = o /\ ~Follows(First, Second) /\ Follows(Second, First)
  <1>1. o # n  BY NextSectorIn
  <1>2. o < n \/ n < o  BY <1>1, ParametersAssumption, SMT DEF Sectors
  <1>3. Follows(o, n) /\ ~Follows(n, o)  BY OneFollows
  <1>4. CASE o < n  BY <1>4, <1>3, FirstOfTwo
  <1>5. CASE n < o
    <2>1. Valid = {n, o}  OBVIOUS
    <2> QED  BY <1>5, <1>3, <2>1, FirstOfTwo
  <1> QED  BY <1>2, <1>4, <1>5

\* A boot takes the newest record, and the defaults only if there is none.
LEMMA BootTakesNewest ==
    ASSUME JournalInv, Boot
    PROVE \/ Valid = {} /\ Kept(Default) /\ LoadDefaultParameters
          \/ \E n \in Sectors : Newest(n) /\ Valid = {n} /\ Boots(n, "idle")
          \/ \E o, n \in Sectors : /\ Newest(n) /\ NextSector(o) = n /\ Valid = {o, n}
                                   /\ Boots(n, "erase older")
  <1>1. at = "off"  BY DEF Boot, LoadOne, LoadNewer, LoadDefaultParameters
  <1>2. (Valid = {} /\ Kept(Default)) \/ \E n \in Sectors : Newest(n)
    BY <1>1 DEF JournalInv, JournalOK
  <1>3. CASE Valid = {} /\ Kept(Default)
    <2>1. ~Several  BY <1>3 DEF Several
    <2> QED  BY <1>3, <2>1 DEF Boot, LoadOne, LoadNewer
  <1>4. ASSUME NEW n \in Sectors, Newest(n), Valid = {n}
        PROVE Boots(n, "idle")
    <2>1. First = n /\ ~Several  BY <1>4, FirstOfOne
    <2>2. ~LoadNewer /\ ~LoadDefaultParameters
      BY <1>4, <2>1 DEF LoadNewer, LoadDefaultParameters, Unreadable
    <2> QED  BY <2>1, <2>2 DEF Boot, LoadOne
  <1>5. ASSUME NEW o \in Sectors, NEW n \in Sectors, NextSector(o) = n, Valid = {o, n}
        PROVE Boots(n, "erase older")
    <2>1. /\ Several
          /\ \/ First = o /\ Second = n /\ Follows(First, Second)
             \/ First = n /\ Second = o /\ ~Follows(First, Second) /\ Follows(Second, First)
      BY <1>5, NeighboursFound
    <2>2. ~LoadOne /\ ~LoadDefaultParameters
      BY <1>5, <2>1 DEF LoadOne, LoadDefaultParameters, Unreadable
    <2>3. LoadNewer  BY <2>2 DEF Boot
    <2>4. \/ Follows(First, Second) /\ Boots(Second, "erase older")
          \/ ~Follows(First, Second) /\ Follows(Second, First) /\ Boots(First, "erase older")
      BY <2>3 DEF LoadNewer
    <2> QED  BY <2>1, <2>4
  <1> QED  BY <1>2, <1>3, <1>4, <1>5 DEF Newest

-----------------------------------------------------------------------------
(* Each command of the flash keeps the journal readable.                   *)

\* The blank flash is a journal.
LEMMA JournalInit == ParametersInit => JournalInv
  <1> SUFFICES ASSUME ParametersInit PROVE JournalInv  OBVIOUS
  <1>1. Valid = {}  BY Zenon DEF ParametersInit, Valid
  <1>2. JournalOK
    BY <1>1, Zenon DEF ParametersInit, JournalOK, Kept
  <1> QED  BY <1>2, ParametersTypeInit DEF JournalInv

\* SaveParameters() and LoadDefaultParameters(): the first write, with the
\* erasure it begins with.
LEMMA JournalSaveErases ==
    ASSUME JournalInv, OnlyCurrent, NEW config \in Configs, SaveErases(config)
    PROVE JournalInv'
  <1>1. Target \in Sectors /\ Target # curParameterStart  BY TargetIn DEF JournalInv
  <1>2. Valid' = Valid \ {Target} /\ \A t \in Valid' : sectors'[t] = sectors[t]
    BY <1>1, EraseValid DEF JournalInv, SaveErases
  <1>3. Valid' = Valid  BY <1>1, <1>2 DEF OnlyCurrent
  <1>4. ParametersTypeOK'
    BY <1>1, ErasedTyped, Zenon DEF JournalInv, ParametersTypeOK, SaveErases, Points
  <1>5. OnlyCurrent'  BY <1>2, <1>3 DEF OnlyCurrent, Kept, SaveErases
  <1>6. JournalOK'  BY <1>5 DEF JournalOK, SaveErases
  <1> QED  BY <1>4, <1>6 DEF JournalInv

\* The record is written: it is the newest, next to the one in use.
LEMMA JournalSavePrograms ==
    ASSUME JournalInv, SavePrograms PROVE JournalInv'
  <1>1. Target \in Sectors /\ Target # curParameterStart  BY TargetIn DEF JournalInv
  <1>2. AppConfig \in Configs  BY DEF JournalInv, ParametersTypeOK
  <1>3. /\ Valid' = Valid \cup {Target} /\ sectors'[Target] = AppConfig
        /\ \A t \in Sectors \ {Target} : sectors'[t] = sectors[t]
    BY <1>1, <1>2, WriteValid DEF JournalInv, SavePrograms
  <1>4. OnlyCurrent  BY DEF JournalInv, JournalOK, SavePrograms
  <1>5. ParametersTypeOK'
    BY <1>1, <1>2, SectorsTyped, Zenon
       DEF JournalInv, ParametersTypeOK, SavePrograms, Points
  <1>6. promised' = {sectors'[Target]}  BY <1>3 DEF SavePrograms
  <1>7. CASE curParameterStart = INVALID_PARAMATER_START
    <2>1. Valid = {}  BY <1>4, <1>7, InvalidOut DEF OnlyCurrent, Valid
    <2>2. curParameterStart' = Target /\ at' = "idle"  BY <1>7 DEF SavePrograms
    <2>3. OnlyCurrent'  BY <1>3, <1>6, <2>1, <2>2 DEF OnlyCurrent, Kept
    <2> QED  BY <1>5, <2>2, <2>3 DEF JournalInv, JournalOK
  <1>8. CASE curParameterStart # INVALID_PARAMATER_START
    <2>1. curParameterStart' = curParameterStart /\ at' = "erase"  BY <1>8 DEF SavePrograms
    <2>2. Target = NextSector(curParameterStart)  BY <1>8 DEF Target
    <2>3. curParameterStart \in Sectors  BY <1>8 DEF JournalInv, ParametersTypeOK
    <2>4. NextSector(curParameterStart)' = Target  BY <2>1, <2>2 DEF NextSector
    <2>5. Kept(sectors[NextSector(curParameterStart)])'
      BY <1>6, <2>4 DEF Kept
    <2> QED  BY <1>3, <1>4, <1>5, <2>1, <2>3, <2>4, <2>5 DEF JournalInv, JournalOK, OnlyCurrent
  <1> QED  BY <1>7, <1>8

\* The one before is erased.
LEMMA JournalSaveErasesLast ==
    ASSUME JournalInv, SaveErasesLast PROVE JournalInv'
  <1> DEFINE c == curParameterStart
             n == NextSector(curParameterStart)
  <1>1. /\ c \in Sectors /\ Valid \subseteq {c, n} /\ n \in Valid
        /\ Kept(sectors[n])
    BY DEF JournalInv, JournalOK, SaveErasesLast
  <1>2. n \in Sectors /\ n # c  BY <1>1, NextSectorIn
  <1>3. Valid' = Valid \ {c} /\ \A t \in Valid' : sectors'[t] = sectors[t]
    BY <1>1, EraseValid DEF JournalInv, SaveErasesLast
  <1>4. Valid' = {n} /\ sectors'[n] = sectors[n]  BY <1>1, <1>2, <1>3
  <1>5. curParameterStart' = n /\ at' = "idle" /\ UNCHANGED <<promised, posted>>
    BY DEF SaveErasesLast
  <1>6. ParametersTypeOK'
    BY <1>1, <1>2, ErasedTyped, Zenon
       DEF JournalInv, ParametersTypeOK, SaveErasesLast, Points
  <1>7. OnlyCurrent'  BY <1>1, <1>4, <1>5 DEF OnlyCurrent, Kept
  <1> QED  BY <1>5, <1>6, <1>7 DEF JournalInv, JournalOK

\* ClearParameters() leaves a journal at every erasure.
LEMMA JournalClear ==
    ASSUME JournalInv, ClearParameters PROVE JournalInv'
  <1>1. Valid' = Valid \ {curParameterStart}
    BY EraseValid DEF JournalInv, ClearParameters
  <1>2. OnlyCurrent  BY DEF JournalInv, JournalOK, ClearParameters
  <1>3. Valid' = {}  BY <1>1, <1>2 DEF OnlyCurrent
  <1>4. ParametersTypeOK'
    BY ErasedTyped, ParametersAssumption, Zenon
       DEF JournalInv, ParametersTypeOK, ClearParameters, Points
  <1>5. OnlyCurrent'  BY <1>3 DEF OnlyCurrent, Kept, ClearParameters
  <1> QED  BY <1>4, <1>5 DEF JournalInv, JournalOK, ClearParameters

\* The page takes at most the record in use away, and owns the next boot.
LEMMA JournalPost ==
    ASSUME JournalInv, HTTPPostConfig PROVE JournalInv'
  <1>1. Valid' = Valid \ {0}
    BY EraseValid, SectorZero DEF JournalInv, HTTPPostConfig
  <1>2. OnlyCurrent  BY DEF JournalInv, JournalOK, HTTPPostConfig
  <1>3. posted' \in Configs /\ posted' # NoConfig
    BY ParametersAssumption DEF HTTPPostConfig
  <1>4. ParametersTypeOK'
    BY <1>3, ErasedTyped, SectorZero, Zenon
       DEF JournalInv, ParametersTypeOK, HTTPPostConfig, Points
  <1>5. OnlyCurrent'  BY <1>1, <1>2, <1>3 DEF OnlyCurrent, Kept, HTTPPostConfig
  <1> QED  BY <1>4, <1>5 DEF JournalInv, JournalOK, HTTPPostConfig

\* LoadParameters() repairs a save that the power cut off.
LEMMA JournalLoadErasesOlder ==
    ASSUME JournalInv, LoadErasesOlder PROVE JournalInv'
  <1> DEFINE c == curParameterStart
  <1>1. /\ at = "erase older" /\ at' = "idle" /\ sectors' = Erased(Older)
        /\ UNCHANGED <<AppConfig, curParameterStart, promised, posted>>
    BY DEF LoadErasesOlder
  <1>2. PICK o \in Sectors : NextSector(o) = c /\ Valid = {o, c}
    BY <1>1 DEF JournalInv, JournalOK
  <1>3. c \in Sectors /\ Kept(sectors[c])  BY <1>1 DEF JournalInv, JournalOK
  <1>4. o # c  BY <1>2, NextSectorIn
  <1>5. Older = o  BY <1>2, <1>4 DEF Older
  <1>6. Valid' = Valid \ {o} /\ \A t \in Valid' : sectors'[t] = sectors[t]
    BY <1>1, <1>5, EraseValid DEF JournalInv
  <1>7. Valid' = {c} /\ sectors'[c] = sectors[c]  BY <1>2, <1>4, <1>6
  <1>8. ParametersTypeOK'
    BY <1>1, <1>5, ErasedTyped, Zenon DEF JournalInv, ParametersTypeOK, Points
  <1>9. OnlyCurrent'  BY <1>1, <1>3, <1>7 DEF OnlyCurrent, Kept
  <1> QED  BY <1>1, <1>8, <1>9 DEF JournalInv, JournalOK

\* The record that a boot has taken is the one in use.
LEMMA JournalBoots ==
    ASSUME JournalInv, NEW n \in Sectors, Newest(n), NEW then \in Points, Boots(n, then)
    PROVE /\ ParametersTypeOK' /\ Valid' = Valid
          /\ n \in Valid' /\ curParameterStart' = n /\ at' = then
          /\ Kept(sectors[curParameterStart])'
  <1>1. n \in Valid /\ sectors[n] \in Configs
    BY Zenon DEF JournalInv, ParametersTypeOK, Newest, Valid
  <1>2. ParametersTypeOK'
    BY <1>1, Zenon DEF JournalInv, ParametersTypeOK, Boots
  <1> QED  BY <1>1, <1>2 DEF Boots, Valid, Kept

\* LoadParameters() finds the newest record of a journal.
LEMMA JournalBoot ==
    ASSUME JournalInv, Boot PROVE JournalInv'
  <1>1. CASE Valid = {} /\ Kept(Default) /\ LoadDefaultParameters
    <2>1. Valid' = {}
      BY <1>1, EraseValid, SectorZero DEF JournalInv, LoadDefaultParameters
    <2>2. ParametersTypeOK'
      BY <1>1, ErasedTyped, SectorZero, ParametersAssumption, Zenon
         DEF JournalInv, ParametersTypeOK, LoadDefaultParameters, Points
    <2>3. OnlyCurrent'
      BY <1>1, <2>1 DEF OnlyCurrent, Kept, LoadDefaultParameters
    <2> QED  BY <1>1, <2>2, <2>3 DEF JournalInv, JournalOK, LoadDefaultParameters
  <1>2. ASSUME NEW n \in Sectors, Newest(n), Valid = {n}, Boots(n, "idle")
        PROVE JournalInv'
    <2>1. "idle" \in Points  BY DEF Points
    <2>2. /\ ParametersTypeOK' /\ Valid' = Valid
          /\ n \in Valid' /\ curParameterStart' = n /\ at' = "idle"
          /\ Kept(sectors[curParameterStart])'
      BY <1>2, <2>1, JournalBoots
    <2>3. OnlyCurrent'  BY <1>2, <2>2 DEF OnlyCurrent, Kept
    <2> QED  BY <2>2, <2>3 DEF JournalInv, JournalOK
  <1>3. ASSUME NEW o \in Sectors, NEW n \in Sectors, Newest(n), NextSector(o) = n,
               Valid = {o, n}, Boots(n, "erase older")
        PROVE JournalInv'
    <2>1. "erase older" \in Points  BY DEF Points
    <2>2. /\ ParametersTypeOK' /\ Valid' = Valid
          /\ n \in Valid' /\ curParameterStart' = n /\ at' = "erase older"
          /\ Kept(sectors[curParameterStart])'
      BY <1>3, <2>1, JournalBoots
    <2>3. \E x \in Sectors : NextSector(x)' = curParameterStart' /\ Valid' = {x, curParameterStart'}
      BY <1>3, <2>2 DEF NextSector
    <2> QED  BY <2>2, <2>3 DEF JournalInv, JournalOK, NextSector
  <1> QED  BY <1>1, <1>2, <1>3, BootTakesNewest

\* Whatever the power interrupts, the newest record can be told.
LEMMA JournalPowerFails ==
    ASSUME JournalInv, PowerFails PROVE JournalInv'
  <1>1. /\ at' = "off" /\ UNCHANGED <<sectors, AppConfig, curParameterStart, promised, posted>>
    BY DEF PowerFails
  <1>2. Valid' = Valid /\ \A n : Newest(n)' <=> Newest(n)
    BY <1>1 DEF Valid, Newest, Kept, NextSector
  <1>3. ParametersTypeOK'
    BY <1>1, Zenon DEF JournalInv, ParametersTypeOK, Points
  <1>4. (Valid = {} /\ Kept(Default)) \/ \E n \in Sectors : Newest(n)
    <2>1. CASE at \in {"idle", "program"}
      <3>1. OnlyCurrent  BY <2>1 DEF JournalInv, JournalOK
      <3>2. CASE Valid = {}  BY <3>1, <3>2 DEF OnlyCurrent
      <3>3. CASE Valid # {}
        <4>1. curParameterStart \in Sectors /\ Valid = {curParameterStart}
          BY <3>1, <3>3 DEF OnlyCurrent, Valid
        <4> QED  BY <3>1, <4>1 DEF OnlyCurrent, Newest
      <3> QED  BY <3>2, <3>3
    <2>2. CASE at = "erase"
      <3> DEFINE c == curParameterStart
                 n == NextSector(curParameterStart)
      <3>1. /\ c \in Sectors /\ Valid \subseteq {c, n} /\ n \in Valid /\ Kept(sectors[n])
        BY <2>2 DEF JournalInv, JournalOK
      <3>2. n \in Sectors  BY <3>1, NextSectorIn
      <3>3. Valid = {n} \/ Valid = {c, n}  BY <3>1
      <3>4. Newest(n)  BY <3>1, <3>2, <3>3 DEF Newest
      <3> QED  BY <3>2, <3>4
    <2>3. CASE at = "erase older"
      <3>1. Newest(curParameterStart)  BY <2>3 DEF JournalInv, JournalOK, Newest
      <3> QED  BY <3>1 DEF Newest
    <2>4. at \in Points /\ at # "off"  BY DEF JournalInv, ParametersTypeOK, PowerFails
    <2> QED  BY <2>1, <2>2, <2>3, <2>4 DEF Points
  <1>5. JournalOK'  BY <1>1, <1>2, <1>4 DEF JournalOK, Kept
  <1> QED  BY <1>3, <1>5 DEF JournalInv

\* Every step leaves a journal.
LEMMA JournalStep ==
    JournalInv /\ [ParametersNext]_parameterVars => JournalInv'
  <1> SUFFICES ASSUME JournalInv, [ParametersNext]_parameterVars PROVE JournalInv'
    OBVIOUS
  <1>1. CASE SaveParameters
    <2>1. OnlyCurrent  BY <1>1 DEF JournalInv, JournalOK, SaveParameters
    <2> QED  BY <1>1, <2>1, JournalSaveErases DEF SaveParameters
  <1>2. CASE SavePrograms  BY <1>2, JournalSavePrograms
  <1>3. CASE SaveErasesLast  BY <1>3, JournalSaveErasesLast
  <1>4. CASE ClearParameters  BY <1>4, JournalClear
  <1>5. CASE Boot  BY <1>5, JournalBoot
  <1>6. CASE LoadErasesOlder  BY <1>6, JournalLoadErasesOlder
  <1>7. CASE HTTPPostConfig  BY <1>7, JournalPost
  <1>8. CASE PowerFails  BY <1>8, JournalPowerFails
  <1>9. CASE UNCHANGED parameterVars
    BY <1>9 DEF parameterVars, JournalInv, ParametersTypeOK, JournalOK, OnlyCurrent,
                Newest, Kept, Valid, NextSector
  <1> QED
    BY <1>1, <1>2, <1>3, <1>4, <1>5, <1>6, <1>7, <1>8, <1>9 DEF ParametersNext

\* The flash, the record in use and the call under way keep their types, for
\* any number of sectors above two.
THEOREM ParametersTypeCorrect == ParametersSpec => []ParametersTypeOK
  <1>1. JournalInv => ParametersTypeOK  BY DEF JournalInv
  <1> QED  BY <1>1, JournalInit, JournalStep, PTL DEF ParametersSpec

\* At every point at which the power may fail the flash holds a record that
\* tells the settings of the last completed save, or of the one under way.
THEOREM JournalIsReadable == ParametersSpec => []JournalInv
  BY JournalInit, JournalStep, PTL DEF ParametersSpec

\* SaveParameters() and LoadParameters() lose no settings: the next boot brings
\* those of the last completed save or of the interrupted one, and the defaults
\* only where nothing was ever saved or the settings were cleared.
THEOREM SettingsSurvive == ParametersSpec => SavedSettingsSurvive
  <1>1. JournalInv => (Boot /\ posted = NoConfig => AppConfig' \in promised)
    <2> SUFFICES ASSUME JournalInv, Boot, posted = NoConfig PROVE AppConfig' \in promised
      OBVIOUS
    <2>1. CASE Kept(Default) /\ LoadDefaultParameters
      BY <2>1 DEF Kept, LoadDefaultParameters
    <2>2. ASSUME NEW n, NEW then, Newest(n), Boots(n, then)
          PROVE AppConfig' \in promised
      BY <2>2 DEF Newest, Kept, Boots
    <2> QED  BY <2>1, <2>2, BootTakesNewest
  <1> QED
    BY <1>1, JournalInit, JournalStep, PTL DEF ParametersSpec, SavedSettingsSurvive

-----------------------------------------------------------------------------
(* The DHCP client.                                                        *)

StateNames == {"DISABLED", "GET_SOCKET", "SEND_DISCOVERY", "GET_OFFER", "SEND_REQUEST",
               "GET_REQUEST_ACK", "BOUND", "SEND_RENEW", "GET_RENEW_ACK", "SEND_RENEW2",
               "GET_RENEW_ACK2", "SEND_RENEW3", "GET_RENEW_ACK3"}

Clients ==
  [state : StateNames, socket : BOOLEAN, bIsBound : BOOLEAN, bOfferReceived : BOOLEAN,
   DHCPServerID : Servers \cup {NoAddr}, tempIPAddress : Addresses, ipValid : BOOLEAN,
   DHCPLeaseTime : Nat, elapsed : 0 .. MaxElapsed]

Requests == [type : {"DISCOVER", "REQUEST", "RENEW"}, server : Servers \cup {NoAddr},
             addr : Addresses]

\* The states in which the socket is open.
Asking == StateNames \ {"DISABLED", "GET_SOCKET", "BOUND"}

\* The offer the client has taken is still what it remembers, and once it waits
\* for the acknowledgement it has asked for that address; b is what it has sent.
OfferOK(c, b) ==
  /\ c.state \in {"SEND_REQUEST", "GET_REQUEST_ACK"} =>
       /\ c.bOfferReceived /\ c.DHCPServerID \in Servers
       /\ c.tempIPAddress = c.DHCPServerID
  /\ c.state = "GET_REQUEST_ACK" => Request(c.DHCPServerID, c.tempIPAddress) \in b

ClientOK(c, b) == c \in Clients /\ (c.socket <=> c.state \in Asking) /\ OfferOK(c, b)

Granted(ip, b) == ip = DefaultIPAddr \/ (ip \in Servers /\ Request(ip, ip) \in b)

DHCPInv ==
  /\ ClientOK(dhcp, broadcast) /\ Granted(MyIPAddr, broadcast)
  /\ bInConfigMode \in BOOLEAN /\ broadcast \subseteq Requests

-----------------------------------------------------------------------------
(* The states, counted as the code counts them.                            *)

\* The enumeration has no other states.
LEMMA StatesAre == {States[i] : i \in DOMAIN States} = StateNames
  BY SMT DEF States, StateNames

\* What smDHCPState++ makes of the states that send a renewal ...
LEMMA NextOfSending ==
  /\ Next1("SEND_RENEW") = "GET_RENEW_ACK" /\ Next1("SEND_RENEW2") = "GET_RENEW_ACK2"
  /\ Next1("SEND_RENEW3") = "GET_RENEW_ACK3"
  BY SMT DEF States, Next1

\* ... and of those that wait for its answer.
LEMMA NextOfRenewing ==
  Next1("GET_RENEW_ACK") = "SEND_RENEW2" /\ Next1("GET_RENEW_ACK2") = "SEND_RENEW3"
  BY SMT DEF States, Next1

-----------------------------------------------------------------------------
(* The network.                                                            *)

\* What a message may be: an offer names the server that makes it.
MessageOK(m) ==
  /\ m.type \in {"NONE", "ACK", "OFFER", "NAK"} /\ m.mine \in BOOLEAN
  /\ m.server \in Servers \cup {NoAddr} /\ m.yiaddr \in Addresses
  /\ m.lease \in Nat \cup {NoLease}
  /\ m.type = "OFFER" => m.server \in Servers /\ m.yiaddr = m.server

\* A message is one.
LEMMA MessageIs ==
    ASSUME NEW t \in {"NONE", "ACK", "OFFER", "NAK"}, NEW s \in Servers \cup {NoAddr},
           NEW a \in Addresses, NEW n \in Nat \cup {NoLease}, NEW w \in BOOLEAN,
           t = "OFFER" => s \in Servers /\ a = s
    PROVE MessageOK(Message(t, s, a, n, w))
  BY Zenon DEF Message, MessageOK

\* So is whatever waits in the inbox.
LEMMA InboxOK ==
    ASSUME NEW m \in Inbox PROVE MessageOK(m)
  <1>1. /\ NoAddr \in Addresses /\ Other \in Addresses /\ NoAddr \in Servers \cup {NoAddr}
        /\ \A s \in Servers : s \in Servers \cup {NoAddr} /\ s \in Addresses
        /\ NoLease \in Nat \cup {NoLease}
    BY DEF Addresses
  <1>2. \A n \in Leases : n \in Nat \cup {NoLease}  BY DHCPAssumption
  <1>3. MessageOK(None)  BY <1>1, MessageIs DEF None
  <1>4. \A s \in Servers : /\ MessageOK(Message("ACK", s, Other, NoLease, FALSE))
                          /\ MessageOK(Message("NAK", s, NoAddr, NoLease, TRUE))
    BY <1>1, MessageIs
  <1>5. \A s \in Servers, n \in Leases : /\ MessageOK(Message("OFFER", s, s, n, TRUE))
                                       /\ MessageOK(Message("ACK", s, s, n, TRUE))
    BY <1>1, <1>2, MessageIs
  <1> DEFINE Offering == {x \in Servers : Discover \in broadcast}
             Acking == {x \in Servers : Request(x, x) \in broadcast \/ Renewal(x) \in broadcast}
             Naking == {x \in Servers : \E q \in broadcast : q.type = "RENEW" \/ q.server = x}
             I1 == {Message("ACK", s, Other, NoLease, FALSE) : s \in Servers}
             I2 == UNION {{Message("OFFER", s, s, n, TRUE) : s \in Offering} : n \in Leases}
             I3 == UNION {{Message("ACK", s, s, n, TRUE) : s \in Acking} : n \in Leases}
             I4 == {Message("NAK", s, NoAddr, NoLease, TRUE) : s \in Naking}
  <1>6. m \in {None} \cup I1 \cup I2 \cup I3 \cup I4  BY Zenon DEF Inbox
  <1>7. Offering \subseteq Servers /\ Acking \subseteq Servers /\ Naking \subseteq Servers
    OBVIOUS
  <1> HIDE DEF Offering, Acking, Naking
  <1>8. m \in I1 \/ m \in I4 => MessageOK(m)  BY <1>4, <1>7, Zenon
  <1>9. m \in I2 => MessageOK(m)  BY <1>5, <1>7, Zenon
  <1>10. m \in I3 => MessageOK(m)  BY <1>5, <1>7, Zenon
  <1> HIDE DEF I1, I2, I3, I4
  <1> QED  BY <1>3, <1>6, <1>8, <1>9, <1>10, Zenon

-----------------------------------------------------------------------------
(* _DHCPReceive().                                                         *)

\* 3.125% less of a lease is still a time.
LEMMA LeaseIn ==
    ASSUME NEW n \in Nat PROVE n - n \div 32 \in Nat
  <1>1. n \in Int /\ n >= 0  BY SMT
  <1>2. n \div 32 \in Int /\ n \div 32 <= n  BY <1>1, SMT
  <1> QED  BY <1>1, <1>2, SMT

\* A message stores an address and a lease time, and only while no offer has been
\* taken; the state and the socket are not its business.
LEMMA StoredIs ==
    ASSUME NEW c \in Clients, NEW m, MessageOK(m)
    PROVE /\ Stored(c, m) \in Clients
          /\ Stored(c, m).state = c.state /\ Stored(c, m).socket = c.socket
          /\ Stored(c, m).bOfferReceived = c.bOfferReceived
          /\ c.bOfferReceived => Stored(c, m) = c
          /\ ~c.bOfferReceived => Stored(c, m).tempIPAddress = m.yiaddr
  <1>1. CASE c.bOfferReceived  BY <1>1 DEF Stored
  <1>2. CASE ~c.bOfferReceived
    <2> DEFINE n == IF m.mine /\ m.lease # NoLease THEN m.lease - m.lease \div 32
                    ELSE c.DHCPLeaseTime
               t == [c EXCEPT !.tempIPAddress = m.yiaddr, !.ipValid = TRUE,
                              !.DHCPLeaseTime = n]
    <2>1. Stored(c, m) = t  BY <1>2, Zenon DEF Stored
    <2>2. n \in Nat
      <3>1. c.DHCPLeaseTime \in Nat  BY Zenon DEF Clients
      <3>2. m.lease # NoLease => m.lease \in Nat  BY DEF MessageOK
      <3> QED  BY <3>1, <3>2, LeaseIn
    <2>3. m.yiaddr \in Addresses  BY DEF MessageOK
    <2> HIDE DEF n
    <2>4. t \in Clients  BY <2>2, <2>3, Zenon DEF Clients
    <2>5. /\ t.state = c.state /\ t.socket = c.socket
          /\ t.bOfferReceived = c.bOfferReceived /\ t.tempIPAddress = m.yiaddr
      BY Zenon DEF Clients
    <2> QED  BY <1>2, <2>1, <2>4, <2>5
  <1> QED  BY <1>1, <1>2

\* _DHCPReceive() keeps the client a client, and an offer names its server.
LEMMA ReceivedIs ==
    ASSUME NEW c \in Clients, NEW m, MessageOK(m)
    PROVE LET r == Received(c, m)
          IN  /\ r \in Clients /\ r.state = c.state /\ r.socket = c.socket
              /\ c.bOfferReceived => r = c
              /\ Type(c, m) = "OFFER" =>
                   /\ r.bOfferReceived /\ r.DHCPServerID \in Servers
                   /\ r.tempIPAddress = r.DHCPServerID
  <1> DEFINE t == Stored(c, m)
             r == Received(c, m)
  <1>1. /\ t \in Clients /\ t.state = c.state /\ t.socket = c.socket
        /\ t.bOfferReceived = c.bOfferReceived
        /\ c.bOfferReceived => t = c
        /\ ~c.bOfferReceived => t.tempIPAddress = m.yiaddr
    BY StoredIs
  <1> HIDE DEF t
  <1>2. CASE m.mine /\ m.type = "OFFER" /\ ~c.bOfferReceived
    <2>1. r = [t EXCEPT !.DHCPServerID = m.server, !.bOfferReceived = TRUE]
      BY <1>2, Zenon DEF Received, t
    <2>2. m.server \in Servers /\ m.yiaddr = m.server  BY <1>2 DEF MessageOK
    <2>3. r \in Clients  BY <1>1, <2>1, <2>2, Zenon DEF Clients
    <2>4. /\ r.state = t.state /\ r.socket = t.socket /\ r.bOfferReceived
          /\ r.DHCPServerID = m.server /\ r.tempIPAddress = t.tempIPAddress
      BY <1>1, <2>1, Zenon DEF Clients
    <2> HIDE DEF r
    <2> QED  BY <1>1, <1>2, <2>2, <2>3, <2>4 DEF r
  <1>3. CASE ~(m.mine /\ m.type = "OFFER" /\ ~c.bOfferReceived)
    <2>1. r = t  BY <1>3, Zenon DEF Received, t
    <2>2. Type(c, m) # "OFFER"  BY <1>3 DEF Type
    <2> QED  BY <1>1, <2>1, <2>2
  <1> QED  BY <1>2, <1>3
-----------------------------------------------------------------------------
(* What a call of DHCPTask() leaves.                                       *)

ResultOK(r, b) ==
  /\ ClientOK(r.c, b \cup r.sent) /\ Granted(r.ip, b \cup r.sent)
  /\ r.sent \subseteq Requests

\* A grant is never withdrawn.
LEMMA GrantedGrows ==
    ASSUME NEW ip, NEW b, NEW more, Granted(ip, b) PROVE Granted(ip, b \cup more)
  BY DEF Granted

\* A result that is good with what it sent is good.
LEMMA LeavesOK ==
    ASSUME NEW c, NEW out, out \subseteq Requests, NEW b, ClientOK(c, b \cup out),
           NEW ip, Granted(ip, b)
    PROVE ResultOK(Leaves(c, out, ip), b)
  BY GrantedGrows DEF ResultOK, Leaves

\* So is one that sends nothing.
LEMMA QuietOK ==
    ASSUME NEW c, NEW b, ClientOK(c, b), NEW ip, Granted(ip, b)
    PROVE ResultOK(Quiet(c, ip), b)
  <1>1. b \cup {} = b /\ {} \subseteq Requests  OBVIOUS
  <1> QED  BY <1>1, LeavesOK DEF Quiet

\* Away from the request nothing is asked of what the client remembers.
LEMMA PlainOK ==
    ASSUME NEW c \in Clients, NEW b, c.socket <=> c.state \in Asking,
           c.state \notin {"SEND_REQUEST", "GET_REQUEST_ACK"}
    PROVE ClientOK(c, b)
  BY Zenon DEF ClientOK, OfferOK

\* smDHCPState = st
LEMMA StateSet ==
    ASSUME NEW c \in Clients, NEW st \in StateNames
    PROVE LET d == [c EXCEPT !.state = st]
          IN  d \in Clients /\ d.state = st /\ d.socket = c.socket
  BY Zenon DEF Clients

\* DHCP SEND_DISCOVERY goes on with its socket, or waits for the MAC.
LEMMA SendDiscoveryOK ==
    ASSUME NEW c \in Clients, c.socket = TRUE, NEW put \in BOOLEAN, NEW b,
           NEW ip, Granted(ip, b)
    PROVE ResultOK(SendDiscovery(c, put, ip), b)
  <1>1. CASE ~put
    <2> DEFINE d == [c EXCEPT !.state = "SEND_DISCOVERY"]
    <2>1. d \in Clients /\ d.state = "SEND_DISCOVERY" /\ d.socket = c.socket
      BY StateSet DEF StateNames
    <2> HIDE DEF d
    <2>2. ClientOK(d, b)  BY <2>1, PlainOK DEF Asking, StateNames
    <2>3. SendDiscovery(c, put, ip) = Quiet(d, ip)  BY <1>1, Zenon DEF SendDiscovery, d
    <2> QED  BY <2>2, <2>3, QuietOK
  <1>2. CASE put
    <2> DEFINE d == [c EXCEPT !.state = "GET_OFFER", !.DHCPLeaseTime = DefaultLease,
                              !.ipValid = FALSE, !.bIsBound = FALSE, !.bOfferReceived = FALSE,
                              !.elapsed = 0]
    <2>1. "GET_OFFER" \in StateNames /\ DefaultLease \in Nat /\ 0 \in 0 .. MaxElapsed
          /\ FALSE \in BOOLEAN
      BY DHCPAssumption, SMT DEF StateNames
    <2>2. d \in Clients /\ d.state = "GET_OFFER" /\ d.socket = c.socket
      BY <2>1, Zenon DEF Clients
    <2> HIDE DEF d
    <2>3. ClientOK(d, b \cup {Discover})  BY <2>2, PlainOK DEF Asking, StateNames
    <2>4. {Discover} \subseteq Requests  BY DEF Discover, Requests, Addresses
    <2>5. SendDiscovery(c, put, ip) = Leaves(d, {Discover}, ip)
      BY <1>2, Zenon DEF SendDiscovery, d
    <2> QED  BY <2>3, <2>4, <2>5, LeavesOK
  <1> QED  BY <1>1, <1>2

\* DHCP GET_SOCKET opens the socket before it asks.
LEMMA GetSocketOK ==
    ASSUME NEW b, NEW c, ClientOK(c, b), NEW put \in BOOLEAN, NEW open \in BOOLEAN,
           NEW ip, Granted(ip, b)
    PROVE ResultOK(GetSocket(c, put, open, ip), b)
  <1>1. CASE ~open  BY <1>1, QuietOK DEF GetSocket
  <1>2. CASE open
    <2> DEFINE d == [c EXCEPT !.socket = TRUE]
    <2>1. d \in Clients /\ d.socket = TRUE  BY Zenon DEF Clients, ClientOK
    <2> HIDE DEF d
    <2>2. GetSocket(c, put, open, ip) = SendDiscovery(d, put, ip)
      BY <1>2, Zenon DEF GetSocket, d
    <2> QED  BY <2>1, <2>2, SendDiscoveryOK
  <1> QED  BY <1>1, <1>2

\* The request names the offer that was taken, so the acknowledgement that is
\* waited for is one of that address.
LEMMA SendRequestOK ==
    ASSUME NEW c \in Clients, c.socket = TRUE, c.bOfferReceived = TRUE,
           c.DHCPServerID \in Servers, c.tempIPAddress = c.DHCPServerID,
           NEW put \in BOOLEAN, NEW b, NEW ip, Granted(ip, b)
    PROVE ResultOK(SendRequest(c, put, ip), b)
  <1>1. CASE ~put
    <2> DEFINE d == [c EXCEPT !.state = "SEND_REQUEST"]
    <2>1. d \in Clients /\ d.state = "SEND_REQUEST" /\ d.socket = c.socket
      BY StateSet DEF StateNames
    <2>2. /\ d.bOfferReceived = c.bOfferReceived /\ d.DHCPServerID = c.DHCPServerID
          /\ d.tempIPAddress = c.tempIPAddress
      BY Zenon DEF Clients
    <2> HIDE DEF d
    <2>3. ClientOK(d, b)  BY <2>1, <2>2 DEF ClientOK, OfferOK, Asking, StateNames
    <2>4. SendRequest(c, put, ip) = Quiet(d, ip)  BY <1>1, Zenon DEF SendRequest, d
    <2> QED  BY <2>3, <2>4, QuietOK
  <1>2. CASE put
    <2> DEFINE d == [c EXCEPT !.state = "GET_REQUEST_ACK", !.elapsed = 0]
               q == Request(c.DHCPServerID, c.tempIPAddress)
    <2>1. "GET_REQUEST_ACK" \in StateNames /\ 0 \in 0 .. MaxElapsed
      BY DHCPAssumption, SMT DEF StateNames
    <2>2. d \in Clients /\ d.state = "GET_REQUEST_ACK" /\ d.socket = c.socket
      BY <2>1, Zenon DEF Clients
    <2>3. /\ d.bOfferReceived = c.bOfferReceived /\ d.DHCPServerID = c.DHCPServerID
          /\ d.tempIPAddress = c.tempIPAddress
      BY Zenon DEF Clients
    <2>4. {q} \subseteq Requests
      <3>1. c.DHCPServerID \in Servers \cup {NoAddr} /\ c.tempIPAddress \in Addresses
        BY DEF Addresses
      <3> QED  BY <3>1 DEF Request, Requests
    <2> HIDE DEF d
    <2>5. ClientOK(d, b \cup {q})
      BY <2>2, <2>3 DEF ClientOK, OfferOK, Asking, StateNames
    <2>6. SendRequest(c, put, ip) = Leaves(d, {q}, ip)  BY <1>2, Zenon DEF SendRequest, d
    <2> HIDE DEF q
    <2> QED  BY <2>4, <2>5, <2>6, LeavesOK
  <1> QED  BY <1>1, <1>2

\* Starting over keeps the socket.
LEMMA RestartOK ==
    ASSUME NEW b, NEW c, ClientOK(c, b), c.socket = TRUE, NEW ip, Granted(ip, b)
    PROVE ResultOK(Restart(c, ip), b)
  <1> DEFINE d == [c EXCEPT !.state = "SEND_DISCOVERY"]
  <1>1. d \in Clients /\ d.state = "SEND_DISCOVERY" /\ d.socket = c.socket
    BY StateSet DEF StateNames, ClientOK
  <1>2. Restart(c, ip) = Quiet(IF c.elapsed >= DHCP_TIMEOUT THEN d ELSE c, ip)
    BY Zenon DEF Restart
  <1> HIDE DEF d
  <1>3. ClientOK(d, b)  BY <1>1, PlainOK DEF Asking, StateNames
  <1> QED  BY <1>2, <1>3, QuietOK

\* Only an offer makes the client ask, and only the first: what it stores then
\* is an address and the server that offers it.
LEMMA GetOfferOK ==
    ASSUME NEW b, NEW c, ClientOK(c, b), c.state = "GET_OFFER", NEW put \in BOOLEAN,
           NEW m \in Inbox, NEW ip, Granted(ip, b)
    PROVE ResultOK(GetOffer(c, put, m, ip), b)
  <1> DEFINE r == Received(c, m)
  <1>1. MessageOK(m)  BY InboxOK
  <1>2. c \in Clients /\ c.socket = TRUE  BY DEF ClientOK, Asking, StateNames, Clients
  <1>3. /\ r \in Clients /\ r.state = c.state /\ r.socket = c.socket
        /\ Type(c, m) = "OFFER" =>
             /\ r.bOfferReceived /\ r.DHCPServerID \in Servers
             /\ r.tempIPAddress = r.DHCPServerID
    BY <1>1, <1>2, ReceivedIs
  <1>4. GetOffer(c, put, m, ip) = IF m = None THEN Restart(c, ip)
                                  ELSE IF Type(c, m) = "OFFER" THEN SendRequest(r, put, ip)
                                  ELSE Quiet(r, ip)
    BY DEF GetOffer
  <1> HIDE DEF r
  <1>5. CASE m = None  BY <1>2, <1>4, <1>5, RestartOK
  <1>6. CASE m # None /\ Type(c, m) = "OFFER"
    <2>1. r.bOfferReceived = TRUE /\ r.socket = TRUE  BY <1>2, <1>3, <1>6 DEF Clients
    <2> QED  BY <1>3, <1>4, <1>6, <2>1, SendRequestOK
  <1>7. CASE m # None /\ Type(c, m) # "OFFER"
    <2>1. ClientOK(r, b)  BY <1>2, <1>3, PlainOK DEF Asking, StateNames
    <2> QED  BY <1>4, <1>7, <2>1, QuietOK
  <1> QED  BY <1>5, <1>6, <1>7
\* Bind() closes the socket.
LEMMA BindIs ==
    ASSUME NEW c \in Clients
    PROVE Bind(c) \in Clients /\ Bind(c).socket = FALSE /\ Bind(c).state = "BOUND"
  <1>1. "BOUND" \in StateNames /\ 0 \in 0 .. MaxElapsed /\ FALSE \in BOOLEAN
    BY DHCPAssumption, SMT DEF StateNames
  <1> QED  BY <1>1, Zenon DEF Clients, Bind

\* While it waits for the acknowledgement no message changes what the client
\* remembers, so the address it uses is the one it has asked for.
LEMMA GetRequestAckOK ==
    ASSUME NEW b, NEW c, ClientOK(c, b), c.state = "GET_REQUEST_ACK",
           NEW m \in Inbox, NEW ip, Granted(ip, b)
    PROVE ResultOK(GetRequestAck(c, m, ip), b)
  <1> DEFINE d == [Bind(c) EXCEPT !.bIsBound = TRUE]
             e == [c EXCEPT !.state = "SEND_DISCOVERY"]
             a == IF c.ipValid THEN c.tempIPAddress ELSE ip
             k == CASE Type(c, m) = "ACK" -> Quiet(d, a)
                    [] Type(c, m) = "NAK" -> Quiet(e, ip)
                    [] OTHER              -> Quiet(c, ip)
  <1>1. MessageOK(m)  BY InboxOK
  <1>2. /\ c \in Clients /\ c.socket = TRUE /\ c.bOfferReceived /\ c.DHCPServerID \in Servers
        /\ c.tempIPAddress = c.DHCPServerID
        /\ Request(c.DHCPServerID, c.tempIPAddress) \in b
    BY DEF ClientOK, OfferOK, Asking, StateNames, Clients
  <1>3. Received(c, m) = c  BY <1>1, <1>2, ReceivedIs
  <1>4. GetRequestAck(c, m, ip) = IF m = None THEN Restart(c, ip) ELSE k
    BY <1>3, Zenon DEF GetRequestAck
  <1>5. ClientOK(d, b)
    <2>1. Bind(c) \in Clients /\ Bind(c).socket = FALSE /\ Bind(c).state = "BOUND"
      BY <1>2, BindIs
    <2>2. d \in Clients /\ d.socket = FALSE /\ d.state = "BOUND"
      BY <2>1, Zenon DEF Clients
    <2> HIDE DEF d
    <2> QED  BY <2>2, PlainOK DEF Asking, StateNames
  <1>6. ClientOK(e, b)
    <2>1. e \in Clients /\ e.state = "SEND_DISCOVERY" /\ e.socket = c.socket
      BY <1>2, StateSet DEF StateNames
    <2> HIDE DEF e
    <2> QED  BY <1>2, <2>1, PlainOK DEF Asking, StateNames
  <1>7. Granted(a, b)  BY <1>2 DEF Granted
  <1> HIDE DEF d, e, a
  <1>8. ResultOK(Restart(c, ip), b)  BY <1>2, RestartOK
  <1>9. ResultOK(k, b)
    <2>1. ResultOK(Quiet(d, a), b)  BY <1>5, <1>7, QuietOK
    <2>2. ResultOK(Quiet(e, ip), b) /\ ResultOK(Quiet(c, ip), b)  BY <1>6, QuietOK
    <2> QED  BY <2>1, <2>2
  <1> HIDE DEF k
  <1> QED  BY <1>4, <1>8, <1>9

\* A renewal is sent from the socket that BOUND opened.
LEMMA SendRenewOK ==
    ASSUME NEW c \in Clients, c.socket = TRUE, c.state \in Sending, NEW put \in BOOLEAN,
           NEW b, NEW ip, Granted(ip, b)
    PROVE ResultOK(SendRenew(c, put, ip), b)
  <1>1. CASE ~put
    <2>1. ClientOK(c, b)  BY PlainOK DEF Sending, Asking, StateNames
    <2> QED  BY <1>1, <2>1, QuietOK DEF SendRenew
  <1>2. CASE put
    <2> DEFINE st == Next1(c.state)
               d == [c EXCEPT !.state = st, !.bOfferReceived = FALSE, !.elapsed = 0]
               q == Renewal(c.tempIPAddress)
    <2>1. st \in Renewing  BY NextOfSending DEF Sending, Renewing
    <2>2. SendRenew(c, put, ip) = Leaves(d, {q}, ip)  BY <1>2, Zenon DEF SendRenew
    <2>3. {q} \subseteq Requests
      <3>1. c.tempIPAddress \in Addresses  BY Zenon DEF Clients
      <3> QED  BY <3>1 DEF Renewal, Requests
    <2> HIDE DEF st, q
    <2>4. st \in StateNames /\ FALSE \in BOOLEAN /\ 0 \in 0 .. MaxElapsed
      BY <2>1, DHCPAssumption, SMT DEF Renewing, StateNames
    <2>5. d \in Clients /\ d.state = st /\ d.socket = c.socket  BY <2>4, Zenon DEF Clients
    <2> HIDE DEF d
    <2>6. ClientOK(d, b \cup {q})
      BY <2>1, <2>5, PlainOK DEF Renewing, Asking, StateNames
    <2> QED  BY <2>2, <2>3, <2>6, LeavesOK
  <1> QED  BY <1>1, <1>2

\* The lease counts down to its last second, never below it.
LEMMA BoundOK ==
    ASSUME NEW b, NEW c, ClientOK(c, b), c.state = "BOUND", NEW put \in BOOLEAN,
           NEW open \in BOOLEAN, NEW ip, Granted(ip, b)
    PROVE ResultOK(Bound(c, put, open, ip), b)
  <1> DEFINE d == [c EXCEPT !.elapsed = @ - 1, !.DHCPLeaseTime = @ - 1]
             e == [c EXCEPT !.socket = TRUE, !.state = "SEND_RENEW"]
  <1>1. c \in Clients /\ c.socket = FALSE  BY DEF ClientOK, Asking, StateNames, Clients
  <1>2. Bound(c, put, open, ip) =
          IF c.elapsed < 1 THEN Quiet(c, ip)
          ELSE IF c.DHCPLeaseTime >= 2 THEN Quiet(d, ip)
          ELSE IF ~open THEN Quiet(c, ip) ELSE SendRenew(e, put, ip)
    BY Zenon DEF Bound
  <1>3. ~(c.elapsed < 1) /\ c.DHCPLeaseTime >= 2 => ClientOK(d, b)
    <2> DEFINE t == c.elapsed - 1
               n == c.DHCPLeaseTime - 1
    <2> SUFFICES ASSUME ~(c.elapsed < 1), c.DHCPLeaseTime >= 2 PROVE ClientOK(d, b)
      OBVIOUS
    <2>1. c.elapsed \in 0 .. MaxElapsed /\ c.DHCPLeaseTime \in Nat
      BY <1>1, Zenon DEF Clients
    <2>2. t \in 0 .. MaxElapsed /\ n \in Nat  BY <2>1, DHCPAssumption, SMT
    <2>3. d = [c EXCEPT !.elapsed = t, !.DHCPLeaseTime = n]  BY <1>1, Zenon DEF Clients
    <2> HIDE DEF t, n, d
    <2>4. d \in Clients /\ d.state = c.state /\ d.socket = c.socket
      BY <1>1, <2>2, <2>3, Zenon DEF Clients
    <2> QED  BY <1>1, <2>4, PlainOK DEF Asking, StateNames
  <1>4. e \in Clients /\ e.socket = TRUE /\ e.state = "SEND_RENEW"
    <2>1. "SEND_RENEW" \in StateNames /\ TRUE \in BOOLEAN  BY DEF StateNames
    <2> QED  BY <1>1, <2>1, Zenon DEF Clients
  <1> HIDE DEF d, e
  <1>5. ResultOK(SendRenew(e, put, ip), b)  BY <1>4, SendRenewOK DEF Sending
  <1>6. ResultOK(Quiet(c, ip), b)  BY QuietOK
  <1>7. ~(c.elapsed < 1) /\ c.DHCPLeaseTime >= 2 => ResultOK(Quiet(d, ip), b)
    BY <1>3, QuietOK
  <1> QED  BY <1>2, <1>5, <1>6, <1>7, Zenon

\* An acknowledged renewal gives the socket back, everything else keeps it.
LEMMA GetRenewAckOK ==
    ASSUME NEW b, NEW c, ClientOK(c, b), c.state \in Renewing, NEW m \in Inbox,
           NEW ip, Granted(ip, b)
    PROVE ResultOK(GetRenewAck(c, m, ip), b)
  <1> DEFINE st == IF c.state = "GET_RENEW_ACK3" THEN "SEND_DISCOVERY" ELSE Next1(c.state)
             d == [c EXCEPT !.state = st]
             r == Received(c, m)
             e == [r EXCEPT !.state = "SEND_DISCOVERY"]
             k == CASE Type(c, m) = "ACK" -> Quiet(Bind(r), ip)
                    [] Type(c, m) = "NAK" -> Quiet(e, ip)
                    [] OTHER              -> Quiet(r, ip)
  <1>1. MessageOK(m)  BY InboxOK
  <1>2. c \in Clients /\ c.socket = TRUE
    BY DEF ClientOK, Renewing, Asking, StateNames, Clients
  <1>3. r \in Clients /\ r.state = c.state /\ r.socket = c.socket
    BY <1>1, <1>2, ReceivedIs
  <1>4. GetRenewAck(c, m, ip) =
          IF m = None THEN Quiet(IF c.elapsed < DHCP_TIMEOUT THEN c ELSE d, ip) ELSE k
    <2>1. d = [c EXCEPT !.state = IF @ = "GET_RENEW_ACK3" THEN "SEND_DISCOVERY" ELSE Next1(@)]
      BY <1>2, Zenon DEF Clients
    <2> HIDE DEF d
    <2> QED  BY <2>1, Zenon DEF GetRenewAck
  <1>5. ClientOK(d, b)
    <2>1. st \in {"SEND_DISCOVERY", "SEND_RENEW2", "SEND_RENEW3"}
      BY NextOfRenewing DEF Renewing
    <2> HIDE DEF st
    <2>2. st \in StateNames  BY <2>1 DEF StateNames
    <2>3. d \in Clients /\ d.state = st /\ d.socket = c.socket  BY <1>2, <2>2, StateSet
    <2> HIDE DEF d
    <2> QED  BY <1>2, <2>1, <2>3, PlainOK DEF Asking, StateNames
  <1> HIDE DEF d, r
  <1>6. ClientOK(e, b)
    <2>1. e \in Clients /\ e.state = "SEND_DISCOVERY" /\ e.socket = r.socket
      BY <1>3, StateSet DEF StateNames
    <2> HIDE DEF e
    <2> QED  BY <1>2, <1>3, <2>1, PlainOK DEF Asking, StateNames
  <1>7. ClientOK(Bind(r), b)
    <2>1. Bind(r) \in Clients /\ Bind(r).socket = FALSE /\ Bind(r).state = "BOUND"
      BY <1>3, BindIs
    <2> QED  BY <2>1, PlainOK DEF Asking, StateNames
  <1>8. ClientOK(r, b)  BY <1>2, <1>3, PlainOK DEF Renewing, Asking, StateNames
  <1> HIDE DEF e
  <1>9. ResultOK(k, b)
    <2>1. ResultOK(Quiet(Bind(r), ip), b)  BY <1>7, QuietOK
    <2>2. ResultOK(Quiet(e, ip), b) /\ ResultOK(Quiet(r, ip), b)  BY <1>6, <1>8, QuietOK
    <2> QED  BY <2>1, <2>2
  <1>10. ResultOK(Quiet(c, ip), b) /\ ResultOK(Quiet(d, ip), b)  BY <1>5, QuietOK
  <1> HIDE DEF k
  <1> QED  BY <1>4, <1>9, <1>10
\* One pass of DHCPTask(), in whatever state.
LEMMA DHCPTaskOK ==
    ASSUME NEW b, NEW c, ClientOK(c, b), NEW put \in BOOLEAN, NEW open \in BOOLEAN,
           NEW m \in Inbox, NEW ip, Granted(ip, b)
    PROVE ResultOK(DHCPTask(c, put, open, m, ip), b)
  <1> DEFINE r == DHCPTask(c, put, open, m, ip)
  <1>1. c.state \in StateNames  BY Zenon DEF ClientOK, Clients
  <1>2. CASE c.state = "GET_SOCKET"
    <2>1. r = GetSocket(c, put, open, ip)  BY <1>2 DEF DHCPTask, Sending, Renewing
    <2> QED  BY <2>1, GetSocketOK
  <1>3. CASE c.state = "SEND_DISCOVERY"
    <2>1. r = SendDiscovery(c, put, ip)  BY <1>3 DEF DHCPTask, Sending, Renewing
    <2>2. c \in Clients /\ c.socket = TRUE
      BY <1>3 DEF ClientOK, Asking, StateNames, Clients
    <2> QED  BY <2>1, <2>2, SendDiscoveryOK
  <1>4. CASE c.state = "GET_OFFER"
    <2>1. r = GetOffer(c, put, m, ip)  BY <1>4 DEF DHCPTask, Sending, Renewing
    <2> QED  BY <1>4, <2>1, GetOfferOK
  <1>5. CASE c.state = "SEND_REQUEST"
    <2>1. r = SendRequest(c, put, ip)  BY <1>5 DEF DHCPTask, Sending, Renewing
    <2>2. /\ c \in Clients /\ c.socket = TRUE /\ c.bOfferReceived = TRUE
          /\ c.DHCPServerID \in Servers /\ c.tempIPAddress = c.DHCPServerID
      BY <1>5 DEF ClientOK, OfferOK, Asking, StateNames, Clients
    <2> QED  BY <2>1, <2>2, SendRequestOK
  <1>6. CASE c.state = "GET_REQUEST_ACK"
    <2>1. r = GetRequestAck(c, m, ip)  BY <1>6 DEF DHCPTask, Sending, Renewing
    <2> QED  BY <1>6, <2>1, GetRequestAckOK
  <1>7. CASE c.state = "BOUND"
    <2>1. r = Bound(c, put, open, ip)  BY <1>7 DEF DHCPTask, Sending, Renewing
    <2> QED  BY <1>7, <2>1, BoundOK
  <1>8. CASE c.state \in Sending
    <2>1. r = SendRenew(c, put, ip)  BY <1>8 DEF DHCPTask, Sending, Renewing
    <2>2. c \in Clients /\ c.socket = TRUE
      BY <1>8 DEF ClientOK, Sending, Asking, StateNames, Clients
    <2> QED  BY <1>8, <2>1, <2>2, SendRenewOK
  <1>9. CASE c.state \in Renewing
    <2>1. r = GetRenewAck(c, m, ip)  BY <1>9 DEF DHCPTask, Sending, Renewing
    <2> QED  BY <1>9, <2>1, GetRenewAckOK
  <1>10. CASE c.state = "DISABLED"
    <2>1. r = Quiet(c, ip)  BY <1>10 DEF DHCPTask, Sending, Renewing
    <2> QED  BY <2>1, QuietOK
  <1> QED
    BY <1>1, <1>2, <1>3, <1>4, <1>5, <1>6, <1>7, <1>8, <1>9, <1>10
    DEF StateNames, Sending, Renewing

\* A reset goes back to the socket when there is none, else to the discovery.
LEMMA DHCPResetOK ==
    ASSUME NEW b, NEW c, ClientOK(c, b)
    PROVE ClientOK(DHCPReset(c), b)
  <1>1. CASE c.state = "DISABLED"  BY <1>1 DEF DHCPReset
  <1>2. CASE c.state # "DISABLED"
    <2> DEFINE st == IF c.socket THEN "SEND_DISCOVERY" ELSE "GET_SOCKET"
               d == [c EXCEPT !.state = st, !.bIsBound = FALSE]
    <2>1. c \in Clients /\ c.socket \in BOOLEAN  BY Zenon DEF ClientOK, Clients
    <2>2. st \in StateNames /\ FALSE \in BOOLEAN /\ (c.socket <=> st \in Asking)
          /\ st \notin {"SEND_REQUEST", "GET_REQUEST_ACK"}
      BY DEF StateNames, Asking
    <2>3. DHCPReset(c) = d  BY <1>2, Zenon DEF DHCPReset
    <2> HIDE DEF st
    <2>4. d \in Clients /\ d.state = st /\ d.socket = c.socket
      BY <2>1, <2>2, Zenon DEF Clients
    <2> HIDE DEF d
    <2>5. ClientOK(d, b)
      <3>1. d.socket <=> d.state \in Asking  BY <2>2, <2>4, Zenon
      <3>2. d.state \notin {"SEND_REQUEST", "GET_REQUEST_ACK"}  BY <2>2, <2>4, Zenon
      <3> QED  BY <2>4, <3>1, <3>2, PlainOK
    <2> QED  BY <2>3, <2>5
  <1> QED  BY <1>1, <1>2

-----------------------------------------------------------------------------
(* The steps.                                                              *)

\* The initial state satisfies the invariant.
LEMMA InitOK == DHCPInit => DHCPInv
  <1> SUFFICES ASSUME DHCPInit PROVE DHCPInv
    OBVIOUS
  <1>1. /\ "GET_SOCKET" \in StateNames /\ FALSE \in BOOLEAN /\ 0 \in Nat
        /\ NoAddr \in Servers \cup {NoAddr} /\ NoAddr \in Addresses /\ 0 \in 0 .. MaxElapsed
    BY DHCPAssumption, SMT DEF StateNames, Addresses
  <1>2. /\ InitialClient \in Clients /\ InitialClient.socket = FALSE
        /\ InitialClient.state = "GET_SOCKET"
    BY <1>1, Zenon DEF InitialClient, Clients
  <1>3. ClientOK(InitialClient, {})  BY <1>2, PlainOK DEF Asking, StateNames
  <1> QED  BY <1>3 DEF DHCPInit, DHCPInv, Granted

\* StackTask() keeps it, with the link up or down.
LEMMA StackTaskKeeps ==
    ASSUME DHCPInv, NEW linked \in BOOLEAN, NEW put \in BOOLEAN, NEW open \in BOOLEAN,
           NEW m \in Inbox, StackTask(linked, put, open, m)
    PROVE DHCPInv'
  <1> DEFINE c == IF linked THEN dhcp ELSE DHCPReset(dhcp)
             ip == IF linked THEN MyIPAddr ELSE DefaultIPAddr
             r == DHCPTask(c, put, open, m, ip)
  <1>1. /\ dhcp' = r.c /\ MyIPAddr' = r.ip /\ broadcast' = broadcast \cup r.sent
        /\ bInConfigMode' = ((bInConfigMode \/ ~linked) /\ ~r.c.bIsBound)
    BY Zenon DEF StackTask
  <1>2. ClientOK(c, broadcast)  BY DHCPResetOK DEF DHCPInv
  <1>3. Granted(ip, broadcast)  BY DEF DHCPInv, Granted
  <1> HIDE DEF c, ip
  <1>4. ResultOK(r, broadcast)  BY <1>2, <1>3, DHCPTaskOK
  <1> HIDE DEF r
  <1>5. ClientOK(dhcp', broadcast') /\ Granted(MyIPAddr', broadcast')
    BY <1>1, <1>4 DEF ResultOK
  <1>6. broadcast' \subseteq Requests  BY <1>1, <1>4 DEF ResultOK, DHCPInv
  <1>7. bInConfigMode' \in BOOLEAN  BY <1>1
  <1> QED  BY <1>5, <1>6, <1>7, Zenon DEF DHCPInv

\* What the other steps do to the client leaves what they do not touch as it was.
LEMMA OnlyClient ==
    ASSUME DHCPInv, UNCHANGED <<MyIPAddr, bInConfigMode, broadcast>>,
           ClientOK(dhcp', broadcast)
    PROVE DHCPInv'
  BY DEF DHCPInv

\* DHCPDisable() keeps it: it returns the socket.
LEMMA DisableKeeps ==
    ASSUME DHCPInv, DHCPDisable PROVE DHCPInv'
  <1> DEFINE d == [dhcp EXCEPT !.socket = FALSE, !.state = "DISABLED"]
  <1>1. dhcp \in Clients  BY DEF DHCPInv, ClientOK
  <1>2. "DISABLED" \in StateNames /\ FALSE \in BOOLEAN  BY DEF StateNames
  <1>3. d \in Clients /\ d.socket = FALSE /\ d.state = "DISABLED"
    BY <1>1, <1>2, Zenon DEF Clients
  <1>4. dhcp' = d  BY DEF DHCPDisable
  <1> HIDE DEF d
  <1>5. ClientOK(d, broadcast)  BY <1>3, PlainOK DEF Asking
  <1> QED  BY <1>4, <1>5, OnlyClient DEF DHCPDisable

\* DHCPEnable() keeps it: it does not start twice.
LEMMA EnableKeeps ==
    ASSUME DHCPInv, DHCPEnable PROVE DHCPInv'
  <1> DEFINE d == [dhcp EXCEPT !.state = "GET_SOCKET", !.bIsBound = FALSE]
  <1>1. dhcp \in Clients /\ dhcp.socket = FALSE
    BY DEF DHCPInv, ClientOK, DHCPEnable, Asking, Clients
  <1>2. "GET_SOCKET" \in StateNames /\ FALSE \in BOOLEAN  BY DEF StateNames
  <1>3. d \in Clients /\ d.socket = FALSE /\ d.state = "GET_SOCKET"
    BY <1>1, <1>2, Zenon DEF Clients
  <1>4. dhcp' = d  BY DEF DHCPEnable
  <1> HIDE DEF d
  <1>5. ClientOK(d, broadcast)  BY <1>3, PlainOK DEF Asking
  <1> QED  BY <1>4, <1>5, OnlyClient DEF DHCPEnable

\* A second of the lease keeps it.
LEMMA SecondKeeps ==
    ASSUME DHCPInv, SecondPasses PROVE DHCPInv'
  <1> DEFINE t == dhcp.elapsed + 1
             d == [dhcp EXCEPT !.elapsed = t]
  <1>1. dhcp \in Clients /\ ClientOK(dhcp, broadcast)  BY DEF DHCPInv, ClientOK
  <1>2. dhcp.elapsed \in 0 .. MaxElapsed  BY <1>1, Zenon DEF Clients
  <1>3. t \in 0 .. MaxElapsed  BY <1>2, DHCPAssumption, SMT DEF SecondPasses
  <1>4. dhcp' = d  BY <1>1, Zenon DEF SecondPasses, Clients
  <1> HIDE DEF t
  <1>5. /\ d \in Clients /\ d.state = dhcp.state /\ d.socket = dhcp.socket
        /\ d.bOfferReceived = dhcp.bOfferReceived /\ d.DHCPServerID = dhcp.DHCPServerID
        /\ d.tempIPAddress = dhcp.tempIPAddress
    BY <1>1, <1>3, Zenon DEF Clients
  <1> HIDE DEF d
  <1>6. ClientOK(d, broadcast)  BY <1>1, <1>5, Zenon DEF ClientOK, OfferOK
  <1> QED  BY <1>4, <1>6, OnlyClient DEF SecondPasses

\* Every step keeps it.
LEMMA StepKeeps == DHCPInv /\ [DHCPNext]_dhcpVars => DHCPInv'
  <1> SUFFICES ASSUME DHCPInv, [DHCPNext]_dhcpVars PROVE DHCPInv'
    OBVIOUS
  <1>1. ASSUME NEW linked \in BOOLEAN, NEW put \in BOOLEAN, NEW open \in BOOLEAN,
               NEW m \in Inbox, StackTask(linked, put, open, m)
        PROVE DHCPInv'
    BY <1>1, StackTaskKeeps
  <1>2. CASE DHCPDisable  BY <1>2, DisableKeeps
  <1>3. CASE DHCPEnable  BY <1>3, EnableKeeps
  <1>4. CASE SecondPasses  BY <1>4, SecondKeeps
  <1>5. CASE UNCHANGED dhcpVars  BY <1>5 DEF dhcpVars, DHCPInv
  <1> QED  BY <1>1, <1>2, <1>3, <1>4, <1>5 DEF DHCPNext

\* What the client remembers fits what it has sent, whatever order messages come
\* in: the invariant the results below follow from.
THEOREM DHCPInvariance == DHCPSpec => []DHCPInv
  BY InitOK, StepKeeps, PTL DEF DHCPSpec

LEMMA DHCPInvTypes == DHCPInv => DHCPTypeOK
  <1> SUFFICES ASSUME DHCPInv PROVE DHCPTypeOK
    OBVIOUS
  <1>1. MyIPAddr \in Servers \cup {DefaultIPAddr}  BY DEF DHCPInv, Granted
  <1>2. dhcp \in Clients  BY DEF DHCPInv, ClientOK
  <1> QED  BY <1>1, <1>2, StatesAre, Zenon DEF DHCPInv, DHCPTypeOK, Clients, Requests

\* The client's variables keep their types: the lease time never counts below
\* zero and smDHCPState++ never leaves the enumeration.
THEOREM DHCPTypeCorrect == DHCPSpec => []DHCPTypeOK
  BY DHCPInvTypes, DHCPInvariance, PTL

\* The client holds a UDP socket exactly while it waits for an answer or for the
\* MAC: no order of links, renewals, refusals and resets loses one.
THEOREM SocketIsHeldWhileAsking == DHCPSpec => []SocketHeldWhileAsking
  <1>1. DHCPInv => SocketHeldWhileAsking
    BY DEF DHCPInv, ClientOK, Clients, Asking, StateNames, SocketHeldWhileAsking
  <1> QED  BY <1>1, DHCPInvariance, PTL

\* An address other than the default one is used only after this node asked the
\* server that leases it for it, whatever is lost, repeated or reordered and
\* whatever is answered to others.
THEOREM OnlyGrantedAddresses == DHCPSpec => []AddressWasGranted
  <1>1. DHCPInv => AddressWasGranted  BY DEF DHCPInv, Granted, AddressWasGranted
  <1> QED  BY <1>1, DHCPInvariance, PTL

-----------------------------------------------------------------------------
(* The four parts side by side, as they are checked.                       *)

\* Nothing the driver, the timer, a save of the settings or the DHCP client does
\* takes a variable of theirs out of its type, for any size of any of them.
THEOREM UnitsTypeCorrect == UnitsSpec => []UnitsTypeOK
  <1> DEFINE Inv == RingsInv /\ TickInv /\ JournalInv /\ DHCPInv
  <1>1. UnitsInit => Inv
    BY RingsInvInit, TickInvInit, JournalInit, InitOK DEF UnitsInit
  <1>2. Inv /\ [UnitsNext]_unitVars => Inv'
    <2> SUFFICES ASSUME Inv, [UnitsNext]_unitVars PROVE Inv'  OBVIOUS
    <2>1. /\ [RingsNext]_ringVars /\ [TickNext]_tickVars
          /\ [ParametersNext]_parameterVars /\ [DHCPNext]_dhcpVars
      BY Zenon DEF UnitsNext, Rings, TickStep, ParametersStep, Client, unitVars
    <2>2. RingsInv'  BY <2>1, RingsStep
    <2>3. TickInv'  BY <2>1, TickInvStep
    <2>4. JournalInv'  BY <2>1, JournalStep
    <2>5. DHCPInv'  BY <2>1, StepKeeps
    <2> QED  BY <2>2, <2>3, <2>4, <2>5
  <1>3. Inv => UnitsTypeOK
    BY RingsInvTypes, DHCPInvTypes DEF UnitsTypeOK, TickInv, JournalInv
  <1> QED  BY <1>1, <1>2, <1>3, PTL DEF UnitsSpec
=============================================================================
