-------------------------------- MODULE Tick --------------------------------
(***************************************************************************)
(* The clock of the stack (Tick.c): a 16-bit hardware timer (TIM5) whose   *)
(* overflow interrupt counts the high part, and GetTickCopy(), which joins *)
(* the two halves while the timer goes on counting.  The interrupt may be  *)
(* taken at any point where it is enabled, so the reader is one action per *)
(* access it makes.                                                        *)
(***************************************************************************)
EXTENDS Naturals

CONSTANTS
  Period,    \* counts of the timer before it overflows (0x10000)
  HighWrap,  \* values of dwInternalTicks (2^32)
  MaxNow     \* bound of a run: counts after which the timer is not followed

ASSUME TickAssumption ==
  /\ Period \in Nat \ {0}
  /\ HighWrap \in Nat \ {0}
  /\ MaxNow \in Nat

VARIABLES
  cnt,              \* TICK_TIMER->CNT
  uif,              \* the update flag of TICK_TIMER->INTFR
  dwInternalTicks,
  irqEnabled,       \* TICK_TIMER_IRQ in the interrupt controller
  reader,           \* the access GetTickCopy() makes next
  vTickReading,     \* the halves the reader has stored
  periods,          \* history: overflows since TickInit()
  asked             \* history: the time at which the read was asked for

tickVars == <<cnt, uif, dwInternalTicks, irqEnabled, reader, vTickReading,
              periods, asked>>

Now == periods * Period + cnt

TickInit ==
  /\ cnt = 0 /\ uif = FALSE /\ dwInternalTicks = 0 /\ irqEnabled = TRUE
  /\ reader = "idle"
  /\ vTickReading = [low |-> 0, high |-> 0]
  /\ periods = 0 /\ asked = 0

-----------------------------------------------------------------------------
(* The timer counts.  It overflows again only after the interrupt of the   *)
(* last overflow was served: the interrupt is off for a few instructions   *)
(* and a period is 2^24 cycles.                                            *)
TimerCounts ==
  /\ Now < MaxNow
  /\ \/ /\ cnt < Period - 1
        /\ cnt' = cnt + 1
        /\ UNCHANGED <<uif, periods>>
     \/ /\ cnt = Period - 1 /\ ~uif
        /\ cnt' = 0 /\ uif' = TRUE /\ periods' = periods + 1
  /\ UNCHANGED <<dwInternalTicks, irqEnabled, reader, vTickReading, asked>>

(* TICK_TIMER_ISR() *)
TimerISR ==
  /\ irqEnabled /\ uif
  /\ dwInternalTicks' = (dwInternalTicks + 1) % HighWrap
  /\ uif' = FALSE
  /\ UNCHANGED <<cnt, irqEnabled, reader, vTickReading, periods, asked>>

Access(from, to) == reader = from /\ reader' = to

AskTick ==
  /\ Access("idle", "window")
  /\ irqEnabled' = TRUE
  /\ asked' = Now
  /\ UNCHANGED <<cnt, uif, dwInternalTicks, vTickReading, periods>>

(* The window between NVIC_EnableIRQ() and NVIC_DisableIRQ() is one nop     *)
(* long: a pending interrupt may be taken in it or may be missed.           *)
CloseWindow ==
  /\ Access("window", "low")
  /\ irqEnabled' = FALSE
  /\ UNCHANGED <<cnt, uif, dwInternalTicks, vTickReading, periods, asked>>

ReadLow ==
  /\ Access("low", "high")
  /\ vTickReading' = [vTickReading EXCEPT !.low = cnt]
  /\ UNCHANGED <<cnt, uif, dwInternalTicks, irqEnabled, periods, asked>>

ReadHigh ==
  /\ Access("high", "check")
  /\ vTickReading' = [vTickReading EXCEPT !.high = dwInternalTicks]
  /\ UNCHANGED <<cnt, uif, dwInternalTicks, irqEnabled, periods, asked>>

(* The loop condition: an overflow seen here may have come between the two  *)
(* reads, and the copy is taken again.                                      *)
ReadAgain ==
  /\ Access("check", "window")
  /\ uif
  /\ irqEnabled' = TRUE
  /\ UNCHANGED <<cnt, uif, dwInternalTicks, vTickReading, periods, asked>>

(* Seeded fault: the flag is not looked at again. *)
ReadDoneUnchecked ==
  /\ Access("check", "done")
  /\ irqEnabled' = TRUE
  /\ UNCHANGED <<cnt, uif, dwInternalTicks, vTickReading, periods, asked>>

ReadDone ==
  /\ Access("check", "done")
  /\ ~uif
  /\ irqEnabled' = TRUE
  /\ UNCHANGED <<cnt, uif, dwInternalTicks, vTickReading, periods, asked>>

(* The caller takes TickGet(), TickGetDiv256() or TickGetDiv64K() out of    *)
(* the copy.                                                                *)
TakeTick ==
  /\ Access("done", "idle")
  /\ UNCHANGED <<cnt, uif, dwInternalTicks, irqEnabled, vTickReading, periods,
                 asked>>

GetTickCopy == AskTick \/ CloseWindow \/ ReadLow \/ ReadHigh \/ ReadAgain
                 \/ ReadDone \/ TakeTick

TickNext == TimerCounts \/ TimerISR \/ GetTickCopy

TickSpec == TickInit /\ [][TickNext]_tickVars

-----------------------------------------------------------------------------
TickTypeOK ==
  /\ cnt \in 0 .. Period - 1
  /\ uif \in BOOLEAN /\ irqEnabled \in BOOLEAN
  /\ dwInternalTicks \in 0 .. HighWrap - 1
  /\ reader \in {"idle", "window", "low", "high", "check", "done"}
  /\ vTickReading \in [low : 0 .. Period - 1, high : 0 .. HighWrap - 1]
  /\ periods \in Nat /\ asked \in Nat

(* The time the caller is given is a time that really passed between the    *)
(* call and the return, modulo the width of the counter: the halves are     *)
(* never joined across an overflow, which would make the clock jump by a    *)
(* whole period, forwards or back, and fire or stop every timeout of TCP.   *)
TickWasTheTime ==
  reader = "done" =>
    \E p \in 0 .. periods :
      /\ p % HighWrap = vTickReading.high
      /\ asked <= p * Period + vTickReading.low
      /\ p * Period + vTickReading.low <= Now

=============================================================================
