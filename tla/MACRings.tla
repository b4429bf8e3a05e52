------------------------------ MODULE MACRings ------------------------------
(***************************************************************************)
(* The Ethernet driver (ETH32V307.c): two rings of descriptors shared with *)
(* the DMA engine through their OWN bits.  The engine runs beside the      *)
(* program, so a driver function that touches a descriptor and then the    *)
(* engine's status register is two actions.                                *)
(* The engine suspends when the descriptor it needs is not its own; it     *)
(* then raises RBUS or TBUS and waits for a poll demand.                   *)
(***************************************************************************)
EXTENDS Naturals, FiniteSets, Sequences

CONSTANTS
  RxN,         \* ETH_RXBUFNB
  TxN,         \* ETH_TXBUFNB
  RxFrames,    \* bound of a run: frames that arrive
  TxFrames,    \* bound of a run: frames the stack sends
  DamagedFrames \* frames that arrive with an error (a subset of 1 .. RxFrames)

ASSUME RingsAssumption ==
  /\ RxN \in Nat \ {0} /\ TxN \in Nat \ {0}
  /\ RxFrames \in Nat /\ TxFrames \in Nat
  /\ DamagedFrames \subseteq 1 .. RxFrames

VARIABLES
  rx, rxGet, rxDMA, rbus,  \* DMARxDscrTab, DMARxDescToGet, the engine's place
  wasDiscarded,
  rxCall,                  \* the driver call that is under way on the RX side
  tx, txSet, txDMA, tbus,  \* DMATxDscrTab, DMATxDescToSet, the engine's place
  txCall,
  linkUp,
  arrived,                 \* history: frames that have been on the wire
  written,                 \* history: frames the stack has built
  taken,                   \* history: frames MACGetHeader() has handed over
  sent                     \* history: frames the engine has put on the wire

rxVars == <<rx, rxGet, rxDMA, rbus, wasDiscarded, rxCall, arrived, taken>>
txVars == <<tx, txSet, txDMA, tbus, txCall, written, sent>>
ringVars == <<rx, rxGet, rxDMA, rbus, wasDiscarded, rxCall, arrived, taken,
              tx, txSet, txDMA, tbus, txCall, written, sent, linkUp>>

Slot(n) == 0 .. n - 1
NextDesc(i, n) == (i + 1) % n
NoFrame == 0

(* MACInit(), with the two chains of ch32v30x_eth.c *)
MACInit ==
  /\ rx = [i \in Slot(RxN) |-> [own |-> TRUE, frame |-> NoFrame, es |-> FALSE]]
  /\ rxGet = 0 /\ rxDMA = 0 /\ rbus = FALSE
  /\ wasDiscarded = TRUE /\ rxCall = "idle"
  /\ tx = [i \in Slot(TxN) |-> [own |-> FALSE, frame |-> NoFrame]]
  /\ txSet = 0 /\ txDMA = 0 /\ tbus = FALSE /\ txCall = "idle"
  /\ linkUp \in BOOLEAN
  /\ arrived = 0 /\ written = 0 /\ taken = <<>> /\ sent = <<>>

-----------------------------------------------------------------------------
(* The engine (external).                                                   *)

(* A frame that arrives goes into the engine's descriptor.  A frame that    *)
(* arrives while the engine is suspended is lost.                           *)
DMAReceive ==
  /\ linkUp /\ arrived < RxFrames
  /\ arrived' = arrived + 1
  /\ IF rx[rxDMA].own /\ ~rbus
     THEN /\ rx' = [rx EXCEPT ![rxDMA] = [own |-> FALSE, frame |-> arrived + 1,
                                         es |-> arrived + 1 \in DamagedFrames]]
          /\ rxDMA' = NextDesc(rxDMA, RxN)
     ELSE UNCHANGED <<rx, rxDMA>>
  /\ UNCHANGED <<rxGet, rbus, wasDiscarded, rxCall, taken, txVars, linkUp>>

(* The engine fetches its next descriptor, which the program still has.     *)
DMARxSuspend ==
  /\ ~rx[rxDMA].own /\ ~rbus
  /\ rbus' = TRUE
  /\ UNCHANGED <<rx, rxGet, rxDMA, wasDiscarded, rxCall, arrived, taken,
                 txVars, linkUp>>

DMATransmit ==
  /\ tx[txDMA].own /\ ~tbus
  /\ tx' = [tx EXCEPT ![txDMA].own = FALSE]
  /\ sent' = Append(sent, tx[txDMA].frame)
  /\ txDMA' = NextDesc(txDMA, TxN)
  /\ UNCHANGED <<txSet, tbus, txCall, written, rxVars, linkUp>>

DMATxSuspend ==
  /\ ~tx[txDMA].own /\ ~tbus
  /\ tbus' = TRUE
  /\ UNCHANGED <<tx, txSet, txDMA, txCall, written, sent, rxVars, linkUp>>

(* The cable is plugged in or out.                                          *)
LinkChanges ==
  /\ linkUp' = ~linkUp
  /\ UNCHANGED <<rxVars, txVars>>

-----------------------------------------------------------------------------
(* Reception.                                                               *)

(* Seeded fault: the driver stays at the same descriptor. *)
GiveBackInPlace ==
  /\ wasDiscarded' = TRUE
  /\ rx' = [rx EXCEPT ![rxGet].own = TRUE, ![rxGet].es = FALSE]
  /\ rxCall' = "resume"
  /\ UNCHANGED rxGet

(* MACDiscardRx(): the first half gives the descriptor back and goes on to  *)
(* the next one; the second resumes the engine if it is suspended.          *)
GiveBack ==
  /\ wasDiscarded' = TRUE
  /\ rx' = [rx EXCEPT ![rxGet].own = TRUE, ![rxGet].es = FALSE]
  /\ rxGet' = NextDesc(rxGet, RxN)
  /\ rxCall' = "resume"

MACDiscardRx ==
  /\ rxCall = "idle"
  /\ ~wasDiscarded
  /\ GiveBack
  /\ UNCHANGED <<rxDMA, rbus, arrived, taken, txVars, linkUp>>

(* Seeded fault: the engine is not resumed. *)
MACDiscardRxAsleep ==
  /\ rxCall = "resume"
  /\ rxCall' = "idle"
  /\ UNCHANGED <<rx, rxGet, rxDMA, rbus, wasDiscarded, arrived, taken, txVars, linkUp>>

MACDiscardRxResume ==
  /\ rxCall = "resume"
  /\ rbus' = FALSE
  /\ rxCall' = "idle"
  /\ UNCHANGED <<rx, rxGet, rxDMA, wasDiscarded, arrived, taken, txVars, linkUp>>

(* MACGetHeader(): nothing to read, the last frame still to be discarded,   *)
(* an error frame (whose MACDiscardRx() returns at once: WasDiscarded is    *)
(* still TRUE), or a frame for the stack.  Every frame here fits the 1520   *)
(* bytes of one buffer, so the test that its last segment is in it holds; a *)
(* longer one, which that test would leave in the ring, is not modelled.    *)
MACGetHeader ==
  /\ rxCall = "idle"
  /\ ~rx[rxGet].own
  /\ \/ /\ ~wasDiscarded
        /\ GiveBack
        /\ UNCHANGED taken
     \/ /\ wasDiscarded /\ rx[rxGet].es
        /\ UNCHANGED <<rx, rxGet, wasDiscarded, rxCall, taken>>
     \/ /\ wasDiscarded /\ ~rx[rxGet].es
        /\ wasDiscarded' = FALSE
        /\ taken' = Append(taken, rx[rxGet].frame)
        /\ UNCHANGED <<rx, rxGet, rxCall>>
  /\ UNCHANGED <<rxDMA, rbus, arrived, txVars, linkUp>>

-----------------------------------------------------------------------------
(* Transmission.                                                            *)

(* Seeded fault: the descriptor may still be the engine's. *)
MACIsTxReadyLinked == linkUp
MACIsTxReady == ~tx[txSet].own /\ linkUp

(* A protocol waits for MACIsTxReady() and then builds its frame in the     *)
(* buffer of DMATxDescToSet: MACPutHeader() starts it, over whatever an     *)
(* earlier caller left there without MACFlush().                            *)
MACPutHeader ==
  /\ txCall \in {"idle", "built"}
  /\ MACIsTxReady /\ written < TxFrames
  /\ written' = written + 1
  /\ tx' = [tx EXCEPT ![txSet].frame = written + 1]
  /\ txCall' = "built"
  /\ UNCHANGED <<txSet, txDMA, tbus, sent, rxVars, linkUp>>

(* MACFlush(): nothing happens if the descriptor is the engine's.  The OWN  *)
(* bit is set before TBUS is looked at.                                     *)
MACFlush ==
  /\ txCall = "built"
  /\ IF tx[txSet].own
     THEN txCall' = "idle" /\ UNCHANGED <<tx, txSet>>
     ELSE /\ tx' = [tx EXCEPT ![txSet].own = TRUE]
          /\ txSet' = NextDesc(txSet, TxN)
          /\ txCall' = "resume"
  /\ UNCHANGED <<txDMA, tbus, written, sent, rxVars, linkUp>>

MACFlushResume ==
  /\ txCall = "resume"
  /\ tbus' = FALSE
  /\ txCall' = "idle"
  /\ UNCHANGED <<tx, txSet, txDMA, written, sent, rxVars, linkUp>>

-----------------------------------------------------------------------------
RingsNext ==
  \/ DMAReceive \/ DMARxSuspend \/ DMATransmit \/ DMATxSuspend \/ LinkChanges
  \/ MACDiscardRx \/ MACDiscardRxResume \/ MACGetHeader
  \/ MACPutHeader \/ MACFlush \/ MACFlushResume

RingsSpec == MACInit /\ [][RingsNext]_ringVars

(* StackTask() calls MACGetHeader() in every pass of the main loop, a call  *)
(* of the driver that has begun ends, and the engine goes on sending.       *)
RingsFairness ==
  /\ WF_ringVars(MACGetHeader)
  /\ WF_ringVars(MACDiscardRxResume)
  /\ WF_ringVars(MACFlushResume)
  /\ WF_ringVars(DMATransmit)

FairRingsSpec == RingsSpec /\ RingsFairness

-----------------------------------------------------------------------------
RingsTypeOK ==
  /\ rx \in [Slot(RxN) -> [own : BOOLEAN, frame : 0 .. RxFrames, es : BOOLEAN]]
  /\ tx \in [Slot(TxN) -> [own : BOOLEAN, frame : 0 .. TxFrames]]
  /\ rxGet \in Slot(RxN) /\ rxDMA \in Slot(RxN)
  /\ txSet \in Slot(TxN) /\ txDMA \in Slot(TxN)
  /\ rbus \in BOOLEAN /\ tbus \in BOOLEAN /\ wasDiscarded \in BOOLEAN
  /\ rxCall \in {"idle", "resume"} /\ txCall \in {"idle", "built", "resume"}
  /\ linkUp \in BOOLEAN
  /\ arrived \in 0 .. RxFrames /\ written \in 0 .. TxFrames
  /\ taken \in Seq(1 .. RxFrames) /\ sent \in Seq(1 .. TxFrames)

RxPending == {i \in Slot(RxN) : ~rx[i].own}
TxPending == {i \in Slot(TxN) : tx[i].own}

(* No wakeup of the engine is lost: a suspended engine either has nothing   *)
(* to do or is about to be resumed.  A descriptor handed over after the     *)
(* status register was read would leave it asleep for good.                 *)
EngineNeverSleepsOnWork ==
  /\ rbus => RxPending # {} \/ rxCall = "resume"
  /\ tbus /\ TxPending # {} => txCall = "resume"

(* The rings are the queues of FrameQueues, read from the program's place   *)
(* in the one and from the engine's place in the other.                     *)
RxQueue == [k \in 1 .. Cardinality(RxPending) |-> rx[(rxGet + k - 1) % RxN].frame]
TxQueue == [k \in 1 .. Cardinality(TxPending) |-> tx[(txDMA + k - 1) % TxN].frame]

Queues == INSTANCE FrameQueues
            WITH Capacity <- RxN, TxCapacity <- TxN,
                 Frames <- 1 .. (RxFrames + TxFrames),
                 received <- RxQueue, inHand <- ~wasDiscarded,
                 outgoing <- TxQueue, sent <- sent

(* The driver keeps the promise of FrameQueues whatever the engine does     *)
(* between two accesses: frames are handed over and sent in order, and none *)
(* is overwritten in a buffer the other side still uses.                    *)
RingsAreQueues == Queues!Spec

(* Every frame that is in the ring is handed to the stack in the end, and   *)
(* every frame that is flushed is sent; only a damaged frame at the head,   *)
(* which MACDiscardRx() never releases, stops reception for good.           *)
EveryFrameGetsThrough ==
  /\ \A f \in 1 .. RxFrames :
       (\E i \in RxPending : rx[i].frame = f)
          ~> ((\E k \in DOMAIN taken : taken[k] = f) \/ rx[rxGet].es)
  /\ \A f \in 1 .. TxFrames :
       (\E i \in TxPending : tx[i].frame = f) ~> (\E k \in DOMAIN sent : sent[k] = f)
=============================================================================
