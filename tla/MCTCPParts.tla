----------------------------- MODULE MCTCPParts -----------------------------
(* The receive ring of one socket and the accept queue of all of them, side *)
(* by side: they share nothing, so a behaviour of a run follows one.        *)
EXTENDS TCPRxFifo, TCPAccept, TLC

CONSTANTS r1, r2, r3
Symmetry == Permutations({r1, r2, r3})

VARIABLE part

partsVars == <<fifoVars, acceptVars, part>>

PartsInit == FifoInit /\ AcceptInit /\ part \in {"ring", "queue"}

RingStep == part = "ring" /\ FifoNext /\ UNCHANGED <<acceptVars, part>>
QueueStep == part = "queue" /\ AcceptNext /\ UNCHANGED <<fifoVars, part>>

PartsSpec == PartsInit /\ [][RingStep \/ QueueStep]_partsVars

\* The variables of both modules keep their types.
PartsTypeOK == FifoTypeOK /\ AcceptTypeOK
=============================================================================
