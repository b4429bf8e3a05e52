------------------------------ MODULE TCPStates ------------------------------
(***************************************************************************)
(* What TCP_STATE (TCP.h) promises of a server socket: "TCP States as      *)
(* defined by RFC 793".  One action per event of the state diagram of that *)
(* RFC, with the stack's documented simplifications: TIME_WAIT is not      *)
(* implemented, and a server socket that closes listens again.             *)
(***************************************************************************)
VARIABLE smState

PassiveOpen == smState = "CLOSED" /\ smState' = "LISTEN"

ReceiveSYN == smState = "LISTEN" /\ smState' = "SYN_RECEIVED"

\* The segment that acknowledges our SYN may carry the remote FIN.
ReceiveAckOfSYN == smState = "SYN_RECEIVED" /\ smState' \in {"ESTABLISHED", "CLOSE_WAIT"}

Close == \/ smState \in {"SYN_RECEIVED", "ESTABLISHED"} /\ smState' = "FIN_WAIT_1"
         \/ smState = "CLOSE_WAIT" /\ smState' = "LAST_ACK"

ReceiveFIN == \/ smState = "ESTABLISHED" /\ smState' = "CLOSE_WAIT"
              \/ smState = "FIN_WAIT_1" /\ smState' = "CLOSING"

ReceiveAckOfFIN == smState = "FIN_WAIT_1" /\ smState' = "FIN_WAIT_2"

\* The last acknowledgement, the end of FIN_WAIT_2, a reset, an abort.
Delete == smState # "CLOSED" /\ smState' = "LISTEN"

\* Not in RFC 793: TCPTick() closes with FIN_WAIT_1 even when the remote node
\* has closed already.
GiveUpInCloseWait == smState = "CLOSE_WAIT" /\ smState' = "FIN_WAIT_1"

Init == smState = "CLOSED"

Next == \/ PassiveOpen \/ ReceiveSYN \/ ReceiveAckOfSYN \/ Close \/ ReceiveFIN
        \/ ReceiveAckOfFIN \/ Delete \/ GiveUpInCloseWait

Spec == Init /\ [][Next]_smState
=============================================================================
