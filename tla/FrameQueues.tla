---------------------------- MODULE FrameQueues ----------------------------
(***************************************************************************)
(* What the Ethernet driver promises the stack: a queue of received frames *)
(* that are handed over one at a time in the order of arrival, and a queue *)
(* of frames to send that leave in the order in which they were flushed.   *)
(* A frame that finds its queue full is not taken; a frame that was taken  *)
(* is never lost, repeated or overwritten.                                 *)
(***************************************************************************)
EXTENDS Naturals, Sequences

CONSTANTS Capacity, TxCapacity, Frames

VARIABLES received, inHand, outgoing, sent

queueVars == <<received, inHand, outgoing, sent>>

Init == received = <<>> /\ inHand = FALSE /\ outgoing = <<>> /\ sent = <<>>

Arrive ==
  /\ Len(received) < Capacity
  /\ \E f \in Frames : received' = Append(received, f)
  /\ UNCHANGED <<inHand, outgoing, sent>>

Take ==
  /\ ~inHand /\ received # <<>>
  /\ inHand' = TRUE
  /\ UNCHANGED <<received, outgoing, sent>>

Release ==
  /\ inHand
  /\ inHand' = FALSE /\ received' = Tail(received)
  /\ UNCHANGED <<outgoing, sent>>

Submit ==
  /\ Len(outgoing) < TxCapacity
  /\ \E f \in Frames : outgoing' = Append(outgoing, f)
  /\ UNCHANGED <<received, inHand, sent>>

Transmit ==
  /\ outgoing # <<>>
  /\ sent' = Append(sent, Head(outgoing)) /\ outgoing' = Tail(outgoing)
  /\ UNCHANGED <<received, inHand>>

Next == Arrive \/ Take \/ Release \/ Submit \/ Transmit

Spec == Init /\ [][Next]_queueVars
=============================================================================
