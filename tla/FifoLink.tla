------------------------------ MODULE FifoLink ------------------------------
(***************************************************************************)
(* One direction of a reliable link: what is received is what was sent,    *)
(* once and in order.                                                      *)
(***************************************************************************)
EXTENDS Naturals, Sequences

VARIABLES sentOn, received

LinkInit == sentOn = <<>> /\ received = <<>>

LinkSend == \E x \in 1 .. Len(sentOn) + 1 :
              sentOn' = Append(sentOn, x) /\ UNCHANGED received

LinkReceive ==
  /\ Len(received) < Len(sentOn)
  /\ received' = Append(received, sentOn[Len(received) + 1])
  /\ UNCHANGED sentOn

LinkSpec == LinkInit /\ [][LinkSend \/ LinkReceive]_<<sentOn, received>>
=============================================================================
