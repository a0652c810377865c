------------------------------- MODULE Channel -------------------------------
(***************************************************************************)
(* What a message queue promises: everything that was sent is received     *)
(* once, in the order in which it was sent, and nothing else is received.  *)
(***************************************************************************)
EXTENDS Integers, Sequences

CONSTANT Messages

VARIABLES sent, received   \* everything sent and received so far

Init == sent = << >> /\ received = << >>

Send ==
  /\ \E m \in Messages : sent' = Append(sent, m)
  /\ UNCHANGED received

Receive ==
  /\ Len(received) < Len(sent)
  /\ received' = Append(received, sent[Len(received) + 1])
  /\ UNCHANGED sent

Next == Send \/ Receive

Spec == Init /\ [][Next]_<<sent, received>>
=============================================================================
