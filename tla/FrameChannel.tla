----------------------------- MODULE FrameChannel -----------------------------
(***************************************************************************)
(* What the framing layer promises its two users: a reliable first-in      *)
(* first-out channel of frames, built on a stream of bytes.                *)
(***************************************************************************)
EXTENDS Naturals, Sequences

CONSTANT Message

VARIABLES sent, received

Init == sent = <<>> /\ received = <<>>

Send == \E m \in Message : sent' = Append(sent, m) /\ UNCHANGED received

Receive ==
  /\ Len(received) < Len(sent)
  /\ received' = Append(received, sent[Len(received) + 1])
  /\ UNCHANGED sent

Next == Send \/ Receive

Spec == Init /\ [][Next]_<<sent, received>>
\* Nothing that was sent stays under way for ever.
FairSpec == Spec /\ WF_<<sent, received>>(Receive)
=============================================================================
