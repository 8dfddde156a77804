-------------------------- MODULE HandshakeContract --------------------------
(***************************************************************************)
(* What tls_handshake.hpp promises the caller of asyncServerHandshake: one *)
(* answer, and with it a connection that is either handed over or closed.  *)
(***************************************************************************)
EXTENDS Sequences

VARIABLES
  calls,        \* what the handler has been called with, in order
  connection    \* "handshaking", "handed_over" or "closed"

Init == calls = <<>> /\ connection = "handshaking"

\* status ok: the stream, still connected, is the caller's.
Succeed ==
  /\ connection = "handshaking" /\ calls = <<>>
  /\ connection' = "handed_over" /\ calls' = <<[status |-> "ok", stream |-> "given"]>>

\* status error or timeout: no stream, and the connection is closed by then.
Fail(status) == connection' = "closed" /\ calls' = <<[status |-> status, stream |-> "nullptr"]>>
Error == connection = "handshaking" /\ calls = <<>> /\ Fail("error")
Timeout == connection = "closed" /\ calls = <<>> /\ Fail("timeout")

\* The connection is closed first when the time is up, and without a word when
\* there is no handler.
Close == connection = "handshaking" /\ connection' = "closed" /\ UNCHANGED calls

Next == Succeed \/ Error \/ Timeout \/ Close

Spec == Init /\ [][Next]_<<calls, connection>>
=============================================================================
