----------------------------- MODULE MC_FrameLink -----------------------------
(***************************************************************************)
(* Bounded instance of FrameLink: frames encodeFrame accepts, with every   *)
(* body length from none to kMaxJsonBody, and one of each kind it refuses. *)
(***************************************************************************)
EXTENDS FrameLink

message_send_request == 80

TestAttempts ==
  { [type |-> heartbeat, body |-> <<>>],
    [type |-> hello_request, body |-> <<97>>],
    [type |-> message_send_request, body |-> <<194, 162>>],
    [type |-> message_send_request, body |-> <<>>],
    [type |-> 3, body |-> <<>>],
    [type |-> heartbeat, body |-> <<97>>],
    [type |-> message_send_request, body |-> <<97, 97, 97>>],
    [type |-> message_send_request, body |-> <<194>>] }

Encodings == {encodeFrame(a.type, a.body) : a \in TestAttempts} \ {nullopt}
=============================================================================
