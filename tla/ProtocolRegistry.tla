--------------------------- MODULE ProtocolRegistry ---------------------------
(***************************************************************************)
(* The read-only protocol registry of                                      *)
(* shared/include/chathub/contracts/protocol_descriptor.hpp.  A type is    *)
(* its number on the wire.  Of a descriptor only the columns that src/     *)
(* itself reads are kept: the type and max_body, which FrameDecoder and    *)
(* encodeFrame look up with findProtocol.  Names, directions, allowed      *)
(* states, capabilities, timeouts and response pairs are read by no code   *)
(* under src/ but the registry's own test.                                 *)
(***************************************************************************)
EXTENDS Integers

CONSTANT kMaxJsonBody   \* 65536 in the code; a few bytes in TLC's runs

ASSUME MaxJsonBodyAssumption == kMaxJsonBody \in 0..65536

protocol_error == 1
heartbeat == 2
hello_request == 4

Requests == {hello_request} \cup {t \in (16..29) \cup (48..63) \cup (80..91) : t % 2 = 0}
Responses == {t + 1 : t \in Requests}
Pushes == {protocol_error} \cup 128..135

\* The 54 types of the table; every other number of one byte is reserved.
ProtocolType == Requests \cup Responses \cup Pushes \cup {heartbeat}

max_body == [t \in ProtocolType |-> IF t = heartbeat THEN 0 ELSE kMaxJsonBody]

\* Whether findProtocol returns a descriptor or nullptr.
findProtocol(t) == t \in ProtocolType
=============================================================================
