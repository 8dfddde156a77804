--------------------------- MODULE MC_FrameDecoder ---------------------------
(***************************************************************************)
(* Bounded instance of FrameDecoder: a peer that writes good frames and    *)
(* one example of each way to break the format.                            *)
(***************************************************************************)
EXTENDS FrameDecoder

message_send_request == 80

Raw(magic, version, type, size, body) ==
  <<kFrameMagicHigh, magic, version, type,
    size \div 16777216, (size \div 65536) % 256, (size \div 256) % 256, size % 256>> \o body

GoodWrites ==
  { encodeFrame(heartbeat, <<>>),
    encodeFrame(message_send_request, <<97>>),
    encodeFrame(message_send_request, <<194, 162>>) }

BadWrites ==
  { Raw(0, 1, heartbeat, 0, <<>>),                       \* bad_magic
    Raw(kFrameMagicLow, 2, heartbeat, 0, <<>>),          \* bad_version
    Raw(kFrameMagicLow, 1, 3, 0, <<>>),                  \* a reserved type
    Raw(kFrameMagicLow, 1, heartbeat, 1, <<97>>),        \* heartbeat with a body
    Raw(kFrameMagicLow, 1, message_send_request, 2130706432, <<>>),
    Raw(kFrameMagicLow, 1, message_send_request, 3, <<97, 97, 97>>),
    Raw(kFrameMagicLow, 1, message_send_request, 2, <<97, 194>>) }  \* truncated character

TestWrites == GoodWrites \cup BadWrites \cup {<<kFrameMagicHigh>>}
=============================================================================
