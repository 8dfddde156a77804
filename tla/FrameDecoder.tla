----------------------------- MODULE FrameDecoder -----------------------------
(***************************************************************************)
(* The framing layer of shared/include/chathub/contracts/frame.hpp:        *)
(* encodeFrame and the class FrameDecoder, reading one byte stream.        *)
(*                                                                         *)
(* The peer writes byte strings to the connection in any order it likes    *)
(* (PeerWrites; external), and the owner of the decoder hands over what    *)
(* has arrived in chunks cut anywhere.  One call of feedBytes is a         *)
(* FeedBytes step, one step per check and per frame of the while loop of   *)
(* decodeAvailableFrames, and a step that leaves the loop and discards the *)
(* consumed prefix; while pc = "decoding" nothing else can happen to the   *)
(* decoder, as the call is synchronous.                                    *)
(***************************************************************************)
EXTENDS Sequences, ProtocolRegistry, Utf8

CONSTANTS PeerWrites,   \* the byte strings the peer may write
          MaxWrites     \* bound of the model: how many of them it writes

ASSUME PeerAssumption == PeerWrites \subseteq Seq(Byte) /\ MaxWrites \in Nat

kFrameMagicHigh == 67
kFrameMagicLow == 72
kProtocolVersion == 1
kFrameHeaderSize == 8

FrameErrorKind == {"decoder_failed", "bad_magic", "bad_version", "unknown_type",
                   "body_too_large", "invalid_utf8"}
Frame == [type : ProtocolType, body : Seq(Byte)]

\* encodeFrame: the header in network byte order and the body, or nullopt.
nullopt == <<>>
Header(type, size) ==
  <<kFrameMagicHigh, kFrameMagicLow, kProtocolVersion, type,
    (size \div 16777216) % 256, (size \div 65536) % 256, (size \div 256) % 256, size % 256>>
\* The first form is a bug that sends bodies unchecked.
EncodableWithoutTextCheck(type, body) ==
  findProtocol(type) /\ Len(body) <= max_body[type]
Encodable(type, body) ==
  findProtocol(type) /\ Len(body) <= max_body[type] /\ isValidUtf8(body)
encodeFrame(type, body) ==
  IF Encodable(type, body) THEN Header(type, Len(body)) \o body ELSE nullopt

VARIABLES
  stream,                 \* every byte the peer has written
  writes,                 \* how many writes that were
  fed,                    \* how many bytes of stream went through feedBytes
  pc,                     \* "idle", or "decoding" inside feedBytes
  input_buffer_,
  consumed_prefix_size_,
  body_length_,
  frame_type_,
  has_pending_header_,
  failed_,
  error_,
  decoded_frames_,
  delivered,              \* history: the frames tryPopFrame returned
  bounds                  \* history: where in stream each decoded frame began,
                          \*   and last the position after the last one

env == <<stream, writes>>
input == <<input_buffer_, consumed_prefix_size_>>
header == <<frame_type_, body_length_, has_pending_header_>>
verdict == <<failed_, error_>>
output == <<decoded_frames_, delivered, bounds>>
vars == <<env, fed, pc, input, header, verdict, output>>

Boundary == bounds[Len(bounds)]

Init ==
  /\ stream = <<>> /\ writes = 0 /\ fed = 0 /\ pc = "idle"
  /\ input_buffer_ = <<>> /\ consumed_prefix_size_ = 0
  /\ body_length_ = 0 /\ frame_type_ = protocol_error /\ has_pending_header_ = FALSE
  /\ failed_ = FALSE /\ error_ = "decoder_failed"
  /\ decoded_frames_ = <<>> /\ delivered = <<>> /\ bounds = <<0>>

\* External: the peer writes to the connection.
PeerWrite(bytes) ==
  /\ writes < MaxWrites
  /\ stream' = stream \o bytes
  /\ writes' = writes + 1
  /\ UNCHANGED <<fed, pc, input, header, verdict, output>>

\* feedBytes(data, size) on the next size bytes, up to the loop.
FeedBytes(size) ==
  /\ pc = "idle"
  /\ fed' = fed + size
  /\ IF failed_
     THEN UNCHANGED <<pc, input>>
     ELSE /\ input_buffer_' = input_buffer_ \o SubSeq(stream, fed + 1, fed + size)
          /\ pc' = "decoding"
          /\ UNCHANGED consumed_prefix_size_
  /\ UNCHANGED <<env, header, verdict, output>>

-----------------------------------------------------------------------------
(* decodeAvailableFrames *)

Available == Len(input_buffer_) - consumed_prefix_size_
HeaderByte(i) == input_buffer_[consumed_prefix_size_ + 1 + i]

\* A bug that reads the length in the byte order of the host.
LittleEndianLength ==
  HeaderByte(7) * 16777216 + HeaderByte(6) * 65536 + HeaderByte(5) * 256 + HeaderByte(4)
HeaderBodyLength ==
  HeaderByte(4) * 16777216 + HeaderByte(5) * 65536 + HeaderByte(6) * 256 + HeaderByte(7)

\* The checks of parseAndValidateHeader, in its order; "ok" is return true.
HeaderCheck ==
  IF HeaderByte(0) # kFrameMagicHigh \/ HeaderByte(1) # kFrameMagicLow THEN "bad_magic"
  ELSE IF HeaderByte(2) # kProtocolVersion THEN "bad_version"
  ELSE IF ~findProtocol(HeaderByte(3)) THEN "unknown_type"
  ELSE IF HeaderBodyLength > max_body[HeaderByte(3)] THEN "body_too_large"
  ELSE "ok"

setFailure(kind) == failed_' = TRUE /\ error_' = kind

\* discardConsumedBytes, and feedBytes returns.  The first form is a bug that
\* never discards, the second one forgets to reset the size of the prefix.
ReturnWithoutDiscard == pc' = "idle" /\ UNCHANGED input
ReturnWithoutReset ==
  /\ pc' = "idle"
  /\ input_buffer_' = SubSeq(input_buffer_, consumed_prefix_size_ + 1, Len(input_buffer_))
  /\ UNCHANGED consumed_prefix_size_
Return ==
  /\ pc' = "idle"
  /\ input_buffer_' = SubSeq(input_buffer_, consumed_prefix_size_ + 1, Len(input_buffer_))
  /\ consumed_prefix_size_' = 0

\* A bug that wants a byte more than the header.
HeaderCompleteOffByOne == ~has_pending_header_ /\ Available > kFrameHeaderSize
HeaderComplete == ~has_pending_header_ /\ Available >= kFrameHeaderSize
BodyComplete == has_pending_header_ /\ Available >= kFrameHeaderSize + body_length_
PendingBody ==
  LET from == consumed_prefix_size_ + kFrameHeaderSize
  IN  SubSeq(input_buffer_, from + 1, from + body_length_)

\* Half of a header, or half of a body: keep the bytes for the next call.
WaitForMore ==
  /\ pc = "decoding"
  /\ ~HeaderComplete /\ ~BodyComplete
  /\ Return
  /\ UNCHANGED <<env, fed, header, verdict, output>>

RejectHeader ==
  /\ pc = "decoding"
  /\ HeaderComplete /\ HeaderCheck # "ok"
  /\ setFailure(HeaderCheck)
  /\ Return
  /\ UNCHANGED <<env, fed, header, output>>

\* The first form is a bug that does not note the pending header.
AcceptHeaderForgotten ==
  /\ pc = "decoding"
  /\ HeaderComplete /\ HeaderCheck = "ok"
  /\ frame_type_' = HeaderByte(3) /\ body_length_' = HeaderBodyLength
  /\ UNCHANGED <<has_pending_header_, env, fed, pc, input, verdict, output>>
AcceptHeader ==
  /\ pc = "decoding"
  /\ HeaderComplete /\ HeaderCheck = "ok"
  /\ frame_type_' = HeaderByte(3) /\ body_length_' = HeaderBodyLength
  /\ has_pending_header_' = TRUE
  /\ UNCHANGED <<env, fed, pc, input, verdict, output>>

RejectBody ==
  /\ pc = "decoding"
  /\ BodyComplete /\ ~isValidUtf8(PendingBody)
  /\ has_pending_header_' = FALSE
  /\ setFailure("invalid_utf8")
  /\ Return
  /\ UNCHANGED <<env, fed, frame_type_, body_length_, output>>

\* The first form is a bug that skips the body without its header.
AcceptFrameHeaderKept ==
  /\ pc = "decoding"
  /\ BodyComplete /\ isValidUtf8(PendingBody)
  /\ has_pending_header_' = FALSE
  /\ decoded_frames_' = Append(decoded_frames_, [type |-> frame_type_, body |-> PendingBody])
  /\ consumed_prefix_size_' = consumed_prefix_size_ + body_length_
  /\ bounds' = Append(bounds, Boundary + kFrameHeaderSize + body_length_)
  /\ UNCHANGED <<env, fed, pc, input_buffer_, frame_type_, body_length_, verdict, delivered>>
AcceptFrame ==
  /\ pc = "decoding"
  /\ BodyComplete /\ isValidUtf8(PendingBody)
  /\ has_pending_header_' = FALSE
  /\ decoded_frames_' = Append(decoded_frames_, [type |-> frame_type_, body |-> PendingBody])
  /\ consumed_prefix_size_' = consumed_prefix_size_ + kFrameHeaderSize + body_length_
  /\ bounds' = Append(bounds, Boundary + kFrameHeaderSize + body_length_)
  /\ UNCHANGED <<env, fed, pc, input_buffer_, frame_type_, body_length_, verdict, delivered>>

-----------------------------------------------------------------------------
\* tryPopFrame returning TRUE; returning FALSE changes nothing.  The first form
\* is a bug that also hands out frames after a failure, the second one takes them
\* from the wrong end.
PopEvenAfterFailure ==
  /\ pc = "idle"
  /\ decoded_frames_ # <<>>
  /\ delivered' = Append(delivered, Head(decoded_frames_))
  /\ decoded_frames_' = Tail(decoded_frames_)
  /\ UNCHANGED <<env, fed, pc, input, header, verdict, bounds>>
PopNewest ==
  /\ pc = "idle"
  /\ ~failed_ /\ decoded_frames_ # <<>>
  /\ delivered' = Append(delivered, decoded_frames_[Len(decoded_frames_)])
  /\ decoded_frames_' = SubSeq(decoded_frames_, 1, Len(decoded_frames_) - 1)
  /\ UNCHANGED <<env, fed, pc, input, header, verdict, bounds>>
TryPopFrame ==
  /\ pc = "idle"
  /\ ~failed_ /\ decoded_frames_ # <<>>
  /\ delivered' = Append(delivered, Head(decoded_frames_))
  /\ decoded_frames_' = Tail(decoded_frames_)
  /\ UNCHANGED <<env, fed, pc, input, header, verdict, bounds>>

DecodeStep == WaitForMore \/ RejectHeader \/ AcceptHeader \/ RejectBody \/ AcceptFrame
Feed == \E size \in 0 .. Len(stream) - fed : FeedBytes(size)
Decoder == Feed \/ DecodeStep \/ TryPopFrame
Next == (\E bytes \in PeerWrites : PeerWrite(bytes)) \/ Decoder

Spec == Init /\ [][Next]_vars
\* feedBytes runs to its end once called.
FairSpec == Spec /\ WF_vars(DecodeStep)

-----------------------------------------------------------------------------
(***************************************************************************)
(* Properties.  They speak of the stream and of the bytes encodeFrame      *)
(* writes, never of where the chunks were cut.                             *)
(***************************************************************************)

TypeOK ==
  /\ stream \in Seq(Byte) /\ writes \in 0..MaxWrites /\ fed \in 0..Len(stream)
  /\ pc \in {"idle", "decoding"}
  /\ input_buffer_ \in Seq(Byte) /\ consumed_prefix_size_ \in 0..Len(input_buffer_)
  /\ body_length_ \in Nat /\ frame_type_ \in ProtocolType
  /\ has_pending_header_ \in BOOLEAN
  /\ failed_ \in BOOLEAN /\ error_ \in FrameErrorKind
  /\ decoded_frames_ \in Seq(Frame) /\ delivered \in Seq(Frame)
  /\ bounds \in Seq(Nat) /\ bounds # <<>>

\* Every frame ever decoded, in the order tryPopFrame hands them out, and the
\* bytes fed that belong to none of them.
FrameLog == delivered \o decoded_frames_
Rest == SubSeq(stream, Boundary + 1, fed)

\* The frames decoded so far are exactly what encodeFrame writes for them, laid
\* end to end from the first byte of the stream: however the stream was cut into
\* chunks, no byte is skipped, read twice or given to another frame, and frames
\* leave tryPopFrame in stream order (frame.hpp:105-167).
FramesTileStream ==
  /\ Len(bounds) = Len(FrameLog) + 1
  /\ bounds[1] = 0 /\ Boundary <= fed
  /\ \A k \in 1..Len(FrameLog) :
       LET f == FrameLog[k]
       IN  /\ Encodable(f.type, f.body)
           /\ SubSeq(stream, bounds[k] + 1, bounds[k + 1]) = encodeFrame(f.type, f.body)

\* What is wrong with the bytes that follow the last frame, in words of the
\* wire format: the first kind of FrameErrorKind whose condition they meet.
HasHeader(bytes, type, size) == SubSeq(bytes, 1, kFrameHeaderSize) = Header(type, size)
HasMagic(bytes) == bytes[1] = kFrameMagicHigh /\ bytes[2] = kFrameMagicLow
HasVersion(bytes) == HasMagic(bytes) /\ bytes[3] = kProtocolVersion
IsDefect(bytes, kind) ==
  /\ Len(bytes) >= kFrameHeaderSize
  /\ \/ kind = "bad_magic" /\ ~HasMagic(bytes)
     \/ kind = "bad_version" /\ HasMagic(bytes) /\ ~HasVersion(bytes)
     \/ kind = "unknown_type" /\ HasVersion(bytes) /\ bytes[4] \notin ProtocolType
     \/ /\ kind = "body_too_large"
        /\ HasVersion(bytes) /\ bytes[4] \in ProtocolType
        /\ \A size \in 0..max_body[bytes[4]] : ~HasHeader(bytes, bytes[4], size)
     \/ /\ kind = "invalid_utf8"
        /\ bytes[4] \in ProtocolType
        /\ \E size \in 0..max_body[bytes[4]] :
             /\ HasHeader(bytes, bytes[4], size)
             /\ Len(bytes) >= kFrameHeaderSize + size
             /\ ~isValidUtf8(SubSeq(bytes, kFrameHeaderSize + 1, kFrameHeaderSize + size))

\* The decoder fails only over a real defect right after the last good frame, and
\* reports the kind of that defect (frame.hpp:93-100, 130-133, 159-162, 170-195).
FailureIsJustified == failed_ => IsDefect(Rest, error_)

\* When feedBytes has returned without a failure, nothing complete is left
\* behind: the rest of the input is neither a whole frame nor a defect, so the
\* result does not depend on a later call (frame.hpp:136-152).
NothingWithheld ==
  pc = "idle" /\ ~failed_ =>
    /\ \A kind \in FrameErrorKind : ~IsDefect(Rest, kind)
    /\ Len(Rest) >= kFrameHeaderSize =>
         \A size \in 0..max_body[Rest[4]] :
           HasHeader(Rest, Rest[4], size) => Len(Rest) < kFrameHeaderSize + size

\* Between calls the buffer holds exactly the undecoded bytes, which are fewer
\* than one frame of the largest body: it does not grow with the length of the
\* connection (frame.hpp:203-210).
BufferIsBounded ==
  pc = "idle" /\ ~failed_ =>
    /\ input_buffer_ = Rest
    /\ Len(input_buffer_) < kFrameHeaderSize + kMaxJsonBody

\* A failed decoder is dead: it never produces another frame, never reads more
\* input and keeps the first error (frame.hpp:106-108, 118-120; D11, D70).
FailureIsFinal == [][failed_ => UNCHANGED <<verdict, output, input>>]_vars

\* Why the loop ends, for input of any length: every turn of it that does not
\* return leaves less to do, first the header of a frame and then its bytes, so
\* that a call takes at most two turns a frame (frame.hpp:136-167).
Work == 2 * Available + (IF has_pending_header_ THEN 0 ELSE 1)
LoopMakesProgress ==
  [][DecodeStep => pc' = "idle" \/ (Work' \in 0 .. Work - 1)]_vars

\* Every call of feedBytes returns: the while (true) of decodeAvailableFrames
\* makes progress on every input.
FeedTerminates == pc = "decoding" ~> pc = "idle"
=============================================================================
