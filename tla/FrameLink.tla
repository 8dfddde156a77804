------------------------------- MODULE FrameLink -------------------------------
(***************************************************************************)
(* One direction of a connection between two programs of this repository:  *)
(* one side writes what encodeFrame returns, the other reads the stream    *)
(* with a FrameDecoder.  The connection delivers the bytes in order and in *)
(* pieces of any size (FeedBytes).                                         *)
(***************************************************************************)
EXTENDS FrameDecoder

CONSTANT Attempts   \* the arguments the sender gives to encodeFrame

\* The stream holds nothing but what encodeFrame returned.
ASSUME LinkAssumption ==
  /\ Attempts \subseteq [type : Byte, body : Seq(Byte)]
  /\ PeerWrites = {encodeFrame(a.type, a.body) : a \in Attempts} \ {nullopt}

VARIABLES
  sent,    \* history: the frames written to the connection
  marks    \* history: where in stream each of them began, and last the end

linkVars == <<vars, sent, marks>>

LinkInit == Init /\ sent = <<>> /\ marks = <<0>>

\* The sender encodes a frame and writes it; on nullopt it writes nothing.
SendFrame(type, body) ==
  /\ encodeFrame(type, body) # nullopt
  /\ PeerWrite(encodeFrame(type, body))
  /\ sent' = Append(sent, [type |-> type, body |-> body])
  /\ marks' = Append(marks, Len(stream'))

LinkNext ==
  \/ \E a \in Attempts : SendFrame(a.type, a.body)
  \/ Decoder /\ UNCHANGED <<sent, marks>>

LinkSpec == LinkInit /\ [][LinkNext]_linkVars

\* Each call of feedBytes runs to its end.  The reader is assumed to look for
\* decoded frames and for new bytes between its calls again and again; strong
\* fairness, because a call of feedBytes (one without bytes, say) lies between.
SomeBytesFed == \E size \in 1 .. Len(stream) - fed : FeedBytes(size)
FairLinkSpec ==
  /\ LinkSpec
  /\ WF_linkVars(DecodeStep /\ UNCHANGED <<sent, marks>>)
  /\ SF_linkVars(TryPopFrame /\ UNCHANGED <<sent, marks>>)
  /\ SF_linkVars(SomeBytesFed /\ UNCHANGED <<sent, marks>>)

-----------------------------------------------------------------------------
\* Both ends of the code agree on the format: the decoder accepts every frame
\* that encodeFrame agrees to write, whatever the pieces it arrives in
\* (frame.hpp:159-162, 170-201 against 222-244).
EncodedFramesAreAccepted == ~failed_

\* Nor does it keep one back: once every byte sent went through feedBytes, the
\* frames decoded are exactly the frames sent, in the pieces they arrived in as in
\* any other (frame.hpp:105-167).  A lost or a withheld frame would show here long
\* before a reader waits for it in vain.
NothingIsLost == pc = "idle" /\ fed = Len(stream) => FrameLog = sent

\* encodeFrame and FrameDecoder together are a first-in first-out channel: frames
\* come out of tryPopFrame in the order and with the contents they went into
\* encodeFrame, none lost, invented or repeated, and each one does come out.
EncodableAttempts == {a \in Attempts : Encodable(a.type, a.body)}
Channel == INSTANCE FrameChannel WITH Message <- EncodableAttempts, received <- delivered
ImplementsChannel == Channel!FairSpec
=============================================================================
