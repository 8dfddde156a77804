------------------------- MODULE FrameDecoder_proofs -------------------------
(***************************************************************************)
(* Proofs about the framing layer, for every set of byte strings the peer  *)
(* may write, every number of writes and every body limit up to 65536.     *)
(*                                                                         *)
(* The argument: the unread part of the buffer is always the part of the   *)
(* stream after the last decoded frame (BufferHoldsRest), and the pending  *)
(* header, kept from one call to the next, is always the header of those   *)
(* bytes (PendingHeaderIsNext).  The checks of parseAndValidateHeader are  *)
(* then statements about the stream, and each frame appended to            *)
(* decoded_frames_ is the encoding found at the last boundary.             *)
(***************************************************************************)
EXTENDS FrameDecoder, SequenceTheorems, TLAPS

(* Segments of sequences, and numbers as bytes *)

\* Four bytes are the digits in base 256 of the number they spell.
LEMMA BytesSpellLength ==
  ASSUME NEW b5 \in Byte, NEW b6 \in Byte, NEW b7 \in Byte, NEW b8 \in Byte,
         NEW n \in Nat, n = b5 * 16777216 + b6 * 65536 + b7 * 256 + b8
  PROVE  /\ (n \div 16777216) % 256 = b5
         /\ (n \div 65536) % 256 = b6
         /\ (n \div 256) % 256 = b7
         /\ n % 256 = b8
<1>1. n \div 16777216 = b5
  BY SMT DEF Byte
<1>2. n \div 65536 = b5 * 256 + b6
  BY SMT DEF Byte
<1>3. n \div 256 = b5 * 65536 + b6 * 256 + b7
  BY SMT DEF Byte
<1>4. n % 256 = b8
  BY SMT DEF Byte
<1>5. b5 % 256 = b5 /\ (b5 * 256 + b6) % 256 = b6 
  BY SMT DEF Byte
<1>6. (b5 * 65536 + b6 * 256 + b7) % 256 = b7
  BY SMT DEF Byte
<1> QED
  BY <1>1, <1>2, <1>3, <1>4, <1>5, <1>6

\* The converse: a number below 2^24 is spelt by its digits in base 256.
LEMMA LengthSpellsBytes ==
  ASSUME NEW n \in Nat, n < 16777216
  PROVE  n = ((n \div 16777216) % 256) * 16777216 + ((n \div 65536) % 256) * 65536
               + ((n \div 256) % 256) * 256 + (n % 256)
  BY SMT 

\* What SubSeq yields: its type, its length and its elements.
LEMMA Segment ==
  ASSUME NEW S, NEW s \in Seq(S), NEW m \in Nat \ {0}, NEW n \in Nat, m <= n + 1, n <= Len(s)
  PROVE  /\ SubSeq(s, m, n) \in Seq(S)
         /\ Len(SubSeq(s, m, n)) = n - m + 1
         /\ \A i \in 1 .. n - m + 1 : SubSeq(s, m, n)[i] = s[m + i - 1]
<1>1. \A i \in m .. n : s[i] \in S
  BY ElementOfSeq
<1> QED
  BY <1>1, SubSeqProperties

\* A segment of a segment is a segment.
LEMMA SegmentOfSegment ==
  ASSUME NEW S, NEW s \in Seq(S),
         NEW m \in Nat \ {0}, NEW n \in Nat, m <= n + 1, n <= Len(s),
         NEW i \in Nat \ {0}, NEW j \in Nat, i <= j + 1, j <= n - m + 1
  PROVE  SubSeq(SubSeq(s, m, n), i, j) = SubSeq(s, m + i - 1, m + j - 1)
<1> DEFINE t == SubSeq(s, m, n)
<1> DEFINE u == SubSeq(t, i, j)
<1> DEFINE v == SubSeq(s, m + i - 1, m + j - 1)
<1>1. /\ t \in Seq(S) /\ Len(t) = n - m + 1
      /\ \A k \in 1 .. n - m + 1 : t[k] = s[m + k - 1]
  BY Segment
<1>2. /\ u \in Seq(S) /\ Len(u) = j - i + 1
      /\ \A k \in 1 .. j - i + 1 : u[k] = t[i + k - 1]
  <2> HIDE DEF t
  <2> QED BY <1>1, Segment
<1>3. /\ v \in Seq(S) /\ Len(v) = j - i + 1
      /\ \A k \in 1 .. j - i + 1 : v[k] = s[m + i - 1 + k - 1]
  <2>1. /\ m + i - 1 \in Nat \ {0} /\ m + j - 1 \in Nat
        /\ m + i - 1 <= m + j - 1 + 1 /\ m + j - 1 <= Len(s)
    BY LenProperties
  <2> QED BY <2>1, Segment
<1>4. \A k \in 1 .. Len(u) : u[k] = v[k]
  BY <1>1, <1>2, <1>3
<1> QED
  BY <1>2, <1>3, <1>4, SeqEqual

\* A segment that ends in the first part of a concatenation.
LEMMA SegmentOfConcat ==
  ASSUME NEW S, NEW s \in Seq(S), NEW t \in Seq(S),
         NEW m \in Nat \ {0}, NEW n \in Nat, m <= n + 1, n <= Len(s)
  PROVE  SubSeq(s \o t, m, n) = SubSeq(s, m, n)
<1> DEFINE u == SubSeq(s \o t, m, n)
<1> DEFINE v == SubSeq(s, m, n)
<1>1. /\ s \o t \in Seq(S) /\ Len(s \o t) = Len(s) + Len(t) /\ Len(s) \in Nat /\ Len(t) \in Nat
      /\ \A i \in 1 .. Len(s) : (s \o t)[i] = s[i]
  BY ConcatProperties, LenProperties
<1>2. /\ u \in Seq(S) /\ Len(u) = n - m + 1
      /\ \A k \in 1 .. n - m + 1 : u[k] = (s \o t)[m + k - 1]
  BY <1>1, Segment
<1>3. /\ v \in Seq(S) /\ Len(v) = n - m + 1
      /\ \A k \in 1 .. n - m + 1 : v[k] = s[m + k - 1]
  BY Segment
<1>4. \A k \in 1 .. Len(u) : u[k] = v[k]
  BY <1>1, <1>2, <1>3
<1> QED
  BY <1>2, <1>3, <1>4, SeqEqual

\* Two segments that meet make one.
LEMMA AdjacentSegments ==
  ASSUME NEW S, NEW s \in Seq(S), NEW a \in Nat, NEW f \in Nat, NEW g \in Nat,
         a <= f, f <= g, g <= Len(s)
  PROVE  SubSeq(s, a + 1, f) \o SubSeq(s, f + 1, g) = SubSeq(s, a + 1, g)
<1>1. Len(s) \in Nat
  BY LenProperties
<1> DEFINE m == a + 1
<1>2. m \in 1 .. Len(s) + 1 /\ f \in m - 1 .. Len(s) /\ g \in f .. Len(s)
  BY <1>1
<1> HIDE DEF m
<1>3. SubSeq(s, m, f) \o SubSeq(s, f + 1, g) = SubSeq(s, m, g)
  BY <1>2, ConcatAdjacentSubSeq
<1> QED
  BY <1>3 DEF m

\* What a segment is without its first n elements.
LEMMA SuffixOfSegment ==
  ASSUME NEW S, NEW s \in Seq(S), NEW a \in Nat, NEW g \in Nat, NEW n \in Nat,
         a + n <= g, g <= Len(s)
  PROVE  SubSeq(SubSeq(s, a + 1, g), n + 1, g - a) = SubSeq(s, a + n + 1, g)
<1>1. /\ a + 1 \in Nat \ {0} /\ a + 1 <= g + 1
      /\ n + 1 \in Nat \ {0} /\ g - a \in Nat /\ n + 1 <= (g - a) + 1
      /\ g - a <= g - (a + 1) + 1
  OBVIOUS
<1>2. SubSeq(SubSeq(s, a + 1, g), n + 1, g - a)
        = SubSeq(s, (a + 1) + (n + 1) - 1, (a + 1) + (g - a) - 1)
  <2> DEFINE m == a + 1
  <2> DEFINE i == n + 1
  <2> DEFINE j == g - a
  <2>1. /\ m \in Nat \ {0} /\ m <= g + 1 /\ i \in Nat \ {0} /\ j \in Nat /\ i <= j + 1
        /\ j <= g - m + 1
    BY <1>1
  <2> HIDE DEF m, i, j
  <2>2. SubSeq(SubSeq(s, m, g), i, j) = SubSeq(s, m + i - 1, m + j - 1)
    BY <2>1, SegmentOfSegment
  <2> QED BY <2>2 DEF m, i, j
<1>3. (a + 1) + (n + 1) - 1 = a + n + 1 /\ (a + 1) + (g - a) - 1 = g
  OBVIOUS
<1> QED
  BY <1>2, <1>3

\* What the registry promises of its types and body limits.
LEMMA RegistryFacts ==
  /\ ProtocolType \subseteq Byte
  /\ protocol_error \in ProtocolType
  /\ \A t \in ProtocolType : max_body[t] \in 0..kMaxJsonBody
  /\ kMaxJsonBody \in Nat /\ kMaxJsonBody <= 65536
<1>1. Requests \subseteq 0..91
  BY DEF Requests, hello_request
<1>2. Responses \subseteq 0..92
  BY <1>1 DEF Responses
<1>3. Pushes \subseteq Byte /\ heartbeat \in Byte
  BY DEF Pushes, protocol_error, heartbeat, Byte
<1>4. ProtocolType \subseteq Byte
  BY <1>1, <1>2, <1>3 DEF ProtocolType, Byte
<1>5. protocol_error \in ProtocolType
  BY DEF ProtocolType, Pushes
<1>6. kMaxJsonBody \in Nat /\ kMaxJsonBody <= 65536
  BY MaxJsonBodyAssumption
<1>7. \A t \in ProtocolType : max_body[t] \in 0..kMaxJsonBody
  <2>1. \A t \in ProtocolType : max_body[t] = IF t = heartbeat THEN 0 ELSE kMaxJsonBody
    BY DEF max_body
  <2> QED BY <1>6, <2>1
<1> QED
  BY <1>4, <1>5, <1>6, <1>7

HeaderLength(b) == b[5] * 16777216 + b[6] * 65536 + b[7] * 256 + b[8]

\* A header is eight bytes.
LEMMA HeaderIsSeq ==
  ASSUME NEW t \in Byte, NEW n \in Nat
  PROVE  Header(t, n) \in Seq(Byte) /\ Len(Header(t, n)) = 8
<1>1. \A m \in Nat : m % 256 \in Byte
  BY SMT DEF Byte
<1>2. /\ n \div 16777216 \in Nat /\ n \div 65536 \in Nat /\ n \div 256 \in Nat
  BY SMT
<1> QED
  BY <1>1, <1>2, SMT DEF Header, kFrameMagicHigh, kFrameMagicLow, kProtocolVersion, Byte

\* To begin with a header is to agree with it byte by byte.
LEMMA HasHeaderPointwise ==
  ASSUME NEW b \in Seq(Byte), Len(b) >= 8, NEW t \in Byte, NEW n \in Nat
  PROVE  HasHeader(b, t, n) <=>
           /\ b[1] = 67 /\ b[2] = 72 /\ b[3] = 1 /\ b[4] = t
           /\ b[5] = (n \div 16777216) % 256 /\ b[6] = (n \div 65536) % 256
           /\ b[7] = (n \div 256) % 256 /\ b[8] = n % 256
<1> DEFINE h == SubSeq(b, 1, 8)
<1>1. /\ h \in Seq(Byte) /\ Len(h) = 8
      /\ \A i \in 1 .. 8 : h[i] = b[i]
  BY Segment, LenProperties
<1>2. Header(t, n) \in Seq(Byte) /\ Len(Header(t, n)) = 8
  BY HeaderIsSeq
<1>3. h = Header(t, n) <=> \A i \in 1..8 : b[i] = Header(t, n)[i]
  <2>1. (\A i \in 1..8 : h[i] = Header(t, n)[i]) => h = Header(t, n)
    <3> HIDE DEF h
    <3> QED BY <1>1, <1>2, SeqEqual
  <2> QED BY <1>1, <2>1
<1>4. (\A i \in 1..8 : b[i] = Header(t, n)[i]) <=>
        /\ b[1] = Header(t, n)[1] /\ b[2] = Header(t, n)[2] /\ b[3] = Header(t, n)[3]
        /\ b[4] = Header(t, n)[4] /\ b[5] = Header(t, n)[5] /\ b[6] = Header(t, n)[6]
        /\ b[7] = Header(t, n)[7] /\ b[8] = Header(t, n)[8]
  <2>1. \A i \in 1..8 : i \in {1, 2, 3, 4, 5, 6, 7, 8}
    OBVIOUS
  <2> QED BY <2>1
<1> QED
  BY <1>3, <1>4
     DEF HasHeader, Header, kFrameHeaderSize, kFrameMagicHigh, kFrameMagicLow, kProtocolVersion

\* Only one length fits the header at the start of a byte string.
LEMMA HeaderSpellsItsLength ==
  ASSUME NEW b \in Seq(Byte), Len(b) >= 8, NEW t \in Byte, NEW n \in Nat, n <= 65536
  PROVE  /\ HeaderLength(b) \in Nat
         /\ HasHeader(b, t, n) <=>
              b[1] = 67 /\ b[2] = 72 /\ b[3] = 1 /\ b[4] = t /\ HeaderLength(b) = n
<1>1. /\ b[5] \in Byte /\ b[6] \in Byte /\ b[7] \in Byte /\ b[8] \in Byte
  BY ElementOfSeq, LenProperties
<1>2. HeaderLength(b) \in Nat
  <2> DEFINE b5 == b[5]
  <2> DEFINE b6 == b[6]
  <2> DEFINE b7 == b[7]
  <2> DEFINE b8 == b[8]
  <2>1. b5 \in 0..255 /\ b6 \in 0..255 /\ b7 \in 0..255 /\ b8 \in 0..255
    BY <1>1 DEF Byte
  <2>2. HeaderLength(b) = b5 * 16777216 + b6 * 65536 + b7 * 256 + b8
    BY DEF HeaderLength
  <2> HIDE DEF b5, b6, b7, b8
  <2> QED BY <2>1, <2>2
<1>3. HeaderLength(b) = n =>
         /\ b[5] = (n \div 16777216) % 256 /\ b[6] = (n \div 65536) % 256
         /\ b[7] = (n \div 256) % 256 /\ b[8] = n % 256
  BY <1>1, BytesSpellLength DEF HeaderLength
<1>4. /\ b[5] = (n \div 16777216) % 256 /\ b[6] = (n \div 65536) % 256
      /\ b[7] = (n \div 256) % 256 /\ b[8] = n % 256
      => HeaderLength(b) = n
  BY LengthSpellsBytes DEF HeaderLength
<1> QED
  BY <1>2, <1>3, <1>4, HasHeaderPointwise

\* Each defect, said of the single bytes as parseAndValidateHeader tests them.
LEMMA DefectPointwise ==
  ASSUME NEW b \in Seq(Byte), Len(b) >= 8
  PROVE  /\ IsDefect(b, "bad_magic") <=> b[1] # 67 \/ b[2] # 72
         /\ IsDefect(b, "bad_version") <=> b[1] = 67 /\ b[2] = 72 /\ b[3] # 1
         /\ IsDefect(b, "unknown_type") <=>
              b[1] = 67 /\ b[2] = 72 /\ b[3] = 1 /\ b[4] \notin ProtocolType
         /\ IsDefect(b, "body_too_large") <=>
              /\ b[1] = 67 /\ b[2] = 72 /\ b[3] = 1 /\ b[4] \in ProtocolType
              /\ HeaderLength(b) > max_body[b[4]]
         /\ IsDefect(b, "invalid_utf8") <=>
              /\ b[1] = 67 /\ b[2] = 72 /\ b[3] = 1 /\ b[4] \in ProtocolType
              /\ HeaderLength(b) <= max_body[b[4]]
              /\ Len(b) >= 8 + HeaderLength(b)
              /\ ~isValidUtf8(SubSeq(b, 9, 8 + HeaderLength(b)))
         /\ ~IsDefect(b, "decoder_failed")
<1> USE DEF kFrameHeaderSize, kFrameMagicHigh, kFrameMagicLow, kProtocolVersion, HasMagic, HasVersion
<1>1. ASSUME NEW t \in ProtocolType, b[4] = t, b[1] = 67 /\ b[2] = 72 /\ b[3] = 1,
             NEW n \in 0..max_body[t]
      PROVE  HasHeader(b, t, n) <=> HeaderLength(b) = n
  BY <1>1, RegistryFacts, HeaderSpellsItsLength
<1>2. HeaderLength(b) \in Nat
  BY RegistryFacts, HeaderSpellsItsLength
<1>3. IsDefect(b, "bad_magic") <=> b[1] # 67 \/ b[2] # 72
  BY DEF IsDefect
<1>4. IsDefect(b, "bad_version") <=> b[1] = 67 /\ b[2] = 72 /\ b[3] # 1
  BY DEF IsDefect
<1>5. IsDefect(b, "unknown_type") <=>
        b[1] = 67 /\ b[2] = 72 /\ b[3] = 1 /\ b[4] \notin ProtocolType
  BY DEF IsDefect
<1>6. IsDefect(b, "body_too_large") <=>
        /\ b[1] = 67 /\ b[2] = 72 /\ b[3] = 1 /\ b[4] \in ProtocolType
        /\ HeaderLength(b) > max_body[b[4]]
  <2>1. IsDefect(b, "body_too_large") <=>
          /\ b[1] = 67 /\ b[2] = 72 /\ b[3] = 1 /\ b[4] \in ProtocolType
          /\ \A n \in 0..max_body[b[4]] : ~HasHeader(b, b[4], n)
    BY DEF IsDefect
  <2> QED BY <2>1, <1>1, <1>2, RegistryFacts
<1>7. IsDefect(b, "invalid_utf8") <=>
         /\ b[1] = 67 /\ b[2] = 72 /\ b[3] = 1 /\ b[4] \in ProtocolType
         /\ HeaderLength(b) <= max_body[b[4]]
         /\ Len(b) >= 8 + HeaderLength(b)
         /\ ~isValidUtf8(SubSeq(b, 9, 8 + HeaderLength(b)))
  <2>1. IsDefect(b, "invalid_utf8") <=>
          /\ b[4] \in ProtocolType
          /\ \E n \in 0..max_body[b[4]] :
               /\ HasHeader(b, b[4], n)
               /\ Len(b) >= 8 + n
               /\ ~isValidUtf8(SubSeq(b, 9, 8 + n))
    BY DEF IsDefect
  <2>2. ASSUME b[4] \in ProtocolType, NEW n \in 0..max_body[b[4]], HasHeader(b, b[4], n)
        PROVE  b[1] = 67 /\ b[2] = 72 /\ b[3] = 1 /\ HeaderLength(b) = n
    BY <2>2, RegistryFacts, HeaderSpellsItsLength
  <2> QED BY <2>1, <2>2, <1>1, <1>2, RegistryFacts
<1>8. ~IsDefect(b, "decoder_failed")
  BY DEF IsDefect
<1> QED
  BY <1>3, <1>4, <1>5, <1>6, <1>7, <1>8

-----------------------------------------------------------------------------
(* Type correctness *)

\* The ranges of the numbers and bytes the decoder works with.
LEMMA BufferFacts ==
  ASSUME TypeOK
  PROVE  /\ Len(stream) \in Nat /\ Len(input_buffer_) \in Nat /\ fed \in Nat
         /\ consumed_prefix_size_ \in Nat /\ Available \in Nat
         /\ Available = Len(input_buffer_) - consumed_prefix_size_
         /\ \A i \in 0 .. Available - 1 : HeaderByte(i) \in Byte
         /\ Boundary \in Nat
<1>1. Len(stream) \in Nat /\ Len(input_buffer_) \in Nat /\ Len(bounds) \in Nat \ {0}
  BY LenProperties, EmptySeq DEF TypeOK
<1>2. fed \in Nat /\ consumed_prefix_size_ \in Nat /\ Available \in Nat
      /\ Available = Len(input_buffer_) - consumed_prefix_size_
  BY <1>1 DEF TypeOK, Available
<1>3. ASSUME NEW i \in 0 .. Available - 1
      PROVE  HeaderByte(i) \in Byte
  <2>1. consumed_prefix_size_ + 1 + i \in 1..Len(input_buffer_)
    BY <1>1, <1>2
  <2>2. input_buffer_ \in Seq(Byte)
    BY DEF TypeOK
  <2> QED BY <2>1, <2>2, ElementOfSeq DEF HeaderByte
<1>4. Boundary \in Nat
  BY <1>1, ElementOfSeq DEF TypeOK, Boundary
<1> QED
  BY <1>1, <1>2, <1>3, <1>4

\* What parseAndValidateHeader may report.
LEMMA HeaderCheckKinds == HeaderCheck \in (FrameErrorKind \ {"decoder_failed", "invalid_utf8"}) \cup {"ok"}
  BY DEF HeaderCheck, FrameErrorKind

\* discardConsumedBytes leaves a byte string and an empty prefix.
LEMMA ReturnType ==
  ASSUME TypeOK, Return
  PROVE  /\ pc' = "idle" /\ input_buffer_' \in Seq(Byte)
         /\ consumed_prefix_size_' \in 0..Len(input_buffer_')
<1>1. input_buffer_' \in Seq(Byte) /\ Len(input_buffer_') \in Nat
  BY BufferFacts, Segment, LenProperties DEF TypeOK, Return
<1> QED
  BY <1>1 DEF Return

\* The body handed to isValidUtf8 has the length the header announced.
LEMMA PendingBodyType ==
  ASSUME TypeOK, BodyComplete
  PROVE  PendingBody \in Seq(Byte) /\ Len(PendingBody) = body_length_
<1> DEFINE from == consumed_prefix_size_ + kFrameHeaderSize
<1>1. from + 1 \in Nat \ {0} /\ from + body_length_ \in Nat
      /\ from + 1 <= from + body_length_ + 1 /\ from + body_length_ <= Len(input_buffer_)
  BY BufferFacts DEF TypeOK, BodyComplete, kFrameHeaderSize
<1>2. input_buffer_ \in Seq(Byte)
  BY DEF TypeOK
<1>3. /\ PendingBody \in Seq(Byte)
      /\ Len(PendingBody) = (from + body_length_) - (from + 1) + 1
  BY <1>1, <1>2, Segment DEF PendingBody
<1>4. from \in Nat /\ body_length_ \in Nat
  BY BufferFacts DEF TypeOK, kFrameHeaderSize
<1> QED
  BY <1>3, <1>4

\* Every step keeps every variable in its type.
LEMMA StepKeepsType == TypeOK /\ [Next]_vars => TypeOK'
<1> SUFFICES ASSUME TypeOK, [Next]_vars PROVE TypeOK'
  OBVIOUS
<1> USE DEF TypeOK
<1>1. CASE UNCHANGED vars
  BY <1>1 DEF vars, env, input, header, verdict, output
<1>2. ASSUME NEW bytes \in PeerWrites, PeerWrite(bytes) PROVE TypeOK'
  <2>1. bytes \in Seq(Byte) /\ MaxWrites \in Nat
    BY PeerAssumption
  <2>2. stream' \in Seq(Byte) /\ Len(stream) <= Len(stream') /\ Len(stream') \in Nat
    BY <1>2, <2>1, ConcatProperties, LenProperties DEF PeerWrite
  <2>3. fed \in 0..Len(stream') /\ writes' \in 0..MaxWrites
    BY <1>2, <2>1, <2>2, BufferFacts DEF PeerWrite
  <2> QED
    BY <1>2, <2>2, <2>3 DEF PeerWrite, input, header, verdict, output
<1>3. ASSUME NEW size \in 0 .. Len(stream) - fed, FeedBytes(size) PROVE TypeOK'
  <2>1. fed' \in 0..Len(stream)
    BY <1>3, BufferFacts DEF FeedBytes
  <2>2. /\ input_buffer_' \in Seq(Byte)
        /\ consumed_prefix_size_' \in 0..Len(input_buffer_')
        /\ pc' \in {"idle", "decoding"}
    <3>1. CASE failed_
      BY <1>3, <3>1 DEF FeedBytes, input
    <3>2. CASE ~failed_
      <4> DEFINE data == SubSeq(stream, fed + 1, fed + size)
      <4>1. data \in Seq(Byte)
        BY <1>3, BufferFacts, Segment
      <4>2. input_buffer_' = input_buffer_ \o data
        BY <1>3, <3>2 DEF FeedBytes
      <4> HIDE DEF data
      <4>3. input_buffer_' \in Seq(Byte) /\ Len(input_buffer_) <= Len(input_buffer_')
            /\ Len(input_buffer_') \in Nat
        BY <4>1, <4>2, ConcatProperties, LenProperties
      <4> QED BY <1>3, <3>2, <4>3 DEF FeedBytes
    <3> QED BY <3>1, <3>2
  <2> QED
    BY <1>3, <2>1, <2>2 DEF FeedBytes, env, header, verdict, output
<1>4. CASE WaitForMore
  BY <1>4, ReturnType DEF WaitForMore, env, header, verdict, output
<1>5. CASE RejectHeader
  BY <1>5, ReturnType, HeaderCheckKinds DEF RejectHeader, setFailure, env, header, output
<1>6. CASE AcceptHeader
  <2>1. /\ HeaderByte(4) \in Byte /\ HeaderByte(5) \in Byte
        /\ HeaderByte(6) \in Byte /\ HeaderByte(7) \in Byte
    <3>1. Available \in Nat /\ \A i \in 0 .. Available - 1 : HeaderByte(i) \in Byte
      BY BufferFacts
    <3>2. Available >= 8
      BY <1>6 DEF AcceptHeader, HeaderComplete, kFrameHeaderSize
    <3> QED BY <3>1, <3>2
  <2>2. HeaderBodyLength \in Nat
    <3> DEFINE b5 == HeaderByte(4)
    <3> DEFINE b6 == HeaderByte(5)
    <3> DEFINE b7 == HeaderByte(6)
    <3> DEFINE b8 == HeaderByte(7)
    <3>1. b5 \in 0..255 /\ b6 \in 0..255 /\ b7 \in 0..255 /\ b8 \in 0..255
      BY <2>1 DEF Byte
    <3>2. HeaderBodyLength = b5 * 16777216 + b6 * 65536 + b7 * 256 + b8
      BY DEF HeaderBodyLength
    <3> HIDE DEF b5, b6, b7, b8
    <3> QED BY <3>1, <3>2
  <2>3. HeaderByte(3) \in ProtocolType
    BY <1>6 DEF AcceptHeader, HeaderCheck, findProtocol
  <2> QED
    BY <1>6, <2>2, <2>3 DEF AcceptHeader, env, input, verdict, output
<1>7. CASE RejectBody
  BY <1>7, ReturnType DEF RejectBody, setFailure, FrameErrorKind, env, output
<1>8. CASE AcceptFrame
  <2>1. [type |-> frame_type_, body |-> PendingBody] \in Frame
    BY <1>8, PendingBodyType DEF AcceptFrame, Frame
  <2>2. decoded_frames_' \in Seq(Frame)
    BY <1>8, <2>1, AppendProperties DEF AcceptFrame
  <2>3. consumed_prefix_size_' \in 0..Len(input_buffer_')
    BY <1>8, BufferFacts DEF AcceptFrame, BodyComplete, kFrameHeaderSize
  <2>4. Boundary + kFrameHeaderSize + body_length_ \in Nat
    <3>1. Boundary \in Nat /\ body_length_ \in Nat
      BY BufferFacts DEF TypeOK
    <3> QED BY <3>1 DEF kFrameHeaderSize
  <2>5. bounds' \in Seq(Nat) /\ bounds' # <<>>
    BY <1>8, <2>4, AppendProperties DEF AcceptFrame
  <2> QED
    BY <1>8, <2>2, <2>3, <2>5 DEF AcceptFrame, env, verdict
<1>9. CASE TryPopFrame
  <2>1. delivered' \in Seq(Frame) /\ decoded_frames_' \in Seq(Frame)
    BY <1>9, HeadTailProperties, AppendProperties DEF TryPopFrame
  <2> QED
    BY <1>9, <2>1 DEF TryPopFrame, env, input, header, verdict
<1> QED
  BY <1>1, <1>2, <1>3, <1>4, <1>5, <1>6, <1>7, <1>8, <1>9
     DEF Next, Decoder, Feed, DecodeStep

\* The constructed decoder is well typed.
LEMMA InitHasType == Init => TypeOK
<1>1. /\ <<>> \in Seq(Byte) /\ <<>> \in Seq(Frame) /\ Len(<<>>) = 0
      /\ <<0>> \in Seq(Nat) /\ <<0>> # <<>>
  BY EmptySeq
<1>2. 0 \in 0..MaxWrites /\ 0 \in 0..0 /\ 0 \in Nat
  BY PeerAssumption
<1>3. protocol_error \in ProtocolType
  BY RegistryFacts
<1>4. "decoder_failed" \in FrameErrorKind
  BY DEF FrameErrorKind
<1> HIDE DEF Byte, Frame, ProtocolType, protocol_error, FrameErrorKind
<1> QED
  BY <1>1, <1>2, <1>3, <1>4, Zenon DEF Init, TypeOK

\* Every variable keeps its type, whatever the peer writes and however the
\* stream is cut: in particular no read of the header or of a body is outside
\* input_buffer_ (frame.hpp:136-210).
THEOREM TypeCorrect == Spec => []TypeOK
<1>1. Init => TypeOK
  BY InitHasType
<1>2. TypeOK /\ [Next]_vars => TypeOK'
  BY StepKeepsType
<1> QED
  BY <1>1, <1>2, PTL DEF Spec

-----------------------------------------------------------------------------
(***************************************************************************)
(* The inductive invariant: besides the properties themselves, what the    *)
(* decoder's fields say of the stream in the middle of a call.             *)
(***************************************************************************)

Unread == SubSeq(input_buffer_, consumed_prefix_size_ + 1, Len(input_buffer_))
BufferHoldsRest == ~failed_ => Unread = Rest
PendingHeaderIsNext ==
  has_pending_header_ =>
    /\ Len(Rest) >= 8
    /\ body_length_ \in 0..max_body[frame_type_]
    /\ HasHeader(Rest, frame_type_, body_length_)
\* What feedBytes leaves behind when it returns.
Settled ==
  pc = "idle" /\ ~failed_ =>
    /\ consumed_prefix_size_ = 0
    /\ ~has_pending_header_ => Len(Rest) < 8
    /\ has_pending_header_ => Len(Rest) < 8 + body_length_
FailedIsIdle == failed_ => pc = "idle"
BoundsAscend ==
  /\ \A k \in 1..Len(bounds) : bounds[k] <= Boundary
  /\ \A k \in 1 .. Len(bounds) - 1 : bounds[k] <= bounds[k + 1]

IInv ==
  /\ TypeOK
  /\ FramesTileStream
  /\ FailureIsJustified
  /\ BufferHoldsRest
  /\ PendingHeaderIsNext
  /\ Settled
  /\ FailedIsIdle
  /\ BoundsAscend

\* The bytes after the last frame, as a segment of the stream.
LEMMA RestFacts ==
  ASSUME TypeOK, FramesTileStream
  PROVE  /\ Boundary \in Nat /\ fed \in Nat /\ Len(stream) \in Nat
         /\ Boundary <= fed /\ fed <= Len(stream)
         /\ Rest \in Seq(Byte) /\ Len(Rest) = fed - Boundary /\ Len(Rest) \in Nat
         /\ \A i \in 1..Len(Rest) : Rest[i] = stream[Boundary + i] /\ Rest[i] \in Byte
<1>1. /\ Boundary \in Nat /\ fed \in Nat /\ Len(stream) \in Nat
      /\ Boundary <= fed /\ fed <= Len(stream)
  BY BufferFacts DEF TypeOK, FramesTileStream
<1>2. stream \in Seq(Byte)
  BY DEF TypeOK
<1>3. Boundary + 1 \in Nat \ {0} /\ Boundary + 1 <= fed + 1
  BY <1>1
<1>4. /\ Rest \in Seq(Byte) /\ Len(Rest) = fed - (Boundary + 1) + 1
      /\ \A i \in 1 .. fed - (Boundary + 1) + 1 : Rest[i] = stream[Boundary + 1 + i - 1]
  BY <1>1, <1>2, <1>3, Segment DEF Rest
<1>5. Len(Rest) = fed - Boundary /\ Len(Rest) \in Nat
  BY <1>1, <1>4
<1>6. ASSUME NEW i \in 1..Len(Rest)
      PROVE  Rest[i] = stream[Boundary + i]
  <2>1. i \in 1 .. fed - (Boundary + 1) + 1
    BY <1>1, <1>5
  <2>2. Boundary + 1 + i - 1 = Boundary + i
    BY <1>1
  <2> QED BY <1>4, <2>1, <2>2
<1>7. \A i \in 1..Len(Rest) : Rest[i] \in Byte
  BY <1>4, ElementOfSeq
<1> QED
  BY <1>1, <1>4, <1>5, <1>6, <1>7

\* The unread part of the buffer, seen through the operators of the loop.
LEMMA LoopReadsRest ==
  ASSUME TypeOK, FramesTileStream, BufferHoldsRest, ~failed_
  PROVE  /\ Available = Len(Rest)
         /\ \A i \in 0 .. Len(Rest) - 1 : HeaderByte(i) = Rest[i + 1]
         /\ BodyComplete => PendingBody = SubSeq(Rest, 9, 8 + body_length_)
<1>1. input_buffer_ \in Seq(Byte) /\ body_length_ \in Nat
  BY DEF TypeOK
<1>2. /\ consumed_prefix_size_ \in Nat /\ Len(input_buffer_) \in Nat /\ Available \in Nat
      /\ Available = Len(input_buffer_) - consumed_prefix_size_
  BY BufferFacts
<1>3. /\ consumed_prefix_size_ + 1 \in Nat \ {0}
      /\ consumed_prefix_size_ + 1 <= Len(input_buffer_) + 1
  BY <1>2
<1>4. Unread = Rest
  BY DEF BufferHoldsRest
<1>5. /\ Len(Unread) = Len(input_buffer_) - (consumed_prefix_size_ + 1) + 1
      /\ \A i \in 1 .. Len(input_buffer_) - (consumed_prefix_size_ + 1) + 1 :
           Unread[i] = input_buffer_[consumed_prefix_size_ + 1 + i - 1]
  BY <1>1, <1>2, <1>3, Segment DEF Unread
<1>6. Available = Len(Rest)
  BY <1>2, <1>4, <1>5
<1>7. ASSUME NEW i \in 0 .. Len(Rest) - 1
      PROVE  HeaderByte(i) = Rest[i + 1]
  <2>1. i + 1 \in 1 .. Len(input_buffer_) - (consumed_prefix_size_ + 1) + 1
    BY <1>2, <1>6
  <2>2. Unread[i + 1] = input_buffer_[consumed_prefix_size_ + 1 + (i + 1) - 1]
    BY <1>5, <2>1
  <2>3. consumed_prefix_size_ + 1 + (i + 1) - 1 = consumed_prefix_size_ + 1 + i
    BY <1>2
  <2> QED BY <1>4, <2>2, <2>3 DEF HeaderByte
<1>8. ASSUME BodyComplete
      PROVE  PendingBody = SubSeq(Rest, 9, 8 + body_length_)
  <2>1. 8 + body_length_ <= Len(input_buffer_) - (consumed_prefix_size_ + 1) + 1
    BY <1>1, <1>2, <1>8 DEF BodyComplete, kFrameHeaderSize
  <2>2. SubSeq(Unread, 9, 8 + body_length_)
          = SubSeq(input_buffer_, consumed_prefix_size_ + 1 + 9 - 1,
                                  consumed_prefix_size_ + 1 + (8 + body_length_) - 1)
    BY <1>1, <1>2, <1>3, <2>1, SegmentOfSegment DEF Unread
  <2>3. /\ consumed_prefix_size_ + 1 + 9 - 1 = consumed_prefix_size_ + kFrameHeaderSize + 1
        /\ consumed_prefix_size_ + 1 + (8 + body_length_) - 1
             = consumed_prefix_size_ + kFrameHeaderSize + body_length_
    BY <1>1, <1>2 DEF kFrameHeaderSize
  <2> QED BY <1>4, <2>2, <2>3 DEF PendingBody
<1> QED
  BY <1>6, <1>7, <1>8

\* parseAndValidateHeader decides about the bytes after the last frame.
LEMMA HeaderCheckDecides ==
  ASSUME TypeOK, FramesTileStream, BufferHoldsRest, ~failed_, HeaderComplete
  PROVE  /\ Len(Rest) >= 8
         /\ HeaderCheck # "ok" => IsDefect(Rest, HeaderCheck)
         /\ HeaderCheck = "ok" =>
              /\ HeaderByte(3) \in ProtocolType
              /\ HeaderBodyLength \in 0..max_body[HeaderByte(3)]
              /\ HasHeader(Rest, HeaderByte(3), HeaderBodyLength)
<1>1. Rest \in Seq(Byte) /\ Len(Rest) \in Nat /\ Len(Rest) >= 8
  BY RestFacts, LoopReadsRest DEF HeaderComplete, kFrameHeaderSize
<1>2. /\ HeaderByte(0) = Rest[1] /\ HeaderByte(1) = Rest[2] /\ HeaderByte(2) = Rest[3]
      /\ HeaderByte(3) = Rest[4] /\ HeaderByte(4) = Rest[5] /\ HeaderByte(5) = Rest[6]
      /\ HeaderByte(6) = Rest[7] /\ HeaderByte(7) = Rest[8]
  <2>1. \A i \in 0 .. Len(Rest) - 1 : HeaderByte(i) = Rest[i + 1]
    BY LoopReadsRest
  <2>2. /\ 0 \in 0 .. Len(Rest) - 1 /\ 1 \in 0 .. Len(Rest) - 1 /\ 2 \in 0 .. Len(Rest) - 1
        /\ 3 \in 0 .. Len(Rest) - 1 /\ 4 \in 0 .. Len(Rest) - 1 /\ 5 \in 0 .. Len(Rest) - 1
        /\ 6 \in 0 .. Len(Rest) - 1 /\ 7 \in 0 .. Len(Rest) - 1
    BY <1>1
  <2>3. HeaderByte(0) = Rest[0 + 1] /\ HeaderByte(1) = Rest[1 + 1] /\ HeaderByte(2) = Rest[2 + 1]
        /\ HeaderByte(3) = Rest[3 + 1] /\ HeaderByte(4) = Rest[4 + 1] /\ HeaderByte(5) = Rest[5 + 1]
        /\ HeaderByte(6) = Rest[6 + 1] /\ HeaderByte(7) = Rest[7 + 1]
    BY <2>1, <2>2
  <2> QED BY <2>3
<1>3. HeaderBodyLength = HeaderLength(Rest)
  BY <1>2, SMT DEF HeaderBodyLength, HeaderLength
<1>4. HeaderLength(Rest) \in Nat
  BY <1>1, RegistryFacts, HeaderSpellsItsLength
<1>5. HeaderCheck # "ok" => IsDefect(Rest, HeaderCheck)
  <2>1. \/ HeaderCheck = "bad_magic" /\ ~(Rest[1] = 67 /\ Rest[2] = 72)
        \/ HeaderCheck = "bad_version" /\ Rest[1] = 67 /\ Rest[2] = 72 /\ Rest[3] # 1
        \/ /\ HeaderCheck = "unknown_type"
           /\ Rest[1] = 67 /\ Rest[2] = 72 /\ Rest[3] = 1 /\ Rest[4] \notin ProtocolType
        \/ /\ HeaderCheck = "body_too_large"
           /\ Rest[1] = 67 /\ Rest[2] = 72 /\ Rest[3] = 1 /\ Rest[4] \in ProtocolType
           /\ HeaderLength(Rest) > max_body[Rest[4]]
        \/ HeaderCheck = "ok"
    BY <1>2, <1>3
       DEF HeaderCheck, findProtocol, kFrameMagicHigh, kFrameMagicLow, kProtocolVersion
  <2> QED BY <1>1, <2>1, DefectPointwise
<1>6. ASSUME HeaderCheck = "ok"
      PROVE  /\ HeaderByte(3) \in ProtocolType
             /\ HeaderBodyLength \in 0..max_body[HeaderByte(3)]
             /\ HasHeader(Rest, HeaderByte(3), HeaderBodyLength)
  <2>1. /\ Rest[1] = 67 /\ Rest[2] = 72 /\ Rest[3] = 1 /\ Rest[4] \in ProtocolType
        /\ ~(HeaderLength(Rest) > max_body[Rest[4]])
    BY <1>2, <1>3, <1>6
       DEF HeaderCheck, findProtocol, kFrameMagicHigh, kFrameMagicLow, kProtocolVersion
  <2>2. HeaderLength(Rest) \in 0..max_body[Rest[4]] /\ HeaderLength(Rest) <= 65536
        /\ Rest[4] \in Byte
    BY <1>4, <2>1, RegistryFacts
  <2>3. HasHeader(Rest, Rest[4], HeaderLength(Rest))
    BY <1>1, <1>4, <2>1, <2>2, HeaderSpellsItsLength
  <2> QED BY <1>2, <1>3, <2>1, <2>2, <2>3
<1> QED
  BY <1>1, <1>5, <1>6

\* A settled buffer holds neither a whole frame nor a defect.
LEMMA InvImpliesNothingWithheld == IInv => NothingWithheld
<1> SUFFICES ASSUME IInv, pc = "idle", ~failed_
             PROVE  /\ \A kind \in FrameErrorKind : ~IsDefect(Rest, kind)
                    /\ Len(Rest) >= kFrameHeaderSize =>
                         \A size \in 0..max_body[Rest[4]] :
                           HasHeader(Rest, Rest[4], size) => Len(Rest) < kFrameHeaderSize + size
  BY DEF NothingWithheld
<1>1. Rest \in Seq(Byte) /\ Len(Rest) \in Nat
  BY RestFacts DEF IInv
<1>2. CASE Len(Rest) < 8
  BY <1>1, <1>2 DEF IsDefect, kFrameHeaderSize
<1>3. CASE Len(Rest) >= 8
  <2>1. /\ has_pending_header_ /\ body_length_ \in 0..max_body[frame_type_]
        /\ HasHeader(Rest, frame_type_, body_length_) /\ Len(Rest) < 8 + body_length_
        /\ frame_type_ \in ProtocolType
    BY <1>1, <1>3 DEF IInv, Settled, PendingHeaderIsNext, TypeOK
  <2>2. /\ Rest[1] = 67 /\ Rest[2] = 72 /\ Rest[3] = 1 /\ Rest[4] = frame_type_
        /\ HeaderLength(Rest) = body_length_
    BY <1>1, <1>3, <2>1, RegistryFacts, HeaderSpellsItsLength
  <2>3. \A kind \in FrameErrorKind : ~IsDefect(Rest, kind)
    BY <1>1, <1>3, <2>1, <2>2, RegistryFacts, DefectPointwise DEF FrameErrorKind
  <2>4. ASSUME NEW size \in 0..max_body[Rest[4]], HasHeader(Rest, Rest[4], size)
        PROVE  size = body_length_
    BY <1>1, <1>3, <2>1, <2>2, <2>4, RegistryFacts, HeaderSpellsItsLength
  <2> QED
    BY <2>1, <2>3, <2>4 DEF kFrameHeaderSize
<1> QED
  BY <1>1, <1>2, <1>3

\* A settled buffer is shorter than a frame of the largest body.
LEMMA InvImpliesBounded == IInv => BufferIsBounded
<1> SUFFICES ASSUME IInv, pc = "idle", ~failed_
             PROVE  input_buffer_ = Rest /\ Len(input_buffer_) < kFrameHeaderSize + kMaxJsonBody
  BY DEF BufferIsBounded
<1>1. consumed_prefix_size_ = 0
  BY DEF IInv, Settled
<1>2. Unread = input_buffer_
  BY <1>1, SubSeqFull DEF Unread, IInv, TypeOK
<1>3. input_buffer_ = Rest
  BY <1>2 DEF IInv, BufferHoldsRest
<1>4. Rest \in Seq(Byte) /\ Len(Rest) \in Nat
  BY RestFacts DEF IInv
<1>5. kMaxJsonBody \in Nat
  BY RegistryFacts
<1>6. CASE ~has_pending_header_
  <2>1. Len(Rest) < 8
    BY <1>6 DEF IInv, Settled
  <2> QED BY <1>3, <1>4, <1>5, <2>1 DEF kFrameHeaderSize
<1>7. CASE has_pending_header_
  <2>1. Len(Rest) < 8 + body_length_ /\ body_length_ \in 0..max_body[frame_type_]
        /\ frame_type_ \in ProtocolType
    BY <1>7 DEF IInv, Settled, PendingHeaderIsNext, TypeOK
  <2>2. body_length_ <= kMaxJsonBody /\ body_length_ \in Nat
    BY <2>1, RegistryFacts
  <2> QED BY <1>3, <1>4, <1>5, <2>1, <2>2 DEF kFrameHeaderSize
<1> QED
  BY <1>6, <1>7

-----------------------------------------------------------------------------
(* What a longer stream leaves alone *)

\* The string c is b with more after it.
Extends(c, b) == Len(b) <= Len(c) /\ \A i \in 1..Len(b) : c[i] = b[i]

\* A longer string with the same beginning has the same segments there.
LEMMA SegmentOfLonger ==
  ASSUME NEW b \in Seq(Byte), NEW c \in Seq(Byte), Extends(c, b),
         NEW m \in Nat \ {0}, NEW n \in Nat, m <= n + 1, n <= Len(b)
  PROVE  SubSeq(c, m, n) = SubSeq(b, m, n)
<1> DEFINE u == SubSeq(c, m, n)
<1> DEFINE v == SubSeq(b, m, n)
<1>1. Len(b) \in Nat /\ Len(c) \in Nat /\ Len(b) <= Len(c)
  BY LenProperties DEF Extends
<1>2. /\ u \in Seq(Byte) /\ Len(u) = n - m + 1
      /\ \A k \in 1 .. n - m + 1 : u[k] = c[m + k - 1]
  BY <1>1, Segment
<1>3. /\ v \in Seq(Byte) /\ Len(v) = n - m + 1
      /\ \A k \in 1 .. n - m + 1 : v[k] = b[m + k - 1]
  BY <1>1, Segment
<1>4. \A k \in 1 .. n - m + 1 : m + k - 1 \in 1..Len(b)
  BY <1>1
<1>5. \A k \in 1 .. Len(u) : u[k] = v[k]
  BY <1>2, <1>3, <1>4 DEF Extends
<1> HIDE DEF u, v
<1>6. u = v
  BY <1>2, <1>3, <1>5, SeqEqual
<1> QED
  BY <1>6 DEF u, v

\* A defect is still one when more bytes follow.
LEMMA DefectStays ==
  ASSUME NEW b \in Seq(Byte), NEW c \in Seq(Byte), Extends(c, b),
         NEW kind \in FrameErrorKind, IsDefect(b, kind)
  PROVE  IsDefect(c, kind)
<1>1. /\ Len(b) >= 8 /\ Len(c) >= 8 /\ Len(b) <= Len(c)
      /\ Len(b) \in Nat /\ Len(c) \in Nat
  BY LenProperties DEF IsDefect, kFrameHeaderSize, Extends
<1>2. /\ c[1] = b[1] /\ c[2] = b[2] /\ c[3] = b[3] /\ c[4] = b[4]
      /\ c[5] = b[5] /\ c[6] = b[6] /\ c[7] = b[7] /\ c[8] = b[8]
  BY <1>1 DEF Extends
<1>3. HeaderLength(c) = HeaderLength(b)
  BY <1>2, SMT DEF HeaderLength
<1>4. HeaderLength(b) \in Nat
  BY <1>1, RegistryFacts, HeaderSpellsItsLength
<1>5. CASE kind # "invalid_utf8"
  BY <1>1, <1>2, <1>3, <1>5, DefectPointwise DEF FrameErrorKind
<1>6. CASE kind = "invalid_utf8"
  <2>1. /\ b[1] = 67 /\ b[2] = 72 /\ b[3] = 1 /\ b[4] \in ProtocolType
        /\ HeaderLength(b) <= max_body[b[4]]
        /\ Len(b) >= 8 + HeaderLength(b)
        /\ ~isValidUtf8(SubSeq(b, 9, 8 + HeaderLength(b)))
    BY <1>1, <1>6, DefectPointwise
  <2>2. SubSeq(c, 9, 8 + HeaderLength(b)) = SubSeq(b, 9, 8 + HeaderLength(b))
    <3> DEFINE n == 8 + HeaderLength(b)
    <3>1. 9 \in Nat \ {0} /\ n \in Nat /\ 9 <= n + 1 /\ n <= Len(b)
      BY <1>1, <1>4, <2>1
    <3> HIDE DEF n
    <3>2. SubSeq(c, 9, n) = SubSeq(b, 9, n)
      BY <3>1, SegmentOfLonger
    <3> QED BY <3>2 DEF n
  <2>3. /\ c[1] = 67 /\ c[2] = 72 /\ c[3] = 1 /\ c[4] \in ProtocolType
        /\ HeaderLength(c) <= max_body[c[4]]
        /\ Len(c) >= 8 + HeaderLength(c)
        /\ ~isValidUtf8(SubSeq(c, 9, 8 + HeaderLength(c)))
    <3>1. Len(c) >= 8 + HeaderLength(b)
      BY <1>1, <1>4, <2>1
    <3> QED BY <1>2, <1>3, <2>1, <2>2, <3>1
  <2> QED
    BY <1>1, <1>6, <2>3, DefectPointwise
<1> QED
  BY <1>5, <1>6

\* The frames are well typed.
LEMMA FrameLogType ==
  ASSUME TypeOK
  PROVE  FrameLog \in Seq(Frame) /\ Len(FrameLog) \in Nat
<1>1. delivered \in Seq(Frame) /\ decoded_frames_ \in Seq(Frame)
  BY DEF TypeOK
<1> QED
  BY <1>1, ConcatProperties, LenProperties DEF FrameLog

\* The bytes after a fixed position only grow at their end.
LEMMA SuffixGrows ==
  ASSUME NEW s \in Seq(Byte), NEW t \in Seq(Byte),
         Extends(t, s), NEW b \in Nat, NEW f \in Nat, NEW g \in Nat,
         b <= f, f <= Len(s), f <= g, g <= Len(t)
  PROVE  /\ SubSeq(t, b + 1, g) \in Seq(Byte)
         /\ Extends(SubSeq(t, b + 1, g), SubSeq(s, b + 1, f))
<1> USE DEF Extends
<1> DEFINE u == SubSeq(s, b + 1, f)
<1> DEFINE v == SubSeq(t, b + 1, g)
<1>1. /\ u \in Seq(Byte) /\ Len(u) = f - (b + 1) + 1
      /\ \A i \in 1 .. f - (b + 1) + 1 : u[i] = s[b + 1 + i - 1]
  BY Segment
<1>2. /\ v \in Seq(Byte) /\ Len(v) = g - (b + 1) + 1
      /\ \A i \in 1 .. g - (b + 1) + 1 : v[i] = t[b + 1 + i - 1]
  BY Segment
<1>3. Len(s) \in Nat /\ Len(t) \in Nat
  BY LenProperties
<1> HIDE DEF u, v
<1>4. Len(u) <= Len(v)
  BY <1>1, <1>2
<1>5. ASSUME NEW i \in 1..Len(u) PROVE v[i] = u[i]
  <2>1. i \in 1 .. f - (b + 1) + 1 /\ i \in 1 .. g - (b + 1) + 1
        /\ b + 1 + i - 1 \in 1..Len(s)
    BY <1>1, <1>3
  <2> QED BY <1>1, <1>2, <2>1
<1>6. v \in Seq(Byte) /\ Len(u) <= Len(v) /\ \A i \in 1..Len(u) : v[i] = u[i]
  BY <1>2, <1>4, <1>5
<1> QED
  BY <1>6 DEF u, v

\* New bytes in the stream or in the buffer leave the frames as they were.
LEMMA RestGrows ==
  ASSUME TypeOK, TypeOK', FramesTileStream, BoundsAscend,
         UNCHANGED <<bounds, delivered, decoded_frames_>>, fed <= fed',
         Extends(stream', stream)
  PROVE  /\ FramesTileStream'
         /\ Rest' \in Seq(Byte) /\ Extends(Rest', Rest)
<1>1. /\ stream \in Seq(Byte) /\ stream' \in Seq(Byte) /\ Extends(stream', stream)
      /\ Len(stream) \in Nat /\ Len(stream') \in Nat /\ Len(stream) <= Len(stream')
  BY LenProperties DEF TypeOK, Extends
<1>2. Boundary' = Boundary /\ FrameLog' = FrameLog
  BY DEF Boundary, FrameLog
<1>3. /\ Boundary \in Nat /\ fed \in Nat /\ fed' \in Nat
      /\ Boundary <= fed /\ fed <= Len(stream) /\ fed' <= Len(stream')
  BY <1>1, RestFacts DEF TypeOK
<1>4. Rest' \in Seq(Byte) /\ Extends(Rest', Rest)
  <2> DEFINE Grown(t, g) ==
        SubSeq(t, Boundary + 1, g) \in Seq(Byte) /\ Extends(SubSeq(t, Boundary + 1, g), Rest)
  <2>1. ASSUME NEW t \in Seq(Byte), NEW g \in Nat, fed <= g, g <= Len(t), Extends(t, stream)
        PROVE  Grown(t, g)
    <3>1. /\ stream \in Seq(Byte) /\ Boundary \in Nat /\ fed \in Nat
          /\ Boundary <= fed /\ fed <= Len(stream)
      BY <1>1, <1>3
    <3>2. /\ SubSeq(t, Boundary + 1, g) \in Seq(Byte)
          /\ Extends(SubSeq(t, Boundary + 1, g), SubSeq(stream, Boundary + 1, fed))
      BY <2>1, <3>1, SuffixGrows
    <3> QED BY <3>2 DEF Rest
  <2>2. Rest' = SubSeq(stream', Boundary + 1, fed')
    BY <1>2 DEF Rest
  <2> HIDE DEF Grown
  <2>3. Grown(stream', fed')
    BY <1>1, <1>3, <2>1
  <2> QED BY <2>2, <2>3 DEF Grown
<1>5. Len(bounds) = Len(FrameLog) + 1 /\ bounds[1] = 0
  BY DEF FramesTileStream
<1>6. ASSUME NEW k \in 1..Len(FrameLog)
      PROVE  SubSeq(stream', bounds[k] + 1, bounds[k + 1])
               = SubSeq(stream, bounds[k] + 1, bounds[k + 1])
  <2>1. k \in 1..Len(bounds) /\ k + 1 \in 1..Len(bounds) /\ k \in 1 .. Len(bounds) - 1
    BY <1>5, FrameLogType
  <2>2. bounds[k] \in Nat /\ bounds[k + 1] \in Nat
    BY <2>1, ElementOfSeq DEF TypeOK
  <2>3. bounds[k] <= bounds[k + 1] /\ bounds[k + 1] <= Len(stream)
    BY <1>1, <1>3, <2>1, <2>2 DEF BoundsAscend
  <2>4. bounds[k] + 1 \in Nat \ {0} /\ bounds[k] + 1 <= bounds[k + 1] + 1
    BY <2>2, <2>3
  <2> QED
    BY <1>1, <2>2, <2>3, <2>4, SegmentOfLonger
<1>7. Boundary' <= fed'
  BY <1>2, <1>3
<1>8. FramesTileStream'
  BY <1>2, <1>5, <1>6, <1>7 DEF FramesTileStream
<1> QED
  BY <1>4, <1>8

-----------------------------------------------------------------------------
(* One lemma per action: it preserves the inductive invariant *)

\* A step that leaves the stream and the decoded frames alone keeps what was
\* said of them.
LEMMA SameStream ==
  ASSUME UNCHANGED <<env, fed, output>>
  PROVE  /\ Boundary' = Boundary /\ Rest' = Rest
         /\ FramesTileStream' <=> FramesTileStream
         /\ BoundsAscend' <=> BoundsAscend
  BY DEF env, output, Boundary, Rest, FramesTileStream, FrameLog, BoundsAscend

\* A stuttering step keeps the invariant.
LEMMA StutterKeepsInv == IInv /\ UNCHANGED vars => IInv'
<1> SUFFICES ASSUME IInv, UNCHANGED vars PROVE IInv'
  OBVIOUS
<1>1. TypeOK'
  BY StepKeepsType DEF IInv
<1> USE DEF vars, env, input, header, verdict, output
<1>2. /\ Rest' = Rest /\ Unread' = Unread
      /\ FramesTileStream' /\ BoundsAscend'
  BY SameStream DEF IInv, Unread
<1> QED
  BY <1>1, <1>2
     DEF IInv, FailureIsJustified, BufferHoldsRest, PendingHeaderIsNext, Settled, FailedIsIdle

\* What a step of the peer or of feedBytes does to the bytes after the last
\* frame: it may append to them.
LEMMA GrowKeeps ==
  ASSUME IInv, TypeOK', UNCHANGED <<header, verdict, output>>, fed <= fed',
         Extends(stream', stream)
  PROVE  /\ FramesTileStream' /\ FailureIsJustified' /\ PendingHeaderIsNext' /\ BoundsAscend'
<1> USE DEF header, verdict, output
<1>1. /\ FramesTileStream'
      /\ Rest' \in Seq(Byte) /\ Extends(Rest', Rest)
  BY RestGrows DEF IInv
<1>2. Rest \in Seq(Byte) /\ Len(Rest) \in Nat
  BY RestFacts DEF IInv
<1>3. BoundsAscend'
  BY DEF IInv, BoundsAscend, Boundary
<1>4. FailureIsJustified'
  <2>1. ASSUME NEW r \in Seq(Byte), Extends(r, Rest), failed_
        PROVE  IsDefect(r, error_)
    BY <1>2, <2>1, DefectStays DEF IInv, TypeOK, FailureIsJustified
  <2> QED BY <1>1, <2>1 DEF FailureIsJustified
<1>5. PendingHeaderIsNext'
  <2>1. ASSUME NEW r \in Seq(Byte), Extends(r, Rest), has_pending_header_
        PROVE  /\ Len(r) >= 8 /\ body_length_ \in 0..max_body[frame_type_]
               /\ HasHeader(r, frame_type_, body_length_)
    <3>1. /\ Len(Rest) >= 8 /\ body_length_ \in 0..max_body[frame_type_]
          /\ HasHeader(Rest, frame_type_, body_length_)
      BY <2>1 DEF IInv, PendingHeaderIsNext
    <3>2. SubSeq(r, 1, 8) = SubSeq(Rest, 1, 8)
      <4>1. 1 \in Nat \ {0} /\ 8 \in Nat /\ 1 <= 8 + 1 /\ 8 <= Len(Rest)
        BY <1>2, <3>1
      <4> QED BY <1>2, <2>1, <4>1, SegmentOfLonger
    <3>3. Len(r) >= 8
      BY <1>2, <2>1, <3>1, LenProperties DEF Extends
    <3> QED BY <3>1, <3>2, <3>3 DEF HasHeader, kFrameHeaderSize
  <2> QED BY <1>1, <2>1 DEF PendingHeaderIsNext
<1> QED
  BY <1>1, <1>3, <1>4, <1>5

\* The peer writing more keeps the invariant.
LEMMA PeerWriteKeepsInv ==
  ASSUME IInv, TypeOK', NEW bytes \in PeerWrites, PeerWrite(bytes)
  PROVE  IInv'
<1>1. bytes \in Seq(Byte) /\ stream \in Seq(Byte) /\ stream' = stream \o bytes
  BY PeerAssumption DEF IInv, TypeOK, PeerWrite
<1>2. Extends(stream', stream)
  <2>1. Len(stream) \in Nat /\ Len(bytes) \in Nat
    BY <1>1, LenProperties
  <2>2. /\ Len(stream) <= Len(stream \o bytes)
        /\ \A i \in 1..Len(stream) : (stream \o bytes)[i] = stream[i]
    BY <1>1, <2>1, ConcatProperties
  <2> QED BY <1>1, <2>2 DEF Extends
<1>3. fed' = fed /\ fed <= fed' /\ UNCHANGED <<header, verdict, output>>
  BY BufferFacts DEF IInv, PeerWrite
<1>4. FramesTileStream' /\ FailureIsJustified' /\ PendingHeaderIsNext' /\ BoundsAscend'
  BY <1>2, <1>3, GrowKeeps
<1>5. Rest' = Rest
  <2>1. /\ Boundary + 1 \in Nat \ {0} /\ fed \in Nat /\ Boundary + 1 <= fed + 1
        /\ fed <= Len(stream)
    BY RestFacts DEF IInv
  <2>2. SubSeq(stream \o bytes, Boundary + 1, fed) = SubSeq(stream, Boundary + 1, fed)
    BY <1>1, <2>1, SegmentOfConcat
  <2>3. Boundary' = Boundary
    BY <1>3 DEF output, Boundary
  <2> QED BY <1>1, <1>3, <2>2, <2>3 DEF Rest
<1>6. BufferHoldsRest' /\ Settled' /\ FailedIsIdle'
  BY <1>5 DEF IInv, PeerWrite, input, header, verdict, BufferHoldsRest, Unread, Settled,
              FailedIsIdle
<1> QED
  BY <1>4, <1>6 DEF IInv

\* feedBytes taking in a chunk keeps the invariant.
LEMMA FeedBytesKeepsInv ==
  ASSUME IInv, TypeOK', NEW size \in 0 .. Len(stream) - fed, FeedBytes(size)
  PROVE  IInv'
<1>1. /\ fed \in Nat /\ Len(stream) \in Nat /\ size \in Nat /\ fed + size <= Len(stream)
      /\ fed <= fed + size /\ stream \in Seq(Byte)
  BY BufferFacts DEF IInv, TypeOK
<1>2. /\ fed' = fed + size /\ stream' = stream /\ UNCHANGED <<header, verdict, output>>
      /\ fed <= fed'
  BY <1>1 DEF FeedBytes, env
<1>3. FramesTileStream' /\ FailureIsJustified' /\ PendingHeaderIsNext' /\ BoundsAscend'
  <2>1. Extends(stream', stream)
    BY <1>2 DEF Extends
  <2> QED BY <1>2, <2>1, GrowKeeps
<1>4. CASE failed_
  BY <1>2, <1>3, <1>4
     DEF IInv, FeedBytes, input, header, verdict, BufferHoldsRest, Settled, FailedIsIdle
<1>5. CASE ~failed_
  <2> DEFINE data == SubSeq(stream, fed + 1, fed + size)
  <2>1. data \in Seq(Byte) /\ Len(data) = size
    <3>1. /\ data \in Seq(Byte) /\ Len(data) = (fed + size) - (fed + 1) + 1
      BY <1>1, Segment
    <3> QED BY <1>1, <3>1
  <2>2. /\ input_buffer_' = input_buffer_ \o data /\ pc' = "decoding"
        /\ consumed_prefix_size_' = consumed_prefix_size_
    BY <1>5 DEF FeedBytes
  <2>3. /\ pc = "idle" /\ consumed_prefix_size_ = 0 /\ Unread = Rest
        /\ input_buffer_ \in Seq(Byte)
    BY <1>5 DEF IInv, FeedBytes, Settled, BufferHoldsRest, TypeOK
  <2>4. input_buffer_ = Rest
    BY <2>3, SubSeqFull DEF Unread
  <2>5. SubSeq(stream, Boundary + 1, fed + size) = Rest \o data
    <3>1. Boundary \in Nat /\ Boundary <= fed /\ fed + size \in Nat
      BY <1>1, RestFacts DEF IInv
    <3>2. SubSeq(stream, Boundary + 1, fed) \o SubSeq(stream, fed + 1, fed + size)
            = SubSeq(stream, Boundary + 1, fed + size)
      BY <1>1, <3>1, AdjacentSegments
    <3> QED BY <3>2 DEF Rest
  <2>6. Rest' = Rest \o data
    <3>1. Boundary' = Boundary
      BY <1>2 DEF output, Boundary
    <3>2. Rest' = SubSeq(stream, Boundary + 1, fed + size)
      BY <1>2, <3>1 DEF Rest
    <3> QED BY <2>5, <3>2
  <2> HIDE DEF data
  <2>7. Unread' = input_buffer_ \o data
    <3>1. SubSeq(input_buffer_ \o data, 0 + 1, Len(input_buffer_ \o data)) = input_buffer_ \o data
      BY <2>1, <2>3, ConcatProperties, SubSeqFull
    <3> QED BY <2>2, <2>3, <3>1 DEF Unread
  <2>8. BufferHoldsRest'
    BY <2>4, <2>6, <2>7 DEF BufferHoldsRest
  <2> QED
    BY <1>2, <1>3, <1>5, <2>2, <2>8 DEF IInv, verdict, Settled, FailedIsIdle
<1> QED
  BY <1>4, <1>5

\* discardConsumedBytes leaves exactly the unread bytes.
LEMMA ReturnKeepsRest ==
  ASSUME IInv, ~failed_, Return
  PROVE  /\ pc' = "idle" /\ consumed_prefix_size_' = 0 /\ Unread' = Rest
<1>1. Unread = Rest
  BY DEF IInv, BufferHoldsRest
<1>2. input_buffer_' = Unread /\ consumed_prefix_size_' = 0 /\ pc' = "idle"
  BY DEF Return, Unread
<1>3. Rest \in Seq(Byte)
  BY RestFacts DEF IInv
<1>4. SubSeq(Rest, 0 + 1, Len(Rest)) = Rest
  BY <1>3, SubSeqFull
<1> QED
  BY <1>1, <1>2, <1>4 DEF Unread

\* The loop never runs in a failed decoder.
LEMMA DecodingIsNotFailed == IInv /\ pc = "decoding" => ~failed_
  BY DEF IInv, FailedIsIdle

\* Leaving the loop for want of bytes keeps the invariant.
LEMMA WaitForMoreKeepsInv ==
  ASSUME IInv, TypeOK', WaitForMore
  PROVE  IInv'
<1>1. ~failed_ /\ Return /\ UNCHANGED <<env, fed, header, verdict, output>>
  BY DecodingIsNotFailed DEF WaitForMore
<1>2. /\ Rest' = Rest /\ FramesTileStream' /\ BoundsAscend'
  BY <1>1, SameStream DEF IInv
<1>3. pc' = "idle" /\ consumed_prefix_size_' = 0 /\ Unread' = Rest
  BY <1>1, ReturnKeepsRest
<1>4. /\ ~has_pending_header_ => Len(Rest) < 8
      /\ has_pending_header_ => Len(Rest) < 8 + body_length_
  <2>1. Available = Len(Rest) /\ Len(Rest) \in Nat /\ body_length_ \in Nat
    BY <1>1, LoopReadsRest, RestFacts DEF IInv, TypeOK
  <2> QED BY <2>1 DEF WaitForMore, HeaderComplete, BodyComplete, kFrameHeaderSize
<1>5. Settled'
  BY <1>1, <1>2, <1>3, <1>4 DEF Settled, header
<1>6. FailureIsJustified' /\ BufferHoldsRest' /\ PendingHeaderIsNext' /\ FailedIsIdle'
  BY <1>1, <1>2, <1>3
     DEF IInv, header, verdict, FailureIsJustified, BufferHoldsRest, PendingHeaderIsNext,
         FailedIsIdle
<1> QED
  BY <1>2, <1>5, <1>6 DEF IInv

\* Refusing a header keeps the invariant.
LEMMA RejectHeaderKeepsInv ==
  ASSUME IInv, TypeOK', RejectHeader
  PROVE  IInv'
<1>1. /\ ~failed_ /\ Return /\ UNCHANGED <<env, fed, header, output>>
      /\ failed_' = TRUE /\ error_' = HeaderCheck /\ HeaderComplete /\ HeaderCheck # "ok"
  BY DecodingIsNotFailed DEF RejectHeader, setFailure
<1>2. /\ Rest' = Rest /\ FramesTileStream' /\ BoundsAscend'
  BY <1>1, SameStream DEF IInv
<1>3. IsDefect(Rest, HeaderCheck)
  BY <1>1, HeaderCheckDecides DEF IInv
<1>4. FailureIsJustified'
  BY <1>1, <1>2, <1>3 DEF FailureIsJustified
<1>5. BufferHoldsRest' /\ PendingHeaderIsNext' /\ Settled' /\ FailedIsIdle'
  BY <1>1, <1>2
     DEF HeaderComplete, Return, header, BufferHoldsRest, PendingHeaderIsNext, Settled,
         FailedIsIdle
<1> QED
  BY <1>2, <1>4, <1>5 DEF IInv

\* Accepting a header keeps the invariant.
LEMMA AcceptHeaderKeepsInv ==
  ASSUME IInv, TypeOK', AcceptHeader
  PROVE  IInv'
<1>1. /\ ~failed_ /\ UNCHANGED <<env, fed, pc, input, verdict, output>> /\ pc = "decoding"
      /\ HeaderComplete /\ HeaderCheck = "ok"
      /\ frame_type_' = HeaderByte(3) /\ body_length_' = HeaderBodyLength
  BY DecodingIsNotFailed DEF AcceptHeader
<1>2. /\ Rest' = Rest /\ FramesTileStream' /\ BoundsAscend'
  BY <1>1, SameStream DEF IInv
<1>3. /\ Len(Rest) >= 8
      /\ HeaderBodyLength \in 0..max_body[HeaderByte(3)]
      /\ HasHeader(Rest, HeaderByte(3), HeaderBodyLength)
  BY <1>1, HeaderCheckDecides DEF IInv
<1>4. PendingHeaderIsNext'
  BY <1>1, <1>2, <1>3 DEF PendingHeaderIsNext
<1>5. FailureIsJustified' /\ BufferHoldsRest' /\ Settled' /\ FailedIsIdle'
  BY <1>1, <1>2
     DEF IInv, input, verdict, FailureIsJustified, BufferHoldsRest, Unread, Settled,
         FailedIsIdle
<1> QED
  BY <1>2, <1>4, <1>5 DEF IInv

\* The frame whose header is pending, once its body is complete.
LEMMA PendingFrame ==
  ASSUME IInv, ~failed_, BodyComplete
  PROVE  /\ Rest \in Seq(Byte) /\ Len(Rest) \in Nat /\ Len(Rest) >= 8 + body_length_
         /\ body_length_ \in Nat /\ frame_type_ \in ProtocolType
         /\ body_length_ \in 0..max_body[frame_type_]
         /\ HasHeader(Rest, frame_type_, body_length_)
         /\ PendingBody = SubSeq(Rest, 9, 8 + body_length_)
         /\ PendingBody \in Seq(Byte) /\ Len(PendingBody) = body_length_
<1>1. Rest \in Seq(Byte) /\ Len(Rest) \in Nat
  BY RestFacts DEF IInv
<1>2. body_length_ \in Nat /\ frame_type_ \in ProtocolType
  BY DEF IInv, TypeOK
<1>3. body_length_ \in 0..max_body[frame_type_] /\ HasHeader(Rest, frame_type_, body_length_)
  BY DEF IInv, PendingHeaderIsNext, BodyComplete
<1>4. Len(Rest) >= 8 + body_length_ /\ PendingBody = SubSeq(Rest, 9, 8 + body_length_)
  BY LoopReadsRest DEF IInv, BodyComplete, kFrameHeaderSize
<1> QED
  BY <1>1, <1>2, <1>3, <1>4, PendingBodyType DEF IInv

\* Refusing a body keeps the invariant.
LEMMA RejectBodyKeepsInv ==
  ASSUME IInv, TypeOK', RejectBody
  PROVE  IInv'
<1>1. /\ ~failed_ /\ Return /\ UNCHANGED <<env, fed, output>>
      /\ failed_' = TRUE /\ error_' = "invalid_utf8" /\ has_pending_header_' = FALSE
      /\ BodyComplete /\ ~isValidUtf8(PendingBody)
  BY DecodingIsNotFailed DEF RejectBody, setFailure
<1>2. /\ Rest' = Rest /\ FramesTileStream' /\ BoundsAscend'
  BY <1>1, SameStream DEF IInv
<1>3. IsDefect(Rest, "invalid_utf8")
  <2>1. /\ Rest[1] = 67 /\ Rest[2] = 72 /\ Rest[3] = 1 /\ Rest[4] = frame_type_
        /\ HeaderLength(Rest) = body_length_
    BY <1>1, PendingFrame, RegistryFacts, HeaderSpellsItsLength
  <2>2. /\ Rest \in Seq(Byte) /\ Len(Rest) >= 8 /\ Len(Rest) >= 8 + HeaderLength(Rest)
        /\ Rest[4] \in ProtocolType /\ HeaderLength(Rest) <= max_body[Rest[4]]
    BY <1>1, <2>1, PendingFrame, RegistryFacts
  <2>3. ~isValidUtf8(SubSeq(Rest, 9, 8 + HeaderLength(Rest)))
    BY <1>1, <2>1, PendingFrame
  <2> QED
    BY <2>1, <2>2, <2>3, DefectPointwise
<1>4. FailureIsJustified'
  BY <1>1, <1>2, <1>3 DEF FailureIsJustified
<1>5. BufferHoldsRest' /\ PendingHeaderIsNext' /\ Settled' /\ FailedIsIdle'
  BY <1>1 DEF Return, BufferHoldsRest, PendingHeaderIsNext, Settled, FailedIsIdle
<1> QED
  BY <1>2, <1>4, <1>5 DEF IInv

\* The bytes of an accepted frame are the ones encodeFrame writes for it.
LEMMA AcceptedFrameIsEncoded ==
  ASSUME IInv, ~failed_, BodyComplete, isValidUtf8(PendingBody)
  PROVE  /\ Encodable(frame_type_, PendingBody)
         /\ SubSeq(stream, Boundary + 1, Boundary + 8 + body_length_)
              = encodeFrame(frame_type_, PendingBody)
<1>1. /\ Rest \in Seq(Byte) /\ Len(Rest) \in Nat /\ Len(Rest) >= 8 + body_length_
      /\ body_length_ \in Nat /\ frame_type_ \in ProtocolType
      /\ body_length_ <= max_body[frame_type_]
      /\ SubSeq(Rest, 1, 8) = Header(frame_type_, body_length_)
      /\ PendingBody = SubSeq(Rest, 9, 8 + body_length_)
      /\ Len(PendingBody) = body_length_
  BY PendingFrame, RegistryFacts DEF HasHeader, kFrameHeaderSize
<1>2. Encodable(frame_type_, PendingBody)
  BY <1>1 DEF Encodable, findProtocol
<1>3. SubSeq(Rest, 1, 8) \o SubSeq(Rest, 9, 8 + body_length_) = SubSeq(Rest, 1, 8 + body_length_)
  <2>1. \A a, g \in Nat : a <= 8 /\ 8 <= g /\ g <= Len(Rest) =>
          SubSeq(Rest, a + 1, 8) \o SubSeq(Rest, 8 + 1, g) = SubSeq(Rest, a + 1, g)
    BY <1>1, AdjacentSegments, SMTT(30)
  <2>2. 8 + body_length_ \in Nat /\ 8 <= 8 + body_length_ /\ 0 + 1 = 1 /\ 8 + 1 = 9
    BY <1>1
  <2> QED BY <1>1, <2>1, <2>2
<1>4. SubSeq(Rest, 1, 8 + body_length_) = SubSeq(stream, Boundary + 1, Boundary + 8 + body_length_)
  <2>1. /\ Boundary \in Nat /\ fed \in Nat /\ Boundary <= fed /\ fed <= Len(stream)
        /\ Len(Rest) = fed - Boundary /\ stream \in Seq(Byte)
    BY RestFacts DEF IInv, TypeOK
  <2>2. /\ Boundary + 1 \in Nat \ {0} /\ Boundary + 1 <= fed + 1
        /\ 1 <= 8 + body_length_ + 1 /\ 8 + body_length_ <= fed - (Boundary + 1) + 1
        /\ 8 + body_length_ \in Nat
    BY <1>1, <2>1
  <2>3. SubSeq(SubSeq(stream, Boundary + 1, fed), 1, 8 + body_length_)
          = SubSeq(stream, (Boundary + 1) + 1 - 1, (Boundary + 1) + (8 + body_length_) - 1)
    BY <2>1, <2>2, SegmentOfSegment
  <2>4. /\ (Boundary + 1) + 1 - 1 = Boundary + 1
        /\ (Boundary + 1) + (8 + body_length_) - 1 = Boundary + 8 + body_length_
    BY <1>1, <2>1
  <2> QED BY <2>3, <2>4 DEF Rest
<1> QED
  BY <1>1, <1>2, <1>3, <1>4 DEF encodeFrame

\* What one more frame and one more bound do to the tiling.
LEMMA AppendToLog ==
  ASSUME NEW S, NEW s \in Seq(S), NEW t \in Seq(S), NEW e \in S
  PROVE  /\ s \o Append(t, e) \in Seq(S)
         /\ Len(s \o Append(t, e)) = Len(s \o t) + 1
         /\ \A k \in 1..Len(s \o t) : (s \o Append(t, e))[k] = (s \o t)[k]
         /\ (s \o Append(t, e))[Len(s \o t) + 1] = e
<1>1. /\ Append(t, e) \in Seq(S) /\ Len(Append(t, e)) = Len(t) + 1
      /\ \A k \in 1..Len(t) : Append(t, e)[k] = t[k]
      /\ Append(t, e)[Len(t) + 1] = e
  BY AppendProperties
<1> DEFINE u == Append(t, e)
<1> HIDE DEF u
<1>2. /\ u \in Seq(S) /\ Len(u) = Len(t) + 1
      /\ \A k \in 1..Len(t) : u[k] = t[k]
      /\ u[Len(t) + 1] = e
  BY <1>1 DEF u
<1>3. /\ s \o u \in Seq(S) /\ Len(s \o u) = Len(s) + Len(u)
      /\ \A k \in 1 .. Len(s) + Len(u) :
           (s \o u)[k] = IF k <= Len(s) THEN s[k] ELSE u[k - Len(s)]
  BY <1>2, ConcatProperties
<1>4. /\ Len(s \o t) = Len(s) + Len(t)
      /\ \A k \in 1 .. Len(s) + Len(t) :
           (s \o t)[k] = IF k <= Len(s) THEN s[k] ELSE t[k - Len(s)]
  BY ConcatProperties
<1>5. Len(s) \in Nat /\ Len(t) \in Nat
  BY LenProperties
<1>6. \A k \in 1..Len(s \o t) : (s \o u)[k] = (s \o t)[k]
  BY <1>2, <1>3, <1>4, <1>5
<1>7. (s \o u)[Len(s \o t) + 1] = e
  <2>1. /\ Len(s) + Len(t) + 1 \in 1 .. Len(s) + Len(u)
        /\ ~(Len(s) + Len(t) + 1 <= Len(s))
        /\ Len(s) + Len(t) + 1 - Len(s) = Len(t) + 1
    BY <1>2, <1>5
  <2> QED BY <1>2, <1>3, <1>4, <2>1
<1> QED
  BY <1>2, <1>3, <1>4, <1>5, <1>6, <1>7 DEF u

\* Decoding a frame keeps the invariant.
LEMMA AcceptFrameKeepsInv ==
  ASSUME IInv, TypeOK', AcceptFrame
  PROVE  IInv'
<1> DEFINE f == [type |-> frame_type_, body |-> PendingBody]
<1> DEFINE end == Boundary + 8 + body_length_
<1>1. /\ ~failed_ /\ pc = "decoding" /\ BodyComplete /\ isValidUtf8(PendingBody)
      /\ has_pending_header_' = FALSE /\ decoded_frames_' = Append(decoded_frames_, f)
      /\ consumed_prefix_size_' = consumed_prefix_size_ + 8 + body_length_
      /\ bounds' = Append(bounds, end)
      /\ UNCHANGED <<env, fed, pc, input_buffer_, verdict, delivered>>
  BY DecodingIsNotFailed DEF AcceptFrame, kFrameHeaderSize
<1>2. /\ Boundary \in Nat /\ fed \in Nat /\ Boundary <= fed /\ fed <= Len(stream)
      /\ Len(Rest) = fed - Boundary /\ stream \in Seq(Byte) /\ Len(stream) \in Nat
  BY RestFacts DEF IInv, TypeOK
<1>3. /\ body_length_ \in Nat /\ Len(Rest) >= 8 + body_length_ /\ PendingBody \in Seq(Byte)
      /\ frame_type_ \in ProtocolType /\ Rest \in Seq(Byte)
  BY <1>1, PendingFrame
<1>4. end \in Nat /\ Boundary <= end /\ end <= fed
  BY <1>2, <1>3
<1>5. f \in Frame
  BY <1>3 DEF Frame
<1>6. /\ Encodable(f.type, f.body)
      /\ SubSeq(stream, Boundary + 1, end) = encodeFrame(f.type, f.body)
  BY <1>1, AcceptedFrameIsEncoded
<1>7. /\ bounds \in Seq(Nat) /\ Len(bounds) \in Nat \ {0}
      /\ Len(bounds) = Len(FrameLog) + 1 /\ bounds[1] = 0 /\ bounds[Len(bounds)] = Boundary
      /\ Len(FrameLog) \in Nat
  BY EmptySeq, FrameLogType DEF IInv, TypeOK, FramesTileStream, Boundary
<1>8. /\ Len(bounds') = Len(bounds) + 1
      /\ \A k \in 1..Len(bounds) : bounds'[k] = bounds[k]
      /\ bounds'[Len(bounds) + 1] = end
  BY <1>1, <1>4, <1>7, AppendProperties
<1>9. Boundary' = end
  BY <1>8 DEF Boundary
<1>10. /\ Len(FrameLog') = Len(FrameLog) + 1
       /\ \A k \in 1..Len(FrameLog) : FrameLog'[k] = FrameLog[k]
       /\ FrameLog'[Len(FrameLog) + 1] = f
  <2>1. FrameLog' = delivered \o Append(decoded_frames_, f)
    BY <1>1 DEF FrameLog
  <2>2. delivered \in Seq(Frame) /\ decoded_frames_ \in Seq(Frame)
    BY DEF IInv, TypeOK
  <2> HIDE DEF f
  <2> QED BY <1>5, <2>1, <2>2, AppendToLog DEF FrameLog
<1> HIDE DEF f, end
<1>11. FramesTileStream'
  <2>1. Len(bounds') = Len(FrameLog') + 1 /\ bounds'[1] = 0 /\ Boundary' <= fed'
    BY <1>1, <1>4, <1>7, <1>8, <1>9, <1>10
  <2>2. ASSUME NEW k \in 1..Len(FrameLog)
        PROVE  /\ FrameLog'[k] = FrameLog[k] /\ bounds'[k] = bounds[k]
               /\ bounds'[k + 1] = bounds[k + 1]
    BY <1>7, <1>8, <1>10
  <2>3. ASSUME NEW k \in 1..Len(FrameLog')
        PROVE  /\ Encodable(FrameLog'[k].type, FrameLog'[k].body)
               /\ SubSeq(stream', bounds'[k] + 1, bounds'[k + 1])
                    = encodeFrame(FrameLog'[k].type, FrameLog'[k].body)
    <3>1. CASE k \in 1..Len(FrameLog)
      <4>1. /\ Encodable(FrameLog[k].type, FrameLog[k].body)
            /\ SubSeq(stream, bounds[k] + 1, bounds[k + 1])
                 = encodeFrame(FrameLog[k].type, FrameLog[k].body)
        BY <3>1 DEF IInv, FramesTileStream
      <4> QED BY <1>1, <2>2, <3>1, <4>1 DEF env
    <3>2. CASE k = Len(FrameLog) + 1
      <4>1. FrameLog'[k] = f /\ bounds'[k] = Boundary /\ bounds'[k + 1] = end
        BY <1>7, <1>8, <1>10, <3>2
      <4> QED BY <1>1, <1>6, <4>1 DEF env
    <3> QED BY <1>7, <1>10, <3>1, <3>2
  <2> QED BY <2>1, <2>3 DEF FramesTileStream
<1>12. BoundsAscend'
  <2>1. ASSUME NEW k \in 1..Len(bounds) PROVE bounds[k] <= end /\ bounds[k] \in Nat
    <3>1. bounds[k] <= Boundary /\ bounds[k] \in Nat
      BY <1>7, ElementOfSeq DEF IInv, BoundsAscend
    <3> QED BY <1>2, <1>4, <3>1
  <2>2. ASSUME NEW k \in 1..Len(bounds') PROVE bounds'[k] <= end
    <3>1. CASE k \in 1..Len(bounds)
      BY <1>8, <2>1, <3>1
    <3>2. CASE k = Len(bounds) + 1
      BY <1>4, <1>8, <3>2
    <3> QED BY <1>7, <1>8, <3>1, <3>2
  <2>3. ASSUME NEW k \in 1 .. Len(bounds') - 1 PROVE bounds'[k] <= bounds'[k + 1]
    <3>1. CASE k \in 1 .. Len(bounds) - 1
      <4>1. k \in 1..Len(bounds) /\ k + 1 \in 1..Len(bounds)
        BY <1>7, <3>1
      <4> QED BY <1>8, <3>1, <4>1 DEF IInv, BoundsAscend
    <3>2. CASE k = Len(bounds)
      <4>1. bounds'[k] = Boundary /\ bounds'[k + 1] = end
        BY <1>7, <1>8, <3>2
      <4> QED BY <1>4, <4>1
    <3> QED BY <1>7, <1>8, <3>1, <3>2
  <2> QED BY <1>9, <2>2, <2>3 DEF BoundsAscend
<1>13. BufferHoldsRest'
  <2>1. SubSeq(Rest, 8 + body_length_ + 1, Len(Rest)) = SubSeq(stream, end + 1, fed)
    <3> DEFINE n == 8 + body_length_
    <3>1. n \in Nat /\ Boundary + n <= fed
      BY <1>2, <1>3
    <3>2. Boundary + n + 1 = end + 1
      BY <1>2, <1>3 DEF end
    <3> HIDE DEF n
    <3>3. SubSeq(SubSeq(stream, Boundary + 1, fed), n + 1, fed - Boundary)
            = SubSeq(stream, Boundary + n + 1, fed)
      BY <1>2, <3>1, SuffixOfSegment
    <3> QED BY <1>2, <3>2, <3>3 DEF Rest, n
  <2>2. /\ input_buffer_ \in Seq(Byte) /\ Len(input_buffer_) \in Nat
        /\ consumed_prefix_size_ \in Nat /\ consumed_prefix_size_ <= Len(input_buffer_)
        /\ Len(Rest) = Len(input_buffer_) - consumed_prefix_size_
    BY <1>1, BufferFacts, LoopReadsRest, SMTT(30) DEF IInv, TypeOK
  <2>3. SubSeq(Unread, 8 + body_length_ + 1, Len(Rest))
          = SubSeq(input_buffer_, consumed_prefix_size_ + 8 + body_length_ + 1,
                                  Len(input_buffer_))
    <3> DEFINE n == 8 + body_length_
    <3>1. n \in Nat /\ consumed_prefix_size_ + n <= Len(input_buffer_)
      BY <1>3, <2>2
    <3>2. consumed_prefix_size_ + n + 1 = consumed_prefix_size_ + 8 + body_length_ + 1
      BY <1>3, <2>2
    <3> HIDE DEF n
    <3>3. SubSeq(SubSeq(input_buffer_, consumed_prefix_size_ + 1, Len(input_buffer_)), n + 1,
                 Len(input_buffer_) - consumed_prefix_size_)
            = SubSeq(input_buffer_, consumed_prefix_size_ + n + 1, Len(input_buffer_))
      BY <2>2, <3>1, SuffixOfSegment
    <3> QED BY <2>2, <3>2, <3>3 DEF Unread, n
  <2>4. Unread = Rest
    BY <1>1 DEF IInv, BufferHoldsRest
  <2>5. Unread' = SubSeq(input_buffer_, consumed_prefix_size_ + 8 + body_length_ + 1,
                                        Len(input_buffer_))
    BY <1>1 DEF Unread
  <2>6. Rest' = SubSeq(stream, end + 1, fed)
    BY <1>1, <1>9 DEF Rest, env
  <2> QED BY <2>1, <2>3, <2>4, <2>5, <2>6 DEF BufferHoldsRest
<1>14. FailureIsJustified' /\ PendingHeaderIsNext' /\ Settled' /\ FailedIsIdle'
  BY <1>1 DEF verdict, FailureIsJustified, PendingHeaderIsNext, Settled, FailedIsIdle
<1> QED
  BY <1>11, <1>12, <1>13, <1>14 DEF IInv

\* tryPopFrame moves a frame from the queue to its caller, and loses none.
LEMMA TryPopFrameKeepsLog ==
  ASSUME TypeOK, TryPopFrame
  PROVE  FrameLog' = FrameLog
<1>1. delivered \in Seq(Frame) /\ decoded_frames_ \in Seq(Frame) /\ decoded_frames_ # <<>>
  BY DEF TypeOK, TryPopFrame
<1>2. <<Head(decoded_frames_)>> \o Tail(decoded_frames_) = decoded_frames_
  BY <1>1
<1>3. Append(delivered, Head(decoded_frames_)) = delivered \o <<Head(decoded_frames_)>>
  BY <1>1, HeadTailProperties, AppendIsConcat
<1>4. (delivered \o <<Head(decoded_frames_)>>) \o Tail(decoded_frames_)
        = delivered \o (<<Head(decoded_frames_)>> \o Tail(decoded_frames_))
  <2>1. Head(decoded_frames_) \in Frame /\ Tail(decoded_frames_) \in Seq(Frame)
    BY <1>1, HeadTailProperties
  <2>2. <<Head(decoded_frames_)>> \in Seq(Frame)
    BY <2>1
  <2> QED BY <1>1, <2>1, <2>2, ConcatAssociative
<1> QED BY <1>2, <1>3, <1>4 DEF TryPopFrame, FrameLog

\* Handing out a frame keeps the invariant.
LEMMA TryPopFrameKeepsInv ==
  ASSUME IInv, TypeOK', TryPopFrame
  PROVE  IInv'
<1>1. FrameLog' = FrameLog
  BY TryPopFrameKeepsLog DEF IInv
<1>2. UNCHANGED <<env, fed, pc, input, header, verdict, bounds>>
  BY DEF TryPopFrame
<1>3. Boundary' = Boundary /\ Rest' = Rest /\ Unread' = Unread
  BY <1>2 DEF env, input, Boundary, Rest, Unread
<1>4. FramesTileStream' /\ BoundsAscend'
  BY <1>1, <1>2, <1>3 DEF IInv, env, FramesTileStream, BoundsAscend
<1> QED
  BY <1>2, <1>3, <1>4
     DEF IInv, input, header, verdict, FailureIsJustified, BufferHoldsRest,
         PendingHeaderIsNext, Settled, FailedIsIdle

-----------------------------------------------------------------------------
(* The theorems *)

\* The decoder starts at the beginning of an empty stream.
LEMMA InitHasInv == Init => IInv
<1> SUFFICES ASSUME Init PROVE IInv
  OBVIOUS
<1>1. TypeOK
  BY InitHasType
<1>2. Boundary = 0 /\ FrameLog = <<>> /\ Len(FrameLog) = 0 /\ Len(bounds) = 1 /\ bounds[1] = 0
  BY DEF Init, Boundary, FrameLog
<1>3. Rest = <<>> /\ Unread = <<>>
  BY <1>2, SMT DEF Init, Rest, Unread
<1>4. FramesTileStream
  BY <1>2 DEF Init, FramesTileStream
<1>5. BoundsAscend
  BY <1>2 DEF BoundsAscend
<1> QED
  BY <1>1, <1>2, <1>3, <1>4, <1>5
     DEF Init, IInv, FailureIsJustified, BufferHoldsRest, PendingHeaderIsNext, Settled,
         FailedIsIdle

\* Every step keeps the invariant.
LEMMA StepKeepsInv == IInv /\ [Next]_vars => IInv'
<1> SUFFICES ASSUME IInv, [Next]_vars PROVE IInv'
  OBVIOUS
<1>1. TypeOK'
  BY StepKeepsType DEF IInv
<1>2. CASE UNCHANGED vars
  BY <1>2, StutterKeepsInv
<1>3. CASE \E bytes \in PeerWrites : PeerWrite(bytes)
  BY <1>1, <1>3, PeerWriteKeepsInv
<1>4. CASE Feed
  BY <1>1, <1>4, FeedBytesKeepsInv DEF Feed
<1>5. CASE DecodeStep
  BY <1>1, <1>5, WaitForMoreKeepsInv, RejectHeaderKeepsInv, AcceptHeaderKeepsInv,
     RejectBodyKeepsInv, AcceptFrameKeepsInv DEF DecodeStep
<1>6. CASE TryPopFrame
  BY <1>1, <1>6, TryPopFrameKeepsInv
<1> QED
  BY <1>2, <1>3, <1>4, <1>5, <1>6 DEF Next, Decoder

\* The inductive invariant holds of every behaviour of the framing layer.
THEOREM InvariantHolds == Spec => []IInv
<1> QED
  BY InitHasInv, StepKeepsInv, PTL DEF Spec

\* For every set of byte strings a peer may write and every cut into chunks, the
\* frames FrameDecoder hands out are the encodings laid end to end in the stream
\* (frame.hpp:105-167).
THEOREM FramesAreReadInOrder == Spec => []FramesTileStream
<1>1. IInv => FramesTileStream
  BY DEF IInv
<1> QED
  BY <1>1, InvariantHolds, PTL

\* setFailure is only ever called over a defect of the bytes after the last good
\* frame, with the kind of that defect (frame.hpp:159-162, 170-195).
THEOREM FailuresAreJustified == Spec => []FailureIsJustified
<1>1. IInv => FailureIsJustified
  BY DEF IInv
<1> QED
  BY <1>1, InvariantHolds, PTL

\* feedBytes never returns with a whole frame or a defect still in the buffer
\* (frame.hpp:136-152).
THEOREM NothingIsWithheld == Spec => []NothingWithheld
<1> QED
  BY InvImpliesNothingWithheld, InvariantHolds, PTL

\* The buffer feedBytes leaves is the undecoded tail of the stream and stays under
\* one maximal frame, however long the connection lives (frame.hpp:203-210).
THEOREM BufferStaysBounded == Spec => []BufferIsBounded
<1> QED
  BY InvImpliesBounded, InvariantHolds, PTL

\* After setFailure no call of feedBytes or tryPopFrame changes the error, the
\* buffer or the frames (frame.hpp:106-108, 118-120).
THEOREM FailureStays == Spec => FailureIsFinal
<1>1. IInv /\ [Next]_vars => [failed_ => UNCHANGED <<verdict, output, input>>]_vars
  <2> SUFFICES ASSUME IInv, [Next]_vars, failed_, ~UNCHANGED vars
               PROVE  UNCHANGED <<verdict, output, input>>
    OBVIOUS
  <2>1. pc = "idle"
    BY DEF IInv, FailedIsIdle
  <2>2. CASE \E bytes \in PeerWrites : PeerWrite(bytes)
    BY <2>2 DEF PeerWrite
  <2>3. CASE Feed
    BY <2>3 DEF Feed, FeedBytes, input
  <2>4. CASE DecodeStep
    BY <2>1, <2>4
       DEF DecodeStep, WaitForMore, RejectHeader, AcceptHeader, RejectBody, AcceptFrame
  <2>5. CASE TryPopFrame
    BY <2>5 DEF TryPopFrame
  <2> QED BY <2>2, <2>3, <2>4, <2>5 DEF Next, Decoder
<1> QED
  BY <1>1, InvariantHolds, PTL DEF Spec, FailureIsFinal

\* Each turn of the loop of decodeAvailableFrames notes a header or consumes a frame,
\* whatever the bytes and however many (frame.hpp:136-167): no input keeps feedBytes
\* busy for ever.
THEOREM LoopAdvances == Spec => LoopMakesProgress
<1>1. TypeOK /\ TypeOK' /\ DecodeStep => pc' = "idle" \/ (Work' \in 0 .. Work - 1)
  <2> SUFFICES ASSUME TypeOK, TypeOK', DecodeStep, pc' # "idle"
               PROVE  Work' \in 0 .. Work - 1
    OBVIOUS
  <2> DEFINE a == Available
             b == Available'
             l == body_length_
  <2>1. a \in Nat /\ b \in Nat /\ l \in Nat
    <3>1. input_buffer_' \in Seq(Byte) /\ consumed_prefix_size_' \in 0..Len(input_buffer_')
      BY Zenon DEF TypeOK
    <3>2. Len(input_buffer_') \in Nat
      BY <3>1, LenProperties
    <3>3. Available' \in Nat
      BY <3>1, <3>2 DEF Available
    <3> QED BY <3>3, BufferFacts DEF TypeOK
  <2>2. AcceptHeader \/ AcceptFrame
    BY DEF DecodeStep, WaitForMore, RejectHeader, RejectBody, Return
  <2>3. CASE AcceptHeader
    <3>1. ~has_pending_header_ /\ has_pending_header_'
      BY <2>3 DEF AcceptHeader, HeaderComplete
    <3>2. b = a
      BY <2>3 DEF AcceptHeader, input, Available
    <3> HIDE DEF a, b
    <3>3. Work = 2 * a + 1 /\ Work' = 2 * b
      BY <2>1, <3>1 DEF Work, a, b
    <3> QED BY <2>1, <3>2, <3>3
  <2>4. CASE AcceptFrame
    <3>1. has_pending_header_ /\ ~has_pending_header_'
      BY <2>4 DEF AcceptFrame, BodyComplete
    <3>2. b = a - (8 + l)
      BY <2>4, BufferFacts DEF AcceptFrame, TypeOK, Available, kFrameHeaderSize
    <3> HIDE DEF a, b, l
    <3>3. Work = 2 * a /\ Work' = 2 * b + 1
      BY <2>1, <3>1 DEF Work, a, b
    <3> QED BY <2>1, <3>2, <3>3
  <2> QED BY <2>2, <2>3, <2>4
<1>2. TypeOK /\ TypeOK' /\ [Next]_vars =>
        [DecodeStep => pc' = "idle" \/ (Work' \in 0 .. Work - 1)]_vars
  BY <1>1
<1> QED
  BY <1>2, TypeCorrect, PTL DEF Spec, LoopMakesProgress
=============================================================================
