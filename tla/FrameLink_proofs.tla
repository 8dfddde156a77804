---------------------------- MODULE FrameLink_proofs ----------------------------
(***************************************************************************)
(* Proofs that the answer of a FrameDecoder is a function of the bytes it  *)
(* was given, and that the two ends of a connection agree, for every set   *)
(* of frames a sender may try and every body limit up to 65536.            *)
(*                                                                         *)
(* The argument: the decoder's frames are encodings laid end to end from   *)
(* the first byte (FramesTileStream of FrameDecoder), the bytes at one     *)
(* place encode one frame only (SameFrame), and what begins an encoding is *)
(* no defect (EncodingIsNoDefect).  So a byte string is read in one way    *)
(* (OneResult).  What a sender wrote is such a reading of the stream as    *)
(* well (SentTiles); hence the decoder's frames are the first of the sent  *)
(* ones (LogIsPrefix), all of them once every byte was fed.                *)
(***************************************************************************)
EXTENDS FrameLink, FrameDecoder_proofs, WellFoundedInduction

\* The bytes of stream s from a to b are the encoding of frame f.
LiesAt(s, a, b, f) ==
  /\ a <= b /\ b <= Len(s) /\ Encodable(f.type, f.body)
  /\ SubSeq(s, a + 1, b) = encodeFrame(f.type, f.body)

\* What the header at position a says, and the bytes it says it of.
TypeAt(s, a) == s[a + 4]
LengthAt(s, a) == s[a + 5] * 16777216 + s[a + 6] * 65536 + s[a + 7] * 256 + s[a + 8]
BodyAt(s, a) == SubSeq(s, a + 9, a + 8 + LengthAt(s, a))

\* Both parts of a concatenation, as segments of it.
LEMMA PartsOfConcat ==
  ASSUME NEW s \in Seq(Byte), NEW t \in Seq(Byte)
  PROVE  /\ s \o t \in Seq(Byte) /\ Len(s \o t) = Len(s) + Len(t)
         /\ SubSeq(s \o t, 1, Len(s)) = s
         /\ SubSeq(s \o t, Len(s) + 1, Len(s) + Len(t)) = t
<1>1. /\ s \o t \in Seq(Byte) /\ Len(s \o t) = Len(s) + Len(t)
      /\ Len(s) \in Nat /\ Len(t) \in Nat
      /\ \A i \in 1 .. Len(s) + Len(t) :
           (s \o t)[i] = IF i <= Len(s) THEN s[i] ELSE t[i - Len(s)]
  BY ConcatProperties, LenProperties
<1> DEFINE c == s \o t
<1> DEFINE m == Len(s) + 1
<1> DEFINE n == Len(s) + Len(t)
<1> DEFINE u == SubSeq(c, m, n)
<1>2. c \in Seq(Byte) /\ m \in Nat \ {0} /\ n \in Nat /\ m <= n + 1 /\ n <= Len(c)
  BY <1>1
<1>3. /\ u \in Seq(Byte) /\ Len(u) = n - m + 1
      /\ \A k \in 1 .. n - m + 1 : u[k] = c[m + k - 1]
  <2> HIDE DEF c, m, n
  <2> QED BY <1>2, Segment
<1>4. Len(u) = Len(t)
  BY <1>1, <1>3
<1>5. ASSUME NEW k \in 1..Len(t) PROVE u[k] = t[k]
  <2>1. k \in 1 .. n - m + 1 /\ m + k - 1 \in 1..n
        /\ ~(m + k - 1 <= Len(s)) /\ (m + k - 1) - Len(s) = k
    BY <1>1
  <2>2. u[k] = c[m + k - 1] /\ c[m + k - 1] = t[(m + k - 1) - Len(s)]
    BY <1>1, <1>3, <2>1
  <2> QED BY <2>1, <2>2
<1> HIDE DEF u
<1>6. u = t
  BY <1>3, <1>4, <1>5, SeqEqual
<1>7. SubSeq(s \o t, Len(s) + 1, Len(s) + Len(t)) = t
  BY <1>6 DEF u, c, m, n
<1>8. SubSeq(s \o t, 1, Len(s)) = SubSeq(s, 1, Len(s))
  BY <1>1, SegmentOfConcat
<1>9. SubSeq(s, 1, Len(s)) = s
  BY SubSeqFull
<1> QED BY <1>1, <1>7, <1>8, <1>9

\* What encodeFrame returns, and what it starts with.
LEMMA EncodingParts ==
  ASSUME NEW type \in ProtocolType, NEW body \in Seq(Byte), Encodable(type, body)
  PROVE  /\ encodeFrame(type, body) \in Seq(Byte)
         /\ Len(encodeFrame(type, body)) = 8 + Len(body)
         /\ HasHeader(encodeFrame(type, body), type, Len(body))
         /\ SubSeq(encodeFrame(type, body), 9, 8 + Len(body)) = body
         /\ Len(body) \in Nat /\ Len(body) <= max_body[type]
         /\ Len(body) <= 65536
<1>1. Len(body) <= max_body[type] /\ Len(body) \in Nat
  BY LenProperties DEF Encodable
<1>2. type \in Byte /\ Len(body) <= 65536
  BY <1>1, RegistryFacts
<1> DEFINE h == Header(type, Len(body))
<1>3. h \in Seq(Byte) /\ Len(h) = 8
  BY <1>1, <1>2, HeaderIsSeq
<1>4. encodeFrame(type, body) = h \o body
  BY DEF encodeFrame
<1> HIDE DEF h
<1>5. /\ h \o body \in Seq(Byte) /\ Len(h \o body) = Len(h) + Len(body)
      /\ SubSeq(h \o body, 1, Len(h)) = h
      /\ SubSeq(h \o body, Len(h) + 1, Len(h) + Len(body)) = body
  BY <1>3, PartsOfConcat
<1>6. /\ Len(h \o body) = 8 + Len(body) /\ SubSeq(h \o body, 1, 8) = h
      /\ SubSeq(h \o body, 9, 8 + Len(body)) = body
  <2>1. Len(h) + 1 = 9
    BY <1>3
  <2> QED BY <1>3, <1>5, <2>1
<1>7. HasHeader(h \o body, type, Len(body))
  BY <1>6 DEF HasHeader, kFrameHeaderSize, h
<1> QED BY <1>1, <1>2, <1>4, <1>5, <1>6, <1>7

\* An encoding found in a stream, byte by byte.
LEMMA LaidFrame ==
  ASSUME NEW s \in Seq(Byte), NEW a \in Nat, NEW b \in Nat, NEW f \in Frame, LiesAt(s, a, b, f)
  PROVE  /\ b = a + 8 + LengthAt(s, a)
         /\ TypeAt(s, a) = f.type /\ LengthAt(s, a) = Len(f.body) /\ BodyAt(s, a) = f.body
         /\ s[a + 1] = 67 /\ s[a + 2] = 72 /\ s[a + 3] = 1
<1> DEFINE type == f.type
<1> DEFINE body == f.body
<1> DEFINE n == Len(body)
<1> DEFINE e == encodeFrame(type, body)
<1> DEFINE m == a + 1
<1>1. /\ type \in ProtocolType /\ body \in Seq(Byte) /\ Encodable(type, body)
      /\ a <= b /\ b <= Len(s) /\ SubSeq(s, m, b) = e /\ m \in Nat \ {0} /\ m = a + 1
  BY DEF Frame, LiesAt
<1> HIDE DEF type, body, m
<1>2. /\ e \in Seq(Byte) /\ Len(e) = 8 + n /\ HasHeader(e, type, n)
      /\ SubSeq(e, 9, 8 + n) = body /\ n \in Nat /\ n <= 65536
  BY <1>1, EncodingParts
<1>3. type \in Byte
  BY <1>1, RegistryFacts
<1> HIDE DEF n, e
<1>4. /\ Len(SubSeq(s, m, b)) = b - m + 1
      /\ \A i \in 1 .. b - m + 1 : SubSeq(s, m, b)[i] = s[m + i - 1]
  <2>1. m <= b + 1
    BY <1>1
  <2> QED BY <1>1, <2>1, Segment
<1>5. b = a + 8 + n
  BY <1>1, <1>2, <1>4
<1>6. \A i \in 1..8 : e[i] = s[a + i]
  <2>1. ASSUME NEW i \in 1..8 PROVE i \in 1 .. b - m + 1 /\ m + i - 1 = a + i
    BY <1>1, <1>2, <1>5
  <2> QED BY <1>1, <1>4, <2>1
<1>7. e[1] = 67 /\ e[2] = 72 /\ e[3] = 1 /\ e[4] = type /\ HeaderLength(e) = n
  BY <1>2, <1>3, HeaderSpellsItsLength
<1>8. /\ e[1] = s[a + 1] /\ e[2] = s[a + 2] /\ e[3] = s[a + 3] /\ e[4] = s[a + 4]
      /\ e[5] = s[a + 5] /\ e[6] = s[a + 6] /\ e[7] = s[a + 7] /\ e[8] = s[a + 8]
  BY <1>6
<1>9. LengthAt(s, a) = HeaderLength(e)
  BY <1>8 DEF LengthAt, HeaderLength
<1>10. SubSeq(s, a + 9, a + 8 + n) = body
  <2> DEFINE j == 8 + n
  <2>1. j \in Nat /\ 9 <= j + 1 /\ j <= b - m + 1 /\ 9 \in Nat \ {0} /\ m <= b + 1
    BY <1>1, <1>2, <1>5
  <2>2. m + 9 - 1 = a + 9 /\ m + j - 1 = a + 8 + n
    BY <1>1, <1>2
  <2>3. SubSeq(e, 9, j) = body
    BY <1>2
  <2> HIDE DEF j
  <2>4. SubSeq(SubSeq(s, m, b), 9, j) = SubSeq(s, m + 9 - 1, m + j - 1)
    BY <1>1, <2>1, SegmentOfSegment
  <2> QED BY <1>1, <2>2, <2>3, <2>4
<1>11. s[a + 1] = 67 /\ s[a + 2] = 72 /\ s[a + 3] = 1
  BY <1>7, <1>8
<1>12. TypeAt(s, a) = type
  BY <1>7, <1>8 DEF TypeAt
<1>13. LengthAt(s, a) = n
  BY <1>7, <1>9
<1>14. b = a + 8 + LengthAt(s, a) /\ BodyAt(s, a) = body
  BY <1>5, <1>10, <1>13 DEF BodyAt
<1>15. n = Len(f.body) /\ body = f.body /\ type = f.type
  BY DEF n, body, type
<1> QED
  BY <1>11, <1>12, <1>13, <1>14, <1>15, Zenon

\* The bytes at one place of a stream are the encoding of one frame only.
LEMMA SameFrame ==
  ASSUME NEW s \in Seq(Byte), NEW a \in Nat, NEW b \in Nat, NEW c \in Nat,
         NEW f \in Frame, NEW g \in Frame, LiesAt(s, a, b, f), LiesAt(s, a, c, g)
  PROVE  f = g /\ b = c
<1>1. /\ b = a + 8 + LengthAt(s, a) /\ f.type = TypeAt(s, a) /\ f.body = BodyAt(s, a)
      /\ c = a + 8 + LengthAt(s, a) /\ g.type = TypeAt(s, a) /\ g.body = BodyAt(s, a)
  BY LaidFrame
<1>2. f.type = g.type /\ f.body = g.body /\ b = c
  BY <1>1
<1> QED BY <1>2, SMT DEF Frame

\* What a decoder that stands at position a has before it when d bytes were fed.
Between(s, a, d) == SubSeq(s, a + 1, d)

LEMMA BetweenFacts ==
  ASSUME NEW s \in Seq(Byte), NEW a \in Nat, NEW d \in Nat, a <= d, d <= Len(s)
  PROVE  /\ Between(s, a, d) \in Seq(Byte) /\ Len(Between(s, a, d)) = d - a
         /\ \A i \in 1 .. d - a : Between(s, a, d)[i] = s[a + i]
<1> DEFINE m == a + 1
<1>1. m \in Nat \ {0} /\ m <= d + 1 /\ d - m + 1 = d - a
  OBVIOUS
<1>2. ASSUME NEW i \in 1 .. d - a PROVE m + i - 1 = a + i
  OBVIOUS
<1> HIDE DEF m
<1>3. /\ SubSeq(s, m, d) \in Seq(Byte) /\ Len(SubSeq(s, m, d)) = d - m + 1
      /\ \A i \in 1 .. d - m + 1 : SubSeq(s, m, d)[i] = s[m + i - 1]
  BY <1>1, Segment
<1>4. Between(s, a, d) = SubSeq(s, m, d)
  BY DEF Between, m
<1> QED BY <1>1, <1>2, <1>3, <1>4

\* An encoding is eight bytes longer than its body.
LEMMA LaidLength ==
  ASSUME NEW s \in Seq(Byte), NEW a \in Nat, NEW b \in Nat, NEW f \in Frame, LiesAt(s, a, b, f)
  PROVE  b = a + 8 + Len(f.body)
<1>1. b = a + 8 + LengthAt(s, a) /\ LengthAt(s, a) = Len(f.body)
  BY LaidFrame, Zenon
<1> QED BY <1>1

LEMMA BetweenType ==
  ASSUME NEW s \in Seq(Byte), NEW a \in Nat, NEW d \in Nat, a <= d, d <= Len(s)
  PROVE  Between(s, a, d) \in Seq(Byte) /\ Len(Between(s, a, d)) = d - a
  BY BetweenFacts, Zenon

\* A frame's first bytes, as parseAndValidateHeader and the check of the body see them.
LooksLike(r, f) ==
  /\ r[1] = 67 /\ r[2] = 72 /\ r[3] = 1 /\ r[4] = f.type
  /\ HeaderLength(r) = Len(f.body) /\ HasHeader(r, f.type, Len(f.body))
  /\ Len(r) >= 8 + Len(f.body) => SubSeq(r, 9, 8 + Len(f.body)) = f.body

LEMMA SeenEncoding ==
  ASSUME NEW s \in Seq(Byte), NEW a \in Nat, NEW b \in Nat, NEW d \in Nat, NEW f \in Frame,
         LiesAt(s, a, b, f), a + 8 <= d, d <= Len(s)
  PROVE  LooksLike(Between(s, a, d), f)
<1> DEFINE r == Between(s, a, d)
<1> DEFINE l == Len(f.body)
<1>1. /\ f.type \in ProtocolType /\ f.type \in Byte /\ f.body \in Seq(Byte)
      /\ Encodable(f.type, f.body) /\ Len(s) \in Nat
  BY RegistryFacts, LenProperties DEF LiesAt, Frame
<1>2. l \in Nat /\ l <= 65536
  BY <1>1, EncodingParts
<1>3. /\ b = a + 8 + LengthAt(s, a)
      /\ TypeAt(s, a) = f.type /\ LengthAt(s, a) = l /\ BodyAt(s, a) = f.body
      /\ s[a + 1] = 67 /\ s[a + 2] = 72 /\ s[a + 3] = 1
  BY LaidFrame, Zenon
<1>4. a <= d
  OBVIOUS
<1>5. \A i \in 1 .. d - a : r[i] = s[a + i]
  BY <1>4, BetweenFacts
<1>6. r \in Seq(Byte) /\ Len(r) >= 8 /\ Len(r) = d - a
  <2>1. r \in Seq(Byte) /\ Len(r) = d - a
    BY <1>4, BetweenFacts
  <2> QED BY <2>1
<1> HIDE DEF r, l
<1>7. /\ r[1] = s[a + 1] /\ r[2] = s[a + 2] /\ r[3] = s[a + 3] /\ r[4] = s[a + 4]
      /\ r[5] = s[a + 5] /\ r[6] = s[a + 6] /\ r[7] = s[a + 7] /\ r[8] = s[a + 8]
  <2>1. /\ 1 \in 1 .. d - a /\ 2 \in 1 .. d - a /\ 3 \in 1 .. d - a /\ 4 \in 1 .. d - a
        /\ 5 \in 1 .. d - a /\ 6 \in 1 .. d - a /\ 7 \in 1 .. d - a /\ 8 \in 1 .. d - a
    OBVIOUS
  <2> QED BY <1>5, <2>1, Zenon
<1>8. HeaderLength(r) = l
  BY <1>3, <1>7 DEF HeaderLength, LengthAt
<1>9. r[1] = 67 /\ r[2] = 72 /\ r[3] = 1 /\ r[4] = f.type
  BY <1>3, <1>7 DEF TypeAt
<1>10. HasHeader(r, f.type, l)
  <2> DEFINE t == f.type
  <2>1. t \in Byte
    BY <1>1
  <2> HIDE DEF t
  <2>2. r \in Seq(Byte) /\ Len(r) >= 8
    BY <1>6
  <2>3. HasHeader(r, t, l) <=>
          r[1] = 67 /\ r[2] = 72 /\ r[3] = 1 /\ r[4] = t /\ HeaderLength(r) = l
    BY <1>2, <2>1, <2>2, HeaderSpellsItsLength
  <2> QED BY <1>8, <1>9, <2>3 DEF t
<1>11. ASSUME Len(r) >= 8 + l PROVE SubSeq(r, 9, 8 + l) = f.body
  <2> DEFINE j == 8 + l
  <2> DEFINE m == a + 1
  <2>1. /\ m \in Nat \ {0} /\ m <= d + 1
        /\ j \in Nat /\ 9 <= j + 1 /\ j <= d - m + 1 /\ 9 \in Nat \ {0}
        /\ m + 9 - 1 = a + 9 /\ m + j - 1 = a + 8 + l
    BY <1>2, <1>6, <1>11
  <2>2. r = SubSeq(s, m, d)
    BY DEF r, Between
  <2> HIDE DEF j, m
  <2>3. SubSeq(SubSeq(s, m, d), 9, j) = SubSeq(s, m + 9 - 1, m + j - 1)
    BY <1>1, <2>1, SegmentOfSegment
  <2>4. SubSeq(s, a + 9, a + 8 + l) = f.body
    BY <1>3 DEF BodyAt
  <2> QED BY <2>1, <2>2, <2>3, <2>4 DEF j
<1> QED BY <1>8, <1>9, <1>10, <1>11 DEF LooksLike, r, l

\* However much of an encoding has arrived, and whatever came after it, its start
\* is no defect: each check of parseAndValidateHeader and the check of the body pass.
LEMMA EncodingIsNoDefect ==
  ASSUME NEW s \in Seq(Byte), NEW a \in Nat, NEW b \in Nat, NEW d \in Nat, NEW f \in Frame,
         LiesAt(s, a, b, f), a <= d, d <= Len(s), NEW kind
  PROVE  ~IsDefect(Between(s, a, d), kind)
<1> SUFFICES ASSUME IsDefect(Between(s, a, d), kind) PROVE FALSE
  OBVIOUS
<1> DEFINE r == Between(s, a, d)
<1> DEFINE l == Len(f.body)
<1>1. r \in Seq(Byte) /\ Len(r) = d - a /\ Len(r) >= 8
  BY BetweenFacts DEF IsDefect, kFrameHeaderSize
<1>2. a + 8 <= d
  BY <1>1
<1>3. /\ r[1] = 67 /\ r[2] = 72 /\ r[3] = 1 /\ r[4] = f.type /\ HeaderLength(r) = l
      /\ Len(r) >= 8 + l => SubSeq(r, 9, 8 + l) = f.body
  <2>1. LooksLike(r, f)
    BY <1>2, SeenEncoding, Zenon
  <2> QED BY <2>1, Zenon DEF LooksLike
<1>4. /\ f.type \in ProtocolType /\ f.body \in Seq(Byte) /\ isValidUtf8(f.body)
      /\ Encodable(f.type, f.body)
  BY DEF LiesAt, Encodable, Frame
<1>5. l \in Nat /\ l <= max_body[f.type] /\ max_body[f.type] \in Nat
  BY <1>4, EncodingParts, RegistryFacts
<1>6. kind \in {"bad_magic", "bad_version", "unknown_type", "body_too_large", "invalid_utf8"}
  BY DEF IsDefect
<1>7. IsDefect(r, kind)
  OBVIOUS
<1> HIDE DEF l, r
<1>8. ~IsDefect(r, "bad_magic") /\ ~IsDefect(r, "bad_version") /\ ~IsDefect(r, "unknown_type")
  BY <1>1, <1>3, <1>4, DefectPointwise
<1>9. ~IsDefect(r, "body_too_large")
  <2>1. ~(HeaderLength(r) > max_body[r[4]])
    BY <1>3, <1>5
  <2> QED BY <1>1, <2>1, DefectPointwise
<1>10. ~IsDefect(r, "invalid_utf8")
  <2> SUFFICES ASSUME IsDefect(r, "invalid_utf8") PROVE FALSE
    OBVIOUS
  <2>1. Len(r) >= 8 + l /\ ~isValidUtf8(SubSeq(r, 9, 8 + l))
    BY <1>1, <1>3, DefectPointwise
  <2> QED BY <1>3, <1>4, <2>1
<1> QED BY <1>6, <1>7, <1>8, <1>9, <1>10

-----------------------------------------------------------------------------
(***************************************************************************)
(* One stream, one result.  What feedBytes may answer to the bytes it was  *)
(* given is said without the decoder, its buffer or its calls: frames laid *)
(* end to end from the first byte, and after them a defect or the start of *)
(* a frame.  No bytes allow two such answers, so that the chunks they came *)
(* in, and the calls that brought them, decide nothing.                    *)
(***************************************************************************)

\* Neither a whole frame nor a defect.
Incomplete(rest) ==
  /\ \A kind \in FrameErrorKind : ~IsDefect(rest, kind)
  /\ Len(rest) >= kFrameHeaderSize =>
       \A size \in 0..max_body[rest[4]] :
         HasHeader(rest, rest[4], size) => Len(rest) < kFrameHeaderSize + size

\* The bytes s are the frames of log, cut at cuts, and a remainder that is good for
\* more ("ok") or has the defect verdict.
Decodes(s, log, cuts, verdict_) ==
  /\ log \in Seq(Frame) /\ cuts \in Seq(Nat) /\ Len(cuts) = Len(log) + 1
  /\ cuts[1] = 0 /\ cuts[Len(cuts)] <= Len(s)
  /\ \A k \in 1..Len(log) : LiesAt(s, cuts[k], cuts[k + 1], log[k])
  /\ IF verdict_ = "ok"
     THEN Incomplete(Between(s, cuts[Len(cuts)], Len(s)))
     ELSE /\ verdict_ \in FrameErrorKind
          /\ IsDefect(Between(s, cuts[Len(cuts)], Len(s)), verdict_)

\* A set of natural numbers that is not empty has a least element.
LEMMA LeastNatural ==
  ASSUME NEW T \in SUBSET Nat, T # {}
  PROVE  \E m \in T : \A k \in T : m <= k
<1> DEFINE R == OpToRel(<, Nat)
<1>1. IsWellFoundedOn(R, Nat)
  BY NatLessThanWellFounded, Zenon
<1> HIDE DEF R
<1>2. PICK m \in T : \A k \in T : ~(<<k, m>> \in R)
  BY <1>1, WFMin
<1>3. ASSUME NEW k \in T PROVE m <= k
  <2>1. m \in Nat /\ k \in Nat
    OBVIOUS
  <2>2. SUFFICES ASSUME k < m PROVE FALSE
    BY <2>1
  <2>3. <<k, m>> \in R
    BY <2>1, <2>2 DEF R, OpToRel
  <2> QED
    BY <1>2, <2>3
<1> QED
  BY <1>3

\* Two readings of the same bytes cut them at the same places, from the first on.
LEMMA CutsAgree ==
  ASSUME NEW s \in Seq(Byte), NEW log, NEW cuts, NEW v, NEW log2, NEW cuts2, NEW v2,
         Decodes(s, log, cuts, v), Decodes(s, log2, cuts2, v2),
         NEW n \in Nat, n \in 1..Len(cuts), n \in 1..Len(cuts2)
  PROVE  cuts[n] = cuts2[n]
<1>1. /\ log \in Seq(Frame) /\ cuts \in Seq(Nat) /\ Len(cuts) = Len(log) + 1 /\ cuts[1] = 0
      /\ \A k \in 1..Len(log) : LiesAt(s, cuts[k], cuts[k + 1], log[k])
      /\ Len(log) \in Nat
  BY LenProperties DEF Decodes
<1>2. /\ log2 \in Seq(Frame) /\ cuts2 \in Seq(Nat) /\ Len(cuts2) = Len(log2) + 1 /\ cuts2[1] = 0
      /\ \A k \in 1..Len(log2) : LiesAt(s, cuts2[k], cuts2[k + 1], log2[k])
      /\ Len(log2) \in Nat
  BY LenProperties DEF Decodes
<1> DEFINE T == {k \in Nat : k \in 1..Len(cuts) /\ k \in 1..Len(cuts2) /\ cuts[k] # cuts2[k]}
<1> SUFFICES ASSUME cuts[n] # cuts2[n] PROVE FALSE
  OBVIOUS
<1>3. PICK k \in T : \A j \in T : k <= j
  <2>1. T \in SUBSET Nat /\ T # {}
    OBVIOUS
  <2> HIDE DEF T
  <2> QED BY <2>1, LeastNatural
<1>4. /\ k \in Nat /\ k \in 1..Len(cuts) /\ k \in 1..Len(cuts2) /\ cuts[k] # cuts2[k]
  OBVIOUS
<1>5. k # 1
  BY <1>1, <1>2, <1>4
<1> DEFINE m == k - 1
<1>6. /\ m \in Nat /\ m \in 1..Len(cuts) /\ m \in 1..Len(cuts2) /\ m + 1 = k /\ ~(k <= m)
      /\ m \in 1..Len(log) /\ m \in 1..Len(log2)
  <2>1. /\ Len(cuts) = Len(log) + 1 /\ Len(cuts2) = Len(log2) + 1
        /\ Len(log) \in Nat /\ Len(log2) \in Nat
    BY <1>1, <1>2
  <2>2. k \in Nat /\ k \in 1 .. Len(log) + 1 /\ k \in 1 .. Len(log2) + 1 /\ k # 1
    BY <1>4, <1>5, <2>1
  <2>3. m \in Nat /\ m + 1 = k /\ ~(k <= m) /\ m \in 1..Len(log) /\ m \in 1..Len(log2)
    BY <2>1, <2>2
  <2>4. m \in 1..Len(cuts) /\ m \in 1..Len(cuts2)
    BY <2>1, <2>2
  <2> QED BY <2>3, <2>4
<1>7. cuts[m] = cuts2[m]
  <2>1. m \notin T
    BY <1>3, <1>6
  <2> QED BY <1>6, <2>1
<1> HIDE DEF T, m
<1>8. LiesAt(s, cuts[m], cuts[k], log[m]) /\ LiesAt(s, cuts[m], cuts2[k], log2[m])
  BY <1>1, <1>2, <1>6, <1>7
<1>9. /\ cuts[m] \in Nat /\ cuts[k] \in Nat /\ cuts2[k] \in Nat
      /\ log[m] \in Frame /\ log2[m] \in Frame
  BY <1>1, <1>2, <1>4, <1>6, ElementOfSeq
<1>10. cuts[k] = cuts2[k]
  BY <1>8, <1>9, SameFrame
<1> QED BY <1>4, <1>10

\* No reading stops short of a frame another one finds.
LEMMA NoShorterReading ==
  ASSUME NEW s \in Seq(Byte), NEW log, NEW cuts, NEW v, NEW log2, NEW cuts2, NEW v2,
         Decodes(s, log, cuts, v), Decodes(s, log2, cuts2, v2)
  PROVE  ~(Len(log) < Len(log2))
<1> SUFFICES ASSUME Len(log) < Len(log2) PROVE FALSE
  OBVIOUS
<1> DEFINE n == Len(log) + 1
<1> DEFINE a == cuts[n]
<1> DEFINE b == cuts2[n + 1]
<1> DEFINE f == log2[n]
<1> DEFINE r == Between(s, a, Len(s))
<1>1. /\ log \in Seq(Frame) /\ cuts \in Seq(Nat) /\ Len(cuts) = n /\ Len(log) \in Nat
      /\ a <= Len(s) /\ Len(s) \in Nat
  BY LenProperties DEF Decodes
<1>2. /\ log2 \in Seq(Frame) /\ cuts2 \in Seq(Nat) /\ Len(cuts2) = Len(log2) + 1
      /\ Len(log2) \in Nat
      /\ \A k \in 1..Len(log2) : LiesAt(s, cuts2[k], cuts2[k + 1], log2[k])
  BY LenProperties DEF Decodes
<1>3. /\ n \in Nat /\ n \in 1..Len(cuts) /\ n \in 1..Len(cuts2) /\ n \in 1..Len(log2)
      /\ n + 1 \in 1..Len(cuts2)
  BY <1>1, <1>2
<1>4. cuts[n] = cuts2[n]
  BY <1>3, CutsAgree
<1>5. a \in Nat /\ b \in Nat /\ f \in Frame
  BY <1>1, <1>2, <1>3, ElementOfSeq
<1>6. LiesAt(s, a, b, f)
  BY <1>2, <1>3, <1>4
<1>7. IF v = "ok" THEN Incomplete(r) ELSE v \in FrameErrorKind /\ IsDefect(r, v)
  BY <1>1 DEF Decodes
<1>8. Len(s) \in Nat /\ a <= Len(s) /\ Len(s) <= Len(s)
  BY <1>1
<1> HIDE DEF n, a, b, f
<1>9. ~IsDefect(r, v)
  BY <1>5, <1>6, <1>8, EncodingIsNoDefect, Zenon
<1>10. Incomplete(r)
  BY <1>7, <1>9
<1> DEFINE l == Len(f.body)
<1>11. b = a + 8 + l /\ b <= Len(s)
  BY <1>5, <1>6, LaidLength DEF LiesAt
<1>12. l \in Nat /\ f.type \in ProtocolType /\ l <= max_body[f.type] /\ max_body[f.type] \in Nat
  <2>1. f.type \in ProtocolType /\ f.body \in Seq(Byte) /\ Encodable(f.type, f.body)
    BY <1>5, <1>6 DEF LiesAt, Frame
  <2> QED BY <2>1, EncodingParts, RegistryFacts
<1>13. a + 8 <= Len(s)
  <2>1. l \in Nat
    BY <1>12
  <2> HIDE DEF l
  <2> QED BY <1>5, <1>8, <1>11, <2>1
<1>14. LooksLike(r, f)
  BY <1>5, <1>6, <1>8, <1>13, SeenEncoding, Zenon
<1>15. Len(r) = Len(s) - a
  BY <1>5, <1>8, BetweenType, Zenon
<1>16. r[4] = f.type /\ HasHeader(r, f.type, l)
  BY <1>14, Zenon DEF LooksLike
<1> HIDE DEF l, r
<1>17. Len(r) >= 8 /\ Len(r) >= 8 + l /\ Len(r) \in Nat
  <2>1. l \in Nat
    BY <1>12
  <2> QED BY <1>5, <1>8, <1>11, <1>15, <2>1
<1>18. l \in 0..max_body[r[4]]
  BY <1>12, <1>16
<1>19. Len(r) < 8 + l
  BY <1>10, <1>16, <1>17, <1>18 DEF Incomplete, kFrameHeaderSize
<1> QED BY <1>12, <1>17, <1>19

\* The kinds of defect exclude one another: parseAndValidateHeader reports the first
\* check that fails, and the body is looked at only when none does.
LEMMA DefectsExclude ==
  ASSUME NEW r \in Seq(Byte), Len(r) >= 8,
         NEW k1 \in FrameErrorKind, NEW k2 \in FrameErrorKind, IsDefect(r, k1), IsDefect(r, k2)
  PROVE  k1 = k2
<1> DEFINE magic == r[1] # 67 \/ r[2] # 72
<1> DEFINE version == r[3] # 1
<1> DEFINE type == r[4] \notin ProtocolType
<1> DEFINE large == HeaderLength(r) > max_body[r[4]]
<1> DEFINE text == HeaderLength(r) <= max_body[r[4]]
<1>1. /\ IsDefect(r, "bad_magic") => magic
      /\ IsDefect(r, "bad_version") => ~magic /\ version
      /\ IsDefect(r, "unknown_type") => ~magic /\ ~version /\ type
      /\ IsDefect(r, "body_too_large") => ~magic /\ ~version /\ ~type /\ large
      /\ IsDefect(r, "invalid_utf8") => ~magic /\ ~version /\ ~type /\ text
      /\ ~IsDefect(r, "decoder_failed")
  BY DefectPointwise
<1>2. ~type => ~(large /\ text)
  <2> SUFFICES ASSUME ~type PROVE ~(large /\ text)
    OBVIOUS
  <2>1. HeaderLength(r) \in Nat
    BY RegistryFacts, HeaderSpellsItsLength
  <2>2. max_body[r[4]] \in Nat
    BY RegistryFacts
  <2> QED BY <2>1, <2>2
<1> HIDE DEF magic, version, type, large, text
<1>3. /\ k1 \in {"decoder_failed", "bad_magic", "bad_version", "unknown_type", "body_too_large",
                 "invalid_utf8"}
      /\ k2 \in {"decoder_failed", "bad_magic", "bad_version", "unknown_type", "body_too_large",
                 "invalid_utf8"}
  BY DEF FrameErrorKind
<1> QED BY <1>1, <1>2, <1>3

\* The bytes of a stream alone decide which frames it holds, where each of them
\* begins and what is wrong after the last: two decoders, or one decoder fed the
\* same bytes in other pieces, cannot answer differently (frame.hpp:105-215).
THEOREM OneResult ==
  ASSUME NEW s \in Seq(Byte), NEW log, NEW cuts, NEW v, NEW log2, NEW cuts2, NEW v2,
         Decodes(s, log, cuts, v), Decodes(s, log2, cuts2, v2)
  PROVE  log = log2 /\ cuts = cuts2 /\ v = v2
<1>1. /\ log \in Seq(Frame) /\ cuts \in Seq(Nat) /\ Len(cuts) = Len(log) + 1
      /\ cuts[Len(cuts)] <= Len(s)
      /\ \A k \in 1..Len(log) : LiesAt(s, cuts[k], cuts[k + 1], log[k])
      /\ Len(log) \in Nat /\ Len(s) \in Nat
  BY LenProperties DEF Decodes
<1>2. /\ log2 \in Seq(Frame) /\ cuts2 \in Seq(Nat) /\ Len(cuts2) = Len(log2) + 1
      /\ \A k \in 1..Len(log2) : LiesAt(s, cuts2[k], cuts2[k + 1], log2[k])
      /\ Len(log2) \in Nat
  BY LenProperties DEF Decodes
<1>3. Len(log) = Len(log2)
  BY <1>1, <1>2, NoShorterReading
<1>4. cuts = cuts2
  <2>1. \A k \in 1..Len(cuts) : cuts[k] = cuts2[k]
    <3> SUFFICES ASSUME NEW k \in 1..Len(cuts) PROVE cuts[k] = cuts2[k]
      OBVIOUS
    <3>1. k \in Nat /\ k \in 1..Len(cuts2)
      BY <1>1, <1>2, <1>3
    <3> QED BY <3>1, CutsAgree
  <2> QED BY <1>1, <1>2, <1>3, <2>1, SeqEqual
<1>5. log = log2
  <2>1. \A k \in 1..Len(log) : log[k] = log2[k]
    <3> SUFFICES ASSUME NEW k \in 1..Len(log) PROVE log[k] = log2[k]
      OBVIOUS
    <3>1. k \in 1..Len(log2) /\ k \in 1..Len(cuts) /\ k + 1 \in 1..Len(cuts)
      BY <1>1, <1>3
    <3>2. /\ cuts[k] \in Nat /\ cuts[k + 1] \in Nat /\ log[k] \in Frame /\ log2[k] \in Frame
      BY <1>1, <1>2, <3>1, ElementOfSeq
    <3>3. LiesAt(s, cuts[k], cuts[k + 1], log[k]) /\ LiesAt(s, cuts[k], cuts[k + 1], log2[k])
      BY <1>1, <1>2, <1>4, <3>1
    <3> QED BY <3>2, <3>3, SameFrame
  <2> QED BY <1>1, <1>2, <1>3, <2>1, SeqEqual
<1> DEFINE a == cuts[Len(cuts)]
<1> DEFINE r == Between(s, a, Len(s))
<1>6. a \in Nat /\ a <= Len(s)
  <2>1. Len(cuts) \in 1..Len(cuts)
    BY <1>1
  <2> QED BY <1>1, <2>1, ElementOfSeq
<1>7. r \in Seq(Byte)
  <2>1. Len(s) \in Nat /\ Len(s) <= Len(s)
    BY <1>1
  <2> QED BY <1>6, <2>1, BetweenType, Zenon
<1>8. /\ IF v = "ok" THEN Incomplete(r) ELSE v \in FrameErrorKind /\ IsDefect(r, v)
      /\ IF v2 = "ok" THEN Incomplete(r) ELSE v2 \in FrameErrorKind /\ IsDefect(r, v2)
  BY <1>4 DEF Decodes
<1> HIDE DEF a, r
<1>9. ASSUME v # "ok", v2 # "ok" PROVE v = v2
  <2>1. /\ v \in FrameErrorKind /\ IsDefect(r, v)
        /\ v2 \in FrameErrorKind /\ IsDefect(r, v2)
    BY <1>8, <1>9
  <2>2. Len(r) >= 8
    BY <2>1 DEF IsDefect, kFrameHeaderSize
  <2> QED BY <1>7, <2>1, <2>2, DefectsExclude
<1>10. v = "ok" <=> v2 = "ok"
  BY <1>8 DEF Incomplete
<1> QED BY <1>4, <1>5, <1>9, <1>10

\* What feedBytes has answered when it returns: the frames decoded so far, where
\* they end, and the error if there is one.
Answer == IF failed_ THEN error_ ELSE "ok"
AnswersTheBytes == pc = "idle" => Decodes(SubSeq(stream, 1, fed), FrameLog, bounds, Answer)

LEMMA InvImpliesAnswer == IInv => AnswersTheBytes
<1> SUFFICES ASSUME IInv, pc = "idle"
             PROVE  Decodes(SubSeq(stream, 1, fed), FrameLog, bounds, Answer)
  BY DEF AnswersTheBytes
<1> DEFINE s == SubSeq(stream, 1, fed)
<1>1. /\ stream \in Seq(Byte) /\ fed \in Nat /\ Len(stream) \in Nat /\ fed <= Len(stream)
      /\ Boundary \in Nat /\ Boundary <= fed
  BY RestFacts DEF IInv, TypeOK
<1>2. /\ FrameLog \in Seq(Frame) /\ Len(FrameLog) \in Nat /\ bounds \in Seq(Nat)
      /\ Len(bounds) = Len(FrameLog) + 1 /\ bounds[1] = 0
  BY FrameLogType DEF IInv, TypeOK, FramesTileStream
<1>3. s \in Seq(Byte) /\ Len(s) = fed
  <2>1. s \in Seq(Byte) /\ Len(s) = fed - 1 + 1
    BY <1>1, Segment
  <2> QED BY <1>1, <2>1
<1>4. ASSUME NEW a \in Nat, NEW b \in Nat, a <= b, b <= fed
      PROVE  SubSeq(s, a + 1, b) = SubSeq(stream, a + 1, b)
  <2> DEFINE m == a + 1
  <2>1. /\ m \in Nat \ {0} /\ m <= b + 1 /\ b <= fed - 1 + 1 /\ 1 <= fed + 1 /\ 1 \in Nat \ {0}
        /\ 1 + m - 1 = m /\ 1 + b - 1 = b
    BY <1>1, <1>4
  <2> HIDE DEF m
  <2>2. SubSeq(SubSeq(stream, 1, fed), m, b) = SubSeq(stream, 1 + m - 1, 1 + b - 1)
    BY <1>1, <2>1, SegmentOfSegment
  <2> QED BY <2>1, <2>2 DEF m
<1> HIDE DEF s
<1>5. ASSUME NEW k \in 1..Len(FrameLog)
      PROVE  LiesAt(s, bounds[k], bounds[k + 1], FrameLog[k])
  <2>1. k \in 1..Len(bounds) /\ k + 1 \in 1..Len(bounds) /\ k \in 1 .. Len(bounds) - 1
    BY <1>2
  <2>2. bounds[k] \in Nat /\ bounds[k + 1] \in Nat
    BY <1>2, <2>1, ElementOfSeq
  <2>3. bounds[k + 1] <= Boundary /\ bounds[k] <= bounds[k + 1]
    BY <2>1 DEF IInv, BoundsAscend
  <2>4. /\ Encodable(FrameLog[k].type, FrameLog[k].body)
        /\ SubSeq(stream, bounds[k] + 1, bounds[k + 1])
             = encodeFrame(FrameLog[k].type, FrameLog[k].body)
    BY DEF IInv, FramesTileStream
  <2>5. bounds[k + 1] <= fed
    BY <1>1, <2>2, <2>3
  <2>6. SubSeq(s, bounds[k] + 1, bounds[k + 1]) = SubSeq(stream, bounds[k] + 1, bounds[k + 1])
    BY <1>4, <2>2, <2>3, <2>5
  <2> QED BY <1>3, <2>3, <2>4, <2>5, <2>6 DEF LiesAt
<1>6. Between(s, bounds[Len(bounds)], Len(s)) = Rest
  <2>1. SubSeq(s, Boundary + 1, fed) = SubSeq(stream, Boundary + 1, fed)
    <3>1. fed <= fed
      BY <1>1
    <3> QED BY <1>1, <1>4, <3>1, Zenon
  <2>2. Between(s, Boundary, fed) = Rest
    BY <2>1, Zenon DEF Between, Rest
  <2>3. bounds[Len(bounds)] = Boundary /\ Len(s) = fed
    BY <1>3, Zenon DEF Boundary
  <2> QED BY <2>2, <2>3, Zenon
<1>7. bounds[Len(bounds)] <= Len(s)
  <2>1. bounds[Len(bounds)] = Boundary /\ Len(s) = fed
    BY <1>3, Zenon DEF Boundary
  <2> QED BY <1>1, <2>1, Zenon
<1>8. IF Answer = "ok" THEN Incomplete(Rest)
                       ELSE Answer \in FrameErrorKind /\ IsDefect(Rest, Answer)
  <2>1. CASE failed_
    <3>1. Answer = error_ /\ error_ \in FrameErrorKind /\ IsDefect(Rest, error_)
      BY <2>1 DEF Answer, IInv, TypeOK, FailureIsJustified
    <3>2. "ok" \notin FrameErrorKind
      BY DEF FrameErrorKind
    <3> QED BY <3>1, <3>2, Zenon
  <2>2. CASE ~failed_
    <3>1. Answer = "ok"
      BY <2>2 DEF Answer
    <3>2. Incomplete(Rest)
      BY <2>2, InvImpliesNothingWithheld DEF NothingWithheld, Incomplete
    <3> QED BY <3>1, <3>2, Zenon
  <2> QED BY <2>1, <2>2
<1>9. Decodes(s, FrameLog, bounds, Answer)
  <2>1. IF Answer = "ok"
        THEN Incomplete(Between(s, bounds[Len(bounds)], Len(s)))
        ELSE /\ Answer \in FrameErrorKind
             /\ IsDefect(Between(s, bounds[Len(bounds)], Len(s)), Answer)
    BY <1>6, <1>8, Zenon
  <2> QED BY <1>2, <1>5, <1>7, <2>1, Zenon DEF Decodes
<1> QED BY <1>9 DEF s

\* Whenever feedBytes has returned, the frames and the error are the one answer the
\* bytes fed so far allow (OneResult): a function of the bytes, whatever the chunks,
\* the pops in between and what the peer wrote since (frame.hpp:105-167).
THEOREM DecoderAnswersTheBytes == Spec => []AnswersTheBytes
<1> QED
  BY InvImpliesAnswer, InvariantHolds, PTL

-----------------------------------------------------------------------------
(* The inductive invariant *)

LinkType == sent \in Seq(Frame) /\ marks \in Seq(Nat)
SentTiles ==
  /\ Len(marks) = Len(sent) + 1 /\ marks[Len(marks)] = Len(stream)
  /\ \A k \in 1..Len(sent) : LiesAt(stream, marks[k], marks[k + 1], sent[k])
LogIsPrefix ==
  /\ Len(FrameLog) <= Len(sent)
  /\ \A k \in 1..Len(FrameLog) : FrameLog[k] = sent[k]
  /\ \A k \in 1 .. Len(FrameLog) + 1 : bounds[k] = marks[k]
LinkInv == IInv /\ LinkType /\ SentTiles /\ LogIsPrefix

\* Where the decoder stands, in terms of what was sent.
LEMMA LinkFacts ==
  ASSUME LinkInv
  PROVE  /\ stream \in Seq(Byte) /\ Len(stream) \in Nat /\ fed \in Nat /\ fed <= Len(stream)
         /\ sent \in Seq(Frame) /\ Len(sent) \in Nat /\ marks \in Seq(Nat)
         /\ Len(marks) = Len(sent) + 1
         /\ Len(FrameLog) \in Nat /\ Len(FrameLog) <= Len(sent)
         /\ Boundary \in Nat /\ Boundary <= fed
         /\ Len(bounds) = Len(FrameLog) + 1 /\ bounds[Len(bounds)] = Boundary
         /\ Boundary = marks[Len(FrameLog) + 1]
<1>1. /\ stream \in Seq(Byte) /\ Len(stream) \in Nat /\ fed \in Nat /\ fed <= Len(stream)
      /\ Boundary \in Nat /\ Boundary <= fed
  BY RestFacts DEF LinkInv, IInv, TypeOK
<1>2. sent \in Seq(Frame) /\ Len(sent) \in Nat /\ marks \in Seq(Nat) /\ Len(marks) = Len(sent) + 1
  BY LenProperties DEF LinkInv, LinkType, SentTiles
<1>3. Len(FrameLog) \in Nat /\ Len(FrameLog) <= Len(sent)
  BY FrameLogType DEF LinkInv, IInv, LogIsPrefix
<1>4. Len(bounds) = Len(FrameLog) + 1 /\ bounds[Len(bounds)] = Boundary
  BY DEF LinkInv, IInv, FramesTileStream, Boundary
<1>5. Len(FrameLog) + 1 \in 1 .. Len(FrameLog) + 1
  BY <1>3
<1>6. bounds[Len(FrameLog) + 1] = marks[Len(FrameLog) + 1]
  BY <1>5 DEF LinkInv, LogIsPrefix
<1> QED
  BY <1>1, <1>2, <1>3, <1>4, <1>6

\* While bytes are left after the last decoded frame, the next sent frame is there.
LEMMA NextSentFrame ==
  ASSUME LinkInv, Boundary < Len(stream)
  PROVE  LET n == Len(FrameLog) + 1
         IN  /\ n \in 1..Len(sent) /\ sent[n] \in Frame /\ marks[n + 1] \in Nat
             /\ LiesAt(stream, Boundary, marks[n + 1], sent[n])
<1> DEFINE n == Len(FrameLog) + 1
<1>1. Len(FrameLog) # Len(sent)
  <2>1. marks[Len(marks)] = Len(stream) /\ Len(marks) = Len(sent) + 1
    BY DEF LinkInv, SentTiles
  <2>2. Boundary = marks[Len(FrameLog) + 1] /\ Boundary \in Nat /\ Len(stream) \in Nat
    BY LinkFacts
  <2> QED BY <2>1, <2>2
<1>2. n \in 1..Len(sent) /\ n + 1 \in 1..Len(marks)
  BY <1>1, LinkFacts
<1>3. sent \in Seq(Frame) /\ marks \in Seq(Nat) /\ Boundary = marks[n]
  BY LinkFacts
<1>4. LiesAt(stream, marks[n], marks[n + 1], sent[n])
  BY <1>2 DEF LinkInv, SentTiles
<1> HIDE DEF n
<1>5. sent[n] \in Frame /\ marks[n + 1] \in Nat
  BY <1>2, <1>3, ElementOfSeq
<1> QED BY <1>2, <1>3, <1>4, <1>5 DEF n

-----------------------------------------------------------------------------
(* The decoder never fails *)

\* The bytes that follow the last frame cannot be a defect: they begin an encoding.
LEMMA NoDefect ==
  ASSUME LinkInv
  PROVE  \A kind \in FrameErrorKind : ~IsDefect(Rest, kind)
<1> SUFFICES ASSUME NEW kind \in FrameErrorKind, IsDefect(Rest, kind) PROVE FALSE
  OBVIOUS
<1> DEFINE f == sent[Len(FrameLog) + 1]
<1> DEFINE b == marks[Len(FrameLog) + 2]
<1>1. /\ Len(Rest) >= 8 /\ Len(Rest) = fed - Boundary /\ Len(Rest) \in Nat
  BY RestFacts DEF LinkInv, IInv, IsDefect, kFrameHeaderSize
<1>2. /\ stream \in Seq(Byte) /\ Len(stream) \in Nat /\ fed \in Nat /\ fed <= Len(stream)
      /\ Boundary \in Nat /\ Boundary <= fed /\ Len(FrameLog) \in Nat
  BY LinkFacts
<1>3. Boundary < Len(stream)
  BY <1>1, <1>2
<1>4. f \in Frame /\ b \in Nat /\ LiesAt(stream, Boundary, b, f)
  <2>1. Len(FrameLog) + 1 + 1 = Len(FrameLog) + 2
    BY <1>2
  <2> QED BY <1>3, <2>1, NextSentFrame
<1> HIDE DEF f, b
<1>5. ~IsDefect(Between(stream, Boundary, fed), kind)
  BY <1>2, <1>4, EncodingIsNoDefect
<1> QED BY <1>5 DEF Rest, Between

\* So no call of setFailure can have happened.
LEMMA InvImpliesAccepted == LinkInv => EncodedFramesAreAccepted
<1> SUFFICES ASSUME LinkInv, failed_ PROVE FALSE
  BY DEF EncodedFramesAreAccepted
<1>1. error_ \in FrameErrorKind /\ IsDefect(Rest, error_)
  BY DEF LinkInv, IInv, TypeOK, FailureIsJustified
<1> QED BY <1>1, NoDefect

-----------------------------------------------------------------------------
(* No frame is kept back *)

\* A whole encoding at the start of the undecoded bytes is one the loop would have
\* taken: with all bytes fed, no sent frame is left.
LEMMA InvImpliesNothingIsLost == LinkInv => NothingIsLost
<1> SUFFICES ASSUME LinkInv, pc = "idle", fed = Len(stream) PROVE FrameLog = sent
  BY DEF NothingIsLost
<1> DEFINE n == Len(FrameLog) + 1
<1> DEFINE f == sent[n]
<1> DEFINE b == marks[n + 1]
<1>1. /\ Len(FrameLog) \in Nat /\ Len(sent) \in Nat /\ sent \in Seq(Frame)
      /\ Boundary \in Nat /\ fed \in Nat /\ stream \in Seq(Byte)
      /\ Boundary <= fed /\ Len(FrameLog) <= Len(sent)
      /\ Len(marks) = Len(sent) + 1 /\ Boundary = marks[n]
  BY LinkFacts
<1>2. Len(FrameLog) = Len(sent)
  <2> SUFFICES ASSUME Len(FrameLog) # Len(sent) PROVE FALSE
    OBVIOUS
  <2>1. n \in 1..Len(sent) /\ n \in 1..Len(marks) /\ n + 1 \in 1..Len(marks)
    BY <1>1
  <2>2. LiesAt(stream, Boundary, b, f)
    BY <1>1, <2>1 DEF LinkInv, SentTiles
  <2>3. f \in Frame /\ b \in Nat
    BY <1>1, <2>1, ElementOfSeq DEF LinkInv, LinkType
  <2> HIDE DEF n, f, b
  <2> DEFINE l == Len(f.body)
  <2>4. /\ b <= Len(stream) /\ f.type \in ProtocolType /\ f.body \in Seq(Byte)
        /\ Encodable(f.type, f.body)
    BY <2>2, <2>3 DEF LiesAt, Frame
  <2>5. l \in Nat /\ l <= max_body[f.type] /\ max_body[f.type] \in Nat
    BY <2>4, EncodingParts, RegistryFacts
  <2>6. b = Boundary + 8 + l
    BY <1>1, <2>2, <2>3, LaidLength, Zenon
  <2>7. Boundary + 8 <= fed
    BY <1>1, <2>4, <2>5, <2>6
  <2>8. Len(Rest) = fed - Boundary /\ Rest[4] = f.type /\ HasHeader(Rest, f.type, l)
    <3>1. Rest = Between(stream, Boundary, fed)
      BY DEF Rest, Between
    <3>2. fed <= Len(stream) /\ Boundary <= fed
      BY <1>1
    <3>3. Len(Between(stream, Boundary, fed)) = fed - Boundary
      BY <1>1, <3>2, BetweenFacts
    <3>4. LooksLike(Between(stream, Boundary, fed), f)
      BY <1>1, <2>2, <2>3, <2>7, <3>2, SeenEncoding, Zenon
    <3>5. LooksLike(Rest, f)
      BY <3>1, <3>4, Zenon
    <3> QED BY <3>1, <3>3, <3>5, Zenon DEF LooksLike
  <2>9. ~failed_
    BY InvImpliesAccepted DEF EncodedFramesAreAccepted
  <2> HIDE DEF l
  <2>10. Len(Rest) >= 8 /\ Len(Rest) >= 8 + l
    <3>1. b <= fed /\ fed \in Nat /\ Boundary \in Nat
      BY <1>1, <2>4
    <3> QED BY <2>3, <2>5, <2>6, <2>8, <3>1
  <2>11. \A size \in 0..max_body[Rest[4]] :
           HasHeader(Rest, Rest[4], size) => Len(Rest) < 8 + size
    BY <2>9, <2>10, InvImpliesNothingWithheld DEF LinkInv, NothingWithheld, kFrameHeaderSize
  <2>12. l \in 0..max_body[Rest[4]]
    BY <2>5, <2>8
  <2>13. Len(Rest) < 8 + l
    BY <2>8, <2>11, <2>12
  <2> QED BY <1>1, <2>5, <2>8, <2>10, <2>13
<1>3. FrameLog \in Seq(Frame)
  BY FrameLogType DEF LinkInv, IInv
<1>4. \A k \in 1..Len(FrameLog) : FrameLog[k] = sent[k]
  BY DEF LinkInv, LogIsPrefix
<1> QED BY <1>1, <1>2, <1>3, <1>4, SeqEqual

-----------------------------------------------------------------------------
(* The invariant is kept *)

\* What encodeFrame agreed to write was one of the attempts, and can be framed.
LEMMA SentFrame ==
  ASSUME NEW a \in Attempts, encodeFrame(a.type, a.body) # nullopt
  PROVE  /\ [type |-> a.type, body |-> a.body] \in Frame
         /\ Encodable(a.type, a.body)
         /\ encodeFrame(a.type, a.body) \in PeerWrites
         /\ encodeFrame(a.type, a.body) \in Seq(Byte)
<1>1. Encodable(a.type, a.body)
  BY DEF encodeFrame
<1>2. a.type \in ProtocolType /\ a.body \in Seq(Byte)
  BY <1>1, LinkAssumption DEF Encodable, findProtocol
<1>3. encodeFrame(a.type, a.body) \in PeerWrites
  BY LinkAssumption
<1> QED
  BY <1>1, <1>2, <1>3, EncodingParts DEF Frame

\* Every step of the connection is a step of the decoder's specification.
LEMMA LinkStepIsStep == [LinkNext]_linkVars => [Next]_vars
<1>1. ASSUME NEW a \in Attempts, SendFrame(a.type, a.body)
      PROVE  Next
  BY <1>1, SentFrame DEF SendFrame, Next
<1>2. ASSUME Decoder
      PROVE  Next
  BY <1>2 DEF Next
<1>3. UNCHANGED linkVars => UNCHANGED vars
  BY DEF linkVars
<1> QED
  BY <1>1, <1>2, <1>3 DEF LinkNext

\* A frame that lies in the stream still lies there when more is written.
LEMMA LiesInLonger ==
  ASSUME NEW s \in Seq(Byte), NEW t \in Seq(Byte), NEW a \in Nat, NEW b \in Nat,
         NEW f, LiesAt(s, a, b, f)
  PROVE  LiesAt(s \o t, a, b, f)
<1> DEFINE m == a + 1
<1>1. /\ m \in Nat \ {0} /\ m <= b + 1 /\ a <= b /\ b <= Len(s) /\ Len(s) \in Nat /\ Len(t) \in Nat
      /\ Encodable(f.type, f.body) /\ SubSeq(s, m, b) = encodeFrame(f.type, f.body)
  BY LenProperties DEF LiesAt
<1> HIDE DEF m
<1>2. SubSeq(s \o t, m, b) = SubSeq(s, m, b)
  BY <1>1, SegmentOfConcat
<1>3. Len(s \o t) = Len(s) + Len(t)
  BY PartsOfConcat
<1>4. b <= Len(s \o t)
  BY <1>1, <1>3
<1> QED BY <1>1, <1>2, <1>4 DEF LiesAt, m

\* Writing a frame keeps the invariant.
LEMMA SendFrameKeepsInv ==
  ASSUME LinkInv, IInv', NEW a \in Attempts, SendFrame(a.type, a.body)
  PROVE  LinkInv'
<1> DEFINE f == [type |-> a.type, body |-> a.body]
<1> DEFINE e == encodeFrame(a.type, a.body)
<1>1. /\ f \in Frame /\ Encodable(f.type, f.body) /\ e \in Seq(Byte)
      /\ e = encodeFrame(f.type, f.body)
  BY SentFrame DEF SendFrame
<1>2. /\ stream' = stream \o e /\ sent' = Append(sent, f)
      /\ marks' = Append(marks, Len(stream')) /\ UNCHANGED output
  BY DEF SendFrame, PeerWrite
<1> HIDE DEF f, e
<1>3. /\ stream \in Seq(Byte) /\ Len(stream) \in Nat /\ sent \in Seq(Frame) /\ Len(sent) \in Nat
      /\ marks \in Seq(Nat) /\ Len(marks) = Len(sent) + 1
      /\ Len(FrameLog) \in Nat /\ Len(FrameLog) <= Len(sent)
  BY LinkFacts
<1>4. /\ Len(stream') = Len(stream) + Len(e) /\ Len(e) \in Nat /\ stream' \in Seq(Byte)
      /\ SubSeq(stream', Len(stream) + 1, Len(stream) + Len(e)) = e
  BY <1>1, <1>2, <1>3, PartsOfConcat, LenProperties
<1>5. /\ sent' \in Seq(Frame) /\ Len(sent') = Len(sent) + 1 /\ sent'[Len(sent) + 1] = f
      /\ \A k \in 1..Len(sent) : sent'[k] = sent[k]
  BY <1>1, <1>2, <1>3, AppendProperties
<1>6. /\ marks' \in Seq(Nat) /\ Len(marks') = Len(marks) + 1
      /\ marks'[Len(marks) + 1] = Len(stream')
      /\ \A k \in 1..Len(marks) : marks'[k] = marks[k]
  <2>1. Len(stream') \in Nat
    BY <1>3, <1>4
  <2> QED BY <1>2, <1>3, <2>1, AppendProperties
<1>7. LiesAt(stream', Len(stream), Len(stream'), f)
  <2>1. Len(stream) <= Len(stream')
    BY <1>3, <1>4
  <2>2. SubSeq(stream', Len(stream) + 1, Len(stream')) = e
    BY <1>4
  <2> QED BY <1>1, <1>3, <1>4, <2>1, <2>2 DEF LiesAt
<1>8. SentTiles'
  <2>1. marks'[Len(marks')] = Len(stream') /\ Len(marks') = Len(sent') + 1
    BY <1>3, <1>5, <1>6
  <2>2. ASSUME NEW k \in 1..Len(sent')
        PROVE  LiesAt(stream', marks'[k], marks'[k + 1], sent'[k])
    <3>1. CASE k \in 1..Len(sent)
      <4>1. LiesAt(stream, marks[k], marks[k + 1], sent[k])
        BY <3>1 DEF LinkInv, SentTiles
      <4>2. k \in 1..Len(marks) /\ k + 1 \in 1..Len(marks)
        BY <1>3, <3>1
      <4>3. marks[k] \in Nat /\ marks[k + 1] \in Nat
        BY <1>3, <4>2, ElementOfSeq
      <4>4. LiesAt(stream \o e, marks[k], marks[k + 1], sent[k])
        BY <1>1, <1>3, <4>1, <4>3, LiesInLonger
      <4> QED BY <1>2, <1>5, <1>6, <3>1, <4>2, <4>4
    <3>2. CASE k = Len(sent) + 1
      <4>1. marks'[k] = marks[k] /\ marks[k] = Len(stream)
        <5>1. k \in 1..Len(marks) /\ k = Len(marks)
          BY <1>3, <3>2
        <5>2. marks[Len(marks)] = Len(stream)
          BY DEF LinkInv, SentTiles
        <5> QED BY <1>6, <5>1, <5>2
      <4>2. marks'[k + 1] = Len(stream') /\ sent'[k] = f
        BY <1>3, <1>5, <1>6, <3>2
      <4> QED BY <1>7, <4>1, <4>2
    <3> QED BY <1>3, <1>5, <3>1, <3>2
  <2> QED BY <2>1, <2>2 DEF SentTiles
<1>9. LogIsPrefix'
  <2>1. FrameLog' = FrameLog /\ bounds' = bounds
    BY <1>2 DEF output, FrameLog
  <2>2. Len(FrameLog) <= Len(sent')
    BY <1>3, <1>5
  <2>3. ASSUME NEW k \in 1..Len(FrameLog) PROVE FrameLog[k] = sent'[k]
    <3>1. k \in 1..Len(sent)
      BY <1>3
    <3> QED BY <1>5, <3>1 DEF LinkInv, LogIsPrefix
  <2>4. ASSUME NEW k \in 1 .. Len(FrameLog) + 1 PROVE bounds[k] = marks'[k]
    <3>1. k \in 1..Len(marks)
      BY <1>3
    <3> QED BY <1>6, <3>1 DEF LinkInv, LogIsPrefix
  <2> QED BY <2>1, <2>2, <2>3, <2>4 DEF LogIsPrefix
<1> QED BY <1>5, <1>6, <1>8, <1>9 DEF LinkInv, LinkType

\* A step that decodes no frame and writes nothing keeps the invariant.
LEMMA QuietStepKeepsInv ==
  ASSUME LinkInv, IInv', UNCHANGED <<stream, bounds, sent, marks>>, FrameLog' = FrameLog
  PROVE  LinkInv'
  BY DEF LinkInv, LinkType, SentTiles, LogIsPrefix

\* A decoded frame is the next one that was sent.
LEMMA AcceptFrameKeepsLinkInv ==
  ASSUME LinkInv, IInv', AcceptFrame, UNCHANGED <<sent, marks>>
  PROVE  LinkInv'
<1> DEFINE f == [type |-> frame_type_, body |-> PendingBody]
<1> DEFINE end == Boundary + 8 + body_length_
<1> DEFINE n == Len(FrameLog) + 1
<1>1. /\ ~failed_ /\ BodyComplete /\ isValidUtf8(PendingBody)
      /\ decoded_frames_' = Append(decoded_frames_, f)
      /\ bounds' = Append(bounds, end) /\ delivered' = delivered /\ stream' = stream
  BY DecodingIsNotFailed DEF AcceptFrame, kFrameHeaderSize, env, LinkInv
<1>2. /\ stream \in Seq(Byte) /\ Len(stream) \in Nat /\ fed \in Nat /\ fed <= Len(stream)
      /\ sent \in Seq(Frame) /\ marks \in Seq(Nat) /\ Len(FrameLog) \in Nat
      /\ Boundary \in Nat /\ Len(bounds) = n /\ bounds[n] = Boundary /\ n \in Nat
  BY LinkFacts
<1>3. /\ body_length_ \in Nat /\ Len(Rest) >= 8 + body_length_ /\ PendingBody \in Seq(Byte)
      /\ frame_type_ \in ProtocolType /\ Len(Rest) = fed - Boundary
  BY <1>1, PendingFrame, RestFacts DEF LinkInv, IInv
<1>4. end \in Nat /\ Boundary <= end /\ end <= Len(stream) /\ Boundary < Len(stream)
  BY <1>2, <1>3
<1>5. f \in Frame
  BY <1>3 DEF Frame
<1>6. LiesAt(stream, Boundary, end, f)
  <2>1. /\ Encodable(f.type, f.body)
        /\ SubSeq(stream, Boundary + 1, end) = encodeFrame(f.type, f.body)
    BY <1>1, AcceptedFrameIsEncoded DEF LinkInv
  <2> QED BY <1>4, <2>1 DEF LiesAt
<1>7. /\ n \in 1..Len(sent) /\ sent[n] \in Frame /\ marks[n + 1] \in Nat
      /\ LiesAt(stream, Boundary, marks[n + 1], sent[n])
  BY <1>4, NextSentFrame
<1>8. delivered \in Seq(Frame) /\ decoded_frames_ \in Seq(Frame) /\ bounds \in Seq(Nat)
  BY DEF LinkInv, IInv, TypeOK
<1> HIDE DEF f, end
<1>9. f = sent[n] /\ end = marks[n + 1]
  <2> DEFINE g == sent[n]
  <2> DEFINE c == marks[n + 1]
  <2>1. g \in Frame /\ c \in Nat /\ LiesAt(stream, Boundary, c, g)
    BY <1>7
  <2> HIDE DEF g, c
  <2>2. f = g /\ end = c
    BY <1>2, <1>4, <1>5, <1>6, <2>1, SameFrame
  <2> QED BY <2>2 DEF g, c
<1>10. /\ Len(FrameLog') = n /\ FrameLog'[n] = f
       /\ \A k \in 1..Len(FrameLog) : FrameLog'[k] = FrameLog[k]
  <2>1. FrameLog' = delivered \o Append(decoded_frames_, f)
    BY <1>1 DEF FrameLog
  <2> QED BY <1>5, <1>8, <2>1, AppendToLog DEF FrameLog
<1>11. /\ bounds'[n + 1] = end /\ \A k \in 1..n : bounds'[k] = bounds[k]
  BY <1>1, <1>2, <1>4, <1>8, AppendProperties
<1>12. LogIsPrefix'
  <2>1. Len(FrameLog') <= Len(sent)
    BY <1>7, <1>10
  <2>2. ASSUME NEW k \in 1..Len(FrameLog') PROVE FrameLog'[k] = sent[k]
    <3>1. CASE k \in 1..Len(FrameLog)
      BY <1>10, <3>1 DEF LinkInv, LogIsPrefix
    <3>2. CASE k = n
      BY <1>9, <1>10, <3>2
    <3> QED BY <1>2, <1>10, <3>1, <3>2
  <2>3. ASSUME NEW k \in 1 .. Len(FrameLog') + 1 PROVE bounds'[k] = marks[k]
    <3>1. CASE k \in 1..n
      BY <1>11, <3>1 DEF LinkInv, LogIsPrefix
    <3>2. CASE k = n + 1
      BY <1>9, <1>11, <3>2
    <3> QED BY <1>2, <1>10, <3>1, <3>2
  <2> QED BY <2>1, <2>2, <2>3 DEF LogIsPrefix
<1>13. LinkType' /\ SentTiles'
  BY <1>1 DEF LinkInv, LinkType, SentTiles
<1> QED BY <1>12, <1>13 DEF LinkInv

\* The connection starts empty at both ends.
LEMMA LinkInitHasInv == LinkInit => LinkInv
<1> SUFFICES ASSUME LinkInit PROVE LinkInv
  OBVIOUS
<1>1. IInv
  BY InitHasInv DEF LinkInit
<1>2. /\ sent = <<>> /\ marks = <<0>> /\ stream = <<>> /\ bounds = <<0>>
      /\ FrameLog = <<>>
  BY DEF LinkInit, Init, FrameLog
<1>3. LinkType
  BY <1>2 DEF LinkType
<1>4. SentTiles
  BY <1>2 DEF SentTiles
<1>5. LogIsPrefix
  BY <1>2 DEF LogIsPrefix
<1> QED BY <1>1, <1>3, <1>4, <1>5 DEF LinkInv

\* Every step of either end keeps the invariant.
LEMMA LinkStepKeepsInv == LinkInv /\ [LinkNext]_linkVars => LinkInv'
<1> SUFFICES ASSUME LinkInv, [LinkNext]_linkVars PROVE LinkInv'
  OBVIOUS
<1>1. IInv'
  BY LinkStepIsStep, StepKeepsInv DEF LinkInv
<1>2. CASE UNCHANGED linkVars
  BY <1>1, <1>2, QuietStepKeepsInv DEF linkVars, vars, env, output, FrameLog
<1>3. CASE \E a \in Attempts : SendFrame(a.type, a.body)
  BY <1>1, <1>3, SendFrameKeepsInv
<1>4. CASE Decoder /\ UNCHANGED <<sent, marks>>
  <2>1. CASE Feed
    BY <1>1, <1>4, <2>1, QuietStepKeepsInv DEF Feed, FeedBytes, env, output, FrameLog
  <2>2. CASE WaitForMore \/ RejectHeader \/ AcceptHeader \/ RejectBody
    BY <1>1, <1>4, <2>2, QuietStepKeepsInv
       DEF WaitForMore, RejectHeader, AcceptHeader, RejectBody, env, output, FrameLog
  <2>3. CASE AcceptFrame
    BY <1>1, <1>4, <2>3, AcceptFrameKeepsLinkInv
  <2>4. CASE TryPopFrame
    <3>1. FrameLog' = FrameLog
      BY <2>4, TryPopFrameKeepsLog DEF LinkInv, IInv
    <3> QED BY <1>1, <1>4, <2>4, <3>1, QuietStepKeepsInv DEF TryPopFrame, env
  <2> QED BY <1>4, <2>1, <2>2, <2>3, <2>4 DEF Decoder, DecodeStep
<1> QED BY <1>2, <1>3, <1>4 DEF LinkNext

-----------------------------------------------------------------------------
(* The theorems *)

\* The inductive invariant holds of every behaviour of the connection.
THEOREM LinkInvariantHolds == LinkSpec => []LinkInv
<1> QED
  BY LinkInitHasInv, LinkStepKeepsInv, PTL DEF LinkSpec

\* Whatever frames a sender gets past encodeFrame and however the bytes are cut,
\* a FrameDecoder at the other end never fails (frame.hpp:159-162, 170-201, 222-244).
THEOREM EncodedFramesPass == LinkSpec => []EncodedFramesAreAccepted
<1> QED
  BY InvImpliesAccepted, LinkInvariantHolds, PTL

\* When the last byte sent has been fed, however the bytes were cut, the frames
\* decoded are the frames sent: feedBytes sits on no whole frame, and nothing it
\* needs to see one is still missing (frame.hpp:105-167).
THEOREM EverySentFrameIsRead == LinkSpec => []NothingIsLost
<1> QED
  BY InvImpliesNothingIsLost, LinkInvariantHolds, PTL

\* The frame tryPopFrame hands out next is the one sent next.
LEMMA PopIsReceive ==
  ASSUME LinkInv, TryPopFrame, UNCHANGED sent
  PROVE  Channel!Receive
<1> DEFINE n == Len(delivered) + 1
<1>1. /\ delivered \in Seq(Frame) /\ decoded_frames_ \in Seq(Frame) /\ decoded_frames_ # <<>>
      /\ delivered' = Append(delivered, Head(decoded_frames_))
  BY DEF LinkInv, IInv, TypeOK, TryPopFrame
<1>2. /\ Len(delivered) \in Nat /\ Len(decoded_frames_) \in Nat \ {0}
      /\ Head(decoded_frames_) = decoded_frames_[1]
  BY <1>1, LenProperties, EmptySeq
<1>3. /\ Len(FrameLog) = Len(delivered) + Len(decoded_frames_)
      /\ \A k \in 1 .. Len(delivered) + Len(decoded_frames_) :
           FrameLog[k] = IF k <= Len(delivered) THEN delivered[k]
                                                ELSE decoded_frames_[k - Len(delivered)]
  BY <1>1, ConcatProperties DEF FrameLog
<1>4. /\ n \in 1 .. Len(delivered) + Len(decoded_frames_) /\ ~(n <= Len(delivered))
      /\ n - Len(delivered) = 1 /\ n \in 1..Len(FrameLog)
  BY <1>2, <1>3
<1>5. FrameLog[n] = decoded_frames_[1]
  BY <1>3, <1>4
<1>6. FrameLog[n] = sent[n]
  BY <1>4 DEF LinkInv, LogIsPrefix
<1>7. Len(delivered) < Len(sent)
  BY <1>2, <1>3, LinkFacts
<1> QED
  BY <1>1, <1>2, <1>5, <1>6, <1>7 DEF Channel!Receive

\* Every step of the connection is a step of the channel, or none.
LEMMA LinkStepRefines ==
  ASSUME LinkInv, [LinkNext]_linkVars
  PROVE  [Channel!Next]_<<sent, delivered>>
<1>1. CASE UNCHANGED linkVars
  BY <1>1 DEF linkVars, vars, output
<1>2. ASSUME NEW a \in Attempts, SendFrame(a.type, a.body)
      PROVE  Channel!Send
  <2>1. [type |-> a.type, body |-> a.body] = a
    BY LinkAssumption
  <2>2. a \in EncodableAttempts
    BY <1>2, SentFrame DEF SendFrame, EncodableAttempts
  <2>3. sent' = Append(sent, a) /\ delivered' = delivered
    BY <1>2, <2>1 DEF SendFrame, PeerWrite, output
  <2> QED BY <2>2, <2>3 DEF Channel!Send
<1>3. CASE Feed /\ UNCHANGED sent
  BY <1>3 DEF Feed, FeedBytes, output
<1>4. CASE DecodeStep /\ UNCHANGED sent
  BY <1>4 DEF DecodeStep, WaitForMore, RejectHeader, AcceptHeader, RejectBody, AcceptFrame, output
<1>5. CASE TryPopFrame /\ UNCHANGED sent
  BY <1>5, PopIsReceive DEF Channel!Next
<1> QED
  BY <1>1, <1>2, <1>3, <1>4, <1>5 DEF LinkNext, Decoder, Channel!Next

\* encodeFrame, a byte stream and a FrameDecoder together are a first-in first-out
\* channel: nothing tryPopFrame returns was lost, invented, repeated or moved.
\* (That every frame does come out is liveness, which the run checks.)
THEOREM LinkIsAChannel == LinkSpec => Channel!Spec
<1>1. LinkInit => Channel!Init
  BY DEF LinkInit, Init, Channel!Init
<1>2. LinkInv /\ [LinkNext]_linkVars => [Channel!Next]_<<sent, delivered>>
  BY LinkStepRefines
<1> QED
  BY <1>1, <1>2, LinkInvariantHolds, PTL DEF LinkSpec, Channel!Spec
=============================================================================
