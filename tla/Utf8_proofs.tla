----------------------------- MODULE Utf8_proofs -----------------------------
(***************************************************************************)
(* Proofs about isValidUtf8, for texts of any bytes and any length.        *)
(*                                                                         *)
(* The argument: for a unit of one, two, three or four bytes the tests of  *)
(* the loop's body are the definition of an encoded scalar value, by the   *)
(* arithmetic of six-bit digits.  So loop and definition take the same     *)
(* step from every place of a text and are the same recursive function.    *)
(* That this function exists, and what it answers, is shown by the search  *)
(* for a smallest counterexample among the places of the text.             *)
(***************************************************************************)
EXTENDS MC_Utf8, WellFoundedInduction, TLAPS

\* What the body of the loop asks of the bytes of one unit.
UnitAccepted(u) ==
  /\ SequenceLength(u[1]) = Len(u)
  /\ \A j \in 2 .. Len(u) : IsContinuation(u[j])
  /\ Len(u) > 1 => SecondByteAllowed(u[1], u[2])

\* The encoding of a scalar value in each range of code points.
LEMMA EncodingOfEach ==
  ASSUME NEW cp \in Nat
  PROVE  /\ cp < 128 => Encoding(cp) = <<cp>>
         /\ 128 <= cp /\ cp < 2048 =>
              Encoding(cp) = <<192 + (cp \div 64), Continuation(cp)>>
         /\ 2048 <= cp /\ cp < 65536 =>
              Encoding(cp) = <<224 + (cp \div 4096), Continuation(cp \div 64), Continuation(cp)>>
         /\ 65536 <= cp =>
              Encoding(cp) = <<240 + (cp \div 262144), Continuation(cp \div 4096),
                               Continuation(cp \div 64), Continuation(cp)>>
<1>1. ASSUME cp < 128 PROVE Encoding(cp) = <<cp>>
  BY <1>1, SMT DEF Encoding
<1>2. ASSUME 128 <= cp, cp < 2048 PROVE Encoding(cp) = <<192 + (cp \div 64), Continuation(cp)>>
  BY <1>2, SMT DEF Encoding
<1>3. ASSUME 2048 <= cp, cp < 65536
      PROVE  Encoding(cp) = <<224 + (cp \div 4096), Continuation(cp \div 64), Continuation(cp)>>
  BY <1>3, SMT DEF Encoding
<1>4. ASSUME 65536 <= cp
      PROVE  Encoding(cp) = <<240 + (cp \div 262144), Continuation(cp \div 4096),
                              Continuation(cp \div 64), Continuation(cp)>>
  BY <1>4, SMT DEF Encoding
<1> QED
  BY <1>1, <1>2, <1>3, <1>4

\* The length of an encoding tells the range.
LEMMA EncodingLength ==
  ASSUME NEW cp \in Nat
  PROVE  /\ Len(Encoding(cp)) = 1 <=> cp < 128
         /\ Len(Encoding(cp)) = 2 <=> 128 <= cp /\ cp < 2048
         /\ Len(Encoding(cp)) = 3 <=> 2048 <= cp /\ cp < 65536
         /\ Len(Encoding(cp)) = 4 <=> 65536 <= cp
<1> DEFINE n == Len(Encoding(cp))
<1>1. cp < 128 => n = 1
  BY EncodingOfEach
<1>2. 128 <= cp /\ cp < 2048 => n = 2
  BY EncodingOfEach
<1>3. 2048 <= cp /\ cp < 65536 => n = 3
  BY EncodingOfEach
<1>4. 65536 <= cp => n = 4
  BY EncodingOfEach
<1> HIDE DEF n
<1>5. n = 1 \/ n = 2 \/ n = 3 \/ n = 4
  BY <1>1, <1>2, <1>3, <1>4
<1>6. n = 1 <=> cp < 128
  BY <1>1, <1>2, <1>3, <1>4
<1>7. n = 2 <=> 128 <= cp /\ cp < 2048
  BY <1>1, <1>2, <1>3, <1>4
<1>8. n = 3 <=> 2048 <= cp /\ cp < 65536
  BY <1>1, <1>2, <1>3, <1>4
<1>9. n = 4 <=> 65536 <= cp
  BY <1>1, <1>2, <1>3, <1>4
<1> QED
  BY <1>5, <1>6, <1>7, <1>8, <1>9 DEF n

\* The length that a first byte announces.
LEMMA LengthOfFirst ==
  ASSUME NEW a \in Byte
  PROVE  /\ SequenceLength(a) = 1 <=> a < 128
         /\ SequenceLength(a) = 2 <=> a \in 194..223
         /\ SequenceLength(a) = 3 <=> a \in 224..239
         /\ SequenceLength(a) = 4 <=> a \in 240..244
         /\ SequenceLength(a) \in 0..4
  BY SMT DEF SequenceLength, Byte

\* A continuation byte is 128 and six bits.
LEMMA LowBitsOfContinuations ==
  ASSUME NEW b \in Byte
  PROVE  /\ LowBits(b) \in 0..63
         /\ IsContinuation(b) <=> b = 128 + LowBits(b)
  BY DEF Byte, LowBits, IsContinuation

\* The units of one byte: ASCII.
LEMMA UnitOfOne ==
  ASSUME NEW a \in Byte
  PROVE  IsEncodedScalar(<<a>>) <=> UnitAccepted(<<a>>)
<1>1. CodePoint(<<a>>) = a
  BY DEF CodePoint
<1>2. IsScalarValue(a)
  BY SMT DEF IsScalarValue, Byte
<1>3. UnitAccepted(<<a>>) <=> a < 128
  BY LengthOfFirst DEF UnitAccepted
<1>4. Encoding(a) = <<a>> <=> a < 128
  <2>1. a < 128 => Encoding(a) = <<a>>
    BY EncodingOfEach DEF Byte
  <2>2. Encoding(a) = <<a>> => a < 128
    BY EncodingLength DEF Byte
  <2> QED
    BY <2>1, <2>2
<1> QED
  BY <1>1, <1>2, <1>3, <1>4 DEF IsEncodedScalar

\* The two ends of a number written to the base 64.
LEMMA Base64 ==
  ASSUME NEW q \in Nat, NEW r \in 0..63
  PROVE  /\ q * 64 + r \in Nat
         /\ (q * 64 + r) \div 64 = q
         /\ (q * 64 + r) % 64 = r
  OBVIOUS

\* The units of two bytes: a first byte of 192 or 193 would be an overlong form.
LEMMA UnitOfTwo ==
  ASSUME NEW a \in Byte, NEW b \in Byte
  PROVE  IsEncodedScalar(<<a, b>>) <=> UnitAccepted(<<a, b>>)
<1> DEFINE q == a % 32
           r == LowBits(b)
           cp == q * 64 + r
<1>1. CodePoint(<<a, b>>) = cp
  BY DEF CodePoint
<1>2. UnitAccepted(<<a, b>>) <=> a \in 194..223 /\ IsContinuation(b)
  BY LengthOfFirst DEF UnitAccepted, SecondByteAllowed
<1>3. q \in 0..31 /\ (192 + q = a <=> a \in 192..223) /\ (a \in 194..223 <=> a \in 192..223 /\ 2 <= q)
  BY DEF Byte
<1>4. r \in 0..63 /\ (IsContinuation(b) <=> b = 128 + r)
  BY LowBitsOfContinuations
<1> HIDE DEF q, r
<1>5. cp \in Nat /\ cp \div 64 = q /\ cp % 64 = r
  <2>1. q \in Nat /\ r \in 0..63
    BY <1>3, <1>4
  <2> QED
    BY <2>1, Base64
<1>6. cp < 2048 /\ (128 <= cp <=> 2 <= q)
  BY <1>3, <1>4
<1> HIDE DEF cp
<1>7. Encoding(cp) = <<a, b>> <=> a \in 194..223 /\ IsContinuation(b)
  <2>1. CASE ~(128 <= cp)
    <3>1. Len(Encoding(cp)) = 1 /\ Len(<<a, b>>) = 2
      BY <1>5, <2>1, EncodingLength
    <3> QED
      BY <1>3, <1>6, <2>1, <3>1
  <2>2. CASE 128 <= cp
    <3>1. Encoding(cp) = <<192 + (cp \div 64), Continuation(cp)>>
      BY <1>5, <1>6, <2>2, EncodingOfEach
    <3>2. Continuation(cp) = 128 + r
      BY <1>5 DEF Continuation, LowBits
    <3>3. Encoding(cp) = <<192 + q, 128 + r>>
      BY <1>5, <3>1, <3>2
    <3> QED
      BY <1>3, <1>4, <1>6, <2>2, <3>3
  <2> QED
    BY <2>1, <2>2
<1>8. IsScalarValue(cp)
  BY <1>5, <1>6, SMT DEF IsScalarValue
<1> QED
  BY <1>1, <1>2, <1>7, <1>8 DEF IsEncodedScalar

\* Six bits are shifted out at a time.
LEMMA DivisionsCompose ==
  ASSUME NEW cp \in Nat
  PROVE  /\ cp \div 64 \in Nat /\ cp \div 4096 \in Nat
         /\ cp \div 4096 = (cp \div 64) \div 64
         /\ cp \div 262144 = (cp \div 4096) \div 64
  BY SMT

\* The units of three bytes: the second byte keeps overlong forms and surrogates out.
LEMMA UnitOfThree ==
  ASSUME NEW a \in Byte, NEW b \in Byte, NEW c \in Byte
  PROVE  IsEncodedScalar(<<a, b, c>>) <=> UnitAccepted(<<a, b, c>>)
<1> DEFINE q == a % 16
           r == LowBits(b)
           s == LowBits(c)
           m == q * 64 + r
           cp == m * 64 + s
           InRange == 32 <= m /\ (m < 864 \/ 896 <= m)
<1>1. CodePoint(<<a, b, c>>) = cp
  <2>1. CodePoint(<<a, b, c>>) = q * 4096 + r * 64 + s
    BY SMT DEF CodePoint
  <2>2. q \in Int /\ r \in Int /\ s \in Int
    BY DEF LowBits, Byte
  <2> HIDE DEF q, r, s
  <2> QED
    BY <2>1, <2>2
<1>2. UnitAccepted(<<a, b, c>>) <=>
        /\ a \in 224..239 /\ IsContinuation(b) /\ IsContinuation(c)
        /\ a = 224 => b >= 160
        /\ a = 237 => b <= 159
  <2>1. \A j \in 2..3 : j = 2 \/ j = 3
    OBVIOUS
  <2>2. (\A j \in 2..3 : IsContinuation(<<a, b, c>>[j])) <=> IsContinuation(b) /\ IsContinuation(c)
    BY <2>1
  <2>3. SequenceLength(a) = 3 => (SecondByteAllowed(a, b) <=> (a = 224 => b >= 160) /\ (a = 237 => b <= 159))
    BY LengthOfFirst DEF SecondByteAllowed
  <2> QED
    BY <2>2, <2>3, LengthOfFirst DEF UnitAccepted
<1>3. q \in 0..15 /\ (224 + q = a <=> a \in 224..239)
  BY DEF Byte
<1>4. r \in 0..63 /\ (IsContinuation(b) <=> b = 128 + r)
  BY LowBitsOfContinuations
<1>5. s \in 0..63 /\ (IsContinuation(c) <=> c = 128 + s)
  BY LowBitsOfContinuations
<1> HIDE DEF q, r, s
<1>6. m \in 0..1023 /\ m \div 64 = q /\ m % 64 = r
  <2>1. q \in Nat /\ r \in 0..63
    BY <1>3, <1>4
  <2>2. m \in Nat /\ m \div 64 = q /\ m % 64 = r
    BY <2>1, Base64
  <2>3. m <= 1023
    BY <1>3, <1>4
  <2> HIDE DEF m
  <2> QED
    BY <2>2, <2>3
<1>7. a = 224 + q /\ b = 128 + r =>
        (InRange <=> (a = 224 => b >= 160) /\ (a = 237 => b <= 159))
  BY <1>3, <1>4
<1> HIDE DEF m
<1>8. cp \in Nat /\ cp \div 64 = m /\ cp % 64 = s
  <2>1. m \in Nat /\ s \in 0..63
    BY <1>6, <1>5
  <2> QED
    BY <2>1, Base64
<1>9. cp < 65536 /\ (2048 <= cp <=> 32 <= m)
      /\ (cp < 55296 <=> m < 864) /\ (57344 <= cp <=> 896 <= m)
  BY <1>5, <1>6
<1> HIDE DEF cp
<1>10. IsScalarValue(cp) /\ Encoding(cp) = <<a, b, c>> <=>
         InRange /\ a = 224 + q /\ b = 128 + r /\ c = 128 + s
  <2>1. IsScalarValue(cp) <=> m < 864 \/ 896 <= m
    BY <1>8, <1>9, SMT DEF IsScalarValue
  <2>2. CASE ~(2048 <= cp)
    <3>1. Len(Encoding(cp)) # 3 /\ Len(<<a, b, c>>) = 3
      BY <1>8, <2>2, EncodingLength
    <3> QED
      BY <1>9, <2>2, <3>1
  <2>3. CASE 2048 <= cp
    <3>1. Encoding(cp) = <<224 + (cp \div 4096), Continuation(cp \div 64), Continuation(cp)>>
      BY <1>8, <1>9, <2>3, EncodingOfEach
    <3>2. cp \div 4096 = q
      BY <1>6, <1>8, DivisionsCompose
    <3>3. Continuation(cp \div 64) = 128 + r /\ Continuation(cp) = 128 + s
      BY <1>6, <1>8 DEF Continuation, LowBits
    <3>4. Encoding(cp) = <<224 + q, 128 + r, 128 + s>>
      BY <3>1, <3>2, <3>3
    <3> QED
      BY <1>9, <2>1, <2>3, <3>4
  <2> QED
    BY <2>2, <2>3
<1> HIDE DEF InRange
<1> QED
  BY <1>1, <1>2, <1>3, <1>4, <1>5, <1>7, <1>10 DEF IsEncodedScalar

\* The units of four bytes: the second byte keeps overlong forms out and code points
\* above U+10FFFF.
LEMMA UnitOfFour ==
  ASSUME NEW a \in Byte, NEW b \in Byte, NEW c \in Byte, NEW d \in Byte
  PROVE  IsEncodedScalar(<<a, b, c, d>>) <=> UnitAccepted(<<a, b, c, d>>)
<1> DEFINE q == a % 8
           r == LowBits(b)
           s == LowBits(c)
           t == LowBits(d)
           m == q * 64 + r
           n == m * 64 + s
           cp == n * 64 + t
           InRange == 16 <= m /\ m < 272
<1>1. CodePoint(<<a, b, c, d>>) = cp
  <2>1. CodePoint(<<a, b, c, d>>) = q * 262144 + r * 4096 + s * 64 + t
    BY SMT DEF CodePoint
  <2>2. q \in Int /\ r \in Int /\ s \in Int /\ t \in Int
    BY DEF LowBits, Byte
  <2> HIDE DEF q, r, s, t
  <2> QED
    BY <2>1, <2>2
<1>2. UnitAccepted(<<a, b, c, d>>) <=>
        /\ a \in 240..244 /\ IsContinuation(b) /\ IsContinuation(c) /\ IsContinuation(d)
        /\ a = 240 => b >= 144
        /\ a = 244 => b <= 143
  <2>1. \A j \in 2..4 : j = 2 \/ j = 3 \/ j = 4
    OBVIOUS
  <2>2. (\A j \in 2..4 : IsContinuation(<<a, b, c, d>>[j])) <=>
          IsContinuation(b) /\ IsContinuation(c) /\ IsContinuation(d)
    BY <2>1
  <2>3. SequenceLength(a) = 4 => (SecondByteAllowed(a, b) <=> (a = 240 => b >= 144) /\ (a = 244 => b <= 143))
    BY LengthOfFirst DEF SecondByteAllowed
  <2> QED
    BY <2>2, <2>3, LengthOfFirst DEF UnitAccepted
<1>3. q \in 0..7 /\ (240 + q = a <=> a \in 240..247)
  BY DEF Byte
<1>4. r \in 0..63 /\ (IsContinuation(b) <=> b = 128 + r)
  BY LowBitsOfContinuations
<1>5. s \in 0..63 /\ (IsContinuation(c) <=> c = 128 + s)
  BY LowBitsOfContinuations
<1>6. t \in 0..63 /\ (IsContinuation(d) <=> d = 128 + t)
  BY LowBitsOfContinuations
<1> HIDE DEF q, r, s, t
<1>7. m \in 0..511 /\ m \div 64 = q /\ m % 64 = r
  <2>1. q \in Nat /\ r \in 0..63
    BY <1>3, <1>4
  <2>2. m \in Nat /\ m \div 64 = q /\ m % 64 = r
    BY <2>1, Base64
  <2>3. m <= 511
    BY <1>3, <1>4
  <2> HIDE DEF m
  <2> QED
    BY <2>2, <2>3
<1>8. a = 240 + q /\ b = 128 + r =>
        (InRange <=> a \in 240..244 /\ (a = 240 => b >= 144) /\ (a = 244 => b <= 143))
  BY <1>3, <1>4
<1> HIDE DEF m
<1>9. n \in Nat /\ n \div 64 = m /\ n % 64 = s
  <2>1. m \in Nat /\ s \in 0..63
    BY <1>5, <1>7
  <2> QED
    BY <2>1, Base64
<1>10. cp \in Nat /\ cp \div 64 = n /\ cp % 64 = t
  <2>1. n \in Nat /\ t \in 0..63
    BY <1>6, <1>9
  <2> QED
    BY <2>1, Base64
<1>11. (65536 <= cp <=> 16 <= m) /\ (cp <= 1114111 <=> m < 272)
  BY <1>5, <1>6, <1>7
<1> HIDE DEF n, cp
<1>12. IsScalarValue(cp) /\ Encoding(cp) = <<a, b, c, d>> <=>
         InRange /\ a = 240 + q /\ b = 128 + r /\ c = 128 + s /\ d = 128 + t
  <2>1. CASE ~(65536 <= cp)
    <3>1. Len(Encoding(cp)) # 4 /\ Len(<<a, b, c, d>>) = 4
      BY <1>10, <2>1, EncodingLength
    <3> QED
      BY <1>11, <2>1, <3>1
  <2>2. CASE 65536 <= cp
    <3>1. Encoding(cp) = <<240 + (cp \div 262144), Continuation(cp \div 4096),
                           Continuation(cp \div 64), Continuation(cp)>>
      BY <1>10, <2>2, EncodingOfEach
    <3>2. cp \div 4096 = m /\ cp \div 262144 = q
      BY <1>7, <1>9, <1>10, DivisionsCompose
    <3>3. /\ Continuation(cp \div 4096) = 128 + r
          /\ Continuation(cp \div 64) = 128 + s
          /\ Continuation(cp) = 128 + t
      BY <1>7, <1>9, <1>10, <3>2 DEF Continuation, LowBits
    <3>4. Encoding(cp) = <<240 + q, 128 + r, 128 + s, 128 + t>>
      BY <3>1, <3>2, <3>3
    <3>5. IsScalarValue(cp) <=> m < 272
      BY <1>10, <1>11, <2>2, SMT DEF IsScalarValue
    <3> QED
      BY <1>11, <2>2, <3>4, <3>5
  <2> QED
    BY <2>1, <2>2
<1> HIDE DEF InRange
<1>13. a \in 240..244 => a \in 240..247
  OBVIOUS
<1>14. InRange /\ a = 240 + q /\ b = 128 + r => a \in 240..244
  BY <1>8
<1> QED
  BY <1>1, <1>2, <1>3, <1>4, <1>5, <1>6, <1>8, <1>12, <1>13, <1>14 DEF IsEncodedScalar

-----------------------------------------------------------------------------
\* A piece of 1 to 4 bytes of a text is the encoding of a scalar value exactly
\* when the tests of the loop's body pass for it.
LEMMA UnitsAreScalars ==
  ASSUME NEW t \in Seq(Byte), NEW i \in 1 .. Len(t), NEW n \in 1..4, i + n - 1 <= Len(t)
  PROVE  IsEncodedScalar(SubSeq(t, i, i + n - 1)) <=>
           /\ SequenceLength(t[i]) = n
           /\ \A j \in 1 .. n - 1 : IsContinuation(t[i + j])
           /\ n > 1 => SecondByteAllowed(t[i], t[i + 1])
<1> DEFINE u == SubSeq(t, i, i + n - 1)
<1>1. Len(u) = n /\ \A j \in 1..n : u[j] = t[i + j - 1] /\ u[j] \in Byte
  OBVIOUS
<1>2. u \in Seq(Byte)
  OBVIOUS
<1> HIDE DEF u
<1>3. UnitAccepted(u) <=> IsEncodedScalar(u)
  <2>1. CASE n = 1
    <3>1. u = <<u[1]>> /\ u[1] \in Byte
      BY <1>1, <1>2, <2>1
    <3> QED
      BY <3>1, UnitOfOne
  <2>2. CASE n = 2
    <3>1. u = <<u[1], u[2]>> /\ u[1] \in Byte /\ u[2] \in Byte
      BY <1>1, <1>2, <2>2
    <3> QED
      BY <3>1, UnitOfTwo
  <2>3. CASE n = 3
    <3>1. u = <<u[1], u[2], u[3]>> /\ u[1] \in Byte /\ u[2] \in Byte /\ u[3] \in Byte
      BY <1>1, <1>2, <2>3
    <3> QED
      BY <3>1, UnitOfThree
  <2>4. CASE n = 4
    <3>1. /\ u = <<u[1], u[2], u[3], u[4]>>
          /\ u[1] \in Byte /\ u[2] \in Byte /\ u[3] \in Byte /\ u[4] \in Byte
      BY <1>1, <1>2, <2>4
    <3> QED
      BY <3>1, UnitOfFour
  <2> QED
    BY <2>1, <2>2, <2>3, <2>4
<1>4. u[1] = t[i] /\ (n > 1 => u[2] = t[i + 1])
  BY <1>1
<1>5. (\A j \in 2..n : IsContinuation(u[j])) <=> \A j \in 1 .. n - 1 : IsContinuation(t[i + j])
  <2>1. ASSUME \A j \in 2..n : IsContinuation(u[j]), NEW j \in 1 .. n - 1
        PROVE  IsContinuation(t[i + j])
    <3>1. j + 1 \in 2..n /\ i + (j + 1) - 1 = i + j
      OBVIOUS
    <3>2. u[j + 1] = t[i + j]
      BY <1>1, <3>1
    <3> QED
      BY <2>1, <3>1, <3>2
  <2>2. ASSUME \A j \in 1 .. n - 1 : IsContinuation(t[i + j]), NEW j \in 2..n
        PROVE  IsContinuation(u[j])
    <3>1. j - 1 \in 1 .. n - 1 /\ i + (j - 1) = i + j - 1 /\ j \in 1..n
      OBVIOUS
    <3>2. u[j] = t[i + (j - 1)]
      BY <1>1, <3>1
    <3> QED
      BY <2>2, <3>1, <3>2
  <2> QED
    BY <2>1, <2>2
<1>6. UnitAccepted(u) <=>
        /\ SequenceLength(t[i]) = n
        /\ \A j \in 1 .. n - 1 : IsContinuation(t[i + j])
        /\ n > 1 => SecondByteAllowed(t[i], t[i + 1])
  BY <1>1, <1>4, <1>5 DEF UnitAccepted
<1> QED
  BY <1>3, <1>6 DEF u

-----------------------------------------------------------------------------
(* Loop and definition as one step that looks at what holds after it *)

\* One round of the loop at index i.
LoopStep(t, i, rest) ==
  i <= Len(t) =>
    LET length == SequenceLength(t[i])
    IN  /\ length # 0
        /\ i + length - 1 <= Len(t)
        /\ \A j \in 1 .. length - 1 : IsContinuation(t[i + j])
        /\ length > 1 => SecondByteAllowed(t[i], t[i + 1])
        /\ rest[i + length]

\* One scalar value of a well-formed text.
ScalarStep(t, i, rest) ==
  \/ i = Len(t) + 1
  \/ \E n \in 1..4 : /\ i + n - 1 <= Len(t)
                     /\ IsEncodedScalar(SubSeq(t, i, i + n - 1))
                     /\ rest[i + n]

\* The recursive functions of isValidUtf8 and WellFormed.
Scan(t) == CHOOSE f : f = [i \in 1 .. Len(t) + 1 |-> LoopStep(t, i, f)]
From(t) == CHOOSE f : f = [i \in 1 .. Len(t) + 1 |-> ScalarStep(t, i, f)]

\* They are.
LEMMA RecursiveFunctions ==
  ASSUME NEW t
  PROVE  (isValidUtf8(t) <=> Scan(t)[1]) /\ (WellFormed(t) <=> From(t)[1])
<1>1. isValidUtf8(t) <=> Scan(t)[1]
  BY Zenon DEF isValidUtf8, Scan, LoopStep
<1>2. WellFormed(t) <=> From(t)[1]
  BY Zenon DEF WellFormed, From, ScalarStep
<1> QED
  BY <1>1, <1>2

\* Their values are truth values.
LEMMA StepsAreBoolean ==
  ASSUME NEW t, NEW i, NEW rest
  PROVE  LoopStep(t, i, rest) \in BOOLEAN /\ ScalarStep(t, i, rest) \in BOOLEAN
  BY DEF LoopStep, ScalarStep

\* Both take the same step from every place, whatever holds after it: the length that
\* the first byte announces is the only one that a scalar value can have there.
LEMMA SameStep ==
  ASSUME NEW t \in Seq(Byte), NEW i \in 1 .. Len(t) + 1, NEW rest
  PROVE  LoopStep(t, i, rest) = ScalarStep(t, i, rest)
<1>1. CASE i = Len(t) + 1
  <2>1. ~(i <= Len(t))
    BY <1>1
  <2>2. LoopStep(t, i, rest) /\ ScalarStep(t, i, rest)
    BY <1>1, <2>1 DEF LoopStep, ScalarStep
  <2> QED
    BY <2>2, StepsAreBoolean
<1>2. CASE i \in 1 .. Len(t)
  <2> DEFINE length == SequenceLength(t[i])
             Accepted(n) == /\ SequenceLength(t[i]) = n
                            /\ \A j \in 1 .. n - 1 : IsContinuation(t[i + j])
                            /\ n > 1 => SecondByteAllowed(t[i], t[i + 1])
             IsUnit(n) == IsEncodedScalar(SubSeq(t, i, i + n - 1))
  <2>1. ASSUME NEW n \in 1..4, i + n - 1 <= Len(t)
        PROVE  IsUnit(n) <=> Accepted(n)
    BY <1>2, <2>1, UnitsAreScalars
  <2>2. length \in 0..4
    BY <1>2, LengthOfFirst
  <2>3. \A n \in 1..4 : Accepted(n) => n = length
    OBVIOUS
  <2>4. (/\ length # 0
         /\ i + length - 1 <= Len(t)
         /\ Accepted(length)
         /\ rest[i + length])
        <=> \E n \in 1..4 : /\ i + n - 1 <= Len(t)
                            /\ IsUnit(n)
                            /\ rest[i + n]
    <3> HIDE DEF length, Accepted, IsUnit
    <3> QED
      BY <2>1, <2>2, <2>3
  <2>5. i <= Len(t) /\ i # Len(t) + 1
    BY <1>2
  <2>6. LoopStep(t, i, rest) <=> ScalarStep(t, i, rest)
    BY <2>4, <2>5 DEF LoopStep, ScalarStep
  <2> QED
    BY <2>6, StepsAreBoolean
<1> QED
  BY <1>1, <1>2

\* isValidUtf8 accepts a text of any length exactly when it is a concatenation of
\* encoded scalar values (frame.hpp:33-86).
THEOREM ValidIsWellFormed ==
  \A t \in Seq(Byte) : isValidUtf8(t) <=> WellFormed(t)
<1> SUFFICES ASSUME NEW t \in Seq(Byte) PROVE isValidUtf8(t) <=> WellFormed(t)
  OBVIOUS
<1>1. \A f : \A i \in 1 .. Len(t) + 1 : LoopStep(t, i, f) = ScalarStep(t, i, f)
  BY SameStep
<1>2. \A f : [i \in 1 .. Len(t) + 1 |-> LoopStep(t, i, f)]
             = [i \in 1 .. Len(t) + 1 |-> ScalarStep(t, i, f)]
  BY <1>1
<1>3. Scan(t) = From(t)
  BY <1>2 DEF Scan, From
<1> QED
  BY <1>3, RecursiveFunctions

-----------------------------------------------------------------------------
(* The recursion is well founded *)

\* A set of natural numbers that is not empty has a least element: the induction
\* used below is the search for the smallest counterexample.
LEMMA LeastNatural ==
  ASSUME NEW T \in SUBSET Nat, T # {}
  PROVE  \E m \in T : \A k \in T : m <= k
<1> DEFINE R == OpToRel(<, Nat)
<1>1. IsWellFoundedOn(R, Nat)
  BY NatLessThanWellFounded, Zenon
<1> HIDE DEF R
<1>2. PICK m \in T : \A k \in T : ~(<<k, m>> \in R)
  BY <1>1, WFMin
<1>3. ASSUME NEW k \in T PROVE m <= k
  <2>1. m \in Nat /\ k \in Nat
    OBVIOUS
  <2>2. SUFFICES ASSUME k < m PROVE FALSE
    BY <2>1
  <2>3. <<k, m>> \in R
    BY <2>1, <2>2 DEF R, OpToRel
  <2> QED
    BY <1>2, <2>3
<1> QED
  BY <1>3

\* A step only looks at later places.
LEMMA StepLooksAhead ==
  ASSUME NEW t \in Seq(Byte), NEW i \in 1 .. Len(t) + 1, NEW f, NEW g,
         \A j \in i + 1 .. Len(t) + 1 : f[j] = g[j]
  PROVE  ScalarStep(t, i, f) = ScalarStep(t, i, g)
<1>1. \A n \in 1..4 : i + n - 1 <= Len(t) => f[i + n] = g[i + n]
  OBVIOUS
<1> QED
  BY <1>1 DEF ScalarStep

\* From(t) satisfies the equation it is chosen by.
LEMMA FromIsDefined ==
  ASSUME NEW t \in Seq(Byte)
  PROVE  From(t) = [i \in 1 .. Len(t) + 1 |-> ScalarStep(t, i, From(t))]
<1> DEFINE L == Len(t)
           Fits(k, f) == f = [i \in k .. L + 1 |-> ScalarStep(t, i, f)]
           T == {d \in 0..L : ~\E f : Fits(L + 1 - d, f)}
<1>1. L \in Nat
  OBVIOUS
<1> HIDE DEF L
<1>2. ASSUME NEW k \in 1..L, NEW f, Fits(k + 1, f)
      PROVE  \E g : Fits(k, g)
  <2> DEFINE g == [i \in k .. L + 1 |-> ScalarStep(t, i, f)]
  <2>1. \A i \in k + 1 .. L + 1 : f[i] = g[i]
    <3>1. \A i \in k + 1 .. L + 1 : f[i] = ScalarStep(t, i, f)
      BY <1>2, Zenon
    <3>2. k + 1 .. L + 1 \subseteq k .. L + 1
      BY <1>1
    <3>3. \A i \in k .. L + 1 : g[i] = ScalarStep(t, i, f)
      OBVIOUS
    <3> HIDE DEF g, Fits
    <3> QED
      BY <3>1, <3>2, <3>3
  <2>2. \A i \in k .. L + 1 : ScalarStep(t, i, f) = ScalarStep(t, i, g)
    <3> HIDE DEF g, Fits
    <3> SUFFICES ASSUME NEW i \in k .. L + 1 PROVE ScalarStep(t, i, f) = ScalarStep(t, i, g)
      OBVIOUS
    <3>1. \A j \in i + 1 .. L + 1 : f[j] = g[j]
      BY <1>1, <2>1
    <3>2. i \in 1 .. L + 1
      BY <1>1
    <3> QED
      BY <3>1, <3>2, StepLooksAhead DEF L
  <2>3. Fits(k, g)
    BY <2>2
  <2> QED
    BY <2>3
<1>3. \E f : Fits(L + 1, f)
  <2> DEFINE f == [i \in L + 1 .. L + 1 |-> TRUE]
  <2>1. \A i \in L + 1 .. L + 1 : ScalarStep(t, i, f) = TRUE
    BY <1>1 DEF ScalarStep, L
  <2>2. Fits(L + 1, f)
    BY <2>1
  <2> QED
    BY <2>2
<1> HIDE DEF Fits
<1>4. T = {}
  <2> SUFFICES ASSUME T # {} PROVE FALSE
    OBVIOUS
  <2>1. PICK d \in T : \A e \in T : d <= e
    <3>1. T \in SUBSET Nat /\ T # {}
      BY <1>1
    <3> HIDE DEF T
    <3> QED
      BY <3>1, LeastNatural
  <2>2. d \in 0..L /\ ~\E f : Fits(L + 1 - d, f)
    OBVIOUS
  <2>3. d # 0
    BY <1>1, <1>3, <2>2
  <2>4. d - 1 \in 0..L /\ d - 1 \notin T
    <3>1. d - 1 \in 0..L /\ ~(d <= d - 1)
      BY <1>1, <2>2, <2>3
    <3> HIDE DEF T
    <3> QED
      BY <2>1, <3>1
  <2>5. PICK f : Fits(L + 1 - (d - 1), f)
    BY <2>4
  <2> DEFINE k == L + 1 - d
  <2>6. k \in 1..L /\ L + 1 - (d - 1) = k + 1
    BY <1>1, <2>2, <2>3
  <2>7. \E g : Fits(k, g)
    BY <1>2, <2>5, <2>6
  <2> QED
    BY <2>2, <2>7
<1>5. \E f : Fits(1, f)
  <2>1. L \in 0..L /\ L + 1 - L = 1
    BY <1>1
  <2> QED
    BY <1>4, <2>1
<1> QED
  BY <1>5 DEF Fits, L, From

\* What follows a place of a text is well-formed from there on as a text of its own.
LEMMA SuffixesAgree ==
  ASSUME NEW t \in Seq(Byte), NEW n \in 0 .. Len(t)
  PROVE  LET s == SubSeq(t, n + 1, Len(t))
         IN  \A j \in 1 .. Len(s) + 1 : From(s)[j] = From(t)[j + n]
<1> DEFINE s == SubSeq(t, n + 1, Len(t))
           T == {d \in 0 .. Len(s) : From(s)[Len(s) + 1 - d] # From(t)[Len(s) + 1 - d + n]}
<1>1. s \in Seq(Byte) /\ Len(s) = Len(t) - n /\ \A j \in 1 .. Len(s) : s[j] = t[j + n]
  OBVIOUS
<1>2. ASSUME NEW j \in 1 .. Len(s), NEW k \in j .. Len(s)
      PROVE  SubSeq(s, j, k) = SubSeq(t, j + n, k + n)
  OBVIOUS
<1> HIDE DEF s
<1>3. ASSUME NEW j \in 1 .. Len(s) + 1,
             \A i \in j + 1 .. Len(s) + 1 : From(s)[i] = From(t)[i + n]
      PROVE  From(s)[j] = From(t)[j + n]
  <2>1. From(s)[j] = ScalarStep(s, j, From(s))
    BY <1>1, FromIsDefined
  <2>2. j + n \in 1 .. Len(t) + 1
    BY <1>1
  <2>3. From(t)[j + n] = ScalarStep(t, j + n, From(t))
    BY <2>2, FromIsDefined
  <2>4. j = Len(s) + 1 <=> j + n = Len(t) + 1
    BY <1>1
  <2>5. ASSUME NEW m \in 1..4
        PROVE  j + m - 1 <= Len(s) <=> (j + n) + m - 1 <= Len(t)
    BY <1>1
  <2>6. ASSUME NEW m \in 1..4, j + m - 1 <= Len(s)
        PROVE  /\ SubSeq(s, j, j + m - 1) = SubSeq(t, j + n, (j + n) + m - 1)
               /\ From(s)[j + m] = From(t)[(j + n) + m]
    <3>1. j + m \in j + 1 .. Len(s) + 1 /\ (j + m) + n = (j + n) + m
      BY <1>1, <2>6
    <3>2. /\ j \in 1 .. Len(s) /\ j + m - 1 \in j .. Len(s)
          /\ (j + m - 1) + n = (j + n) + m - 1
      BY <1>1, <2>6
    <3>3. SubSeq(s, j, j + m - 1) = SubSeq(t, j + n, (j + m - 1) + n)
      BY <1>2, <3>2
    <3>4. From(s)[j + m] = From(t)[(j + m) + n]
      BY <1>3, <3>1
    <3> QED
      BY <3>1, <3>2, <3>3, <3>4
  <2>7. ScalarStep(s, j, From(s)) <=> ScalarStep(t, j + n, From(t))
    BY <2>4, <2>5, <2>6 DEF ScalarStep
  <2> QED
    BY <2>1, <2>3, <2>7, StepsAreBoolean
<1>4. T = {}
  <2> SUFFICES ASSUME T # {} PROVE FALSE
    OBVIOUS
  <2>1. PICK d \in T : \A e \in T : d <= e
    <3>1. T \in SUBSET Nat /\ T # {}
      BY <1>1
    <3> HIDE DEF T
    <3> QED
      BY <3>1, LeastNatural
  <2> DEFINE j == Len(s) + 1 - d
  <2>2. d \in 0 .. Len(s) /\ From(s)[j] # From(t)[j + n]
    OBVIOUS
  <2>3. j \in 1 .. Len(s) + 1
    BY <1>1, <2>2
  <2>4. ASSUME NEW i \in j + 1 .. Len(s) + 1 PROVE From(s)[i] = From(t)[i + n]
    <3> DEFINE e == Len(s) + 1 - i
    <3>1. e \in 0 .. Len(s) /\ e < d /\ Len(s) + 1 - e = i /\ d \in Int
      BY <1>1, <2>2, <2>4
    <3>2. e \notin T
      BY <2>1, <3>1
    <3> HIDE DEF e
    <3> QED
      BY <3>1, <3>2
  <2> QED
    BY <1>3, <2>2, <2>3, <2>4
<1>5. ASSUME NEW j \in 1 .. Len(s) + 1 PROVE From(s)[j] = From(t)[j + n]
  <2>1. Len(s) + 1 - j \in 0 .. Len(s) /\ Len(s) + 1 - (Len(s) + 1 - j) = j
    BY <1>1
  <2> QED
    BY <1>4, <2>1
<1> QED
  BY <1>5 DEF s

\* Read from the front, for texts of any length: the empty text is valid, and any other
\* exactly when it is a scalar value's encoding followed by a valid text (frame.hpp:33-86).
\* With ValidIsWellFormed this leaves no choice for what isValidUtf8 answers.
THEOREM ValidTextsAreScalars ==
  \A t \in Seq(Byte) :
    isValidUtf8(t) <=>
      \/ t = <<>>
      \/ \E n \in 1..4 : /\ n <= Len(t)
                         /\ IsEncodedScalar(SubSeq(t, 1, n))
                         /\ isValidUtf8(SubSeq(t, n + 1, Len(t)))
<1> SUFFICES ASSUME NEW t \in Seq(Byte)
             PROVE  isValidUtf8(t) <=>
                      \/ t = <<>>
                      \/ \E n \in 1..4 : /\ n <= Len(t)
                                         /\ IsEncodedScalar(SubSeq(t, 1, n))
                                         /\ isValidUtf8(SubSeq(t, n + 1, Len(t)))
  OBVIOUS
<1>1. isValidUtf8(t) <=> From(t)[1]
  BY ValidIsWellFormed, RecursiveFunctions
<1>2. From(t)[1] = ScalarStep(t, 1, From(t))
  BY FromIsDefined
<1>3. 1 = Len(t) + 1 <=> t = <<>>
  OBVIOUS
<1>4. ASSUME NEW n \in 1..4, n <= Len(t)
      PROVE  isValidUtf8(SubSeq(t, n + 1, Len(t))) <=> From(t)[1 + n]
  <2> DEFINE s == SubSeq(t, n + 1, Len(t))
  <2>1. s \in Seq(Byte) /\ 1 \in 1 .. Len(s) + 1
    BY <1>4
  <2>2. From(s)[1] = From(t)[1 + n]
    BY <1>4, <2>1, SuffixesAgree
  <2> HIDE DEF s
  <2>3. isValidUtf8(s) <=> From(s)[1]
    BY <2>1, ValidIsWellFormed, RecursiveFunctions
  <2> QED
    BY <2>2, <2>3 DEF s
<1>5. \A n \in 1..4 : 1 + n - 1 = n
  OBVIOUS
<1>6. ScalarStep(t, 1, From(t)) <=>
        \/ t = <<>>
        \/ \E n \in 1..4 : /\ n <= Len(t)
                           /\ IsEncodedScalar(SubSeq(t, 1, n))
                           /\ From(t)[1 + n]
  BY <1>3, <1>5 DEF ScalarStep
<1> QED
  BY <1>1, <1>2, <1>4, <1>6

-----------------------------------------------------------------------------
\* The text under test stays a sequence of bytes.
LEMMA TextsAreBytes == Spec => [](text \in Seq(Byte))
<1>1. Init => text \in Seq(Byte)
  BY DEF Init
<1>2. text \in Seq(Byte) /\ [Next]_text => (text \in Seq(Byte))'
  BY AlphabetAssumption DEF Next, AppendByte, Done
<1> QED
  BY <1>1, <1>2, PTL DEF Spec

\* The property of the run, for every alphabet of bytes and every length: no overlong
\* form, no surrogate, nothing above U+10FFFF, no truncated or stray byte is accepted,
\* and nothing else is refused (frame.hpp:33-86).
THEOREM ScanIsUtf8 == Spec => []ScanAcceptsExactlyUtf8
<1>1. text \in Seq(Byte) => ScanAcceptsExactlyUtf8
  BY ValidIsWellFormed DEF ScanAcceptsExactlyUtf8
<1> QED
  BY <1>1, TextsAreBytes, PTL
====
