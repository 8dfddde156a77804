------------------------------- MODULE MC_Utf8 -------------------------------
(***************************************************************************)
(* Checks isValidUtf8 against the definition of UTF-8: a text is           *)
(* well-formed when it is a concatenation of the encodings of Unicode      *)
(* scalar values.  The text grows by one byte of Alphabet at a time, up to *)
(* MaxLength bytes; Alphabet holds the values on both sides of every       *)
(* comparison of the code.                                                 *)
(***************************************************************************)
EXTENDS Utf8

CONSTANTS Alphabet, MaxLength

ASSUME AlphabetAssumption == Alphabet \subseteq Byte /\ MaxLength \in Nat

VARIABLE text

\* The bytes on both sides of each boundary that isValidUtf8 tests.
BoundaryBytes == {0, 127, 128, 143, 144, 159, 160, 191, 192, 193, 194, 223,
                  224, 236, 237, 238, 240, 241, 244, 245, 255}

Init == text = <<>>
AppendByte == Len(text) < MaxLength /\ \E b \in Alphabet : text' = Append(text, b)
Done == Len(text) = MaxLength /\ UNCHANGED text
Next == AppendByte \/ Done
Spec == Init /\ [][Next]_text

-----------------------------------------------------------------------------
\* The code point that the low bits of a unit of 1 to 4 bytes spell.
LowBits(b) == b % 64
CodePoint(u) ==
  CASE Len(u) = 1 -> u[1]
    [] Len(u) = 2 -> (u[1] % 32) * 64 + LowBits(u[2])
    [] Len(u) = 3 -> (u[1] % 16) * 4096 + LowBits(u[2]) * 64 + LowBits(u[3])
    [] Len(u) = 4 -> (u[1] % 8) * 262144 + LowBits(u[2]) * 4096
                       + LowBits(u[3]) * 64 + LowBits(u[4])

IsScalarValue(cp) == (0 <= cp /\ cp < 55296) \/ (57344 <= cp /\ cp <= 1114111)

\* The one encoding that UTF-8 gives a scalar value.
Continuation(n) == 128 + LowBits(n)
Encoding(cp) ==
  CASE cp < 128 -> <<cp>>
    [] 128 <= cp /\ cp < 2048 -> <<192 + (cp \div 64), Continuation(cp)>>
    [] 2048 <= cp /\ cp < 65536 ->
         <<224 + (cp \div 4096), Continuation(cp \div 64), Continuation(cp)>>
    [] cp >= 65536 ->
         <<240 + (cp \div 262144), Continuation(cp \div 4096),
           Continuation(cp \div 64), Continuation(cp)>>

IsEncodedScalar(u) == IsScalarValue(CodePoint(u)) /\ Encoding(CodePoint(u)) = u

WellFormed(t) ==
  LET from[i \in 1 .. Len(t) + 1] ==
        \/ i = Len(t) + 1
        \/ \E n \in 1..4 : /\ i + n - 1 <= Len(t)
                           /\ IsEncodedScalar(SubSeq(t, i, i + n - 1))
                           /\ from[i + n]
  IN  from[1]

\* isValidUtf8 accepts exactly the well-formed texts: no overlong form, no
\* surrogate, nothing above U+10FFFF, no truncated or stray byte, wherever in
\* the text it stands (frame.hpp:33-86).
ScanAcceptsExactlyUtf8 == isValidUtf8(text) <=> WellFormed(text)
=============================================================================
