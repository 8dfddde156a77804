-------------------------------- MODULE Utf8 --------------------------------
(***************************************************************************)
(* isValidUtf8 of shared/include/chathub/contracts/frame.hpp: the check    *)
(* that both encodeFrame and FrameDecoder make of a whole body.  A text is *)
(* a sequence of bytes.  The while loop over the index i is the recursive  *)
(* function scan (TLA+ indices start at 1).                                *)
(***************************************************************************)
EXTENDS Integers, Sequences

Byte == 0..255

\* The length the first byte of a character announces; 0 is "return false".
SequenceLength(c) ==
  CASE c <= 127 -> 1
    [] c \in 194..223 -> 2
    [] c \in 224..239 -> 3
    [] c \in 240..244 -> 4
    [] OTHER -> 0

IsContinuation(b) == b \in 128..191

\* A bug that would accept UTF-16 surrogates: the 0xED test is missing.
SecondByteAllowedWithoutSurrogateTest(c, second) ==
  /\ c = 224 => second >= 160
  /\ c = 240 => second >= 144
  /\ c = 244 => second <= 143

\* The four tests on the second byte: overlong forms, surrogates, > U+10FFFF.
SecondByteAllowed(c, second) ==
  /\ c = 224 => second >= 160
  /\ c = 237 => second <= 159
  /\ c = 240 => second >= 144
  /\ c = 244 => second <= 143

isValidUtf8(text) ==
  LET size == Len(text)
      scan[i \in 1 .. size + 1] ==
        i <= size =>
          LET length == SequenceLength(text[i])
          IN  /\ length # 0
              /\ i + length - 1 <= size
              /\ \A j \in 1 .. length - 1 : IsContinuation(text[i + j])
              /\ length > 1 => SecondByteAllowed(text[i], text[i + 1])
              /\ scan[i + length]
  IN  scan[1]
=============================================================================
