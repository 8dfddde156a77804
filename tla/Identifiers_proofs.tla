------------------------- MODULE Identifiers_proofs -------------------------
(***************************************************************************)
(* Proofs about account names, UUIDs and numbers, for texts of any bytes   *)
(* and any length.                                                         *)
(*                                                                         *)
(* Names and ids go byte by byte: lower changes a capital letter into its  *)
(* small one, which is a letter too, and leaves the rest alone.            *)
(*                                                                         *)
(* Numbers go digit by digit.  The recursive functions of Value and        *)
(* toDecimalString are first shown to exist (UpToIsDefined,                *)
(* WrittenIsDefined); then reading undoes writing (WrittenIsRead), writing *)
(* undoes reading (ReadIsWritten), and DecimalSeq accepts what they agree  *)
(* on.  Every induction is the search for a smallest counterexample.       *)
(***************************************************************************)
EXTENDS MC_Identifiers, SequenceTheorems, WellFoundedInduction, TLAPS

Bytes == 0..255

\* What toLowerAscii does to a byte.
LEMMA LowerFacts ==
  ASSUME NEW c \in Bytes
  PROVE  /\ lower(c) \in Bytes /\ lower(lower(c)) = lower(c)
         /\ lower(c) \in Letter <=> c \in Letter
         /\ lower(c) \in Digit <=> c \in Digit
         /\ c \in Hex \union {Hyphen} => lower(c) = c
  BY DEF Bytes, lower, Letter, Upper, Lower, Digit, Hex, Hyphen

\* And to a text.
LEMMA LowerText ==
  ASSUME NEW t \in Seq(Bytes)
  PROVE  /\ toLowerAscii(t) \in Seq(Bytes) /\ Len(toLowerAscii(t)) = Len(t)
         /\ \A i \in 1 .. Len(t) : t[i] \in Bytes /\ toLowerAscii(t)[i] = lower(t[i])
<1>1. \A i \in 1 .. Len(t) : t[i] \in Bytes /\ lower(t[i]) \in Bytes
  BY LowerFacts
<1> QED
  BY <1>1 DEF toLowerAscii

\* A text and its lower case are both names, or neither is.
LEMMA LowerKeepsNames ==
  ASSUME NEW name \in Seq(Bytes)
  PROVE  isAccountName(toLowerAscii(name)) <=> isAccountName(name)
<1> DEFINE low == toLowerAscii(name)
<1>1. Len(low) = Len(name) /\ Len(name) \in Nat
  BY LowerText
<1>2. \A i \in 1 .. Len(name) : (low[i] \in Letter <=> name[i] \in Letter)
                                /\ (low[i] \in Digit <=> name[i] \in Digit)
  BY LowerText, LowerFacts
<1> HIDE DEF low
<1>3. Len(name) \in 4..32 => 1 \in 1 .. Len(name) /\ 2 .. Len(name) \subseteq 1 .. Len(name)
  BY <1>1
<1>4. isAccountName(low) <=> isAccountName(name)
  BY <1>1, <1>2, <1>3 DEF isAccountName
<1> QED
  BY <1>4 DEF low

\* Lower case is reached in one step.
LEMMA LowerTwice ==
  ASSUME NEW t \in Seq(Bytes)
  PROVE  toLowerAscii(toLowerAscii(t)) = toLowerAscii(t)
<1> DEFINE low == toLowerAscii(t)
<1>1. low \in Seq(Bytes) /\ Len(low) = Len(t)
  BY LowerText
<1>2. \A i \in 1 .. Len(t) : lower(low[i]) = low[i]
  BY LowerText, LowerFacts
<1>3. toLowerAscii(low) = [i \in 1 .. Len(t) |-> lower(low[i])]
  BY <1>1 DEF toLowerAscii
<1>4. low = [i \in 1 .. Len(t) |-> low[i]]
  BY DEF toLowerAscii
<1> HIDE DEF low
<1>5. toLowerAscii(low) = low
  BY <1>2, <1>3, <1>4
<1> QED
  BY <1>5 DEF low

\* Two texts that differ in the case of letters are one name, or both are refused
\* (ids.hpp:23-41, 73-91): nobody takes a name by spelling it differently.
THEOREM SpellingsShareAName ==
  \A name, other \in Seq(Bytes) :
    toLowerAscii(name) = toLowerAscii(other) => AccountName(name) = AccountName(other)
  BY LowerKeepsNames DEF AccountName

\* What is stored of a name is a name itself and is read back as the same one, so a
\* lookup by the stored text finds the account (ids.hpp:86-91).
THEOREM StoredNamesAreStable ==
  \A name \in Seq(Bytes) : \A stored \in AccountName(name) : AccountName(stored) = {stored}
<1> SUFFICES ASSUME NEW name \in Seq(Bytes), NEW stored \in AccountName(name)
             PROVE  AccountName(stored) = {stored}
  OBVIOUS
<1>1. isAccountName(name) /\ stored = toLowerAscii(name)
  BY DEF AccountName, nullopt
<1>2. isAccountName(stored) /\ toLowerAscii(stored) = stored
  BY <1>1, LowerKeepsNames, LowerTwice
<1> QED
  BY <1>2 DEF AccountName

\* A UUID that is accepted is stored as it is, since isUuid lets no capital letter
\* through: ids are equal exactly when their texts on the wire are
\* (ids.hpp:44-71, 106-111).
THEOREM UuidsAreStoredAsTheyAre ==
  \A id \in Seq(Bytes) : UuidId(id) = IF isUuid(id) THEN {id} ELSE {}
<1> SUFFICES ASSUME NEW id \in Seq(Bytes), isUuid(id) PROVE toLowerAscii(id) = id
  BY DEF UuidId, nullopt
<1>1. Len(id) = 36
  BY DEF isUuid
<1>2. ASSUME NEW i \in 1..36 PROVE id[i] \in Hex \union {Hyphen} /\ id[i] \in Bytes
  <2>1. i - 1 \in 0..35 /\ (i - 1) + 1 = i
    OBVIOUS
  <2>2. id[(i - 1) + 1] \in Hex \union {Hyphen}
    BY <2>1 DEF isUuid
  <2>3. id[i] \in Hex \union {Hyphen}
    BY <2>1, <2>2, Zenon
  <2>4. id[i] \in Bytes
    BY <1>1, LowerText
  <2> QED
    BY <2>3, <2>4
<1>3. \A i \in 1..36 : lower(id[i]) = id[i]
  BY <1>2, LowerFacts
<1>4. id = [i \in 1..36 |-> id[i]]
  BY <1>1
<1> QED
  BY <1>1, <1>3, <1>4 DEF toLowerAscii

-----------------------------------------------------------------------------
(* The texts of the run *)

\* The text under test stays a sequence of bytes.
LEMMA TextsAreBytes == Spec => [](text \in Seq(Bytes))
<1>1. Init => text \in Seq(Bytes)
  BY DEF Init
<1>2. Alphabet \subseteq Bytes
  BY DEF Alphabet, Bytes
<1>3. text \in Seq(Bytes) /\ [Next]_text => (text \in Seq(Bytes))'
  BY <1>2 DEF Next, AppendCharacter, Done
<1> QED
  BY <1>1, <1>3, PTL DEF Spec

\* A letter in the other case has the same small letter.
LEMMA OtherCaseKeepsName ==
  ASSUME NEW name \in Seq(Bytes), NEW other \in Respelled(name)
  PROVE  other \in Seq(Bytes) /\ toLowerAscii(other) = toLowerAscii(name)
<1>1. PICK i \in DOMAIN name : other = [name EXCEPT ![i] = OtherCase(@)]
  BY DEF Respelled
<1>2. ASSUME NEW c \in Bytes PROVE OtherCase(c) \in Bytes /\ lower(OtherCase(c)) = lower(c)
  <2>1. CASE c \in Upper
    <3>1. c \notin Lower
      BY <2>1 DEF Upper, Lower
    <3>2. OtherCase(c) = c + 32
      BY <2>1, <3>1 DEF OtherCase
    <3> QED
      BY <2>1, <3>2 DEF lower, Bytes, Upper
  <2>2. CASE c \in Lower
    <3>1. c \notin Upper
      BY <2>2 DEF Upper, Lower
    <3>2. OtherCase(c) = c - 32
      BY <2>2, <3>1 DEF OtherCase
    <3> QED
      BY <2>2, <3>1, <3>2 DEF lower, Bytes, Upper, Lower
  <2>3. CASE c \notin Upper \union Lower
    <3>1. OtherCase(c) = c
      BY <2>3 DEF OtherCase
    <3> QED
      BY <3>1
  <2> QED
    BY <2>1, <2>2, <2>3
<1>3. \A j \in 1 .. Len(name) : name[j] \in Bytes
  OBVIOUS
<1>4. i \in 1 .. Len(name) /\ other = [name EXCEPT ![i] = OtherCase(name[i])]
  BY <1>1
<1>5. OtherCase(name[i]) \in Bytes /\ lower(OtherCase(name[i])) = lower(name[i])
  BY <1>2, <1>3, <1>4
<1>6. other \in Seq(Bytes) /\ Len(other) = Len(name)
  BY <1>4, <1>5
<1>7. \A j \in 1 .. Len(name) : lower(other[j]) = lower(name[j])
  BY <1>4, <1>5
<1> QED
  BY <1>6, <1>7 DEF toLowerAscii

\* The property of the run, for texts of any length: an account has one name however it
\* is spelled, and what is stored is read back as itself (ids.hpp:23-41, 73-91).
THEOREM SpellingsAreOne == Spec => []SpellingsAreOneName
<1>1. ASSUME text \in Seq(Bytes), NEW name \in Names
      PROVE  name \in Seq(Bytes)
  <2>1. \A n \in Nat : Letters(n) \in Seq(Bytes)
    BY DEF Letters, Bytes
  <2>2. ASSUME NEW pad \in {0, 1, 27} \X {0, 2, 4}
        PROVE  Letters(pad[1]) \o text \o Letters(pad[2]) \in Seq(Bytes)
    <3>1. pad[1] \in Nat /\ pad[2] \in Nat
      OBVIOUS
    <3> QED
      BY <1>1, <2>1, <3>1
  <2> QED
    BY <2>2 DEF Names
<1>2. ASSUME NEW name \in Seq(Bytes), NEW other \in Respelled(name)
      PROVE  AccountName(other) = AccountName(name)
  BY <1>2, OtherCaseKeepsName, SpellingsShareAName
<1>3. ASSUME NEW name \in Seq(Bytes), NEW stored \in AccountName(name)
      PROVE  Len(stored) \in 4..32 /\ AccountName(stored) = {stored}
  <2>1. isAccountName(name) /\ stored = toLowerAscii(name)
    BY DEF AccountName, nullopt
  <2>2. Len(stored) \in 4..32
    BY <2>1, LowerText DEF isAccountName
  <2> QED
    BY <2>2, StoredNamesAreStable
<1>4. text \in Seq(Bytes) => SpellingsAreOneName
  BY <1>1, <1>2, <1>3 DEF SpellingsAreOneName
<1> QED
  BY <1>4, TextsAreBytes, PTL

\* A piece of an id is made of hexadecimal digits when the code finds one in each place.
LEMMA HexPieces ==
  ASSUME NEW id \in Seq(Bytes), Len(id) = 36, NEW a \in 1..36, NEW b \in a..36,
         NEW n \in Nat, n = b - a + 1
  PROVE  SubSeq(id, a, b) \in HexDigits(n) <=> \A i \in a..b : id[i] \in Hex
<1> DEFINE u == SubSeq(id, a, b)
<1>1. u = [j \in 1..n |-> id[j + a - 1]]
  OBVIOUS
<1>2. u \in HexDigits(n) <=> \A j \in 1..n : u[j] \in Hex
  <2>1. HexDigits(n) = [1..n -> Hex]
    BY DEF HexDigits, Hex, Digit
  <2>2. u = [j \in 1..n |-> u[j]]
    BY <1>1
  <2> HIDE DEF u
  <2> QED
    BY <2>1, <2>2
<1>3. \A j \in 1..n : u[j] = id[j + a - 1]
  BY <1>1
<1> HIDE DEF u
<1>4. ASSUME \A j \in 1..n : u[j] \in Hex, NEW i \in a..b
      PROVE  id[i] \in Hex
  <2>1. i - a + 1 \in 1..n /\ (i - a + 1) + a - 1 = i
    OBVIOUS
  <2>2. u[i - a + 1] = id[i]
    BY <1>3, <2>1
  <2> QED
    BY <1>4, <2>1, <2>2
<1>5. ASSUME \A i \in a..b : id[i] \in Hex, NEW j \in 1..n
      PROVE  u[j] \in Hex
  <2>1. j + a - 1 \in a..b
    OBVIOUS
  <2> QED
    BY <1>3, <1>5, <2>1
<1> QED
  BY <1>2, <1>4, <1>5 DEF u

\* isUuid accepts exactly the random UUIDs of RFC 4122 in lower case, among texts of any
\* bytes and any length (ids.hpp:44-71).
THEOREM IsUuidIsVersion4 == \A id \in Seq(Bytes) : isUuid(id) <=> Uuid4(id)
<1> SUFFICES ASSUME NEW id \in Seq(Bytes), Len(id) = 36 PROVE isUuid(id) <=> Uuid4(id)
  BY DEF isUuid, Uuid4
<1> DEFINE HexIn(a, b) == \A i \in a..b : id[i] \in Hex
<1>1. /\ SubSeq(id, 1, 8) \in HexDigits(8) <=> HexIn(1, 8)
      /\ SubSeq(id, 10, 13) \in HexDigits(4) <=> HexIn(10, 13)
      /\ SubSeq(id, 16, 18) \in HexDigits(3) <=> HexIn(16, 18)
      /\ SubSeq(id, 21, 23) \in HexDigits(3) <=> HexIn(21, 23)
      /\ SubSeq(id, 25, 36) \in HexDigits(12) <=> HexIn(25, 36)
  <2>1. SubSeq(id, 1, 8) \in HexDigits(8) <=> HexIn(1, 8)
    <3>1. 1 \in 1..36 /\ 8 \in 1..36 /\ 8 \in Nat /\ 8 = 8 - 1 + 1
      OBVIOUS
    <3> QED
      BY <3>1, HexPieces, Zenon
  <2>2. SubSeq(id, 10, 13) \in HexDigits(4) <=> HexIn(10, 13)
    <3>1. 10 \in 1..36 /\ 13 \in 10..36 /\ 4 \in Nat /\ 4 = 13 - 10 + 1
      OBVIOUS
    <3> QED
      BY <3>1, HexPieces, Zenon
  <2>3. SubSeq(id, 16, 18) \in HexDigits(3) <=> HexIn(16, 18)
    <3>1. 16 \in 1..36 /\ 18 \in 16..36 /\ 3 \in Nat /\ 3 = 18 - 16 + 1
      OBVIOUS
    <3> QED
      BY <3>1, HexPieces, Zenon
  <2>4. SubSeq(id, 21, 23) \in HexDigits(3) <=> HexIn(21, 23)
    <3>1. 21 \in 1..36 /\ 23 \in 21..36 /\ 3 \in Nat /\ 3 = 23 - 21 + 1
      OBVIOUS
    <3> QED
      BY <3>1, HexPieces, Zenon
  <2>5. SubSeq(id, 25, 36) \in HexDigits(12) <=> HexIn(25, 36)
    <3>1. 25 \in 1..36 /\ 36 \in 25..36 /\ 12 \in Nat /\ 12 = 36 - 25 + 1
      OBVIOUS
    <3> QED
      BY <3>1, HexPieces, Zenon
  <2> HIDE DEF HexIn
  <2> QED
    BY <2>1, <2>2, <2>3, <2>4, <2>5
<1>2. ASSUME isUuid(id) PROVE Uuid4(id)
  <2>1. ASSUME NEW i \in 1..36
        PROVE  IF i \in {9, 14, 19, 24} THEN id[i] = Hyphen ELSE id[i] \in Hex
    <3>1. i - 1 \in 0..35 /\ (i - 1) + 1 = i /\ (i - 1 \in Hyphens <=> i \in {9, 14, 19, 24})
      BY DEF Hyphens
    <3>2. IF i - 1 \in Hyphens THEN id[(i - 1) + 1] = Hyphen ELSE id[(i - 1) + 1] \in Hex
      BY <1>2, <3>1 DEF isUuid
    <3> QED
      BY <3>1, <3>2, Zenon
  <2>2. id[9] = Hyphen /\ id[14] = Hyphen /\ id[19] = Hyphen /\ id[24] = Hyphen
    BY <2>1
  <2>3. HexIn(1, 8) /\ HexIn(10, 13) /\ HexIn(16, 18) /\ HexIn(21, 23) /\ HexIn(25, 36)
    BY <2>1
  <2>4. id[15] = 52 /\ id[20] \in {56, 57, 97, 98}
    BY <1>2 DEF isUuid
  <2> QED
    BY <1>1, <2>2, <2>3, <2>4 DEF Uuid4
<1>3. ASSUME Uuid4(id) PROVE isUuid(id)
  <2>1. HexIn(1, 8) /\ HexIn(10, 13) /\ HexIn(16, 18) /\ HexIn(21, 23) /\ HexIn(25, 36)
    BY <1>1, <1>3 DEF Uuid4
  <2>2. /\ id[9] = Hyphen /\ id[14] = Hyphen /\ id[19] = Hyphen /\ id[24] = Hyphen
        /\ id[15] = 52 /\ id[20] \in {56, 57, 97, 98}
    BY <1>3 DEF Uuid4
  <2>3. id[15] \in Hex /\ id[20] \in Hex
    BY <2>2 DEF Hex, Digit
  <2>4. ASSUME NEW k \in 0..35
        PROVE  IF k \in Hyphens THEN id[k + 1] = Hyphen ELSE id[k + 1] \in Hex
    <3>1. k \in Hyphens => k + 1 \in {9, 14, 19, 24}
      BY DEF Hyphens
    <3>2. k \notin Hyphens => \/ k + 1 \in 1..8 \/ k + 1 \in 10..13 \/ k + 1 \in 16..18
                              \/ k + 1 \in 21..23 \/ k + 1 \in 25..36 \/ k + 1 \in {15, 20}
      BY DEF Hyphens
    <3> QED
      BY <2>1, <2>2, <2>3, <3>1, <3>2
  <2> QED
    BY <2>2, <2>4 DEF isUuid
<1> QED
  BY <1>2, <1>3

\* The property of the run, for texts of any length: an id is accepted exactly when it is
\* a random UUID in lower case, and held unchanged (ids.hpp:44-71, 106-111).
THEOREM UuidsAreRandom == Spec => []UuidsAreVersion4
<1>1. ASSUME text \in Seq(Bytes), NEW at \in 0..36, NEW from \in {at, at + Len(text)}
      PROVE  SubSeq(SomeUuid, 1, at) \o text \o SubSeq(SomeUuid, from + 1, 36) \in Seq(Bytes)
  <2>2. \A m, n \in Int : n <= 36 /\ 1 <= m => SubSeq(SomeUuid, m, n) \in Seq(Bytes)
    <3> SUFFICES ASSUME NEW m \in Int, NEW n \in Int, n <= 36, 1 <= m
                 PROVE  SubSeq(SomeUuid, m, n) \in Seq(Bytes)
      OBVIOUS
    <3>1. CASE m <= n
      <4>1. ASSUME NEW i \in m..n PROVE SomeUuid[i] \in Bytes
        <5>1. i \in 1..36
          OBVIOUS
        <5>2. \A k \in 1..36 : SomeUuid[k] \in Bytes
          BY DEF SomeUuid, Bytes, Hyphen
        <5> QED
          BY <5>1, <5>2
      <4> QED
        BY <4>1, SubSeqProperties
    <3>2. CASE n < m
      <4>1. SubSeq(SomeUuid, m, n) = <<>>
        BY <3>2, SubSeqEmpty, Zenon
      <4> QED
        BY <4>1
    <3> QED
      BY <3>1, <3>2
  <2>3. from + 1 \in Int /\ 1 <= from + 1 /\ at \in Int /\ at <= 36
    BY <1>1
  <2>4. SubSeq(SomeUuid, 1, at) \in Seq(Bytes) /\ SubSeq(SomeUuid, from + 1, 36) \in Seq(Bytes)
    BY <2>2, <2>3
  <2> QED
    BY <1>1, <2>4
<1>2. \A id \in Seq(Bytes) : UuidId(id) = IF Uuid4(id) THEN {id} ELSE {}
  BY UuidsAreStoredAsTheyAre, IsUuidIsVersion4
<1>3. text \in Seq(Bytes) => UuidsAreVersion4
  BY <1>1, <1>2 DEF UuidsAreVersion4
<1> QED
  BY <1>3, TextsAreBytes, PTL

-----------------------------------------------------------------------------
(* Numbers *)

\* A set of natural numbers that is not empty has a least element: the induction used
\* below is the search for the smallest counterexample.
LEMMA LeastNatural ==
  ASSUME NEW T \in SUBSET Nat, T # {}
  PROVE  \E m \in T : \A k \in T : m <= k
<1> DEFINE R == OpToRel(<, Nat)
<1>1. IsWellFoundedOn(R, Nat)
  BY NatLessThanWellFounded, Zenon
<1> HIDE DEF R
<1>2. PICK m \in T : \A k \in T : ~(<<k, m>> \in R)
  BY <1>1, WFMin
<1>3. ASSUME NEW k \in T PROVE m <= k
  <2>1. m \in Nat /\ k \in Nat
    OBVIOUS
  <2>2. SUFFICES ASSUME k < m PROVE FALSE
    BY <2>1
  <2>3. <<k, m>> \in R
    BY <2>1, <2>2 DEF R, OpToRel
  <2> QED
    BY <1>2, <2>3
<1> QED
  BY <1>3

\* toDecimalString as a function of all numbers, and one round of it.
DecimalStep(f, n) == IF n < 10 THEN <<48 + n>> ELSE Append(f[n \div 10], 48 + (n % 10))
Written == CHOOSE f : f = [n \in Nat |-> DecimalStep(f, n)]

\* It is that function.
LEMMA StringsAreWritten ==
  ASSUME NEW v
  PROVE  toDecimalString(v) = Written[v]
  BY Zenon DEF toDecimalString, Written, DecimalStep

\* A round looks at a smaller number, or at none.
LEMMA DecimalStepLooksBack ==
  ASSUME NEW n \in Nat, NEW f, NEW g, \A k \in 0 .. n - 1 : f[k] = g[k]
  PROVE  DecimalStep(f, n) = DecimalStep(g, n)
<1>1. CASE n < 10
  BY <1>1 DEF DecimalStep
<1>2. CASE ~(n < 10)
  <2>1. n \div 10 \in 0 .. n - 1
    BY <1>2
  <2>2. f[n \div 10] = g[n \div 10]
    BY <2>1
  <2> QED
    BY <1>2, <2>2, Zenon DEF DecimalStep
<1> QED
  BY <1>1, <1>2

\* The function exists: its beginnings do, and any two of them agree.
LEMMA WrittenIsDefined == Written = [n \in Nat |-> DecimalStep(Written, n)]
<1> DEFINE Fits(k, f) == f = [n \in 0..k |-> DecimalStep(f, n)]
<1>1. ASSUME NEW k \in Nat, NEW f, Fits(k, f), NEW n \in 0..k
      PROVE  f[n] = DecimalStep(f, n)
  BY <1>1, Zenon
<1>2. ASSUME NEW k \in Nat, NEW f, \A n \in 0 .. k - 1 : f[n] = DecimalStep(f, n)
      PROVE  \E g : Fits(k, g)
  <2> DEFINE g == [n \in 0..k |-> DecimalStep(f, n)]
  <2>1. ASSUME NEW n \in 0..k PROVE DecimalStep(f, n) = DecimalStep(g, n)
    <3>1. ASSUME NEW j \in 0 .. n - 1 PROVE f[j] = g[j]
      <4>1. j \in 0 .. k - 1 /\ j \in 0..k
        OBVIOUS
      <4> QED
        BY <1>2, <4>1
    <3> HIDE DEF g
    <3> QED
      BY <3>1, DecimalStepLooksBack
  <2>2. Fits(k, g)
    BY <2>1
  <2> QED
    BY <2>2
<1> HIDE DEF Fits
<1>3. ASSUME NEW k \in Nat, NEW l \in Nat, NEW f, NEW g, Fits(k, f), Fits(l, g),
             NEW n \in 0..k, n \in 0..l
      PROVE  f[n] = g[n]
  <2> DEFINE T == {j \in 0..k : j \in 0..l /\ f[j] # g[j]}
  <2>1. T = {}
    <3> SUFFICES ASSUME T # {} PROVE FALSE
      OBVIOUS
    <3>1. T \in SUBSET Nat
      OBVIOUS
    <3>2. PICK m \in T : \A j \in T : m <= j
      <4> HIDE DEF T
      <4> QED
        BY <3>1, LeastNatural
    <3>3. m \in 0..k /\ m \in 0..l /\ f[m] # g[m]
      OBVIOUS
    <3>4. ASSUME NEW j \in 0 .. m - 1 PROVE f[j] = g[j]
      <4>1. j \in 0..k /\ j \in 0..l /\ ~(m <= j)
        BY <3>3
      <4>2. j \notin T
        BY <3>2, <4>1
      <4> QED
        BY <4>1, <4>2
    <3>5. DecimalStep(f, m) = DecimalStep(g, m)
      BY <3>3, <3>4, DecimalStepLooksBack
    <3>6. f[m] = DecimalStep(f, m) /\ g[m] = DecimalStep(g, m)
      BY <1>1, <1>3, <3>3
    <3> QED
      BY <3>3, <3>5, <3>6
  <2> QED
    BY <1>3, <2>1
<1>4. ASSUME NEW k \in Nat PROVE \E f : Fits(k, f)
  <2> DEFINE T == {j \in Nat : ~\E f : Fits(j, f)}
  <2>1. T = {}
    <3> SUFFICES ASSUME T # {} PROVE FALSE
      OBVIOUS
    <3>1. T \in SUBSET Nat
      OBVIOUS
    <3>2. PICK m \in T : \A j \in T : m <= j
      <4> HIDE DEF T
      <4> QED
        BY <3>1, LeastNatural
    <3>3. m \in Nat /\ ~\E f : Fits(m, f)
      OBVIOUS
    <3>4. \E f : \A n \in 0 .. m - 1 : f[n] = DecimalStep(f, n)
      <4>1. CASE m = 0
        BY <4>1
      <4>2. CASE m # 0
        <5>1. m - 1 \in Nat /\ ~(m <= m - 1)
          BY <3>3, <4>2
        <5>2. m - 1 \notin T
          BY <3>2, <5>1
        <5>3. PICK f : Fits(m - 1, f)
          BY <5>1, <5>2
        <5> QED
          BY <1>1, <5>1, <5>3
      <4> QED
        BY <4>1, <4>2
    <3> QED
      BY <1>2, <3>3, <3>4
  <2> QED
    BY <2>1
<1> DEFINE H(n) == CHOOSE f : Fits(n, f)
           F == [n \in Nat |-> H(n)[n]]
<1>5. ASSUME NEW n \in Nat PROVE Fits(n, H(n))
  BY <1>4
<1>6. ASSUME NEW n \in Nat PROVE F[n] = DecimalStep(F, n)
  <2>1. F[n] = H(n)[n] /\ n \in 0..n
    OBVIOUS
  <2>2. ASSUME NEW j \in 0 .. n - 1 PROVE H(n)[j] = F[j]
    <3>1. j \in Nat /\ j \in 0..n /\ j \in 0..j
      OBVIOUS
    <3>2. Fits(n, H(n)) /\ Fits(j, H(j))
      BY <1>5, <3>1
    <3>3. F[j] = H(j)[j]
      BY <3>1
    <3> HIDE DEF H, F
    <3> QED
      BY <1>3, <3>1, <3>2, <3>3
  <2> HIDE DEF H, F
  <2>3. H(n)[n] = DecimalStep(H(n), n)
    BY <1>1, <1>5, <2>1
  <2>4. DecimalStep(H(n), n) = DecimalStep(F, n)
    BY <2>2, DecimalStepLooksBack
  <2> QED
    BY <2>1, <2>3, <2>4
<1>7. F = [n \in Nat |-> DecimalStep(F, n)]
  <2>1. F = [n \in Nat |-> F[n]]
    OBVIOUS
  <2> HIDE DEF F
  <2> QED
    BY <1>6, <2>1
<1> HIDE DEF F
<1> QED
  BY <1>7 DEF Written

\* The number that the first characters of a text spell, and one round of it.
ValueStep(t, f, i) == IF i = 0 THEN 0 ELSE f[i - 1] * 10 + (t[i] - 48)
UpTo(t) == CHOOSE f : f = [i \in 0 .. Len(t) |-> ValueStep(t, f, i)]

\* Value reads the digits at the beginning.
LEMMA ValuesAreRead ==
  ASSUME NEW t
  PROVE  Value(t) = UpTo(t)[DigitsRead(t)]
  BY Zenon DEF Value, UpTo, ValueStep

\* The function exists, by the same search over its beginnings.
LEMMA UpToIsDefined ==
  ASSUME NEW t \in Seq(Bytes)
  PROVE  UpTo(t) = [i \in 0 .. Len(t) |-> ValueStep(t, UpTo(t), i)]
<1> DEFINE Fits(k, f) == f = [i \in 0..k |-> ValueStep(t, f, i)]
           T == {k \in Nat : ~\E f : Fits(k, f)}
<1>1. ASSUME NEW k \in Nat, NEW f, \A i \in 0 .. k - 1 : f[i] = ValueStep(t, f, i)
      PROVE  \E g : Fits(k, g)
  <2> DEFINE g == [i \in 0..k |-> ValueStep(t, f, i)]
  <2>1. ASSUME NEW i \in 0..k PROVE ValueStep(t, f, i) = ValueStep(t, g, i)
    <3>1. CASE i = 0
      BY <3>1 DEF ValueStep
    <3>2. CASE i # 0
      <4>1. i - 1 \in 0 .. k - 1 /\ i - 1 \in 0..k
        BY <3>2
      <4>2. f[i - 1] = g[i - 1]
        BY <1>1, <4>1
      <4> HIDE DEF g
      <4> QED
        BY <3>2, <4>2, Zenon DEF ValueStep
    <3> QED
      BY <3>1, <3>2
  <2>2. Fits(k, g)
    BY <2>1
  <2> QED
    BY <2>2
<1>2. ASSUME NEW k \in Nat, NEW f, Fits(k, f), NEW i \in 0..k
      PROVE  f[i] = ValueStep(t, f, i)
  BY <1>2, Zenon
<1> HIDE DEF Fits
<1>3. T = {}
  <2> SUFFICES ASSUME T # {} PROVE FALSE
    OBVIOUS
  <2>1. T \in SUBSET Nat
    OBVIOUS
  <2>2. PICK m \in T : \A j \in T : m <= j
    <3> HIDE DEF T
    <3> QED
      BY <2>1, LeastNatural
  <2>3. m \in Nat /\ ~\E f : Fits(m, f)
    OBVIOUS
  <2>4. \E f : \A i \in 0 .. m - 1 : f[i] = ValueStep(t, f, i)
    <3>1. CASE m = 0
      BY <3>1
    <3>2. CASE m # 0
      <4>1. m - 1 \in Nat /\ ~(m <= m - 1)
        BY <2>3, <3>2
      <4>2. m - 1 \notin T
        BY <2>2, <4>1
      <4>3. PICK f : Fits(m - 1, f)
        BY <4>1, <4>2
      <4> QED
        BY <1>2, <4>1, <4>3
    <3> QED
      BY <3>1, <3>2
  <2> QED
    BY <1>1, <2>3, <2>4
<1>4. \E f : Fits(Len(t), f)
  <2>1. Len(t) \in Nat
    OBVIOUS
  <2> QED
    BY <1>3, <2>1
<1> QED
  BY <1>4 DEF Fits, UpTo

\* Its values.
LEMMA UpToFacts ==
  ASSUME NEW t \in Seq(Bytes)
  PROVE  /\ UpTo(t)[0] = 0
         /\ \A i \in 1 .. Len(t) : UpTo(t)[i] = UpTo(t)[i - 1] * 10 + (t[i] - 48)
<1>1. \A i \in 0 .. Len(t) : UpTo(t)[i] = ValueStep(t, UpTo(t), i)
  BY UpToIsDefined, Zenon
<1>2. 0 \in 0 .. Len(t) /\ \A i \in 1 .. Len(t) : i \in 0 .. Len(t) /\ i # 0
  OBVIOUS
<1> QED
  BY <1>1, <1>2 DEF ValueStep

\* Digits spell natural numbers.
LEMMA DigitsSpellNumbers ==
  ASSUME NEW t \in Seq(Bytes), NEW n \in 0 .. Len(t), \A i \in 1..n : t[i] \in Digit
  PROVE  \A i \in 0..n : UpTo(t)[i] \in Nat
<1> DEFINE T == {i \in 0..n : UpTo(t)[i] \notin Nat}
<1>1. T = {}
  <2> SUFFICES ASSUME T # {} PROVE FALSE
    OBVIOUS
  <2>1. T \in SUBSET Nat
    OBVIOUS
  <2>2. PICK m \in T : \A j \in T : m <= j
    <3> HIDE DEF T
    <3> QED
      BY <2>1, LeastNatural
  <2>3. m \in 0..n /\ UpTo(t)[m] \notin Nat
    OBVIOUS
  <2>4. m # 0
    BY <2>3, UpToFacts
  <2>5. m - 1 \in 0..n /\ ~(m <= m - 1) /\ m \in 1..n /\ m \in 1 .. Len(t)
    BY <2>3, <2>4
  <2>6. m - 1 \notin T
    BY <2>2, <2>5
  <2>7. UpTo(t)[m - 1] \in Nat
    BY <2>5, <2>6
  <2>8. UpTo(t)[m] = UpTo(t)[m - 1] * 10 + (t[m] - 48)
    BY <2>5, UpToFacts
  <2>9. t[m] - 48 \in Nat
    BY <2>5 DEF Digit
  <2> QED
    BY <2>3, <2>7, <2>8, <2>9
<1> QED
  BY <1>1

\* One more character leaves the numbers before it as they were.
LEMMA PrefixesSpellTheSame ==
  ASSUME NEW p \in Seq(Bytes), NEW d \in Bytes
  PROVE  \A i \in 0 .. Len(p) : UpTo(Append(p, d))[i] = UpTo(p)[i]
<1> DEFINE t == Append(p, d)
           T == {i \in 0 .. Len(p) : UpTo(t)[i] # UpTo(p)[i]}
<1>1. t \in Seq(Bytes) /\ Len(t) = Len(p) + 1 /\ \A i \in 1 .. Len(p) : t[i] = p[i]
  OBVIOUS
<1> HIDE DEF t
<1>2. T = {}
  <2> SUFFICES ASSUME T # {} PROVE FALSE
    OBVIOUS
  <2>1. T \in SUBSET Nat
    OBVIOUS
  <2>2. PICK m \in T : \A j \in T : m <= j
    <3> HIDE DEF T
    <3> QED
      BY <2>1, LeastNatural
  <2>3. m \in 0 .. Len(p) /\ UpTo(t)[m] # UpTo(p)[m]
    OBVIOUS
  <2>4. m # 0
    BY <1>1, <2>3, UpToFacts
  <2>5. m - 1 \in 0 .. Len(p) /\ ~(m <= m - 1) /\ m \in 1 .. Len(p) /\ m \in 1 .. Len(t)
    BY <1>1, <2>3, <2>4
  <2>6. m - 1 \notin T
    BY <2>2, <2>5
  <2>7. UpTo(t)[m - 1] = UpTo(p)[m - 1]
    BY <2>5, <2>6
  <2>8. /\ UpTo(t)[m] = UpTo(t)[m - 1] * 10 + (t[m] - 48)
        /\ UpTo(p)[m] = UpTo(p)[m - 1] * 10 + (p[m] - 48)
    BY <1>1, <2>5, UpToFacts
  <2> QED
    BY <1>1, <2>3, <2>5, <2>7, <2>8
<1> QED
  BY <1>2 DEF t

\* A number as it should be written: digits, and no zero before another digit.
Numeral(t) ==
  /\ t # <<>>
  /\ \A i \in 1 .. Len(t) : t[i] \in Digit
  /\ Len(t) > 1 => t[1] # 48

\* The number a numeral stands for.
Spelt(t) == UpTo(t)[Len(t)]

\* One digit.
LEMMA OneDigit ==
  ASSUME NEW d \in Digit
  PROVE  <<d>> \in Seq(Bytes) /\ Spelt(<<d>>) = d - 48
<1> DEFINE t == <<d>>
<1>1. t \in Seq(Bytes) /\ Len(t) = 1 /\ t[1] = d
  BY DEF Digit, Bytes
<1> HIDE DEF t
<1>2. UpTo(t)[0] = 0 /\ \A i \in 1 .. Len(t) : UpTo(t)[i] = UpTo(t)[i - 1] * 10 + (t[i] - 48)
  BY <1>1, UpToFacts
<1>3. 1 \in 1 .. Len(t) /\ 1 - 1 = 0
  BY <1>1
<1>4. UpTo(t)[1] = 0 * 10 + (d - 48)
  BY <1>1, <1>2, <1>3
<1>5. UpTo(t)[1] = d - 48
  BY <1>4 DEF Digit
<1> QED
  BY <1>1, <1>5 DEF Spelt, t

\* One more digit.
LEMMA OneMoreDigit ==
  ASSUME NEW p \in Seq(Bytes), NEW d \in Digit
  PROVE  /\ Append(p, d) \in Seq(Bytes)
         /\ Spelt(Append(p, d)) = Spelt(p) * 10 + (d - 48)
<1> DEFINE t == Append(p, d)
<1>1. d \in Bytes
  BY DEF Digit, Bytes
<1>2. t \in Seq(Bytes) /\ Len(t) = Len(p) + 1 /\ t[Len(p) + 1] = d /\ Len(p) \in Nat
  BY <1>1
<1>3. UpTo(t)[Len(p)] = UpTo(p)[Len(p)]
  BY <1>1, <1>2, PrefixesSpellTheSame
<1> HIDE DEF t
<1>4. Len(p) + 1 \in 1 .. Len(t) /\ (Len(p) + 1) - 1 = Len(p)
  BY <1>2
<1>5. UpTo(t)[Len(p) + 1] = UpTo(t)[(Len(p) + 1) - 1] * 10 + (t[Len(p) + 1] - 48)
  BY <1>2, <1>4, UpToFacts
<1>6. UpTo(t)[Len(p) + 1] = UpTo(p)[Len(p)] * 10 + (d - 48)
  BY <1>2, <1>3, <1>4, <1>5
<1> QED
  BY <1>2, <1>6 DEF Spelt, t

\* What toDecimalString writes is a numeral, and it stands for the number.
LEMMA WrittenIsRead ==
  ASSUME NEW v \in Nat
  PROVE  Written[v] \in Seq(Bytes) /\ Numeral(Written[v]) /\ Spelt(Written[v]) = v
<1> DEFINE Good(n) == /\ Written[n] \in Seq(Bytes) /\ Numeral(Written[n])
                      /\ Spelt(Written[n]) = n /\ (n # 0 => Written[n][1] # 48)
           T == {n \in Nat : ~Good(n)}
<1>1. ASSUME NEW n \in Nat, n < 10 PROVE Good(n)
  <2> DEFINE t == Written[n]
  <2>1. t = <<48 + n>>
    BY <1>1, WrittenIsDefined DEF DecimalStep
  <2>2. 48 + n \in Digit /\ (48 + n) - 48 = n
    BY <1>1 DEF Digit
  <2> HIDE DEF t
  <2>3. t \in Seq(Bytes) /\ Spelt(t) = n
    BY <2>1, <2>2, OneDigit
  <2>4. Len(t) = 1 /\ t[1] = 48 + n /\ t # <<>>
    BY <2>1
  <2>5. Numeral(t)
    BY <2>2, <2>4 DEF Numeral
  <2>6. n # 0 => t[1] # 48
    BY <2>4
  <2> QED
    BY <2>3, <2>5, <2>6 DEF t
<1>2. ASSUME NEW n \in Nat, ~(n < 10), Good(n \div 10) PROVE Good(n)
  <2> DEFINE p == Written[n \div 10]
             d == 48 + (n % 10)
             t == Append(p, d)
  <2>1. Written[n] = t
    BY <1>2, WrittenIsDefined, Zenon DEF DecimalStep
  <2>2. /\ d \in Digit /\ n \div 10 # 0
        /\ (n \div 10) * 10 + (d - 48) = n
    BY <1>2 DEF Digit
  <2>3. p \in Seq(Bytes) /\ Numeral(p) /\ Spelt(p) = n \div 10 /\ p[1] # 48
    BY <1>2, <2>2
  <2> HIDE DEF p, d
  <2>4. t \in Seq(Bytes) /\ Spelt(t) = n
    BY <2>2, <2>3, OneMoreDigit
  <2>5. /\ Len(t) = Len(p) + 1 /\ Len(p) \in Nat /\ t # <<>>
        /\ t[Len(p) + 1] = d /\ \A i \in 1 .. Len(p) : t[i] = p[i]
    BY <2>3
  <2>6. 1 \in 1 .. Len(p)
    BY <2>3 DEF Numeral
  <2>7. \A i \in 1 .. Len(t) : t[i] \in Digit
    <3> SUFFICES ASSUME NEW i \in 1 .. Len(t) PROVE t[i] \in Digit
      OBVIOUS
    <3>1. i \in 1 .. Len(p) \/ i = Len(p) + 1
      BY <2>5
    <3> QED
      BY <2>2, <2>3, <2>5, <3>1 DEF Numeral
  <2>8. t[1] # 48
    BY <2>3, <2>5, <2>6
  <2> HIDE DEF t
  <2>9. Numeral(t)
    BY <2>5, <2>7, <2>8 DEF Numeral
  <2> QED
    BY <2>1, <2>4, <2>8, <2>9
<1> HIDE DEF Good
<1>3. T = {}
  <2> SUFFICES ASSUME T # {} PROVE FALSE
    OBVIOUS
  <2>1. T \in SUBSET Nat
    OBVIOUS
  <2>2. PICK m \in T : \A j \in T : m <= j
    <3> HIDE DEF T
    <3> QED
      BY <2>1, LeastNatural
  <2>3. m \in Nat /\ ~Good(m)
    OBVIOUS
  <2>4. ~(m < 10)
    BY <1>1, <2>3
  <2>5. m \div 10 \in Nat /\ ~(m <= m \div 10)
    BY <2>3, <2>4
  <2>6. m \div 10 \notin T
    BY <2>2, <2>5
  <2>7. Good(m \div 10)
    BY <2>5, <2>6
  <2> QED
    BY <1>2, <2>3, <2>4, <2>7
<1> QED
  BY <1>3 DEF Good

\* A numeral is what toDecimalString writes of the number it stands for.
LEMMA ReadIsWritten ==
  ASSUME NEW t \in Seq(Bytes), Numeral(t)
  PROVE  Spelt(t) \in Nat /\ Written[Spelt(t)] = t
<1> DEFINE Good(k) == Written[UpTo(t)[k]] = SubSeq(t, 1, k) /\ (Len(t) > 1 => UpTo(t)[k] # 0)
           T == {k \in 1 .. Len(t) : ~Good(k)}
<1>1. Len(t) \in Nat /\ 1 \in 1 .. Len(t) /\ \A i \in 1 .. Len(t) : t[i] \in Digit
  BY DEF Numeral
<1>2. \A i \in 0 .. Len(t) : UpTo(t)[i] \in Nat
  BY <1>1, DigitsSpellNumbers
<1>3. Good(1)
  <2> DEFINE d == t[1]
             v == UpTo(t)[1]
  <2>1. d \in Digit /\ v = UpTo(t)[1 - 1] * 10 + (d - 48) /\ UpTo(t)[0] = 0
    BY <1>1, UpToFacts
  <2> HIDE DEF v
  <2>2. v = d - 48 /\ v \in 0..9
    <3>1. v = 0 * 10 + (d - 48)
      BY <2>1
    <3> QED
      BY <2>1, <3>1 DEF Digit
  <2>3. Written[v] = <<48 + v>>
    <3>1. v \in Nat /\ v < 10
      BY <2>2
    <3>2. Written[v] = DecimalStep(Written, v)
      BY <3>1, WrittenIsDefined, Zenon
    <3> QED
      BY <3>1, <3>2 DEF DecimalStep
  <2>4. 48 + v = d
    BY <2>1, <2>2 DEF Digit
  <2>5. SubSeq(t, 1, 1) = <<d>>
    <3> DEFINE u == SubSeq(t, 1, 1)
    <3>1. u \in Seq(Bytes) /\ Len(u) = 1 /\ u[1] = t[1]
      BY <1>1
    <3> HIDE DEF u
    <3>2. u = <<u[1]>>
      BY <3>1
    <3>3. u = <<t[1]>>
      BY <3>1, <3>2
    <3> QED
      BY <3>3, Zenon DEF u
  <2>6. Len(t) > 1 => v # 0
    BY <2>4 DEF Numeral
  <2> QED
    BY <2>3, <2>4, <2>5, <2>6 DEF v
<1>4. ASSUME NEW k \in 2 .. Len(t), Good(k - 1)
      PROVE  Good(k)
  <2> DEFINE u == UpTo(t)[k - 1]
             v == UpTo(t)[k]
             d == t[k]
  <2>1. k \in 1 .. Len(t) /\ k - 1 \in 1 .. Len(t) /\ k - 1 \in 0 .. Len(t) /\ Len(t) > 1
    BY <1>4
  <2>2. u \in Nat /\ u # 0 /\ d \in Digit
    BY <1>1, <1>2, <1>4, <2>1
  <2>3. v = u * 10 + (d - 48)
    BY <2>1, UpToFacts
  <2>4. Written[u] = SubSeq(t, 1, k - 1)
    BY <1>4
  <2>5. SubSeq(t, 1, k) = Append(SubSeq(t, 1, k - 1), d)
    BY <2>1
  <2> HIDE DEF u, v, d
  <2>6. v \in Nat /\ ~(v < 10) /\ v \div 10 = u /\ 48 + (v % 10) = d
    BY <2>2, <2>3 DEF Digit
  <2>7. Written[v] = Append(Written[v \div 10], 48 + (v % 10))
    BY <2>6, WrittenIsDefined, Zenon DEF DecimalStep
  <2>8. Written[v] = SubSeq(t, 1, k) /\ v # 0
    BY <2>4, <2>5, <2>6, <2>7
  <2> QED
    BY <2>8 DEF v
<1> HIDE DEF Good
<1>5. T = {}
  <2> SUFFICES ASSUME T # {} PROVE FALSE
    OBVIOUS
  <2>1. T \in SUBSET Nat
    OBVIOUS
  <2>2. PICK m \in T : \A j \in T : m <= j
    <3> HIDE DEF T
    <3> QED
      BY <2>1, LeastNatural
  <2>3. m \in 1 .. Len(t) /\ ~Good(m)
    OBVIOUS
  <2>4. m # 1
    BY <1>3, <2>3
  <2>5. m \in 2 .. Len(t) /\ m - 1 \in 1 .. Len(t) /\ ~(m <= m - 1)
    BY <1>1, <2>3, <2>4
  <2>6. m - 1 \notin T
    BY <2>2, <2>5
  <2> QED
    BY <1>4, <2>3, <2>5, <2>6
<1>6. Len(t) \in 1 .. Len(t) /\ Len(t) \in 0 .. Len(t)
  BY <1>1
<1>7. Good(Len(t))
  BY <1>5, <1>6
<1>8. SubSeq(t, 1, Len(t)) = t
  OBVIOUS
<1> QED
  BY <1>2, <1>6, <1>7, <1>8 DEF Good, Spelt

\* The digits at the beginning of a text are counted to the first other character.
LEMMA DigitsAreCounted ==
  ASSUME NEW t \in Seq(Bytes)
  PROVE  /\ DigitsRead(t) \in 0 .. Len(t)
         /\ \A i \in 1 .. DigitsRead(t) : t[i] \in Digit
         /\ DigitsRead(t) < Len(t) => t[DigitsRead(t) + 1] \notin Digit
<1> DEFINE Counted(n) == /\ \A i \in 1..n : t[i] \in Digit
                         /\ n < Len(t) => t[n + 1] \notin Digit
           T == {n \in 0 .. Len(t) : n < Len(t) /\ t[n + 1] \notin Digit}
<1>1. Len(t) \in Nat
  OBVIOUS
<1>2. \E n \in 0 .. Len(t) : Counted(n)
  <2>1. CASE T = {}
    <3>1. ASSUME NEW i \in 1 .. Len(t) PROVE t[i] \in Digit
      <4>1. i - 1 \in 0 .. Len(t) /\ i - 1 < Len(t) /\ (i - 1) + 1 = i
        BY <1>1
      <4>2. i - 1 \notin T
        BY <2>1
      <4>3. t[(i - 1) + 1] \in Digit
        BY <4>1, <4>2
      <4> QED
        BY <4>1, <4>3, Zenon
    <3>2. Len(t) \in 0 .. Len(t) /\ ~(Len(t) < Len(t))
      BY <1>1
    <3>3. Counted(Len(t))
      BY <3>1, <3>2
    <3> QED
      BY <3>2, <3>3
  <2>2. CASE T # {}
    <3>1. T \in SUBSET Nat
      OBVIOUS
    <3>2. PICK m \in T : \A j \in T : m <= j
      <4> HIDE DEF T
      <4> QED
        BY <2>2, <3>1, LeastNatural
    <3>3. m \in 0 .. Len(t) /\ m < Len(t) /\ t[m + 1] \notin Digit
      OBVIOUS
    <3>4. ASSUME NEW i \in 1..m PROVE t[i] \in Digit
      <4>1. i - 1 \in 0 .. Len(t) /\ i - 1 < Len(t) /\ (i - 1) + 1 = i /\ ~(m <= i - 1)
        BY <1>1, <3>3
      <4>2. i - 1 \notin T
        BY <3>2, <4>1
      <4>3. t[(i - 1) + 1] \in Digit
        BY <4>1, <4>2
      <4> QED
        BY <4>1, <4>3, Zenon
    <3> QED
      BY <3>3, <3>4
  <2> QED
    BY <2>1, <2>2
<1>3. DigitsRead(t) = CHOOSE n \in 0 .. Len(t) : Counted(n)
  BY Zenon DEF DigitsRead
<1> HIDE DEF Counted
<1>4. DigitsRead(t) \in 0 .. Len(t) /\ Counted(DigitsRead(t))
  BY <1>2, <1>3
<1> QED
  BY <1>4 DEF Counted

\* DecimalSeq accepts the numerals of the numbers up to the greatest, each as its number,
\* and nothing else (ids.hpp:137-158).
LEMMA DecimalSeqReadsNumerals ==
  ASSUME NEW t \in Seq(Bytes)
  PROVE  DecimalSeq(t) = IF Numeral(t) /\ Spelt(t) <= MaxSeq THEN {Spelt(t)} ELSE {}
<1> DEFINE n == DigitsRead(t)
           result == from_chars(t)
<1>1. n \in 0 .. Len(t) /\ (\A i \in 1..n : t[i] \in Digit) /\ (n < Len(t) => t[n + 1] \notin Digit)
  BY DigitsAreCounted
<1>2. Len(t) \in Nat /\ (t = <<>> <=> Len(t) = 0)
  OBVIOUS
<1>3. Value(t) = UpTo(t)[n]
  BY ValuesAreRead
<1>4. /\ n = 0 => result = [ec |-> "invalid_argument", ptr |-> 0, parsed |-> 0]
      /\ n # 0 /\ Value(t) > MaxSeq =>
           result = [ec |-> "result_out_of_range", ptr |-> n, parsed |-> 0]
      /\ n # 0 /\ ~(Value(t) > MaxSeq) =>
           result = [ec |-> "none", ptr |-> n, parsed |-> Value(t)]
  BY DEF from_chars
<1>5. DecimalSeq(t) = IF t = <<>> \/ (Len(t) > 1 /\ t[1] = 48) THEN {}
                      ELSE IF result.ec # "none" \/ result.ptr # Len(t) THEN {}
                      ELSE {result.parsed}
  BY DEF DecimalSeq, nullopt
<1> HIDE DEF n, result
<1>6. CASE Numeral(t)
  <2>1. n = Len(t) /\ n # 0
    <3>1. CASE n < Len(t)
      <4>1. n + 1 \in 1 .. Len(t)
        BY <1>1, <1>2, <3>1
      <4> QED
        BY <1>1, <1>6, <3>1, <4>1 DEF Numeral
    <3>2. CASE ~(n < Len(t))
      BY <1>1, <1>2, <1>6, <3>2 DEF Numeral
    <3> QED
      BY <3>1, <3>2
  <2>2. Value(t) = Spelt(t) /\ Spelt(t) \in Nat
    BY <1>3, <1>6, <2>1, ReadIsWritten DEF Spelt
  <2>3. ~(t = <<>> \/ (Len(t) > 1 /\ t[1] = 48))
    BY <1>6 DEF Numeral
  <2>4. CASE Spelt(t) <= MaxSeq
    <3>1. result = [ec |-> "none", ptr |-> n, parsed |-> Value(t)]
      BY <1>4, <2>1, <2>2, <2>4, MaxSeqAssumption
    <3>2. result.ec = "none" /\ result.ptr = n /\ result.parsed = Value(t)
      BY <3>1
    <3> QED
      BY <1>5, <1>6, <2>1, <2>2, <2>3, <2>4, <3>2
  <2>5. CASE ~(Spelt(t) <= MaxSeq)
    <3>1. result = [ec |-> "result_out_of_range", ptr |-> n, parsed |-> 0]
      BY <1>4, <2>1, <2>2, <2>5, MaxSeqAssumption
    <3>2. result.ec # "none"
      BY <3>1
    <3> QED
      BY <1>5, <2>5, <3>2
  <2> QED
    BY <2>4, <2>5
<1>7. CASE ~Numeral(t)
  <2>1. CASE t = <<>> \/ (Len(t) > 1 /\ t[1] = 48)
    BY <1>5, <1>7, <2>1
  <2>2. CASE ~(t = <<>> \/ (Len(t) > 1 /\ t[1] = 48))
    <3>1. n # Len(t)
      BY <1>1, <1>7, <2>2 DEF Numeral
    <3>2. CASE n = 0
      <4>1. result.ec # "none"
        BY <1>4, <3>2
      <4> QED
        BY <1>5, <1>7, <4>1
    <3>3. CASE n # 0
      <4>1. result.ptr = n
        BY <1>4, <3>3
      <4> QED
        BY <1>5, <1>7, <3>1, <4>1
    <3> QED
      BY <3>2, <3>3
  <2> QED
    BY <2>1, <2>2
<1> QED
  BY <1>6, <1>7

\* Every number up to the greatest is read back from what toDecimalString writes of it
\* (ids.hpp:137-158).
THEOREM NumbersAreReadBack ==
  \A value \in 0..MaxSeq : DecimalSeq(toDecimalString(value)) = {value}
<1> SUFFICES ASSUME NEW value \in 0..MaxSeq PROVE DecimalSeq(toDecimalString(value)) = {value}
  OBVIOUS
<1>1. value \in Nat /\ value <= MaxSeq
  BY MaxSeqAssumption
<1>2. /\ Written[value] \in Seq(Bytes) /\ Numeral(Written[value])
      /\ Spelt(Written[value]) = value
  BY <1>1, WrittenIsRead
<1> QED
  BY <1>1, <1>2, StringsAreWritten, DecimalSeqReadsNumerals

\* An accepted text is the one spelling of its number: no sign, no leading zero, nothing
\* after the digits, no number beyond the greatest, for texts of any bytes and length
\* (ids.hpp:137-158).
THEOREM AcceptedNumbersHaveOneSpelling ==
  \A t \in Seq(Bytes) : \A value \in DecimalSeq(t) :
    value \in 0..MaxSeq /\ toDecimalString(value) = t
<1> SUFFICES ASSUME NEW t \in Seq(Bytes), NEW value \in DecimalSeq(t)
             PROVE  value \in 0..MaxSeq /\ toDecimalString(value) = t
  OBVIOUS
<1>1. Numeral(t) /\ Spelt(t) <= MaxSeq /\ value = Spelt(t)
  BY DecimalSeqReadsNumerals
<1>2. Spelt(t) \in Nat /\ Written[Spelt(t)] = t
  BY <1>1, ReadIsWritten
<1>3. value \in 0..MaxSeq
  BY <1>1, <1>2, MaxSeqAssumption
<1>4. toDecimalString(value) = t
  BY <1>1, <1>2, StringsAreWritten
<1> QED
  BY <1>3, <1>4

\* The property of the run, for texts of any length and any greatest number: a text
\* is accepted exactly when toDecimalString writes it, and is read as the number it was
\* written from (ids.hpp:137-158).
THEOREM SpellingsAreUnique == Spec => []NumbersHaveOneSpelling
<1>1. ASSUME NEW t \in Seq(Bytes)
      PROVE  /\ \A value \in DecimalSeq(t) : value \in 0..MaxSeq /\ toDecimalString(value) = t
             /\ DecimalSeq(t) = {} => t \notin Spellings
  <2>1. ASSUME t \in Spellings PROVE DecimalSeq(t) # {}
    <3>1. PICK value \in 0..MaxSeq : t = toDecimalString(value)
      BY <2>1 DEF Spellings
    <3> QED
      BY <3>1, NumbersAreReadBack
  <2> QED
    BY <2>1, AcceptedNumbersHaveOneSpelling
<1>2. text \in Seq(Bytes) => <<50>> \o text \in Seq(Bytes)
  BY DEF Bytes
<1>3. text \in Seq(Bytes) => NumbersHaveOneSpelling
  BY <1>1, <1>2 DEF NumbersHaveOneSpelling
<1> QED
  BY <1>3, TextsAreBytes, PTL
=============================================================================
