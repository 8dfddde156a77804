------------------------- MODULE Ipv4Literal_proofs -------------------------
(***************************************************************************)
(* Proofs about isIpv4Literal, for texts of any symbols and any length.    *)
(*                                                                         *)
(* The argument: an octet has at most three symbols, so its value is a sum *)
(* of at most three terms, and the tests of the code leave just the        *)
(* decimal forms of the bytes (OctetsAreDecimals, DecimalsAreOctets).      *)
(* Three dots have an order, and cut a text into the four octets between   *)
(* them (ThreeDots, FourOctets); decimal forms hold no dot, so a dotted    *)
(* quad has no fourth (QuadsHaveThreeDots).                                *)
(***************************************************************************)
EXTENDS MC_Ipv4Literal, FiniteSetTheorems, TLAPS

\* The number that the first digits of an octet spell.
UpTo(u) == CHOOSE f : f = [i \in 0 .. Len(u) |-> IF i = 0 THEN 0 ELSE f[i - 1] * 10 + u[i]]

\* The recursive function of Value exists for the octets that IsOctet asks it of.
LEMMA UpToIsDefined ==
  ASSUME NEW u \in Seq(Nat), Len(u) \in 1..3
  PROVE  UpTo(u) = [i \in 0 .. Len(u) |-> IF i = 0 THEN 0 ELSE UpTo(u)[i - 1] * 10 + u[i]]
<1> DEFINE g == [i \in 0 .. Len(u) |->
                   IF i = 0 THEN 0
                   ELSE IF i = 1 THEN u[1]
                   ELSE IF i = 2 THEN u[1] * 10 + u[2]
                   ELSE (u[1] * 10 + u[2]) * 10 + u[3]]
<1>1. ASSUME NEW i \in 0 .. Len(u)
      PROVE  g[i] = IF i = 0 THEN 0 ELSE g[i - 1] * 10 + u[i]
  <2>1. CASE i = 0
    BY <2>1
  <2>2. CASE i = 1
    <3>1. 0 \in 0 .. Len(u) /\ 1 \in 1 .. Len(u) /\ i - 1 = 0
      BY <2>2
    <3>2. g[1] = u[1] /\ g[0] = 0 /\ u[1] \in Nat
      BY <2>2, <3>1
    <3> HIDE DEF g
    <3> QED
      BY <2>2, <3>1, <3>2
  <2>3. CASE i = 2
    <3>1. 1 \in 0 .. Len(u) /\ 1 \in 1 .. Len(u) /\ 2 \in 1 .. Len(u) /\ i - 1 = 1
      BY <2>3
    <3>2. g[2] = u[1] * 10 + u[2] /\ g[1] = u[1]
      BY <2>3, <3>1
    <3> HIDE DEF g
    <3> QED
      BY <2>3, <3>1, <3>2
  <2>4. CASE i = 3
    <3>1. 2 \in 0 .. Len(u) /\ i - 1 = 2
      BY <2>4
    <3>2. g[3] = (u[1] * 10 + u[2]) * 10 + u[3] /\ g[2] = u[1] * 10 + u[2]
      BY <2>4, <3>1
    <3> HIDE DEF g
    <3> QED
      BY <2>4, <3>1, <3>2
  <2>5. i = 0 \/ i = 1 \/ i = 2 \/ i = 3
    <3>1. Len(u) = 1 \/ Len(u) = 2 \/ Len(u) = 3
      OBVIOUS
    <3>2. ASSUME NEW k \in 1..3, NEW m \in 0 .. k PROVE m = 0 \/ m = 1 \/ m = 2 \/ m = 3
      OBVIOUS
    <3> QED
      BY <3>2
  <2> HIDE DEF g
  <2> QED
    BY <2>1, <2>2, <2>3, <2>4, <2>5
<1>2. g = [i \in 0 .. Len(u) |-> g[i]]
  OBVIOUS
<1> HIDE DEF g
<1>3. g = [i \in 0 .. Len(u) |-> IF i = 0 THEN 0 ELSE g[i - 1] * 10 + u[i]]
  BY <1>1, <1>2
<1> QED
  BY <1>3 DEF UpTo

\* The places of the first digit, and before it.
LEMMA OneToThree ==
  ASSUME NEW m \in 1..3
  PROVE  0 \in 0 .. m /\ 1 \in 0 .. m /\ 1 \in 1 .. m /\ 1 - 1 = 0
  OBVIOUS

\* The value of an octet is that of its last prefix.
LEMMA ValueIsUpTo ==
  ASSUME NEW u \in Seq(Nat), Len(u) \in 1..3
  PROVE  /\ Value(u) = UpTo(u)[Len(u)]
         /\ UpTo(u)[1] = u[1]
         /\ Len(u) >= 2 => UpTo(u)[2] = u[1] * 10 + u[2]
         /\ Len(u) = 3 => UpTo(u)[3] = (u[1] * 10 + u[2]) * 10 + u[3]
<1> DEFINE f == UpTo(u)
<1>1. Value(u) = f[Len(u)]
  BY Zenon DEF Value, UpTo
<1>2. f = [i \in 0 .. Len(u) |-> IF i = 0 THEN 0 ELSE f[i - 1] * 10 + u[i]]
  BY UpToIsDefined, Zenon
<1> HIDE DEF f
<1>3. ASSUME NEW i \in 0 .. Len(u)
      PROVE  f[i] = IF i = 0 THEN 0 ELSE f[i - 1] * 10 + u[i]
  BY <1>2
<1>4. f[1] = u[1]
  <2>1. 0 \in 0 .. Len(u) /\ 1 \in 0 .. Len(u) /\ 1 - 1 = 0
    BY OneToThree, Zenon
  <2>2. f[0] = 0
    BY <1>3, <2>1
  <2>3. u[1] \in Nat
    <3>1. 1 \in 1 .. Len(u)
      BY OneToThree, Zenon
    <3> QED
      BY <3>1
  <2>4. f[1] = f[1 - 1] * 10 + u[1]
    BY <1>3, <2>1
  <2> QED
    BY <2>1, <2>2, <2>3, <2>4
<1>5. Len(u) >= 2 => f[2] = u[1] * 10 + u[2]
  <2> SUFFICES ASSUME Len(u) >= 2 PROVE f[2] = u[1] * 10 + u[2]
    OBVIOUS
  <2>1. 2 \in 0 .. Len(u) /\ 2 - 1 = 1
    OBVIOUS
  <2>2. f[2] = f[2 - 1] * 10 + u[2]
    BY <1>3, <2>1
  <2> QED
    BY <1>4, <2>1, <2>2
<1>6. Len(u) = 3 => f[3] = (u[1] * 10 + u[2]) * 10 + u[3]
  <2> SUFFICES ASSUME Len(u) = 3 PROVE f[3] = (u[1] * 10 + u[2]) * 10 + u[3]
    OBVIOUS
  <2>1. 3 \in 0 .. Len(u) /\ 3 - 1 = 2 /\ Len(u) >= 2
    OBVIOUS
  <2>2. f[3] = f[3 - 1] * 10 + u[3]
    BY <1>3, <2>1
  <2> QED
    BY <1>5, <2>1, <2>2
<1> QED
  BY <1>1, <1>4, <1>5, <1>6 DEF f

\* The values of octets of one, two and three digits.
LEMMA ValueOfOctets ==
  ASSUME NEW u \in Seq(Nat), Len(u) \in 1..3
  PROVE  /\ Len(u) = 1 => Value(u) = u[1]
         /\ Len(u) = 2 => Value(u) = u[1] * 10 + u[2]
         /\ Len(u) = 3 => Value(u) = (u[1] * 10 + u[2]) * 10 + u[3]
<1> DEFINE v == Value(u)
           f == UpTo(u)
<1>1. /\ v = f[Len(u)]
      /\ f[1] = u[1]
      /\ Len(u) >= 2 => f[2] = u[1] * 10 + u[2]
      /\ Len(u) = 3 => f[3] = (u[1] * 10 + u[2]) * 10 + u[3]
  BY ValueIsUpTo
<1> HIDE DEF v, f
<1>2. Len(u) = 1 => v = u[1]
  BY <1>1
<1>3. Len(u) = 2 => v = u[1] * 10 + u[2]
  BY <1>1
<1>4. Len(u) = 3 => v = (u[1] * 10 + u[2]) * 10 + u[3]
  BY <1>1
<1> QED
  BY <1>2, <1>3, <1>4 DEF v

\* The two ends of a number written to the base 10.
LEMMA Base10 ==
  ASSUME NEW q \in Nat, NEW r \in 0..9
  PROVE  /\ q * 10 + r \in Nat
         /\ (q * 10 + r) \div 10 = q
         /\ (q * 10 + r) % 10 = r
  OBVIOUS

\* A number and its last digit.
LEMMA LastDigit ==
  ASSUME NEW n \in Nat
  PROVE  /\ n \div 10 \in Nat
         /\ n % 10 \in 0..9
         /\ n = (n \div 10) * 10 + (n % 10)
         /\ (n \div 10) \div 10 = n \div 100
<1>1. n \div 10 \in Nat
  OBVIOUS
<1>2. n % 10 \in 0..9
  OBVIOUS
<1>3. n = (n \div 10) * 10 + (n % 10)
  OBVIOUS
<1>4. (n \div 10) \div 10 = n \div 100
  OBVIOUS
<1> QED
  BY <1>1, <1>2, <1>3, <1>4

\* The digits of a number below 256.
LEMMA DigitsOf ==
  ASSUME NEW n \in 0..255
  PROVE  /\ n % 10 \in 0..9
         /\ (n \div 10) % 10 \in 0..9
         /\ n = (n \div 10) * 10 + (n % 10)
         /\ n \div 10 = (n \div 100) * 10 + ((n \div 10) % 10)
         /\ n >= 10 /\ n < 100 => n \div 10 \in 1..9
         /\ n >= 100 => n \div 100 \in 1..9
<1>1. n % 10 \in 0..9
  BY LastDigit
<1>2. (n \div 10) % 10 \in 0..9
  BY LastDigit
<1>3. n = (n \div 10) * 10 + (n % 10)
  BY LastDigit
<1>4. n \div 10 = (n \div 100) * 10 + ((n \div 10) % 10)
  <2> DEFINE m == n \div 10
  <2>1. m \in Nat /\ m \div 10 = n \div 100
    BY LastDigit
  <2>2. m = (m \div 10) * 10 + (m % 10)
    BY <2>1, LastDigit
  <2> QED
    BY <2>1, <2>2
<1>5. n >= 10 /\ n < 100 => n \div 10 \in 1..9
  OBVIOUS
<1>6. n >= 100 => n \div 100 \in 1..9
  OBVIOUS
<1> QED
  BY <1>1, <1>2, <1>3, <1>4, <1>5, <1>6

\* How a number with one, two or three digits is written.
LEMMA DecimalOfEach ==
  ASSUME NEW n \in Nat
  PROVE  /\ n < 10 => Decimal(n) = <<n>>
         /\ n >= 10 /\ n < 100 => Decimal(n) = <<n \div 10, n % 10>>
         /\ n >= 100 => Decimal(n) = <<n \div 100, (n \div 10) % 10, n % 10>>
<1>1. ASSUME n < 10 PROVE Decimal(n) = <<n>>
  <2>1. ~(n \in 10..99) /\ ~(n > 99)
    BY <1>1
  <2> QED
    BY <1>1, <2>1, SMT DEF Decimal
<1>2. ASSUME n >= 10, n < 100 PROVE Decimal(n) = <<n \div 10, n % 10>>
  <2>1. ~(n < 10) /\ n \in 10..99 /\ ~(n > 99)
    BY <1>2
  <2> QED
    BY <2>1, SMT DEF Decimal
<1>3. ASSUME n >= 100 PROVE Decimal(n) = <<n \div 100, (n \div 10) % 10, n % 10>>
  <2>1. ~(n < 10) /\ ~(n \in 10..99) /\ n > 99
    BY <1>3
  <2> QED
    BY <2>1, SMT DEF Decimal
<1> QED
  BY <1>1, <1>2, <1>3

\* One to three digits, no leading zero and a value of at most 255.
LEMMA OctetTests ==
  ASSUME NEW u \in Seq(Digit), Len(u) \in 1..3, Len(u) > 1 => u[1] # 0, Value(u) <= 255
  PROVE  IsOctet(u)
<1>1. \A i \in 1 .. Len(u) : u[i] \in Digit
  OBVIOUS
<1> QED
  BY <1>1 DEF IsOctet

\* A byte in decimal passes the tests of an octet.
LEMMA DecimalsAreOctets ==
  ASSUME NEW n \in 0..255
  PROVE  Decimal(n) \in Seq(Digit) /\ IsOctet(Decimal(n))
<1> DEFINE u == Decimal(n)
<1> SUFFICES u \in Seq(Digit) /\ IsOctet(u)
  OBVIOUS
<1>1. CASE n < 10
  <2>1. u = <<n>>
    BY <1>1, DecimalOfEach
  <2> HIDE DEF u
  <2>2. Len(u) = 1 /\ u[1] = n /\ u \in Seq(Nat) /\ u \in Seq(Digit)
    BY <1>1, <2>1 DEF Digit
  <2>3. Value(u) = n
    BY <2>2, ValueOfOctets
  <2>4. Value(u) <= 255 /\ Len(u) \in 1..3 /\ ~(Len(u) > 1) /\ u \in Seq(Digit)
    BY <2>2, <2>3
  <2> QED
    BY <2>4, OctetTests
<1>2. CASE n >= 10 /\ n < 100
  <2> DEFINE a == n \div 10
             b == n % 10
  <2>1. u = <<a, b>>
    BY <1>2, DecimalOfEach
  <2>2. a \in 1..9 /\ b \in 0..9 /\ n = a * 10 + b
    BY <1>2, DigitsOf
  <2> HIDE DEF u, a, b
  <2>3. Len(u) = 2 /\ u[1] = a /\ u[2] = b /\ u \in Seq(Nat) /\ u \in Seq(Digit)
    BY <2>1, <2>2 DEF Digit
  <2>4. Value(u) = n
    BY <2>2, <2>3, ValueOfOctets
  <2>5. Value(u) <= 255 /\ u[1] # 0
    BY <2>2, <2>3, <2>4
  <2> QED
    BY <2>3, <2>5, OctetTests
<1>3. CASE n >= 100
  <2> DEFINE a == n \div 100
             b == (n \div 10) % 10
             c == n % 10
  <2>1. u = <<a, b, c>>
    BY <1>3, DecimalOfEach
  <2>2. a \in 1..9 /\ b \in 0..9 /\ c \in 0..9 /\ n = (a * 10 + b) * 10 + c
    BY <1>3, DigitsOf
  <2> HIDE DEF u, a, b, c
  <2>3. Len(u) = 3 /\ u[1] = a /\ u[2] = b /\ u[3] = c /\ u \in Seq(Nat) /\ u \in Seq(Digit)
    BY <2>1, <2>2 DEF Digit
  <2>4. Value(u) = n
    BY <2>2, <2>3, ValueOfOctets
  <2>5. Value(u) <= 255 /\ u[1] # 0
    BY <2>2, <2>3, <2>4
  <2> QED
    BY <2>3, <2>5, OctetTests
<1> QED
  BY <1>1, <1>2, <1>3

\* A text that passes the tests of an octet is a byte in decimal.
LEMMA OctetsAreDecimals ==
  ASSUME NEW u \in Seq(Nat), IsOctet(u)
  PROVE  u \in Decimals
<1>1. /\ Len(u) \in 1..3
      /\ Len(u) > 1 => u[1] # 0
      /\ \A i \in 1 .. Len(u) : u[i] \in 0..9
      /\ Value(u) <= 255
  BY DEF IsOctet, Digit
<1>2. CASE Len(u) = 1
  <2> DEFINE a == u[1]
  <2>1. 1 \in 1 .. Len(u)
    BY <1>2
  <2>2. a \in 0..9
    BY <1>1, <2>1
  <2>3. u = <<a>>
    BY <1>2
  <2> HIDE DEF a
  <2>4. Decimal(a) = <<a>> /\ a \in 0..255
    BY <2>2, DecimalOfEach
  <2> QED
    BY <2>3, <2>4 DEF Decimals
<1>3. CASE Len(u) = 2
  <2> DEFINE a == u[1]
             b == u[2]
             n == a * 10 + b
  <2>1. 1 \in 1 .. Len(u) /\ 2 \in 1 .. Len(u) /\ Len(u) > 1
    BY <1>3
  <2>2. a \in 0..9 /\ b \in 0..9 /\ a # 0
    BY <1>1, <2>1
  <2>3. u = <<a, b>>
    BY <1>3
  <2> HIDE DEF a, b
  <2>4. n \div 10 = a /\ n % 10 = b
    BY <2>2, Base10
  <2>5. n \in 0..255 /\ n >= 10 /\ n < 100
    BY <2>2
  <2> HIDE DEF n
  <2>6. Decimal(n) = <<a, b>>
    BY <2>4, <2>5, DecimalOfEach
  <2> QED
    BY <2>3, <2>5, <2>6 DEF Decimals
<1>4. CASE Len(u) = 3
  <2> DEFINE a == u[1]
             b == u[2]
             c == u[3]
             m == a * 10 + b
             n == m * 10 + c
  <2>1. 1 \in 1 .. Len(u) /\ 2 \in 1 .. Len(u) /\ 3 \in 1 .. Len(u) /\ Len(u) > 1
    BY <1>4
  <2>2. a \in 0..9 /\ b \in 0..9 /\ c \in 0..9 /\ a # 0
    BY <1>1, <2>1
  <2>3. u = <<a, b, c>>
    BY <1>4
  <2>4. n <= 255
    BY <1>1, <1>4, ValueOfOctets
  <2> HIDE DEF a, b, c
  <2>5. m \div 10 = a /\ m % 10 = b /\ m \in Nat /\ m >= 10
    BY <2>2, Base10
  <2> HIDE DEF m
  <2>6. n \div 10 = m /\ n % 10 = c /\ n \in Nat
    BY <2>2, <2>5, Base10
  <2>7. n \in 0..255 /\ n >= 100
    BY <2>2, <2>4, <2>5, <2>6
  <2> HIDE DEF n
  <2>8. n \div 100 = a
    <3>1. n \div 100 = (n \div 10) \div 10
      BY <2>7
    <3> QED
      BY <2>5, <2>6, <3>1
  <2>9. Decimal(n) = <<a, b, c>>
    BY <2>5, <2>6, <2>7, <2>8, DecimalOfEach
  <2> QED
    BY <2>3, <2>7, <2>9 DEF Decimals
<1> QED
  BY <1>1, <1>2, <1>3, <1>4

-----------------------------------------------------------------------------
\* The cuts of a text with dots at i, j and k, and its octets between them.
First(t, i) == SubSeq(t, 1, i - 1)
Inner(t, i, j) == SubSeq(t, i + 1, j - 1)
Last(t, k) == SubSeq(t, k + 1, Len(t))

\* One element less.
LEMMA OneLess ==
  ASSUME NEW S, IsFiniteSet(S), NEW x \in S
  PROVE  IsFiniteSet(S \ {x}) /\ Cardinality(S \ {x}) = Cardinality(S) - 1
BY FS_RemoveElement, Zenon

\* One element more.
LEMMA OneMore ==
  ASSUME NEW S, IsFiniteSet(S), NEW x, x \notin S
  PROVE  IsFiniteSet(S \union {x}) /\ Cardinality(S \union {x}) = Cardinality(S) + 1
BY FS_AddElement, Zenon

\* Three different numbers have an order.
LEMMA OrderOfThree ==
  ASSUME NEW a \in Nat, NEW b \in Nat, NEW c \in Nat, a # b, a # c, b # c
  PROVE  \/ a < b /\ b < c
         \/ a < c /\ c < b
         \/ b < a /\ a < c
         \/ b < c /\ c < a
         \/ c < a /\ a < b
         \/ c < b /\ b < a
  OBVIOUS

\* A text has three dots when it has dots at three ordered places and no more.
LEMMA ThreeDots ==
  ASSUME NEW t \in Seq(Nat)
  PROVE  Cardinality(Dots(t)) + 1 = 4 <=>
           \E i, j, k \in 1 .. Len(t) : i < j /\ j < k /\ Dots(t) = {i, j, k}
<1> DEFINE D == Dots(t)
<1>1. IsFiniteSet(D) /\ D \subseteq 1 .. Len(t)
  <2>1. IsFiniteSet(1 .. Len(t))
    BY FS_Interval
  <2>2. D \subseteq 1 .. Len(t)
    BY DEF Dots
  <2> QED
    BY <2>1, <2>2, FS_Subset
<1> HIDE DEF D
<1>2. ASSUME Cardinality(D) + 1 = 4
      PROVE  \E i, j, k \in 1 .. Len(t) : i < j /\ j < k /\ D = {i, j, k}
  <2>1. Cardinality(D) = 3
    BY <1>1, <1>2, FS_CardinalityType
  <2>2. PICK a \in D : TRUE
    BY <2>1, FS_EmptySet
  <2>3. IsFiniteSet(D \ {a}) /\ Cardinality(D \ {a}) = 2
    <3>1. Cardinality(D \ {a}) = Cardinality(D) - 1 /\ IsFiniteSet(D \ {a})
      BY <1>1, <2>2, OneLess, Zenon
    <3> QED
      BY <2>1, <3>1
  <2>4. PICK b \in D \ {a} : TRUE
    BY <2>3, FS_EmptySet
  <2> DEFINE E == D \ {a}
             F == E \ {b}
  <2> HIDE DEF E
  <2>5. IsFiniteSet(F) /\ Cardinality(F) = 1
    <3>1. Cardinality(F) = Cardinality(E) - 1 /\ IsFiniteSet(F)
      BY <2>3, <2>4, OneLess, Zenon DEF E
    <3> QED
      BY <2>3, <3>1 DEF E
  <2> HIDE DEF F
  <2>6. PICK c \in F : F = {c}
    BY <2>5, FS_Singleton
  <2>7. D = {a, b, c} /\ a # b /\ a # c /\ b # c
    BY <2>2, <2>4, <2>6 DEF E, F
  <2>8. Len(t) \in Nat
    OBVIOUS
  <2>9. a \in 1 .. Len(t) /\ b \in 1 .. Len(t) /\ c \in 1 .. Len(t)
    BY <1>1, <2>7
  <2>10. /\ {a, c, b} = {a, b, c} /\ {b, a, c} = {a, b, c} /\ {b, c, a} = {a, b, c}
         /\ {c, a, b} = {a, b, c} /\ {c, b, a} = {a, b, c}
    OBVIOUS
  <2>11. \/ a < b /\ b < c
         \/ a < c /\ c < b
         \/ b < a /\ a < c
         \/ b < c /\ c < a
         \/ c < a /\ a < b
         \/ c < b /\ b < a
    <3>1. a \in Nat /\ b \in Nat /\ c \in Nat /\ a # b /\ a # c /\ b # c
      BY <2>7, <2>8, <2>9
    <3> QED
      BY <3>1, OrderOfThree, Zenon
  <2> QED
    BY <2>7, <2>9, <2>10, <2>11, Zenon
<1>3. ASSUME NEW i \in 1 .. Len(t), NEW j \in 1 .. Len(t), NEW k \in 1 .. Len(t),
             i < j, j < k, D = {i, j, k}
      PROVE  Cardinality(D) + 1 = 4
  <2>1. i # j /\ i # k /\ j # k
    BY <1>3
  <2> DEFINE E == {i} \union {j}
             F == E \union {k}
  <2>2. IsFiniteSet({i}) /\ Cardinality({i}) = 1
    BY FS_Singleton
  <2>3. IsFiniteSet(E) /\ Cardinality(E) = 1 + 1
    <3>1. j \notin {i}
      BY <2>1
    <3> QED
      BY <2>2, <3>1, OneMore, Zenon
  <2>4. Cardinality(F) = 1 + 1 + 1
    <3>1. k \notin E
      BY <2>1
    <3> QED
      BY <2>3, <3>1, OneMore, Zenon
  <2>5. D = F
    BY <1>3
  <2>6. Cardinality(D) = 1 + 1 + 1
    BY <2>4, <2>5, Zenon
  <2> QED
    BY <2>6
<1> QED
  BY <1>2, <1>3 DEF D

\* Three dots cut a text into four octets.
LEMMA FourOctets ==
  ASSUME NEW t \in Seq(Nat), NEW i \in 1 .. Len(t), NEW j \in 1 .. Len(t),
         NEW k \in 1 .. Len(t), i < j, j < k, Dots(t) = {i, j, k}
  PROVE  Octets(t) = {First(t, i), Inner(t, i, j), Inner(t, j, k), Last(t, k)}
<1> DEFINE n == Len(t) + 1
           cuts == Dots(t) \union {0, n}
           Neighbours == {d \in cuts \X cuts :
                            d[1] < d[2] /\ \A e \in cuts : e <= d[1] \/ e >= d[2]}
<1>1. Octets(t) = {SubSeq(t, c[1] + 1, c[2] - 1) : c \in Neighbours}
  BY DEF Octets
<1>2. cuts = {0, i, j, k, n} /\ i \in Nat /\ j \in Nat /\ k \in Nat /\ n \in Nat
      /\ 0 < i /\ k < n
  OBVIOUS
<1> HIDE DEF cuts
<1>3. Neighbours = {<<0, i>>, <<i, j>>, <<j, k>>, <<k, n>>}
  <2>1. ASSUME NEW a \in cuts, NEW b \in cuts, a < b, \A e \in cuts : e <= a \/ e >= b
        PROVE  <<a, b>> \in {<<0, i>>, <<i, j>>, <<j, k>>, <<k, n>>}
    <3>1. (i <= a \/ i >= b) /\ (j <= a \/ j >= b) /\ (k <= a \/ k >= b)
      BY <1>2, <2>1
    <3>2. /\ a = 0 \/ a = i \/ a = j \/ a = k \/ a = n
          /\ b = 0 \/ b = i \/ b = j \/ b = k \/ b = n
      BY <1>2
    <3>3. a < b
      BY <2>1
    <3> HIDE DEF n
    <3>4. CASE a = 0
      <4>1. b = i
        BY <1>2, <3>1, <3>2, <3>3, <3>4
      <4> QED
        BY <3>4, <4>1
    <3>5. CASE a = i
      <4>1. b = j
        BY <1>2, <3>1, <3>2, <3>3, <3>5
      <4> QED
        BY <3>5, <4>1
    <3>6. CASE a = j
      <4>1. b = k
        BY <1>2, <3>1, <3>2, <3>3, <3>6
      <4> QED
        BY <3>6, <4>1
    <3>7. CASE a = k
      <4>1. b = n
        BY <1>2, <3>1, <3>2, <3>3, <3>7
      <4> QED
        BY <3>7, <4>1
    <3>8. a # n
      BY <1>2, <3>2, <3>3
    <3> QED
      BY <3>2, <3>4, <3>5, <3>6, <3>7, <3>8
  <2>2. \A d \in Neighbours : d = <<d[1], d[2]>> /\ d[1] \in cuts /\ d[2] \in cuts
    OBVIOUS
  <2>3. \A d \in Neighbours : d \in {<<0, i>>, <<i, j>>, <<j, k>>, <<k, n>>}
    BY <2>1, <2>2
  <2>4. /\ \A e \in cuts : e <= 0 \/ e >= i
        /\ \A e \in cuts : e <= i \/ e >= j
        /\ \A e \in cuts : e <= j \/ e >= k
        /\ \A e \in cuts : e <= k \/ e >= n
    BY <1>2
  <2>5. <<0, i>> \in Neighbours
    BY <1>2, <2>4
  <2>6. <<i, j>> \in Neighbours
    BY <1>2, <2>4
  <2>7. <<j, k>> \in Neighbours
    BY <1>2, <2>4
  <2>8. <<k, n>> \in Neighbours
    BY <1>2, <2>4
  <2> HIDE DEF Neighbours
  <2> QED
    BY <2>3, <2>5, <2>6, <2>7, <2>8
<1>4. /\ SubSeq(t, 0 + 1, i - 1) = First(t, i)
      /\ SubSeq(t, i + 1, j - 1) = Inner(t, i, j)
      /\ SubSeq(t, j + 1, k - 1) = Inner(t, j, k)
      /\ SubSeq(t, k + 1, n - 1) = Last(t, k)
  <2>1. 0 + 1 = 1 /\ n - 1 = Len(t)
    OBVIOUS
  <2> HIDE DEF n
  <2> QED
    BY <2>1, Zenon DEF First, Inner, Last
<1> HIDE DEF Neighbours, n
<1>5. \A o : o \in Octets(t) <=> \E c \in Neighbours : o = SubSeq(t, c[1] + 1, c[2] - 1)
  BY <1>1, Zenon
<1>6. /\ <<0, i>>[1] = 0 /\ <<0, i>>[2] = i
      /\ <<i, j>>[1] = i /\ <<i, j>>[2] = j
      /\ <<j, k>>[1] = j /\ <<j, k>>[2] = k
      /\ <<k, n>>[1] = k /\ <<k, n>>[2] = n
  OBVIOUS
<1>7. \A o : o \in Octets(t) <=> \/ o = First(t, i) \/ o = Inner(t, i, j)
                                 \/ o = Inner(t, j, k) \/ o = Last(t, k)
  BY <1>3, <1>4, <1>5, <1>6, Zenon
<1> QED
  BY <1>7, Zenon

\* The octets of a dotted quad hold no dot: the text has no other dots.
LEMMA QuadsHaveThreeDots ==
  ASSUME NEW t \in Seq(Nat), NEW i \in 1 .. Len(t), NEW j \in 1 .. Len(t),
         NEW k \in 1 .. Len(t), i < j, j < k, t[i] = Dot, t[j] = Dot, t[k] = Dot,
         First(t, i) \in Seq(Digit), Inner(t, i, j) \in Seq(Digit),
         Inner(t, j, k) \in Seq(Digit), Last(t, k) \in Seq(Digit)
  PROVE  Dots(t) = {i, j, k}
<1>1. ASSUME NEW m \in Nat, NEW n \in Nat, m <= Len(t), n <= Len(t) + 1,
             SubSeq(t, m + 1, n - 1) \in Seq(Digit), NEW x \in 1 .. Len(t), m < x, x < n
      PROVE  t[x] # Dot
  <2> DEFINE s == SubSeq(t, m + 1, n - 1)
  <2>1. Len(s) = n - 1 - m /\ x - m \in 1 .. Len(s) /\ s[x - m] = t[x]
    BY <1>1
  <2>2. s[x - m] \in Digit
    BY <1>1, <2>1
  <2>3. t[x] \in Digit
    BY <2>1, <2>2, Zenon
  <2>4. Dot \notin Digit
    BY DEF Digit, Dot
  <2> QED
    BY <2>3, <2>4, Zenon
<1>2. ASSUME NEW x \in 1 .. Len(t), t[x] = Dot
      PROVE  x \in {i, j, k}
  <2>1. ~(x < i)
    <3>1. SubSeq(t, 0 + 1, i - 1) \in Seq(Digit) /\ 0 < x /\ 0 \in Nat /\ i \in Nat
          /\ 0 <= Len(t) /\ i <= Len(t) + 1
      BY DEF First
    <3> QED
      BY <1>1, <1>2, <3>1, Zenon
  <2>2. ~(i < x /\ x < j)
    <3>1. SubSeq(t, i + 1, j - 1) \in Seq(Digit)
      BY Zenon DEF Inner
    <3>2. i \in Nat /\ j \in Nat /\ i <= Len(t) /\ j <= Len(t) + 1
      OBVIOUS
    <3> QED
      BY <1>1, <1>2, <3>1, <3>2, Zenon
  <2>3. ~(j < x /\ x < k)
    <3>1. SubSeq(t, j + 1, k - 1) \in Seq(Digit)
      BY Zenon DEF Inner
    <3>2. j \in Nat /\ k \in Nat /\ j <= Len(t) /\ k <= Len(t) + 1
      OBVIOUS
    <3> QED
      BY <1>1, <1>2, <3>1, <3>2, Zenon
  <2>4. ~(k < x)
    <3> DEFINE n == Len(t) + 1
    <3>1. n - 1 = Len(t)
      OBVIOUS
    <3>2. SubSeq(t, k + 1, n - 1) \in Seq(Digit) /\ k \in Nat /\ n \in Nat
          /\ k <= Len(t) /\ n <= Len(t) + 1 /\ x < n
      BY <3>1 DEF Last
    <3> HIDE DEF n
    <3> QED
      BY <1>1, <1>2, <3>2, Zenon
  <2>5. i \in Nat /\ j \in Nat /\ k \in Nat /\ x \in Nat
    OBVIOUS
  <2>6. x = i \/ x = j \/ x = k
    BY <2>1, <2>2, <2>3, <2>4, <2>5
  <2> QED
    BY <2>6
<1> QED
  BY <1>2 DEF Dots

\* isIpv4Literal accepts a text, of any symbols and any length, exactly when it
\* is four bytes in decimal with a dot between each two (dev_ca.cpp:192-216).
THEOREM AcceptedIsDottedQuad ==
  ASSUME NEW t \in Seq(Nat)
  PROVE  isIpv4Literal(t) <=> IsDottedQuad(t)
<1>1. ASSUME isIpv4Literal(t)
      PROVE  IsDottedQuad(t)
  <2>1. PICK i \in 1 .. Len(t), j \in 1 .. Len(t), k \in 1 .. Len(t) :
          i < j /\ j < k /\ Dots(t) = {i, j, k}
    BY <1>1, ThreeDots DEF isIpv4Literal
  <2>2. /\ IsOctet(First(t, i)) /\ IsOctet(Inner(t, i, j))
        /\ IsOctet(Inner(t, j, k)) /\ IsOctet(Last(t, k))
    BY <1>1, <2>1, FourOctets DEF isIpv4Literal
  <2>3. /\ First(t, i) \in Seq(Nat) /\ Inner(t, i, j) \in Seq(Nat)
        /\ Inner(t, j, k) \in Seq(Nat) /\ Last(t, k) \in Seq(Nat)
    <3>1. ASSUME NEW m \in 1 .. Len(t) + 1, NEW n \in 0 .. Len(t)
          PROVE  SubSeq(t, m, n) \in Seq(Nat)
      OBVIOUS
    <3>2. First(t, i) \in Seq(Nat)
      BY <3>1 DEF First
    <3>3. Inner(t, i, j) \in Seq(Nat)
      BY <3>1 DEF Inner
    <3>4. Inner(t, j, k) \in Seq(Nat)
      BY <3>1 DEF Inner
    <3>5. Last(t, k) \in Seq(Nat)
      BY <3>1 DEF Last
    <3> QED
      BY <3>2, <3>3, <3>4, <3>5
  <2>4. /\ First(t, i) \in Decimals /\ Inner(t, i, j) \in Decimals
        /\ Inner(t, j, k) \in Decimals /\ Last(t, k) \in Decimals
    BY <2>2, <2>3, OctetsAreDecimals
  <2>5. t[i] = Dot /\ t[j] = Dot /\ t[k] = Dot
    BY <2>1 DEF Dots
  <2> QED
    BY <2>1, <2>4, <2>5 DEF IsDottedQuad, First, Inner, Last
<1>2. ASSUME IsDottedQuad(t)
      PROVE  isIpv4Literal(t)
  <2>1. PICK i \in 1 .. Len(t), j \in 1 .. Len(t), k \in 1 .. Len(t) :
          /\ i < j /\ j < k
          /\ t[i] = Dot /\ t[j] = Dot /\ t[k] = Dot
          /\ First(t, i) \in Decimals /\ Inner(t, i, j) \in Decimals
          /\ Inner(t, j, k) \in Decimals /\ Last(t, k) \in Decimals
    BY <1>2 DEF IsDottedQuad, First, Inner, Last
  <2>2. \A u \in Decimals : u \in Seq(Digit) /\ IsOctet(u)
    BY DecimalsAreOctets DEF Decimals
  <2>3. Dots(t) = {i, j, k}
    BY <2>1, <2>2, QuadsHaveThreeDots
  <2>4. \A octet \in Octets(t) : IsOctet(octet)
    <3>1. Octets(t) = {First(t, i), Inner(t, i, j), Inner(t, j, k), Last(t, k)}
      BY <2>1, <2>3, FourOctets, Zenon
    <3> QED
      BY <2>1, <2>2, <3>1, Zenon
  <2>5. Cardinality(Dots(t)) + 1 = 4
    BY <2>1, <2>3, ThreeDots
  <2> QED
    BY <2>4, <2>5 DEF isIpv4Literal
<1> QED
  BY <1>1, <1>2

\* In every state of the run's specification, for every MaxLength, the texts
\* around the field are accepted exactly when they are dotted quads
\* (dev_ca.cpp:192-216).
THEOREM LiteralsAreDottedQuads == Spec => []AcceptsExactlyDottedQuads
<1> DEFINE FieldOK == field \in Seq(Symbols)
<1>1. Symbols \subseteq Nat
  BY DEF Symbols, Digit, Dot, Other
<1>2. Init => FieldOK
  BY DEF Init
<1>3. FieldOK /\ [Next]_field => FieldOK'
  BY DEF Next, AppendSymbol, Done
<1>4. FieldOK => AcceptsExactlyDottedQuads
  <2> SUFFICES ASSUME FieldOK, NEW before \in Before, NEW after \in After
               PROVE  isIpv4Literal(before \o field \o after)
                        <=> IsDottedQuad(before \o field \o after)
    BY DEF AcceptsExactlyDottedQuads
  <2>1. before \in Seq(Nat) /\ after \in Seq(Nat)
    <3>1. /\ <<>> \in Seq(Nat) /\ <<2, 5, 5, 10>> \in Seq(Nat)
          /\ <<1, 2, 7, 10, 0, 10, 0, 10>> \in Seq(Nat) /\ <<10, 9>> \in Seq(Nat)
          /\ <<10, 2, 5, 5, 10, 0, 10, 1>> \in Seq(Nat)
      OBVIOUS
    <3> QED
      BY <3>1, Zenon DEF Before, After, Dot
  <2>2. field \in Seq(Nat)
    <3>1. \A i \in 1 .. Len(field) : field[i] \in Nat
      <4>1. \A i \in 1 .. Len(field) : field[i] \in Symbols
        OBVIOUS
      <4> QED
        BY <1>1, <4>1, Zenon
    <3>2. field \in [1 .. Len(field) -> Nat] /\ Len(field) \in Nat
      BY <3>1
    <3> QED
      BY <3>2
  <2>3. before \o field \o after \in Seq(Nat)
    BY <2>1, <2>2
  <2> QED
    BY <2>3, AcceptedIsDottedQuad
<1> QED
  BY <1>2, <1>3, <1>4, PTL DEF Spec
=============================================================================
