--------------------------- MODULE MC_Ipv4Literal ---------------------------
(***************************************************************************)
(* Checks isIpv4Literal against the addresses as a formatter writes them.  *)
(* The field of the text under test grows by one symbol at a time, up to   *)
(* MaxLength symbols; it stands alone, or with whole octets before and     *)
(* after it, too few, exactly enough or too many.                          *)
(***************************************************************************)
EXTENDS Ipv4Literal

CONSTANT MaxLength

ASSUME MaxLengthAssumption == MaxLength \in Nat

VARIABLE field

Other == 11
Symbols == Digit \union {Dot, Other}

Init == field = <<>>
AppendSymbol == Len(field) < MaxLength /\ \E s \in Symbols : field' = Append(field, s)
Done == Len(field) = MaxLength /\ UNCHANGED field
Next == AppendSymbol \/ Done
Spec == Init /\ [][Next]_field

Before == {<<>>, <<2, 5, 5, Dot>>, <<1, 2, 7, Dot, 0, Dot, 0, Dot>>}
After == {<<>>, <<Dot, 9>>, <<Dot, 2, 5, 5, Dot, 0, Dot, 1>>}

-----------------------------------------------------------------------------
\* How a number is written: no leading zero, no sign, no blank.
Decimal(n) ==
  CASE n < 10 -> <<n>>
    [] n \in 10..99 -> <<n \div 10, n % 10>>
    [] n > 99 -> <<n \div 100, (n \div 10) % 10, n % 10>>

Decimals == {Decimal(n) : n \in 0..255}

\* Four bytes in decimal with a dot between each two.
IsDottedQuad(t) ==
  \E i, j, k \in 1 .. Len(t) :
    /\ i < j /\ j < k
    /\ t[i] = Dot /\ t[j] = Dot /\ t[k] = Dot
    /\ SubSeq(t, 1, i - 1) \in Decimals
    /\ SubSeq(t, i + 1, j - 1) \in Decimals
    /\ SubSeq(t, j + 1, k - 1) \in Decimals
    /\ SubSeq(t, k + 1, Len(t)) \in Decimals

\* A text is accepted exactly when some four bytes are formatted as it: the
\* certificate's address, made of the text, is the one the operator typed, and
\* no second spelling of an address gets through (dev_ca.cpp:192-216).
AcceptsExactlyDottedQuads ==
  \A before \in Before, after \in After :
    LET text == before \o field \o after
    IN  isIpv4Literal(text) <=> IsDottedQuad(text)
=============================================================================
