---------------------------- MODULE Ipv4Literal ----------------------------
(***************************************************************************)
(* isIpv4Literal of tools/pki/src/dev_ca.cpp: which texts are dotted IPv4  *)
(* addresses.  A text is a sequence of symbols: a digit is its value, Dot  *)
(* the full stop, and every larger number some other character.  The       *)
(* code's loop cuts the text at its dots and tests one octet at a time; a  *)
(* text is refused by the first bad octet or, at the end, by their number. *)
(***************************************************************************)
EXTENDS Naturals, Sequences, FiniteSets

Digit == 0..9
Dot == 10

Dots(text) == {i \in 1 .. Len(text) : text[i] = Dot}

\* The pieces between two neighbouring cuts; n dots make n + 1 octets.
Octets(text) ==
  LET cuts == Dots(text) \union {0, Len(text) + 1}
  IN  {SubSeq(text, c[1] + 1, c[2] - 1) :
         c \in {d \in cuts \X cuts :
                  d[1] < d[2] /\ \A e \in cuts : e <= d[1] \/ e >= d[2]}}

Value(octet) ==
  LET upTo[i \in 0 .. Len(octet)] ==
        IF i = 0 THEN 0 ELSE upTo[i - 1] * 10 + octet[i]
  IN  upTo[Len(octet)]

\* Bug: leading zeros pass.
IsOctetLeadingZero(octet) ==
  /\ Len(octet) \in 1..3
  /\ \A i \in 1 .. Len(octet) : octet[i] \in Digit
  /\ Value(octet) <= 255

IsOctet(octet) ==
  /\ Len(octet) \in 1..3
  /\ ~(Len(octet) > 1 /\ octet[1] = 0)
  /\ \A i \in 1 .. Len(octet) : octet[i] \in Digit
  /\ Value(octet) <= 255

isIpv4Literal(text) ==
  /\ \A octet \in Octets(text) : IsOctet(octet)
  /\ Cardinality(Dots(text)) + 1 = 4
=============================================================================
