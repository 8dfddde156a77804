----------------------------- MODULE Identifiers -----------------------------
(***************************************************************************)
(* The parsers of shared/include/chathub/contracts/ids.hpp.  A text is a   *)
(* sequence of bytes, an optional a set of at most one value.  The tags    *)
(* that make different C++ types of equal texts have no counterpart here.  *)
(*                                                                         *)
(* External: std::from_chars and std::to_string.                           *)
(***************************************************************************)
EXTENDS Integers, Sequences

CONSTANT MaxSeq   \* 2^64 - 1

ASSUME MaxSeqAssumption == MaxSeq \in Nat

nullopt == {}

\* The characters the code compares with, as their ASCII codes.
Underscore == 95
Hyphen == 45
Digit == 48..57
Upper == 65..90
Lower == 97..122
Letter == Upper \union Lower

\* Bug: one end of the range is left out.
lowerButZ(c) == IF c \in 65..89 THEN c - 65 + 97 ELSE c

lower(c) == IF c \in Upper THEN c - 65 + 97 ELSE c
toLowerAscii(text) == [i \in 1 .. Len(text) |-> lower(text[i])]

-----------------------------------------------------------------------------
(* AccountName *)

isAccountName(name) ==
  /\ Len(name) \in 4..32
  /\ name[1] \in Letter
  /\ \A i \in 2 .. Len(name) : name[i] \in Letter \union Digit

AccountName(name) == IF isAccountName(name) THEN {toLowerAscii(name)} ELSE nullopt

-----------------------------------------------------------------------------
(* UuidId *)

Hex == Digit \union 97..102
Hyphens == {8, 13, 18, 23}

\* Bug: the variant is not looked at.
isUuidOfAnyVariant(id) ==
  /\ Len(id) = 36
  /\ \A i \in 0..35 : IF i \in Hyphens THEN id[i + 1] = Hyphen ELSE id[i + 1] \in Hex
  /\ id[14 + 1] = 52

isUuid(id) ==
  /\ Len(id) = 36
  /\ \A i \in 0..35 : IF i \in Hyphens THEN id[i + 1] = Hyphen ELSE id[i + 1] \in Hex
  /\ id[14 + 1] = 52                   \* '4'
  /\ id[19 + 1] \in {56, 57, 97, 98}   \* '8', '9', 'a', 'b'

UuidId(id) == IF isUuid(id) THEN {toLowerAscii(id)} ELSE nullopt

-----------------------------------------------------------------------------
(* DecimalSeq *)

\* The digits at the beginning of a text, and the number they spell.
DigitsRead(text) ==
  CHOOSE n \in 0 .. Len(text) :
    /\ \A i \in 1..n : text[i] \in Digit
    /\ n < Len(text) => text[n + 1] \notin Digit
Value(text) ==
  LET upTo[i \in 0 .. Len(text)] == IF i = 0 THEN 0 ELSE upTo[i - 1] * 10 + (text[i] - 48)
  IN  upTo[DigitsRead(text)]

from_chars(text) ==
  IF DigitsRead(text) = 0 THEN [ec |-> "invalid_argument", ptr |-> 0, parsed |-> 0]
  ELSE IF Value(text) > MaxSeq
    THEN [ec |-> "result_out_of_range", ptr |-> DigitsRead(text), parsed |-> 0]
  ELSE [ec |-> "none", ptr |-> DigitsRead(text), parsed |-> Value(text)]

\* Bug: where the reading stopped is not looked at.
DecimalSeqPartial(text) ==
  IF text = <<>> \/ (Len(text) > 1 /\ text[1] = 48) THEN nullopt
  ELSE LET result == from_chars(text)
       IN IF result.ec # "none" THEN nullopt ELSE {result.parsed}

DecimalSeq(text) ==
  IF text = <<>> \/ (Len(text) > 1 /\ text[1] = 48) THEN nullopt
  ELSE LET result == from_chars(text)
       IN IF result.ec # "none" \/ result.ptr # Len(text) THEN nullopt
          ELSE {result.parsed}

toDecimalString(value) ==
  LET decimal[n \in Nat] ==
        IF n < 10 THEN <<48 + n>> ELSE Append(decimal[n \div 10], 48 + (n % 10))
  IN  decimal[value]
=============================================================================
