--------------------------- MODULE MC_Identifiers ---------------------------
(***************************************************************************)
(* Checks the parsers of ids.hpp against what their texts mean.  The text  *)
(* under test grows by one character at a time, up to MaxLength, over the  *)
(* characters on both sides of each range the code compares with.  It is   *)
(* tried as a number, after a digit, inside names of every critical length *)
(* and in every place of a UUID, written over it or pushed into it.        *)
(***************************************************************************)
EXTENDS Identifiers

CONSTANT MaxLength

ASSUME MaxLengthAssumption == MaxLength \in Nat

VARIABLE text

\*           -   /   0   1   2   4   7   8   9   :   @   A   F   Z   [
Alphabet == {45, 47, 48, 49, 50, 52, 55, 56, 57, 58, 64, 65, 70, 90, 91,
             95, 96, 97, 98, 99, 102, 103, 122, 123}
\*           _   `   a   b   c   f    g    z    {

Init == text = <<>>
AppendCharacter == Len(text) < MaxLength /\ \E c \in Alphabet : text' = Append(text, c)
Done == Len(text) = MaxLength /\ UNCHANGED text
Next == AppendCharacter \/ Done
Spec == Init /\ [][Next]_text

-----------------------------------------------------------------------------
(* Names *)

Letters(n) == [i \in 1..n |-> 97]
Names == {Letters(pad[1]) \o text \o Letters(pad[2]) : pad \in {0, 1, 27} \X {0, 2, 4}}

\* The other spellings of a name, one letter in the other case.
OtherCase(c) == CASE c \in Upper -> c + 32 [] c \in Lower -> c - 32 [] OTHER -> c
Respelled(name) == {[name EXCEPT ![i] = OtherCase(@)] : i \in DOMAIN name}

\* An account has one name however it is spelled: every spelling of an accepted
\* name is accepted and stored as the same text, and what is stored is read back
\* as itself, so a lookup by the stored name finds the account (ids.hpp:23-41,
\* 73-91).
SpellingsAreOneName ==
  \A name \in Names :
    /\ \A other \in Respelled(name) : AccountName(other) = AccountName(name)
    /\ \A stored \in AccountName(name) :
         Len(stored) \in 4..32 /\ AccountName(stored) = {stored}

-----------------------------------------------------------------------------
(* UUIDs *)

\* xxxxxxxx-xxxx-4xxx-yxxx-xxxxxxxxxxxx
HexDigits(n) == [1..n -> 48..57 \union 97..102]
Uuid4(id) ==
  /\ Len(id) = 36
  /\ SubSeq(id, 1, 8) \in HexDigits(8) /\ id[9] = Hyphen
  /\ SubSeq(id, 10, 13) \in HexDigits(4) /\ id[14] = Hyphen
  /\ id[15] = 52 /\ SubSeq(id, 16, 18) \in HexDigits(3) /\ id[19] = Hyphen
  /\ id[20] \in {56, 57, 97, 98} /\ SubSeq(id, 21, 23) \in HexDigits(3) /\ id[24] = Hyphen
  /\ SubSeq(id, 25, 36) \in HexDigits(12)

SomeUuid == [i \in 1..36 |-> IF i \in {9, 14, 19, 24} THEN Hyphen
                             ELSE IF i = 15 THEN 52 ELSE IF i = 20 THEN 98 ELSE 48]
\* A text is an id exactly when RFC 4122 would write a random UUID that way in
\* lower case, and the id holds it unchanged, so that equal ids are equal texts
\* on the wire (ids.hpp:44-71, 106-111).
UuidsAreVersion4 ==
  \A at \in 0..36 : \A from \in {at, at + Len(text)} :
    LET id == SubSeq(SomeUuid, 1, at) \o text \o SubSeq(SomeUuid, from + 1, 36)
    IN UuidId(id) = IF Uuid4(id) THEN {id} ELSE {}

-----------------------------------------------------------------------------
(* Numbers *)

Spellings == {toDecimalString(value) : value \in 0..MaxSeq}

\* A number has one spelling: the texts accepted are exactly what toDecimalString
\* writes for the numbers up to the greatest, and each is read as the number it
\* was written from (ids.hpp:137-158).
NumbersHaveOneSpelling ==
  \A number \in {text, <<50>> \o text} :
    LET parsed == DecimalSeq(number)
    IN /\ \A value \in parsed : value \in 0..MaxSeq /\ toDecimalString(value) = number
       /\ parsed = {} => number \notin Spellings
=============================================================================
