SPECIFICATION Spec
CONSTANTS
  MaxLength = 3
  MaxSeq = 2177
INVARIANTS
  SpellingsAreOneName
  UuidsAreVersion4
  NumbersHaveOneSpelling
