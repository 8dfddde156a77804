SPECIFICATION Spec
CONSTANTS
  Runs = 3
  Addresses <- TwoAddresses
INVARIANTS
  TypeOK
  SuccessIsWhole
  LoadedPairMatches
  TrustNeverLags
  UndisturbedEndsAgree
