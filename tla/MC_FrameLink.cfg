SPECIFICATION FairLinkSpec
CONSTANTS
  kMaxJsonBody = 2
  Attempts <- TestAttempts
  PeerWrites <- Encodings
  MaxWrites = 3
INVARIANTS
  EncodedFramesAreAccepted
  NothingIsLost
PROPERTIES
  ImplementsChannel
CHECK_DEADLOCK FALSE
