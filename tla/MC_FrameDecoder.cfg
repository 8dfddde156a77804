SPECIFICATION FairSpec
CONSTANTS
  kMaxJsonBody = 2
  PeerWrites <- TestWrites
  MaxWrites = 3
INVARIANTS
  TypeOK
  FramesTileStream
  FailureIsJustified
  NothingWithheld
  BufferIsBounded
PROPERTIES
  FailureIsFinal
  LoopMakesProgress
  FeedTerminates
CHECK_DEADLOCK FALSE
