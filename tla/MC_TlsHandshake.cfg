SPECIFICATION FairSpec
CONSTANT Operations <- TLS13Operations
INVARIANTS
  TypeOK
  StreamOutlivesOperation
  NoConnectionIsLeaked
  DecisionNeedsNoPeer
PROPERTIES
  OutcomeIsFinal
  HandshakeAlwaysEnds
  ImplementsContract
CHECK_DEADLOCK FALSE
