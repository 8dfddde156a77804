SPECIFICATION Spec
CONSTANTS
  Text <- Texts
  Bytes <- TextBytes
  WellFormed <- Utf8Texts
  ThroughQt <- TextThroughQt
  Uuid <- Ids
  kMaxCapabilityCount = 2
  kMaxUint32 = 70000
  kMaxSafeInteger = 80000
  Supported <- ServerCapabilities
  Requests <- ClientRequests
  Times = {0, 80000}
  StrangeRequests <- RequestBodies
  StrangeResponses <- ResponseBodies
INVARIANT
  InvalidRequestsAreNotSent
