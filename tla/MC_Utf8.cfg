SPECIFICATION Spec
CONSTANTS
  Alphabet <- BoundaryBytes
  MaxLength = 4
INVARIANT ScanAcceptsExactlyUtf8
