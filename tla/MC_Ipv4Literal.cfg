SPECIFICATION Spec
CONSTANT MaxLength = 4
INVARIANT AcceptsExactlyDottedQuads
