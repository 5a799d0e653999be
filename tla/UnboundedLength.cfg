\* The assertion of length() on a chain of two channels.
SPECIFICATION Spec
CONSTANTS
  Size = 2
  CacheSize = 1
  MaxPush = 4
  Modulus = 8
INVARIANTS
  LengthAssertion
