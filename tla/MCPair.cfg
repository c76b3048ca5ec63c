CONSTANTS
  Value <- TwoValues
  Revs = 8
  Crowded = TRUE
  Settings <- CardAndLog
  a = a
  b = b
SYMMETRY EitherValue
SPECIFICATION Spec
INVARIANTS
  TypeOK
  Recoverable
  MemoryAgrees
