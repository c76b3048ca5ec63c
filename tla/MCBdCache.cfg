CONSTANTS
  BlockCount = 1
  BlockSize = 4
  ReadSize = 2
  ProgSize = 2
  CacheSize = 2
  Byte = {0, 1}
  Zero = 1
  Hints = {1, 2}
  Lengths <- OneAndThree
  MaxCalls = 2
  MaxFaults = 1
  Faults <- AllFaults
SPECIFICATION Spec
INVARIANTS
  TypeOK
  ProgrammedIsKept
PROPERTIES
  ReadsAreCurrent
  RefusedOnlyAfterFailure
  CallsReturn
