CONSTANTS
  BlockSize = 2
  CardBlocks = 2
  Value <- Contents
  Erased = "old"
  Kinds <- ByteKinds
  EraseBlocks = 1
  Addrs <- SomeAddrs
  Sizes <- OneBlock
  IdleRetries = 2
  Faults <- AllFaults
  Removal = TRUE
  TakesCmd12 = TRUE
SPECIFICATION Spec
INVARIANT CardIsReleased
PROPERTIES
  KeepsPromise
CHECK_DEADLOCK FALSE
