CONSTANTS
  BlockSize = 2
  CardBlocks = 2
  Value <- Contents
  Erased = "old"
  Kinds <- KnownKinds
  EraseBlocks = 1
  Addrs <- SomeAddrs
  Sizes <- AnySize
  IdleRetries = 2
  Faults <- NoFaults
  Removal = FALSE
  TakesCmd12 = TRUE
SPECIFICATION FairSpec
INVARIANTS
  TypeOK
  TransfersAreEnded
PROPERTIES
  KeepsPromise
  InitMakesUsable
  CallsReturn
