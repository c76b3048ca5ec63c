CONSTANTS
  BlockCount = 4
  LookaheadBits = 2
  Dir <- OnePair
  Disks <- SmallDisk
  Seeds <- SomeSeeds
  Faults = TRUE
  Files = TRUE
  Remounts = 1
SPECIFICATION Spec
INVARIANTS
  AckCoversWindow
