CONSTANTS
  BlockCount = 6
  LookaheadBits = 3
  Dir <- TwoPairs
  Disks <- HealthyDisk
  Seeds <- SomeSeeds
  Faults = FALSE
  Files = TRUE
  Remounts = 0
SPECIFICATION Spec
PROPERTY
  AllocatedIsFree
