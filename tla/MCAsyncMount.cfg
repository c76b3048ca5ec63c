CONSTANTS
  BlockCount = 5
  LookaheadBits = 3
  Dir <- TwoPairs
  Disks <- AllDisks
  Seeds <- SomeSeeds
  Faults = FALSE
  Files = FALSE
  Remounts = 0
SPECIFICATION Spec
INVARIANT
  TypeOK
PROPERTIES
  MountAgrees
  MountEnds
  TraversalComesRound
