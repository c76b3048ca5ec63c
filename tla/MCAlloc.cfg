CONSTANTS
  BlockCount = 4
  LookaheadBits = 3
  Seeds <- SeedsInAndOut
  SplitAcks = FALSE
SPECIFICATION FairSpec
INVARIANTS
  TypeOK
  AckCoversWindow
PROPERTIES
  AllocatedIsFree
  NoSpaceIsHonest
  AllocReturns
