CONSTANTS
  p0 = p0 p1 = p1 p2 = p2 p3 = p3 f1 = f1 null = null none = none
  Pair <- FourPairs
  Root = p0
  NoPair = null
  NoCall = none
  Name = {1, 2, 3}
  File <- OneFile
  Capacity = 1
  Full = 2
  MaxCalls = 4
  MaxWatched = 3
  Uses <- Ordinary
SYMMETRY OtherPairs
SPECIFICATION Spec
INVARIANTS
  TypeOK
  TreeIsListed
  OrphansAreFlagged
  GlobalStateIsKnown
  HandleFollowsFile
PROPERTIES
  ReadsEachOnce
  StaysReadable
  NamesPromise
