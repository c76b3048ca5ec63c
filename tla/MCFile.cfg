CONSTANTS
  File = {a, b}
  Handle = {h1, h2}
  NoFile = none
  Closed = closed
  BlockCount = 8
  BlockSize = 6
  InlineMax = 1
  FileMax = 17
  Bads <- NoneOrOne
  Sizes = {1, 13}
  Flags <- FlagSets
  Lengths = {1, 7}
  Seeds = {0, 5}
  Seeks <- SeekTo
  Cuts = {2, 14}
  MaxCalls = 4
  Uses = {"crash", "remove"}
SYMMETRY Alike
SPECIFICATION Spec
INVARIANTS
  TypeOK
  SkipListsHold
  TraversalMeetsAll
  BlocksHaveOneOwner
PROPERTIES
  FilePromise
CHECK_DEADLOCK FALSE
