CONSTANTS
  File = {a}
  Handle = {h1}
  NoFile = none
  Closed = closed
  BlockCount = 8
  BlockSize = 6
  InlineMax = 1
  FileMax = 17
  Bads <- None
  Sizes = {13}
  Flags <- PlainFlags
  Lengths = {1, 7}
  Seeds = {0}
  Seeks <- SeekTo
  Cuts = {6, 11}
  MaxCalls = 4
  Uses = {"boundary"}
SPECIFICATION Spec
PROPERTY FilePromise
CHECK_DEADLOCK FALSE
