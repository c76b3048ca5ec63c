CONSTANTS
  Name = {1, 2, 3}
  Attr = {"a", "b"}
  Kinds = {"reg", "dir"}
  Pair = {p0, p1}
  First = p0
  NoPair = nopair
  Absent = absent
  NoValue = novalue
  Sizes = {0, 3}
  MaxCalls = 2
  Uses = {"crash"}
SPECIFICATION Spec
INVARIANT TypeOK
PROPERTY EntriesPromise
CHECK_DEADLOCK FALSE
