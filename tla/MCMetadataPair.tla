--------------------------- MODULE MCMetadataPair ----------------------------
(* Instances of MetadataPair for TLC.  The left-over revision counts lie   *)
(* just below the wrap-around.                                             *)
EXTENDS MetadataPair, TLC

CONSTANTS a, b
TwoValues == {a, b}
EitherValue == Permutations(TwoValues)

(* As LittleFS configures it: every commit fills a block.                  *)
OneUnit ==
  [units |-> 1, sizes |-> {1}, strays |-> {Revs - 2, Revs - 1}, commits |-> 8,
   faults |-> {"torn", "garbled", "refused", "unread"}]
(* A log of two commits.                                                   *)
TwoUnits ==
  [units |-> 2, sizes |-> {1, 2}, strays |-> {Revs - 1}, commits |-> 5,
   faults |-> {"torn", "garbled", "refused"}]
CardAndLog == {OneUnit, TwoUnits}
==============================================================================
