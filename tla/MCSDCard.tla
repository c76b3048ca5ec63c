------------------------------ MODULE MCSDCard -------------------------------
(* Instances of SDCard for TLC.                                            *)
EXTENDS SDCard

(* The cards the driver supports, and one it refuses for its voltage.      *)
KnownKinds == {"V1", "SC", "HC", "LowV"}
ByteKinds == {"V1", "SC"}
Standard  == {"SC"}
Contents  == {"old", "new"}

(* Bytes 0 to 3 of a card of two blocks of two bytes: aligned and not,     *)
(* within the card and across its end, one block and two.                  *)
SomeAddrs == 0 .. 3
OneBlock  == {2}
AnySize   == {1, 2, 4}
TwoBlocks == {4}

NoFaults  == {}
AllFaults == FaultKinds
NoToken   == {"notoken"}
Refusals  == {"refused"}
==============================================================================
