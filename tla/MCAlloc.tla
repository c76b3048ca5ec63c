------------------------------- MODULE MCAlloc -------------------------------
(* Instances of Alloc for TLC: seeds inside the device and beyond it.      *)
EXTENDS Alloc

SeedsInAndOut == {1, BlockCount + 2}
==============================================================================
