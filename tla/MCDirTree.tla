------------------------------ MODULE MCDirTree ------------------------------
(* Instances of DirTree for TLC.                                           *)
EXTENDS DirTree, TLC

CONSTANTS p0, p1, p2, p3, f1, null, none

(* The root and three more pairs, which are alike.                         *)
FourPairs  == {p0, p1, p2, p3}
OtherPairs == Permutations(FourPairs \ {p0})
OneFile    == {f1}

Ordinary == {"crash", "files", "dirs"}
NoSpace  == {"full", "files"}
==============================================================================
