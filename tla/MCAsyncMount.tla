---------------------------- MODULE MCAsyncMount -----------------------------
(* Instances of AsyncMount for TLC.                                        *)
EXTENDS AsyncMount

TwoPairs == {1, 2}

(* Every tail list of two pairs, loops included, and every placement of    *)
(* superblocks and global state.                                           *)
AllDisks == DiskSet

(* A healthy device: the list 1 -> 2, the superblock in the first pair and *)
(* pending global state in the second.                                     *)
HealthyDisk ==
  {[tail |-> <<2, 0>>, super |-> <<"ok", "none">>, delta |-> <<0, 1>>]}

SomeSeeds == {0, 7}

(* One pair and room for two blocks of files.                              *)
OnePair == {1}
SmallDisk == {[tail |-> <<0>>, super |-> <<"ok">>, delta |-> <<0>>]}
==============================================================================
