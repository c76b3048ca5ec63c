------------------------------- MODULE MCFile -------------------------------
(* Two files and two handles on a device of a few small blocks.            *)
EXTENDS File
FlagSets  == {{}, {"creat", "trunc"}, {"append"}, {"creat", "excl"}}
PlainFlags == {{}, {"append"}}
None      == {{}}
NoneOrOne == {{}, {4}}
SeekTo   == {<<"set", 4>>, <<"end", 0>>}
Alike    == Permutations(File) \cup Permutations(Handle)

(* The closed formula of lfs_ctz_index, against the sizes of the blocks.   *)
Room(i)   == BlockSize - (IF i = 0 THEN 0 ELSE lfs_ctz[i] + 1)
StartOf[i \in Nat] == IF i = 0 THEN 0 ELSE StartOf[i - 1] + Room(i - 1)
ASSUME IndexIsRight ==
  \A i \in 0 .. FileMax : \A n \in StartOf[i] .. (StartOf[i + 1] - 1) :
    n <= FileMax =>
      Index[n] = [index |-> i, off |-> n - StartOf[i] + BlockSize - Room(i)]
=============================================================================
