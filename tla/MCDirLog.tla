------------------------------ MODULE MCDirLog ------------------------------
(* A directory of up to three names in up to two pairs; two calls on one   *)
(* that is empty, or full, compacted or split.                             *)
EXTENDS DirLog
=============================================================================
