------------------------------ MODULE MCBdCache ------------------------------
(* Instances of BdCache for TLC.                                           *)
EXTENDS BdCache

AllFaults == {"unread", "refused", "garbled", "unsynced"}
NoFaults  == {}
OneAndThree == {1, 3}
==============================================================================
