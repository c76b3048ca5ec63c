----------------------------- MODULE EntryStore -----------------------------
(***************************************************************************)
(* What a directory is to its users: under each name an entry, which has a *)
(* kind, contents and attributes.  A call changes it at once and whole,    *)
(* and only where the call says; nothing else changes it, a loss of power  *)
(* included.  Listing the directory shows the names in order, each once.   *)
(***************************************************************************)
EXTENDS Naturals, SequencesExt

CONSTANTS
  Absent,      (* there is no entry of a name                              *)
  NoValue      (* an entry has no attribute of a type                      *)

VARIABLES
  entries,     (* by name                                                  *)
  listing,     (* the names as a listing shows them                        *)
  call,        (* the last call that changed anything,                     *)
  calls        (* and how many there were                                  *)

store == <<entries, listing, call, calls>>

Listed(e) == SetToSortSeq({n \in DOMAIN e : e[n] # Absent}, <)

(* What call c makes of the entries e.                                     *)
Effect(c, e) ==
  CASE c.op = "create"  -> [e EXCEPT ![c.name] = c.entry]
    [] c.op = "write"   -> [e EXCEPT ![c.name].data = c.data]
    [] c.op = "setattr" -> [e EXCEPT ![c.name].attrs[c.type] = c.value]
    [] c.op = "remove"  -> [e EXCEPT ![c.name] = Absent]
    [] c.op = "rename"  -> [e EXCEPT ![c.to] = e[c.name], ![c.name] = Absent]

Init == \E e \in {entries} : listing = Listed(e)

Next ==
  \E e \in {entries}, f \in {entries'} :
    /\ \/ calls' = calls + 1 /\ f = Effect(call', e)
       \/ calls' = calls /\ f = e
    /\ listing' = Listed(f)

Promise == Init /\ [][Next]_store
==============================================================================
