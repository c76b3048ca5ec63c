----------------------------- MODULE BlockDevice -----------------------------
(***************************************************************************)
(* What the SD card driver promises its caller (SDCard.h: read, program,   *)
(* trim and their status codes): an array of blocks, called one operation  *)
(* at a time.  An operation touches only the blocks of its range; if it    *)
(* reports no error, its whole effect has taken place; if it reports one,  *)
(* any part of it has.                                                     *)
(***************************************************************************)
EXTENDS Integers, Sequences

CONSTANTS
  BlockSize,   (* bytes in a block                                         *)
  CardBlocks,  (* blocks of the device                                     *)
  Value,       (* contents of a block                                      *)
  Erased,      (* the contents of an erased block                          *)
  NoCall       (* no operation is running                                  *)

VARIABLES
  store,       (* the blocks                                               *)
  ready,       (* the device has been initialised                          *)
  call,        (* the running operation                                    *)
  result,      (* the status the last one returned                         *)
  data         (* the blocks the last read returned                        *)

promise == <<store, ready, call, result, data>>

Sectors == 0 .. (CardBlocks - 1)

(* The blocks a call names, in order; those beyond the device included.    *)
Count(c)     == c.size \div BlockSize
Nth(c, i)    == (c.addr \div BlockSize) + i - 1
InRange(c)   == {Nth(c, i) : i \in 1 .. Count(c)}
Intended(c, i) == IF c.op = "program" THEN c.data[i] ELSE Erased

Init ==
  /\ store \in [Sectors -> Value]
  /\ ready = FALSE
  /\ call = NoCall
  /\ result = "none" /\ data = <<>>

Begin ==
  /\ call = NoCall
  /\ call' # NoCall
  /\ data' = <<>>
  /\ UNCHANGED <<store, ready, result>>

(* Blocks change as call c intends, or not at all.                         *)
Written(c) ==
  \A b \in Sectors : store'[b] # store[b] =>
    /\ c.op \in {"program", "trim"}
    /\ \E i \in 1 .. Count(c) : b = Nth(c, i) /\ store'[b] = Intended(c, i)

(* One block of a write, or all of an erase, takes place.                  *)
Change ==
  /\ call # NoCall
  /\ store' # store /\ Written(call)
  /\ UNCHANGED <<ready, call, result, data>>

(* One more block has been read.                                           *)
Transfer ==
  /\ call # NoCall /\ call.op = "read"
  /\ data' # data
  /\ UNCHANGED <<store, ready, call, result>>

Done(c) ==
  /\ InRange(c) \subseteq Sectors
  /\ c.op = "read" =>
       data' = [i \in 1 .. Count(c) |-> store'[Nth(c, i)]]
  /\ c.op \in {"program", "trim"} =>
       \A i \in 1 .. Count(c) : store'[Nth(c, i)] = Intended(c, i)

(* The end of a call; the last of its effects may come with it.            *)
Return ==
  /\ call # NoCall /\ call' = NoCall
  /\ Written(call)
  /\ result' = "ok" /\ call.op \in {"read", "program", "trim"} => Done(call)
  /\ result' = "ok" /\ call.op = "init" => ready
  /\ ready' = (ready /\ call.op # "deinit")
  /\ UNCHANGED data

(* Initialising marks the device ready on the way.                         *)
GetReady ==
  /\ call # NoCall /\ call.op = "init"
  /\ ready' = TRUE
  /\ UNCHANGED <<store, call, result, data>>

(* Another card in the slot, while the device is not in use.               *)
Exchange ==
  /\ call = NoCall /\ ~ready
  /\ store' \in [Sectors -> Value]
  /\ UNCHANGED <<ready, call, result, data>>

Next ==
  \/ Begin \/ Change \/ Transfer \/ Return \/ GetReady \/ Exchange

Promise == Init /\ [][Next]_promise
==============================================================================
