------------------------------- MODULE BdCache -------------------------------
(***************************************************************************)
(* The caching block device of littlefs (littlefs/lfs.cpp:13-254): a read  *)
(* cache and a program cache in front of a device that may fail.  A step   *)
(* is one turn of the loop of lfs_bd_read, lfs_bd_cmp or lfs_bd_prog, or   *)
(* one call of the device.                                                 *)
(*                                                                         *)
(* One caller programs at a time, as in littlefs: it goes forward through  *)
(* a block from a multiple of the program size, and flushes before it      *)
(* starts elsewhere.  Erasing does nothing on the card (SDCard.h:270).     *)
(***************************************************************************)
EXTENDS Integers, Sequences

CONSTANTS
  BlockCount, BlockSize, ReadSize, ProgSize, CacheSize,
  Byte, Zero,    (* values of a byte; the one lfs_cache_zero leaves (0xff)  *)
  Hints,         (* how far callers expect to go on reading                *)
  Lengths,       (* how much they read or program at a time                *)
  MaxCalls,      (* bounds the calls that program or erase                 *)
  MaxFaults,     (* bounds what goes wrong                                 *)
  Faults         (* "unread": reading fails; "refused": programming fails; *)
                 (* "garbled": it goes wrong without notice; "unsynced"    *)

ASSUME BdCacheAssumption ==
  /\ {BlockCount, BlockSize, ReadSize, ProgSize, CacheSize} \subseteq Nat \ {0}
  /\ CacheSize % ReadSize = 0 /\ CacheSize % ProgSize = 0
  /\ BlockSize % CacheSize = 0
  /\ Zero \in Byte
  /\ Hints \subseteq Nat \ {0} /\ Lengths \subseteq Nat \ {0}
  /\ MaxCalls \in Nat /\ MaxFaults \in Nat
  /\ Faults \subseteq {"unread", "refused", "garbled", "unsynced"}

Block == 0 .. (BlockCount - 1)
Off   == 0 .. (BlockSize - 1)
Place == Block \X Off
NoBlock == BlockCount        (* LFS_BLOCK_NULL                              *)

VARIABLES
  disk,          (* the bytes on the device                                *)
  rcache, pcache,
  pc,            (* "idle", or the function that is running                *)
  call,          (* the call that is running: op, validate and what a      *)
                 (* flush goes on to                                       *)
  rd,            (* locals of lfs_bd_read                                  *)
  wr,            (* locals of lfs_bd_prog                                  *)
  result,        (* what the last call returned                            *)
  given,         (* history: bytes accepted from callers and not yet given *)
                 (* up by them                                             *)
  stale,         (* history: places in rcache programmed since it was read *)
  failed,        (* history: a call failed since pcache was last emptied   *)
  calls, faults  (* what MaxCalls and MaxFaults bound                      *)

hist == <<given, failed, calls, faults>>
vars == <<disk, rcache, pcache, pc, call, rd, wr, result, given, stale,
          failed, calls, faults>>

------------------------------------------------------------------------------
lfs_min(a, b) == IF a < b THEN a ELSE b
lfs_max(a, b) == IF a > b THEN a ELSE b
AlignDown(a, n) == a - (a % n)
AlignUp(a, n)   == AlignDown(a + n - 1, n)

Cache(block, off, size, buffer) ==
  [block |-> block, off |-> off, size |-> size, buffer |-> buffer]
Zeros == [i \in 0 .. CacheSize - 1 |-> Zero]

(* An empty cache keeps its buffer; its offset and size mean nothing.      *)
Empty(buffer) == Cache(NoBlock, 0, 0, buffer)
Dropped(c) == Empty(c.buffer)

(* Mutated: the label stays.                                               *)
ZeroedBuffer(c) == [c EXCEPT !.buffer = Zeros]

Zeroed(c)  == Empty(Zeros)

Covers(c, b, o) == c.block = b /\ c.off <= o /\ o < c.off + c.size
ByteAt(c, o)    == c.buffer[o - c.off]
PlacesOf(c)     == {p \in Place : Covers(c, p[1], p[2])}

(* What is stored at a place, for a reader that looks at pcache and one    *)
(* that does not.                                                          *)
Stored(past, b, o) ==
  IF past /\ Covers(pcache, b, o) THEN ByteAt(pcache, o) ELSE disk[b][o]

(* The locals of a call end with it.                                       *)
NoCall  == [op |-> "none", validate |-> FALSE, then |-> "idle"]
NoRead  == [block |-> 0, off |-> 0, left |-> 0, hint |-> 1, past |-> FALSE,
            got |-> <<>>]
NoWrite == [block |-> 0, off |-> 0, data |-> <<>>]
Fault(f) == f \in Faults /\ faults < MaxFaults /\ faults' = faults + 1
Return(r) == /\ pc' = "idle" /\ result' = r
             /\ call' = NoCall /\ rd' = NoRead /\ wr' = NoWrite

(* What a caller loses that gives up pcache, or whose call has failed.     *)
Lost == [given EXCEPT ![pcache.block] =
           [o \in {q \in DOMAIN @ : q < pcache.off} |-> @[o]]]

Fail(r) ==
  /\ Return(r)
  /\ IF call.op # "read" /\ pcache.block \in Block
     THEN failed' = TRUE /\ given' = Lost
     ELSE UNCHANGED <<failed, given>>

------------------------------------------------------------------------------
(* lfs_bd_read: the bytes still to read start at rd.off; rd.got are those  *)
(* the last turn of the loop has taken.                                    *)
Reading(b, o, n, hint, past) ==
  [block |-> b, off |-> o, left |-> n, hint |-> hint, past |-> past,
   got |-> <<>>]

InPcache == rd.past /\ Covers(pcache, rd.block, rd.off)
InRcache == ~InPcache /\ Covers(rcache, rd.block, rd.off)

(* A read stops where a cache that has priority begins.                    *)
Until(c, n) == IF c.block = rd.block /\ rd.off < c.off
               THEN lfs_min(n, c.off - rd.off) ELSE n

(* Mutated: pcache has no priority over the device.                        *)
BeforeEnd == rd.left

BeforePcache == IF rd.past THEN Until(pcache, rd.left) ELSE rd.left
BeforeCaches == Until(rcache, BeforePcache)

(* Mutated: less than a unit is read directly too.                         *)
BypassAny == rd.left >= rd.hint /\ rd.off % ReadSize = 0

Bypass == rd.left >= rd.hint /\ rd.off % ReadSize = 0 /\ rd.left >= ReadSize

LoadOff  == AlignDown(rd.off, ReadSize)
LoadSize ==
  lfs_min(lfs_min(AlignUp(rd.off + rd.hint, ReadSize), BlockSize) - LoadOff,
          CacheSize)
Loaded(data) ==
  Cache(rd.block, LoadOff, LoadSize,
        [i \in 0 .. CacheSize - 1 |->
           IF data /\ i < LoadSize THEN disk[rd.block][LoadOff + i]
           ELSE rcache.buffer[i]])

(* n bytes are copied from those at hand, which start at `first`.          *)
Advance(n, bytes, first) ==
  rd' = [rd EXCEPT !.off = @ + n, !.left = @ - n,
                   !.got = [i \in 1 .. n |-> bytes[(rd.off + i - 1) - first]]]

Loop == pc \in {"read", "compare"} /\ rd.left > 0
Same == <<disk, pcache, pc, call, wr, result, hist>>

ReadPcache ==
  /\ Loop /\ InPcache
  /\ Advance(lfs_min(rd.left, pcache.off + pcache.size - rd.off),
             pcache.buffer, pcache.off)
  /\ UNCHANGED <<rcache, stale, Same>>

ReadRcache ==
  /\ Loop /\ InRcache
  /\ Advance(lfs_min(BeforePcache, rcache.off + rcache.size - rd.off),
             rcache.buffer, rcache.off)
  /\ UNCHANGED <<rcache, stale, Same>>

ReadDirectly ==
  /\ Loop /\ ~InPcache /\ ~InRcache /\ Bypass
  /\ Advance(AlignDown(BeforeCaches, ReadSize), disk[rd.block], 0)
  /\ UNCHANGED <<rcache, stale, Same>>

LoadRcache ==
  /\ Loop /\ ~InPcache /\ ~InRcache /\ ~Bypass
  /\ rcache' = Loaded(TRUE)
  /\ stale' = {}
  /\ UNCHANGED <<rd, Same>>

(* The cache is labelled before the device is read: when that fails, the   *)
(* label stays over what the buffer held.                                  *)
LoadFails ==
  /\ Fault("unread")
  /\ Loop /\ ~InPcache /\ ~InRcache
  /\ IF Bypass THEN UNCHANGED <<rcache, stale>>
     ELSE /\ rcache' = Loaded(FALSE)
          /\ stale' = PlacesOf(rcache')
  /\ Fail("io")
  /\ UNCHANGED <<disk, pcache, calls>>

ReadReturns ==
  /\ pc = "read" /\ rd.left = 0
  /\ Return("ok")
  /\ UNCHANGED <<disk, rcache, pcache, stale, hist>>

------------------------------------------------------------------------------
(* lfs_bd_flush programs whole units; `call.then` is what follows it.      *)

(* Mutated: what does not fill a program unit is not programmed.           *)
UnitShort == AlignDown(pcache.size, ProgSize)

Unit == AlignUp(pcache.size, ProgSize)
Programmed(data) ==
  [disk EXCEPT ![pcache.block] =
     [o \in Off |-> IF pcache.off <= o /\ o < pcache.off + Unit
                    THEN data[o - pcache.off] ELSE @[o]]]
UnitPlaces == {pcache.block} \X (pcache.off .. pcache.off + Unit - 1)

(* The next byte that lfs_bd_cmp reads back.                               *)
Comparing(i) == Reading(pcache.block, pcache.off + i, 1, Unit - i, FALSE)

Flush ==
  /\ pc = "flush" /\ pcache.block \in Block
  /\ disk' = Programmed(pcache.buffer)
  /\ IF call.validate
     THEN /\ rcache' = Dropped(rcache) /\ stale' = {}
          /\ pc' = "compare" /\ rd' = Comparing(0)
          /\ UNCHANGED <<pcache, failed>>
     ELSE /\ pcache' = Zeroed(pcache) /\ pc' = call.then /\ failed' = FALSE
          /\ stale' = stale \cup (UnitPlaces \cap PlacesOf(rcache))
          /\ UNCHANGED <<rcache, rd>>
  /\ UNCHANGED <<faults, call, wr, result, given, calls>>

(* Another byte than the one that was sent.  A caller that does not        *)
(* validate is told by the CRC of its commit.                              *)
FlushGarbled ==
  /\ Fault("garbled")
  /\ pc = "flush" /\ pcache.block \in Block
  /\ \E o \in pcache.off .. pcache.off + Unit - 1, b \in Byte :
       /\ b # ByteAt(pcache, o)
       /\ disk' = Programmed([pcache.buffer EXCEPT ![o - pcache.off] = b])
  /\ IF call.validate
     THEN /\ rcache' = Dropped(rcache) /\ stale' = {}
          /\ pc' = "compare" /\ rd' = Comparing(0)
          /\ UNCHANGED <<pcache, given, failed>>
     ELSE /\ pcache' = Zeroed(pcache) /\ pc' = call.then /\ failed' = FALSE
          /\ stale' = stale \cup (UnitPlaces \cap PlacesOf(rcache))
          /\ given' = Lost
          /\ UNCHANGED <<rcache, rd>>
  /\ UNCHANGED <<call, wr, result, calls>>

FlushRefused ==
  /\ Fault("refused")
  /\ pc = "flush" /\ pcache.block \in Block
  /\ disk' \in {disk, Programmed(pcache.buffer)}
  /\ stale' = stale \cup (UnitPlaces \cap PlacesOf(rcache))
  /\ Fail("io")
  /\ UNCHANGED <<rcache, pcache, calls>>

FlushNothing ==
  /\ pc = "flush" /\ pcache.block = NoBlock
  /\ pc' = call.then
  /\ UNCHANGED <<disk, rcache, pcache, call, rd, wr, result, stale, hist>>

(* The byte read back is at rd.off - 1.                                    *)
Differs == rd.got[1] # ByteAt(pcache, rd.off - 1)

Compared ==
  /\ pc = "compare" /\ rd.left = 0 /\ ~Differs
  /\ LET i == rd.off - pcache.off
     IN IF i < Unit
        THEN rd' = Comparing(i) /\ UNCHANGED <<pcache, pc, failed>>
        ELSE /\ pcache' = Zeroed(pcache) /\ pc' = call.then
             /\ failed' = FALSE
             /\ UNCHANGED rd
  /\ UNCHANGED <<faults, disk, rcache, call, wr, result, given, stale, calls>>

ComparedUnequal ==
  /\ pc = "compare" /\ rd.left = 0 /\ Differs
  /\ Fail("corrupt")
  /\ UNCHANGED <<faults, disk, rcache, pcache, stale, calls>>

SyncDevice ==
  /\ pc = "sync"
  /\ \/ Return("ok") /\ UNCHANGED <<given, failed, faults>>
     \/ Fault("unsynced") /\ Fail("io")
  /\ UNCHANGED <<disk, rcache, pcache, stale, calls>>

FlushReturns ==
  /\ pc = "flushed"
  /\ Return("ok")
  /\ UNCHANGED <<disk, rcache, pcache, stale, hist>>

------------------------------------------------------------------------------
(* lfs_bd_prog: the bytes still to program are wr.data, from wr.off on.    *)
FitsPcache == /\ wr.block = pcache.block
              /\ pcache.off <= wr.off /\ wr.off < pcache.off + CacheSize

(* Mutated: what the buffer holds already is not subtracted.               *)
RoomWhole == CacheSize

Room == CacheSize - (wr.off - pcache.off)

ProgCopy ==
  /\ pc = "prog" /\ wr.data # <<>> /\ FitsPcache
  /\ LET at   == wr.off - pcache.off
         n    == lfs_min(Len(wr.data), Room)
         size == lfs_max(pcache.size, at + n)
         here == wr.off .. wr.off + n - 1
     IN /\ pcache' = [pcache EXCEPT
             !.size = size,
             !.buffer = [i \in DOMAIN @ |-> IF i \in at .. at + n - 1
                                            THEN wr.data[i - at + 1] ELSE @[i]]]
        /\ wr' = [wr EXCEPT !.off = @ + n,
                            !.data = SubSeq(@, n + 1, Len(@))]
        /\ given' = [given EXCEPT ![wr.block] =
             [o \in here \cup DOMAIN @ |->
                IF o \in here THEN wr.data[o - wr.off + 1] ELSE @[o]]]
        /\ pc' = IF size = CacheSize THEN "flush" ELSE pc
  /\ UNCHANGED <<faults, disk, rcache, call, rd, result, stale, failed, calls>>

ProgPrepare ==
  /\ pc = "prog" /\ wr.data # <<>> /\ ~FitsPcache /\ pcache.block = NoBlock
  /\ pcache' = [pcache EXCEPT !.block = wr.block, !.size = 0,
                              !.off = AlignDown(wr.off, ProgSize)]
  /\ UNCHANGED <<disk, rcache, pc, call, rd, wr, result, stale, hist>>

ProgNotFlushed ==
  /\ pc = "prog" /\ wr.data # <<>> /\ ~FitsPcache /\ pcache.block # NoBlock
  /\ Return("notflushed")
  /\ UNCHANGED <<disk, rcache, pcache, stale, hist>>

ProgReturns ==
  /\ pc = "prog" /\ wr.data = <<>>
  /\ Return("ok")
  /\ UNCHANGED <<disk, rcache, pcache, stale, hist>>

------------------------------------------------------------------------------
(* The callers.                                                            *)
Calling(op, validate, then) ==
  call' = [op |-> op, validate |-> validate, then |-> then]

CallRead(b, o, n, hint, past) ==
  /\ pc = "idle"
  /\ IF b \notin Block \/ o + n > BlockSize
     THEN /\ result' = "corrupt" /\ UNCHANGED <<pc, call, rd>>
     ELSE /\ pc' = "read" /\ rd' = Reading(b, o, n, hint, past)
          /\ Calling("read", FALSE, "idle")
          /\ UNCHANGED result
  /\ UNCHANGED <<disk, rcache, pcache, wr, stale, hist>>

(* Callers go on where they stopped, or start on a program unit with       *)
(* nothing of theirs behind it once all is flushed or a call has failed.   *)
(* Left out is a caller that after a failure asks again, in pieces, for a  *)
(* unit that pcache still holds whole (an append retried by lfs_dir_commit *)
(* through lfs_dir_commitprog): the first piece flushes the unit, and the  *)
(* second starts it anew and programs 0xff over the first (lfs.cpp:218,    *)
(* 237).  ProgrammedIsKept does not hold for it; what tells such a caller  *)
(* is reading back the checksum, in lfs_dir_commitcrc.                     *)
GoesOn(b, o)   == pcache.block = b /\ o = pcache.off + pcache.size
StartsAt(b, o) == /\ pcache.block = NoBlock \/ failed
                  /\ o % ProgSize = 0
                  /\ \A q \in DOMAIN given[b] : q < o

CallProg(b, o, data, validate) ==
  /\ pc = "idle" /\ calls < MaxCalls
  /\ GoesOn(b, o) \/ StartsAt(b, o)
  /\ calls' = calls + 1
  /\ IF o + Len(data) > BlockSize
     THEN result' = "nospc" /\ UNCHANGED <<pc, call, wr>>
     ELSE /\ Calling("prog", validate, "prog")
          /\ pc' = "prog" /\ wr' = [block |-> b, off |-> o, data |-> data]
          /\ UNCHANGED result
  /\ UNCHANGED <<faults, disk, rcache, pcache, rd, stale, given, failed>>

CallFlush(validate) ==
  /\ pc = "idle"
  /\ Calling("flush", validate, "flushed") /\ pc' = "flush"
  /\ UNCHANGED <<disk, rcache, pcache, rd, wr, result, stale, hist>>

CallSync(validate) ==
  /\ pc = "idle"
  /\ Calling("sync", validate, "sync") /\ pc' = "flush"
  /\ rcache' = Dropped(rcache) /\ stale' = {}
  /\ UNCHANGED <<disk, pcache, rd, wr, result, hist>>

(* A caller gives up what it was programming (lines 1694, 1860, 2345,      *)
(* 2654), without zeroing the buffer.                                      *)
GiveUp ==
  /\ pc = "idle" /\ pcache.block \in Block
  /\ given' = Lost
  /\ pcache' = Dropped(pcache)
  /\ failed' = FALSE
  /\ UNCHANGED <<faults, disk, rcache, pc, call, rd, wr, result, stale, calls>>

(* lfs_bd_erase: the block is to be written anew.                          *)
Erase(b) ==
  /\ pc = "idle" /\ calls < MaxCalls /\ pcache.block # b
  /\ given[b] # <<>>
  /\ given' = [given EXCEPT ![b] = <<>>]
  /\ calls' = calls + 1
  /\ UNCHANGED <<faults, disk, rcache, pcache, pc, call, rd, wr, result, stale,
                 failed>>

Data == UNION {[1 .. n -> Byte] : n \in Lengths}

Init ==
  /\ disk = [b \in Block |-> [o \in Off |-> Zero]]
  /\ rcache = Empty(Zeros)
  /\ pcache = Empty(Zeros)
  /\ pc = "idle" /\ result = "ok"
  /\ call = NoCall /\ rd = NoRead /\ wr = NoWrite
  /\ given = [b \in Block |-> <<>>]
  /\ stale = {} /\ failed = FALSE /\ calls = 0 /\ faults = 0

Step ==
  \/ ReadPcache \/ ReadRcache \/ ReadDirectly \/ LoadRcache \/ LoadFails
  \/ ReadReturns
  \/ Flush \/ FlushGarbled \/ FlushRefused \/ FlushNothing
  \/ Compared \/ ComparedUnequal \/ SyncDevice \/ FlushReturns
  \/ ProgCopy \/ ProgPrepare \/ ProgNotFlushed \/ ProgReturns

Caller ==
  \/ \E b \in Block \cup {NoBlock}, o \in Off, n \in Lengths \cup {BlockSize},
        hint \in Hints, past \in BOOLEAN : CallRead(b, o, n, hint, past)
  \/ \E b \in Block, o \in Off, data \in Data, validate \in BOOLEAN :
       CallProg(b, o, data, validate)
  \/ \E validate \in BOOLEAN : CallFlush(validate) \/ CallSync(validate)
  \/ GiveUp
  \/ \E b \in Block : Erase(b)

Next == Step \/ Caller
Spec == Init /\ [][Next]_vars /\ WF_vars(Step)

------------------------------------------------------------------------------
CacheType(c) ==
  /\ c = Cache(c.block, c.off, c.size, c.buffer)
  /\ c.block \in Block \cup {NoBlock} /\ c.off \in Off
  /\ c.size \in 0 .. CacheSize /\ c.off + c.size <= BlockSize
  /\ c.buffer \in [0 .. CacheSize - 1 -> Byte]

(* Types: the caches stay within their buffers and within a block.         *)
TypeOK ==
  /\ disk \in [Block -> [Off -> Byte]]
  /\ CacheType(rcache) /\ CacheType(pcache)
  /\ pc \in {"idle", "read", "compare", "flush", "flushed", "sync", "prog"}
  /\ rd.block \in Block /\ rd.off \in 0 .. BlockSize
  /\ rd.left \in 0 .. BlockSize - rd.off
  /\ rd.past \in BOOLEAN /\ rd.hint \in Nat /\ rd.got \in Seq(Byte)
  /\ wr.block \in Block /\ wr.off + Len(wr.data) <= BlockSize
  /\ stale \subseteq Place /\ failed \in BOOLEAN /\ calls \in 0 .. MaxCalls
  /\ faults \in 0 .. MaxFaults
  /\ \A b \in Block : DOMAIN given[b] \subseteq Off

(* Every byte a read takes is what is stored there, pcache before the      *)
(* device and whatever rcache held; unless rcache is known to be older,    *)
(* programmed over without validation or left by a load that failed.       *)
ReadsAreCurrent ==
  [][rd'.off > rd.off =>
       \A i \in 1 .. Len(rd'.got) :
         LET o == rd.off + i - 1
         IN <<rd.block, o>> \in Place \ stale
              => rd'.got[i] = Stored(rd.past, rd.block, o)]_vars

(* What a caller has programmed is in pcache or on the device, until the   *)
(* caller gives it up, erases it, or is told of a failure in its unit.     *)
ProgrammedIsKept ==
  \A b \in Block : \A o \in DOMAIN given[b] :
    Stored(TRUE, b, o) = given[b][o]

(* "pcache must have been flushed, either by programming and entire block  *)
(* or manually flushing the pcache" (line 230): a caller that keeps to the *)
(* order is refused only with what an earlier failure left in pcache.      *)
RefusedOnlyAfterFailure ==
  [][pc # "idle" /\ pc' = "idle" /\ result' = "notflushed" => failed]_vars

(* Every call returns.                                                     *)
CallsReturn == pc # "idle" ~> pc = "idle"
==============================================================================
