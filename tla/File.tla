-------------------------------- MODULE File --------------------------------
(***************************************************************************)
(* The files of littlefs: contents inlined in a metadata pair, or in a     *)
(* skip list of blocks that is copied from the first changed block on      *)
(* (littlefs/lfs.cpp:2204-2390, 2394-3187), and the traversal of both that *)
(* the allocator goes by (4116-4204).                                      *)
(*                                                                         *)
(* One action is one call of one thread, or a loss of power: between two   *)
(* calls, or in a synchronisation, before and after the entry is committed *)
(* (no other call commits what it has programmed).  The unit of positions  *)
(* and sizes is four bytes, that of a pointer in a block: the formulas of  *)
(* the list are the same in either unit.  A block, a file's cache and the unit of   *)
(* programming are all of one size, as LittleFS configures them            *)
(* (LittleFS.h:20, LittleFS.cpp:147-166), so what a file writes reaches    *)
(* the card when a block is full and when the file is flushed.  A commit   *)
(* to a metadata pair always succeeds here, and reading is not cached      *)
(* (module BdCache).                                                       *)
(***************************************************************************)
EXTENDS Naturals, FiniteSets, SequencesExt

CONSTANTS
  File,
  Handle,
  NoFile,
  Closed,
  BlockCount,  (* blocks of the device; 0 and 1 hold the metadata          *)
  BlockSize,
  InlineMax,   (* the largest size that is inlined                         *)
  FileMax,     (* LFS_FILE_MAX                                             *)
  Bads,        (* the sets of blocks that may not keep what is programmed  *)
  Sizes,       (* sizes of the files that are stored at the start          *)
  Flags,       (* flags that files are opened with, each a set             *)
  Lengths,     (* of writes and reads                                      *)
  Seeks,       (* <<whence, offset>>                                       *)
  Cuts,        (* sizes to truncate to                                     *)
  Seeds,       (* blocks a mount may put the allocator at                  *)
  MaxCalls,    (* bounds the calls of a behaviour                          *)
  Uses         (* what happens: "crash", power is lost; "remove", a file   *)
               (* is removed; "held", also while it is open; "twice", a    *)
               (* file is opened by two handles; "boundary", a file is cut *)
               (* where a block ends; "whole", with bad blocks there, a    *)
               (* block is written in one go; "remount", handles outlive a *)
               (* mount                                                    *)

Device == 0 .. (BlockCount - 1)

ASSUME FileAssumption ==
  /\ BlockCount \in Nat /\ BlockCount > 2
  /\ Bads \subseteq SUBSET (2 .. (BlockCount - 1))
  /\ BlockSize \in Nat /\ BlockSize > 2 /\ InlineMax \in 0 .. (BlockSize - 3)
  /\ FileMax \in Nat /\ Sizes \subseteq 0 .. FileMax /\ Cuts \subseteq Nat
  /\ Lengths \subseteq Nat \ {0} /\ Seeks \subseteq {"set", "cur", "end"} \X Nat
  /\ Seeds \subseteq Device /\ MaxCalls \in Nat
  /\ Uses \subseteq {"crash", "remove", "held", "twice", "boundary", "whole",
                  "remount"}

VARIABLES
  bad,         (* blocks that do not keep what is programmed               *)
  disk,        (* the units of each block                                  *)
  entry,       (* what the metadata pair has for each file                 *)
  handle,      (* lfs_file_t, on lfs->mlist                                *)
  alloc,       (* the allocator: where it looks next, and the blocks it    *)
               (* has handed out since lfs_alloc_ack                       *)
  call,        (* history: the last call, and what it returned             *)
  calls        (* calls made, up to MaxCalls                               *)

vars == <<bad, disk, entry, handle, alloc, call, calls>>

(* Units that are not block numbers of the device.  Zeros are: 0.          *)
Inline == BlockCount        (* LFS_BLOCK_INLINE                            *)
Null   == BlockCount + 1    (* LFS_BLOCK_NULL; also what is erased         *)
Broken == BlockCount + 2    (* stands for LFS_ERR_CORRUPT                  *)
(* What the n-th call writes.                                              *)
Stamped(n, m) == [i \in 1 .. m |-> 100 * (n + 1) + i]

(* The state between two statements of a call, the error so far, and the   *)
(* card as it was right before and right after each commit of the call.    *)
State(d, e, h, a) ==
  [disk |-> d, entry |-> e, handle |-> h, alloc |-> a,
   err |-> "ok", got |-> Null, out |-> <<>>, cuts |-> {}]
Card(s) == [disk |-> s.disk, entry |-> s.entry]
Now == State(disk, entry, handle, alloc)
Fail(s, e) == [s EXCEPT !.err = e]
Ok(s) == s.err = "ok"
(* The next statement, unless there is an error to return.                 *)
Then(s, Step(_)) == IF Ok(s) THEN Step(s) ELSE s
Has(s, h, flag) == flag \in s.handle[h].flags
On(s, h, flag)  == [s EXCEPT !.handle[h].flags = @ \cup {flag}]
Off(s, h, flag) == [s EXCEPT !.handle[h].flags = @ \ {flag}]

------------------------------------------------------------------------------
(* The skip list: block i starts with pointers to blocks i - 2^j, for the  *)
(* j from 0 to the number of zeros that i ends with.                       *)
lfs_popc[n \in Nat] == IF n = 0 THEN 0 ELSE (n % 2) + lfs_popc[n \div 2]
lfs_ctz[n \in Nat]  == IF n % 2 = 1 THEN 0 ELSE 1 + lfs_ctz[n \div 2]
lfs_npw2[n \in Nat] == IF n <= 1 THEN 0 ELSE 1 + lfs_npw2[(n + 1) \div 2]

(* lfs_ctz_index: the block that a position is in, and where in it.        *)
Index ==
  [pos \in 0 .. FileMax |->
    LET b == BlockSize - 2
        i == (pos - (lfs_popc[pos \div b - 1] + 2)) \div b
    IN IF pos \div b = 0 THEN [index |-> 0, off |-> pos]
       ELSE [index |-> i, off |-> pos - b * i - lfs_popc[i]]]
LastIndex(size) == Index[size - 1].index

(* A unit as it is read: from the cache of a handle, or from the card.     *)
Pending(f, b) == f # Closed /\ b = f.block /\ f.buf # <<>>
Unit(d, f, b, o) ==
  IF b \notin Device THEN Broken
  ELSE IF Pending(f, b) /\ o < Len(f.buf) THEN f.buf[o + 1] ELSE d[b][o]

RECURSIVE Descend(_, _, _, _)
Descend(d, b, current, target) ==
  IF current <= target \/ b = Broken THEN b
  ELSE LET skip == Min({lfs_npw2[current - target + 1] - 1, lfs_ctz[current]})
       IN Descend(d, Unit(d, Closed, b, skip), current - 2^skip, target)
(* lfs_ctz_find                                                            *)
Find(d, head, size, pos) ==
  IF size = 0 THEN [block |-> Null, off |-> 0]
  ELSE LET at == Index[pos]
       IN [block |-> Descend(d, head, LastIndex(size), at.index), off |-> at.off]

(* lfs_ctz_traverse: the blocks it meets.                                  *)
RECURSIVE Met(_, _, _, _)
Met(d, f, b, index) ==
  LET count == 2 - (index % 2)
      heads == [i \in 1 .. count |-> Unit(d, f, b, i - 1)]
  IN {b} \cup IF index = 0 \/ b = Broken THEN {}
              ELSE {heads[i] : i \in 1 .. (count - 1)}
                     \cup Met(d, f, heads[count], index - count)
Traversed(d, f, head, size) ==
  IF size = 0 THEN {} ELSE Met(d, f, head, LastIndex(size))

------------------------------------------------------------------------------
(* The allocator, as its users see it (module Alloc has its lookahead):    *)
(* the next block that a traversal of the file system does not meet and    *)
(* that has not been handed out since the last lfs_alloc_ack.              *)
InEntry(s, e) ==
  IF e # NoFile /\ e.kind = "ctz"
  THEN Traversed(s.disk, Closed, e.head, e.size) ELSE {}
InList(s, f, flag, head, size) ==
  IF f.listed /\ flag \in f.flags /\ "INLINE" \notin f.flags
  THEN Traversed(s.disk, f, head, size) ELSE {}
(* Mutated: without what is flushed and not stored; without what is not    *)
(* even flushed.                                                           *)
InHandleWriting(s, f) == InList(s, f, "WRITING", f.block, f.pos)
InHandleDirty(s, f)   == InList(s, f, "DIRTY", f.head, f.size)
InHandle(s, f) ==
  InList(s, f, "DIRTY", f.head, f.size)
    \cup InList(s, f, "WRITING", f.block, f.pos)
InUse(s) ==
  {0, 1} \cup UNION {InEntry(s, s.entry[x]) : x \in File}
         \cup UNION {InHandle(s, s.handle[h]) :
                        h \in {h \in Handle : s.handle[h] # Closed}}

lfs_alloc_ack(s) == [s EXCEPT !.alloc.taken = {}]
Grant(s, b) ==
  [s EXCEPT !.got = b, !.alloc = [next |-> (b + 1) % BlockCount,
                                  taken |-> @.taken \cup {b}]]
Nearest(next, free) ==
  LET ahead(b) == (b + BlockCount - next) % BlockCount
  IN CHOOSE b \in free : \A c \in free : ahead(b) <= ahead(c)
AllocFrom(s, used, free) ==
  IF Broken \in used THEN Fail(lfs_alloc_ack(s), "corrupt")
  ELSE IF free = {} THEN Fail(s, "nospc")
  ELSE Grant(s, Nearest(s.alloc.next, free))
lfs_alloc(s) ==
  LET Unused(used) == Device \ (used \cup s.alloc.taken)
      From(used) == AllocFrom(s, used, Unused(used))
  IN From(InUse(s))

(* A block taken to be written, erased.                                    *)
Erased == [o \in 0 .. (BlockSize - 1) |-> Null]
NewBlock(s) == Then(lfs_alloc(s), LAMBDA a : [a EXCEPT !.disk[a.got] = Erased])

------------------------------------------------------------------------------
(* Writing.  The cache of a handle holds what is to be programmed, from    *)
(* the first unit of the block on; it is empty after that.                 *)
Program(s, h) ==
  LET f == s.handle[h] IN
  IF f.block \in bad THEN Fail(s, "corrupt")
  ELSE [s EXCEPT !.disk[f.block] = [o \in DOMAIN @ |->
                    IF o < Len(f.buf) THEN f.buf[o + 1] ELSE Null],
                 !.handle[h].buf = <<>>]

lfs_bd_prog(s, h, data) ==
  LET f == s.handle[h]
      buf == SubSeq(f.buf, 1, f.off) \o data
               \o SubSeq(f.buf, f.off + Len(data) + 1, Len(f.buf))
      t == [s EXCEPT !.handle[h].buf = buf]
  IN IF Len(buf) = BlockSize /\ f.block # Inline THEN Program(t, h) ELSE t

(* The units before the position in the block, to where they go on.        *)
Copied(a, h) ==
  LET f == a.handle[h]
      unit(o) == IF Has(a, h, "INLINE") THEN f.buf[o + 1]
                 ELSE Unit(a.disk, f, f.block, o)
  IN [i \in 1 .. f.off |-> unit(i - 1)]
lfs_file_relocate(s, h) ==
  Then(NewBlock(s), LAMBDA a :
    On([a EXCEPT !.handle[h].buf = Copied(a, h), !.handle[h].block = a.got],
       h, "WRITING"))

lfs_file_outline(s, h) ==
  Then(lfs_file_relocate(
         lfs_alloc_ack([s EXCEPT !.handle[h].off = s.handle[h].pos]), h),
       LAMBDA r : Off(r, h, "INLINE"))

(* The pointers a new block starts with, each read where the one before    *)
(* it points; mutated: the last is not read.                               *)
HeadsOfFirst(d, head, skips) == [i \in 1 .. skips |-> head]
Heads(d, head, skips) ==
  LET heads[i \in 1 .. skips] ==
        IF i = 1 THEN head ELSE Unit(d, Closed, heads[i - 1], i - 2)
  IN heads

(* lfs_ctz_extend: a block to go on in after the first size units of a     *)
(* list with that head.  A last block that is incomplete is copied.        *)
StartOfNext(d, head, size, last) ==
  IF size = 0 THEN <<>>
  ELSE IF last.off + 1 < BlockSize
  THEN [i \in 1 .. (last.off + 1) |-> Unit(d, Closed, head, i - 1)]
  ELSE Heads(d, head, lfs_ctz[last.index + 1] + 1)
Begin(a, h, start) ==
  IF Broken \in Range(start) THEN Fail(a, "corrupt")
  ELSE [a EXCEPT !.handle[h].block = a.got, !.handle[h].off = Len(start),
                 !.handle[h].buf = start]
Extend(s, h, head, size) ==
  Then(NewBlock(s), LAMBDA a :
    Begin(a, h, StartOfNext(a.disk, head, size, Index[size - 1])))

(* A block that does not keep what is programmed is left for another one,  *)
(* and the step is made again there.                                       *)
Moving(p, h, Again(_)) ==
  IF p.err # "corrupt" THEN p
  ELSE Then(lfs_file_relocate([p EXCEPT !.err = "ok"], h), Again)

RECURSIVE Place(_, _, _), Settle(_, _)
Place(s, h, data) ==
  Moving(lfs_bd_prog(s, h, data), h, LAMBDA r : Place(r, h, data))
Settle(s, h) ==
  IF s.handle[h].buf = <<>> THEN s
  ELSE Moving(Program(s, h), h, LAMBDA r : Settle(r, h))

GoTo(s, h, at) ==
  IF at.block = Broken THEN Fail(s, "corrupt")
  ELSE [s EXCEPT !.handle[h].block = at.block, !.handle[h].off = at.off]

(* The block that lfs_file_write goes on in: one more, that starts as what *)
(* was in the block of the position before.                                *)
BeforePos(s, h) ==
  LET f == s.handle[h] IN
  IF Has(s, h, "WRITING") \/ f.pos = 0 THEN s
  ELSE GoTo([s EXCEPT !.handle[h].buf = <<>>], h,
            Find(s.disk, f.head, f.size, f.pos - 1))
OneMore(s, h) ==
  Then(BeforePos(s, h), LAMBDA t :
    Extend(lfs_alloc_ack(t), h, t.handle[h].block, t.handle[h].pos))
NextBlock(s, h) ==
  Then(IF Has(s, h, "INLINE")
       THEN GoTo(s, h, [block |-> Inline, off |-> s.handle[h].pos])
       ELSE OneMore(s, h), LAMBDA t : On(t, h, "WRITING"))

Advance(s, h, n) == [s EXCEPT !.handle[h].pos = @ + n, !.handle[h].off = @ + n]
InBlock(s, h, flag) == Has(s, h, flag) /\ s.handle[h].off < BlockSize

RECURSIVE WriteBlocks(_, _, _)
WriteBlocks(s, h, data) ==
  LET diff(t) == Min({Len(data), BlockSize - t.handle[h].off})
      Written(t, n) ==
        Then(Place(t, h, SubSeq(data, 1, n)), LAMBDA u :
          WriteBlocks(lfs_alloc_ack(Advance(u, h, n)), h,
                      SubSeq(data, n + 1, Len(data))))
  IN IF data = <<>> THEN s
     ELSE Then(IF InBlock(s, h, "WRITING") THEN s ELSE NextBlock(s, h),
               LAMBDA t : Written(t, diff(t)))

(* Whether a file of that size is inlined; mutated: whether it fits in its *)
(* cache.                                                                  *)
FitsCache(size)  == size <= BlockSize
FitsInline(size) == size <= InlineMax

RECURSIVE lfs_file_write(_, _, _), lfs_file_flush(_, _)
RECURSIVE ZerosTo(_, _, _), CopyRest(_, _, _)

(* Zeros are written one at a time, up to a position.                      *)
ZerosTo(s, h, pos) ==
  IF ~Ok(s) \/ s.handle[h].pos >= pos THEN s
  ELSE ZerosTo(lfs_file_write(s, h, <<0>>), h, pos)

(* Where a write goes, and the zeros up to it.                             *)
MoveTo(s, h, pos) == [s EXCEPT !.handle[h].pos = pos]
WritePos(f) == IF f.append /\ f.pos < f.size THEN f.size ELSE f.pos
Filled(s, h) ==
  LET f == s.handle[h] IN
  IF "WRITING" \in f.flags \/ f.pos <= f.size THEN s
  ELSE ZerosTo(MoveTo(s, h, f.size), h, f.pos)
Housed(s, h, n) ==
  LET f == s.handle[h] IN
  IF "INLINE" \in f.flags /\ ~FitsInline(Max({f.pos + n, f.size}))
  THEN lfs_file_outline(s, h) ELSE s
Marked(s, h) == IF Ok(s) THEN Off(s, h, "ERRED") ELSE On(s, h, "ERRED")
WriteHere(s, h, data) ==
  IF s.handle[h].pos + Len(data) > FileMax THEN Fail(s, "fbig")
  ELSE Then(Filled(s, h), LAMBDA t :
         Marked(Then(Housed(t, h, Len(data)), LAMBDA u :
                  WriteBlocks(u, h, data)), h))
lfs_file_write(s, h, data) ==
  Then(IF Has(s, h, "READING") THEN lfs_file_flush(s, h) ELSE s, LAMBDA t :
    WriteHere(MoveTo(t, h, WritePos(t.handle[h])), h, data))

(* What the list has after the position is copied behind it; mutated: it   *)
(* is left there.                                                          *)
CopyRestNot(s, h, orig) == s
CopyUnit(s, h, orig, unit) ==
  IF unit = Broken THEN Fail(s, "corrupt")
  ELSE CopyRest(lfs_file_write(s, h, <<unit>>), h, orig)
CopyRest(s, h, orig) ==
  LET f == s.handle[h]
      Read(at) == Unit(s.disk, Closed, at.block, at.off)
  IN IF ~Ok(s) \/ f.pos >= f.size THEN s
     ELSE CopyUnit(s, h, orig, Read(Find(s.disk, orig.head, orig.size, f.pos)))

(* lfs_file_flush from "actual file updates" on.                           *)
Updated(s, h, pos) ==
  LET f == s.handle[h]
  IN On(Off([s EXCEPT !.handle[h] = [f EXCEPT !.head = f.block, !.size = f.pos,
                                              !.pos = pos]], h, "WRITING"), h, "DIRTY")

Flushed(s, h) ==
  LET f == s.handle[h] IN
  IF "INLINE" \in f.flags THEN MoveTo(s, h, Max({f.pos, f.size}))
  ELSE Then(CopyRest(s, h, f), LAMBDA t : Settle(t, h))
lfs_file_flush(s, h) ==
  LET a == Off(s, h, "READING")
  IN IF Has(a, h, "WRITING")
     THEN Then(Flushed(a, h), LAMBDA t : Updated(t, h, s.handle[h].pos)) ELSE a

AsEntry(f) ==
  IF "INLINE" \in f.flags
  THEN [kind |-> "inline", data |-> SubSeq(f.buf, 1, f.size)]
  ELSE [kind |-> "ctz", head |-> f.head, size |-> f.size]
Commit(s, x, e) ==
  LET t == [s EXCEPT !.entry[x] = e]
  IN [t EXCEPT !.cuts = @ \cup {Card(s), Card(t)}]
Committed(s, h) ==
  LET f == s.handle[h] IN
  IF ~Ok(s) THEN On(s, h, "ERRED")
  ELSE IF "DIRTY" \in f.flags /\ f.linked
  THEN Off(Commit(s, f.file, AsEntry(f)), h, "DIRTY") ELSE s

(* Mutated: the entry is committed before its blocks are programmed.       *)
EntryFirst(s, h) ==
  LET t == lfs_file_flush(s, h)
  IN IF Has(s, h, "ERRED") THEN s
     ELSE IF ~Ok(t) THEN Committed(t, h)
     ELSE [Committed([t EXCEPT !.disk = s.disk], h) EXCEPT !.disk = t.disk]

lfs_file_sync(s, h) ==
  IF Has(s, h, "ERRED") THEN s ELSE Committed(lfs_file_flush(s, h), h)

------------------------------------------------------------------------------
(* Reading, and moving about.                                              *)
ReadAt(s, h) ==
  LET f == s.handle[h] IN
  Then(GoTo(s, h, IF Has(s, h, "INLINE") THEN [block |-> Inline, off |-> f.pos]
                  ELSE Find(s.disk, f.head, f.size, f.pos)),
       LAMBDA t : On(t, h, "READING"))
UnitsHere(s, h, n) ==
  LET f == s.handle[h] IN
  IF Has(s, h, "INLINE") THEN SubSeq(f.buf, f.off + 1, f.off + n)
  ELSE [i \in 1 .. n |-> Unit(s.disk, Closed, f.block, f.off + i - 1)]

RECURSIVE ReadBlocks(_, _, _)
ReadBlocks(s, h, n) ==
  LET data(t) == UnitsHere(t, h, Min({n, BlockSize - t.handle[h].off}))
      Taken(t, d) ==
        IF Broken \in Range(d) THEN Fail(t, "corrupt")
        ELSE ReadBlocks(Advance([t EXCEPT !.out = @ \o d], h, Len(d)), h, n - Len(d))
  IN IF n = 0 THEN s
     ELSE Then(IF InBlock(s, h, "READING") THEN s ELSE ReadAt(s, h),
               LAMBDA t : Taken(t, data(t)))

lfs_file_read(s, h, n) ==
  LET From(t, f) == IF f.pos >= f.size THEN t
                    ELSE ReadBlocks(t, h, Min({n, f.size - f.pos}))
  IN Then(IF Has(s, h, "WRITING") THEN lfs_file_flush(s, h) ELSE s,
          LAMBDA t : From(t, t.handle[h]))

Whence(f, whence) ==
  CASE whence = "set" -> 0 [] whence = "cur" -> f.pos [] whence = "end" -> f.size
lfs_file_seek(s, h, off, whence) ==
  LET To(t, npos) ==
        IF npos > FileMax THEN Fail(t, "inval") ELSE MoveTo(t, h, npos)
  IN Then(lfs_file_flush(s, h), LAMBDA t : To(t, off + Whence(t.handle[h], whence)))

lfs_file_size(f) ==
  IF "WRITING" \in f.flags THEN Max({f.pos, f.size}) ELSE f.size

Shortened(s, h, size) ==
  LET f == s.handle[h] IN
  Then(GoTo(s, h, Find(s.disk, f.head, f.size, size)), LAMBDA t :
    On(On([t EXCEPT !.handle[h].head = t.handle[h].block, !.handle[h].size = size],
          h, "DIRTY"), h, "READING"))
Lengthened(s, h, size, oldsize) ==
  ZerosTo(IF s.handle[h].pos = oldsize THEN s ELSE lfs_file_seek(s, h, 0, "end"),
          h, size)
Resize(s, h, size, oldsize) ==
  IF size < oldsize
  THEN Then(lfs_file_flush(s, h), LAMBDA t : Shortened(t, h, size))
  ELSE IF size > oldsize THEN Lengthened(s, h, size, oldsize) ELSE s
lfs_file_truncate(s, h, size) ==
  LET pos == s.handle[h].pos IN
  IF size > FileMax THEN Fail(s, "inval")
  ELSE Then(Resize(s, h, size, lfs_file_size(s.handle[h])), LAMBDA t :
         lfs_file_seek(t, h, pos, "set"))

------------------------------------------------------------------------------
(* The calls.                                                              *)
Becomes(s) ==
  /\ UNCHANGED bad
  /\ disk' = s.disk /\ entry' = s.entry /\ handle' = s.handle /\ alloc' = s.alloc
Makes(c) == calls < MaxCalls /\ calls' = calls + 1 /\ call' = c
IsOpen(h) == handle[h] # Closed
Holds(x)  == {h \in Handle : IsOpen(h) /\ handle[h].file = x}

Opened(x, flags, e, wants) ==
  [file |-> x, linked |-> TRUE, listed |-> TRUE, append |-> "append" \in flags,
   flags |-> wants \cup IF e.kind = "inline" THEN {"INLINE"} ELSE {},
   head |-> IF e.kind = "inline" THEN Inline ELSE e.head,
   size |-> IF e.kind = "inline" THEN Len(e.data) ELSE e.size,
   pos |-> 0, block |-> Null, off |-> 0,
   buf |-> IF e.kind = "inline" THEN e.data ELSE <<>>]
Empty == [kind |-> "inline", data |-> <<>>]

lfs_file_opencfg(s, h, x, flags) ==
  LET old == s.entry[x]
      cut == old # NoFile /\ "trunc" \in flags
      e == IF old = NoFile \/ cut THEN Empty ELSE old
  IN IF old = NoFile /\ "creat" \notin flags THEN Fail(s, "noent")
     ELSE IF old # NoFile /\ "excl" \in flags THEN Fail(s, "exist")
     ELSE [s EXCEPT !.entry[x] = IF old = NoFile THEN Empty ELSE @,
                    !.handle[h] = Opened(x, flags, e, IF cut THEN {"DIRTY"} ELSE {})]

Open(h, x, flags) ==
  /\ ~IsOpen(h) /\ (Holds(x) # {} => "twice" \in Uses)
  /\ \E s \in {lfs_file_opencfg(Now, h, x, flags)} :
     /\ Becomes(s)
     /\ Makes([op |-> "open", h |-> h, file |-> x, flags |-> flags,
               ret |-> s.err])

Write(h, n) ==
  /\ IsOpen(h)
  /\ n < BlockSize - 2 \/ bad = {} \/ "whole" \in Uses
  /\ \E data \in {Stamped(calls, n)} : \E s \in {lfs_file_write(Now, h, data)} :
     /\ Becomes(s)
     /\ Makes([op |-> "write", h |-> h, data |-> data, ret |-> s.err])

Read(h, n) ==
  /\ IsOpen(h)
  /\ \E s \in {lfs_file_read(Now, h, n)} :
     /\ Becomes(s)
     /\ Makes([op |-> "read", h |-> h, size |-> n, data |-> s.out,
               ret |-> s.err])

Seek(h, off, whence) ==
  /\ IsOpen(h)
  /\ \E s \in {lfs_file_seek(Now, h, off, whence)} :
     /\ Becomes(s)
     /\ Makes([op |-> "seek", h |-> h, size |-> off, whence |-> whence,
               ret |-> s.err])

(* A position where a block ends and the next one starts.                  *)
Boundary(n) == n > 0 /\ Index[n].index # LastIndex(n)
Truncate(h, n) ==
  /\ IsOpen(h)
  /\ (Boundary(n) /\ n < lfs_file_size(handle[h])) => "boundary" \in Uses
  /\ \E s \in {lfs_file_truncate(Now, h, n)} :
     /\ Becomes(s)
     /\ Makes([op |-> "truncate", h |-> h, size |-> n, ret |-> s.err])

Sync(h) ==
  /\ IsOpen(h)
  /\ \E s \in {lfs_file_sync(Now, h)} :
     /\ Becomes(s)
     /\ Makes([op |-> "sync", h |-> h, ret |-> s.err])

Close(h) ==
  /\ IsOpen(h)
  /\ \E s \in {lfs_file_sync(Now, h)} :
     /\ Becomes([s EXCEPT !.handle[h] = Closed])
     /\ Makes([op |-> "close", h |-> h, ret |-> s.err])

(* lfs_remove of a file; the commit that does it takes the pair from the   *)
(* handles of that file.                                                   *)
RemoveFile(x) ==
  /\ "remove" \in Uses /\ entry[x] # NoFile
  /\ Holds(x) # {} => "held" \in Uses
  /\ Becomes([Now EXCEPT !.entry[x] = NoFile,
                         !.handle = [h \in Handle |->
                           IF h \in Holds(x)
                           THEN [handle[h] EXCEPT !.linked = FALSE]
                           ELSE handle[h]]])
  /\ Makes([op |-> "remove", file |-> x, ret |-> "ok"])

(* Power is lost: a block that no entry leads to may then hold anything,   *)
(* here nothing.  A mount puts the allocator at a block that the seed of   *)
(* the file system chooses.                                                *)
Kept(card) == UNION {InEntry(card, card.entry[x]) : x \in File}
Settings == {[next |-> b, taken |-> {}] : b \in Seeds}
Restarted(card, a) ==
  State([b \in Device |-> IF b \in Kept(card) THEN card.disk[b] ELSE Erased],
        card.entry, [h \in Handle |-> Closed], a)
PowerLoss ==
  /\ "crash" \in Uses /\ \E h \in Handle : IsOpen(h)
  /\ \E a \in Settings : Becomes(Restarted(Card(Now), a))
  /\ Makes([op |-> "lost"])

(* ... in lfs_file_sync, or in lfs_file_close, which calls it.             *)
SyncIsCut(h) ==
  /\ "crash" \in Uses /\ IsOpen(h)
  /\ \E card \in lfs_file_sync(Now, h).cuts, a \in Settings :
       Becomes(Restarted(card, a))
  /\ Makes([op |-> "cut", h |-> h])

(* The file system is mounted anew: lfs->mlist is empty then, whatever     *)
(* handles the caller has.                                                 *)
Remount ==
  /\ (\E h \in Handle : IsOpen(h)) => "remount" \in Uses
  /\ \E a \in Settings :
       Becomes([Now EXCEPT !.alloc = a,
                           !.handle = [h \in Handle |->
                             IF IsOpen(h) THEN [handle[h] EXCEPT !.listed = FALSE]
                             ELSE Closed]])
  /\ Makes([op |-> "mount"])

(* The files that are there at the start were written by the same calls.   *)
Blank == State([b \in Device |-> Erased], [x \in File |-> NoFile],
               [h \in Handle |-> Closed], [next |-> 0, taken |-> {}])
Stored(s, x, n) ==
  LET h == CHOOSE h \in Handle : TRUE
      data == [i \in 1 .. n |-> 1000 + i]
      opened == lfs_file_opencfg(s, h, x, {"creat"})
  IN [lfs_file_sync(lfs_file_write(opened, h, data), h) EXCEPT !.handle[h] = Closed]

Init ==
  /\ bad \in Bads
  /\ \E sizes \in [File -> Sizes \cup {NoFile}] :
       \E s \in {FoldLeft(LAMBDA t, x : IF sizes[x] = NoFile THEN t
                                        ELSE Stored(t, x, sizes[x]),
                          Blank, SetToSeq(File))} :
         /\ disk = s.disk /\ entry = s.entry /\ handle = s.handle
         /\ alloc = s.alloc
  /\ call = [op |-> "mount"]
  /\ calls = 0

Next ==
  \/ \E h \in Handle :
       \/ \E x \in File, flags \in Flags : Open(h, x, flags)
       \/ \E n \in Lengths : Write(h, n) \/ Read(h, n)
       \/ \E to \in Seeks : Seek(h, to[2], to[1])
       \/ \E n \in Cuts : Truncate(h, n)
       \/ Sync(h) \/ SyncIsCut(h)
       \/ Close(h)
  \/ \E x \in File : RemoveFile(x)
  \/ PowerLoss
  \/ Remount

Spec == Init /\ [][Next]_vars

------------------------------------------------------------------------------
(* What is on the card, by the definition of the list: a block names the   *)
(* one before it first.                                                    *)
RECURSIVE Blocks(_, _, _)
Blocks(f, b, index) ==
  IF index = 0 THEN <<b>>
  ELSE Append(Blocks(f, Unit(disk, f, b, 0), index - 1), b)
(* The first size units, from the list that ends with block b at index.    *)
Gathered(f, b, index, size) ==
  LET at == Blocks(f, b, index)
  IN [i \in 1 .. size |->
       Unit(disk, f, at[Index[i - 1].index + 1], Index[i - 1].off)]
Listing(head, size) ==
  IF size = 0 THEN <<>> ELSE Gathered(Closed, head, LastIndex(size), size)

(* The index of the block that a handle is writing to.                     *)
Writing(f) == "WRITING" \in f.flags /\ "INLINE" \notin f.flags
WritingIndex(f) ==
  IF f.off = BlockSize THEN LastIndex(f.pos) ELSE Index[f.pos].index

Contents(f) ==
  IF "INLINE" \in f.flags THEN SubSeq(f.buf, 1, lfs_file_size(f))
  ELSE IF Writing(f)
  THEN Gathered(f, f.block, WritingIndex(f), f.pos)
         \o SubSeq(Listing(f.head, f.size), f.pos + 1, f.size)
  ELSE Listing(f.head, f.size)
OfEntry(e) ==
  IF e = NoFile THEN NoFile
  ELSE IF e.kind = "inline" THEN e.data ELSE Listing(e.head, e.size)

Promised == INSTANCE FileStore WITH
  stored <- [x \in File |-> OfEntry(entry[x])],
  view <- [h \in Handle |->
            IF ~IsOpen(h) THEN Closed
            ELSE LET f == handle[h]
                 IN [file |-> f.file, linked |-> f.linked, append |-> f.append,
                     sound |-> "ERRED" \notin f.flags, pos |-> f.pos,
                     changed |-> f.flags \cap {"DIRTY", "WRITING"} # {},
                     data |-> Contents(f)]]

------------------------------------------------------------------------------
(* Entries and handles are as their readers take them: what is inlined     *)
(* fits in a metadata pair, and no position is past LFS_FILE_MAX.          *)
TypeOK ==
  /\ disk \in [Device -> [0 .. (BlockSize - 1) -> Nat]]
  /\ \A x \in File :
       \/ entry[x] = NoFile
       \/ entry[x].kind = "inline" /\ Len(entry[x].data) <= InlineMax
       \/ /\ entry[x].kind = "ctz"
          /\ entry[x].head \in Device /\ entry[x].size <= FileMax
  /\ alloc.next \in Device /\ alloc.taken \subseteq Device
  /\ \A h \in Handle : IsOpen(h) =>
       LET f == handle[h] IN
       /\ f.file \in File /\ Len(f.buf) <= BlockSize
       /\ f.flags \subseteq {"INLINE", "READING", "WRITING", "DIRTY", "ERRED"}
       /\ f.pos <= FileMax /\ f.size <= FileMax
  /\ calls \in 0 .. MaxCalls

(* The lists that files and open files have: of which file, and its blocks *)
(* from the first on, as the cache of f has them.                          *)
List(x, f, b, index) == [file |-> x, of |-> f, at |-> Blocks(f, b, index)]
EntryLists ==
  {List(x, Closed, entry[x].head, LastIndex(entry[x].size)) :
     x \in {x \in File : entry[x] # NoFile /\ entry[x].kind = "ctz" /\ entry[x].size > 0}}
HandleLists ==
  LET open == {handle[h] : h \in {h \in Handle : IsOpen(h)}}
  IN {List(f.file, f, f.head, LastIndex(f.size)) :
        f \in {f \in open : f.head # Inline /\ f.size > 0}}
     \cup {List(f.file, f, f.block, WritingIndex(f)) :
        f \in {f \in open : Writing(f) /\ f.pos > 0}}
Lists == EntryLists \cup HandleLists

(* Each pointer of a block is to the block that many before it, however    *)
(* often the list has been cut, copied or moved from a bad block: seeking  *)
(* and traversing skip by them.                                            *)
SkipListsHold ==
  \A l \in Lists : \A i \in 1 .. (Len(l.at) - 1) : \A j \in 0 .. lfs_ctz[i] :
    Unit(disk, l.of, l.at[i + 1], j) = l.at[i + 1 - 2^j]

(* The traversal that the allocator goes by meets every block that a file  *)
(* or an open file needs, what is written and not yet flushed included, as *)
(* long as no file has two handles at once, none is removed while it is    *)
(* open, and no handle outlives a mount ("twice", "held" and "remount").   *)
TraversalMeetsAll == \A l \in Lists : Range(l.at) \subseteq InUse(Now)

(* No block is in two files, or twice in one: two lists share it only as   *)
(* the same block of the same file.                                        *)
BlocksHaveOneOwner ==
  \A l, m \in Lists : \A i \in DOMAIN l.at, j \in DOMAIN m.at :
    l.at[i] = m.at[j] => l.file = m.file /\ i = j

(* What littlefs promises of files (module FileStore): what is open shows  *)
(* what was written to it and to nothing else, and only a synchronisation  *)
(* that succeeds changes what is stored, to all of it.                     *)
FilePromise == Promised!Promise
==============================================================================
