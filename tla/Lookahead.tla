------------------------------ MODULE Lookahead ------------------------------
(***************************************************************************)
(* lfs->free, the lookahead window of littlefs' block allocator, and the   *)
(* pure operations on it (littlefs/lfs.cpp:463-532).                       *)
(*                                                                         *)
(* The window covers `size` consecutive blocks starting at block `off`,    *)
(* modulo the size of the device.  `buffer` is the bitmap of the window,   *)
(* as the set of the offsets whose bit is set; `i` is the offset of the    *)
(* next candidate and `ack` the number of blocks that may still be         *)
(* inspected before the device counts as full.                             *)
(***************************************************************************)
EXTENDS Integers

CONSTANTS
  BlockCount,     (* cfg->block_count                                      *)
  LookaheadBits   (* 8 * cfg->lookahead_size, the capacity of the bitmap   *)

ASSUME LookaheadAssumption ==
  /\ BlockCount \in Nat \ {0}
  /\ LookaheadBits \in Nat \ {0}

Block == 0 .. (BlockCount - 1)

(* struct lfs_free.  An offset in the buffer is below BlockCount as the    *)
(* window never exceeds the device.                                        *)
FreeState ==
  [off: Nat, size: 0 .. BlockCount, i: 0 .. BlockCount, ack: 0 .. BlockCount,
   buffer: SUBSET Block]

Smaller(a, b) == IF a < b THEN a ELSE b

(* Mutated: the block is not wrapped at the end of the device.             *)
BlockAtUnwrapped(f, o) == f.off + o

(* The block a window offset stands for, and the window offset of a block. *)
BlockAt(f, o)  == (f.off + o) % BlockCount
OffsetOf(f, b) == ((b - f.off) + BlockCount) % BlockCount

(* Mutated: the last block of the window is taken to be outside of it.     *)
MarksShort(f, blocks) ==
  {OffsetOf(f, b) : b \in blocks} \cap (0 .. (f.size - 2))

(* lfs_alloc_lookahead for every block of a traversal: the bits it sets in *)
(* the window f.  Blocks outside the window are ignored.                   *)
Marks(f, blocks) == {OffsetOf(f, b) : b \in blocks} \cap (0 .. (f.size - 1))

Window(off, size, i, ack, buffer) ==
  [off |-> off, size |-> size, i |-> i, ack |-> ack, buffer |-> buffer]

(* Mutated: only the rest of the window may be inspected.                  *)
AckedWindow(f) == Window(f.off, f.size, f.i, f.size - f.i, f.buffer)

(* lfs_alloc_ack: no block is in flight, the whole device may be inspected *)
Acked(f) == Window(f.off, f.size, f.i, BlockCount, f.buffer)

(* lfs_alloc_reset: seed % block_size need not be a block of the device;   *)
(* the next window wraps it.                                               *)
ResetAt(f, seed) == Window(seed, 0, 0, BlockCount, f.buffer)

(* o is the first offset at or after `from` whose bit is clear, or the end *)
(* of the window when there is none.                                       *)
FirstClear(f, from, o) ==
  /\ o \in from .. f.size
  /\ \A q \in from .. (o - 1) : q \in f.buffer
  /\ o # f.size => o \notin f.buffer

(* Mutated: the offsets are not charged.                                   *)
SkippedToUncharged(f, n) == Window(f.off, f.size, n, f.ack, f.buffer)

(* i moves on to offset n; every offset it passes is charged to ack.       *)
SkippedTo(f, n) ==
  Window(f.off, f.size, n, f.ack - (n - f.i), f.buffer)

(* Mutated: the window is as long as the bitmap, whatever is left of ack.  *)
NextWindowUnbounded(f) ==
  Window((f.off + f.size) % BlockCount, LookaheadBits, 0, f.ack, {})

(* The window moves on by its own length and is cleared ...                *)
NextWindow(f) ==
  Window((f.off + f.size) % BlockCount, Smaller(LookaheadBits, f.ack), 0,
         f.ack, {})

(* ... and is filled by a traversal that visits `blocks`.                  *)
Filled(f, blocks) ==
  Window(f.off, f.size, f.i, f.ack, f.buffer \cup Marks(f, blocks))
==============================================================================
