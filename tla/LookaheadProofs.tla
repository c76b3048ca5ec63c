--------------------------- MODULE LookaheadProofs ---------------------------
(***************************************************************************)
(* Lemmas about the operations on the lookahead window, for every device   *)
(* size and bitmap: what they keep of its types, and the arithmetic of     *)
(* offsets modulo the device.                                              *)
(***************************************************************************)
EXTENDS Lookahead, TLAPS

------------------------------------------------------------------------------
(* Arithmetic of the circular window.                                      *)

(* Every offset is an index of the device.                                 *)
LEMMA OffsetRange ==
  ASSUME NEW f \in FreeState, NEW b \in Block
  PROVE  OffsetOf(f, b) \in 0 .. (BlockCount - 1)
BY LookaheadAssumption DEF FreeState, Block, OffsetOf

(* The block of an offset is a block of the device.                        *)
LEMMA BlockRange ==
  ASSUME NEW f \in FreeState, NEW o \in Nat
  PROVE  BlockAt(f, o) \in Block
BY LookaheadAssumption DEF FreeState, Block, BlockAt

(* BlockAt and OffsetOf are inverse of each other in a wrapped window.     *)
LEMMA OffsetOfBlockAt ==
  ASSUME NEW f \in FreeState, f.off < BlockCount,
         NEW o \in 0 .. (BlockCount - 1)
  PROVE  OffsetOf(f, BlockAt(f, o)) = o
BY LookaheadAssumption DEF FreeState, OffsetOf, BlockAt

(* Two blocks at the same offset are the same block.                       *)
LEMMA OffsetInjective ==
  ASSUME NEW f \in FreeState, f.off < BlockCount,
         NEW b \in Block, NEW c \in Block, OffsetOf(f, b) = OffsetOf(f, c)
  PROVE  b = c
BY LookaheadAssumption DEF FreeState, Block, OffsetOf

(* The arithmetic of a window that moves on by s.                          *)
LEMMA ModularShift ==
  ASSUME NEW b \in Block, NEW o \in Block, NEW s \in 0 .. BlockCount
  PROVE  LET d == ((b - o) + BlockCount) % BlockCount
             p == (o + s) % BlockCount
         IN  ((b - p) + BlockCount) % BlockCount
               = IF d >= s THEN d - s ELSE d - s + BlockCount
BY LookaheadAssumption DEF Block

(* How the offset of a block changes when the window moves on by its size. *)
LEMMA OffsetShift ==
  ASSUME NEW f \in FreeState, NEW g \in FreeState, NEW b \in Block,
         f.off < BlockCount, g.off = (f.off + f.size) % BlockCount
  PROVE  OffsetOf(g, b) = IF OffsetOf(f, b) >= f.size
                          THEN OffsetOf(f, b) - f.size
                          ELSE OffsetOf(f, b) - f.size + BlockCount
<1>1. f.off \in Block /\ f.size \in 0 .. BlockCount
  BY LookaheadAssumption DEF FreeState, Block
<1> QED
  BY <1>1, ModularShift DEF OffsetOf

(* The offset of a block depends on where the window starts only.          *)
LEMMA SameOffset ==
  ASSUME NEW f, NEW g, NEW b, f.off = g.off
  PROVE  OffsetOf(f, b) = OffsetOf(g, b)
BY DEF OffsetOf

------------------------------------------------------------------------------
(* The window stays well formed.                                            *)

(* The shape of the two ways the window changes inside lfs_alloc.          *)
LEMMA SkippedType ==
  ASSUME NEW f \in FreeState, f.size - f.i <= f.ack, NEW n \in f.i .. f.size
  PROVE  /\ SkippedTo(f, n) \in FreeState
         /\ SkippedTo(f, n).off = f.off
         /\ SkippedTo(f, n).size = f.size
         /\ SkippedTo(f, n).i = n
         /\ SkippedTo(f, n).ack = f.ack - (n - f.i)
         /\ SkippedTo(f, n).buffer = f.buffer
BY LookaheadAssumption DEF FreeState, SkippedTo, Window

(* A new window starts inside the device, is no longer than ack allows and *)
(* has no marks ...                                                        *)
LEMMA EmptyWindowType ==
  ASSUME NEW f \in FreeState
  PROVE  LET w == NextWindow(f) IN
         /\ w \in FreeState
         /\ w.off = (f.off + f.size) % BlockCount
         /\ w.off < BlockCount
         /\ w.size = Smaller(LookaheadBits, f.ack)
         /\ w.size <= f.ack
         /\ w.i = 0
         /\ w.ack = f.ack
         /\ w.buffer = {}
BY LookaheadAssumption DEF FreeState, NextWindow, Smaller, Window

(* Filling a window changes nothing but the marks.                         *)
LEMMA FilledType ==
  ASSUME NEW w \in FreeState, NEW blocks \in SUBSET Block,
         NEW g, g = Filled(w, blocks)
  PROVE  /\ g \in FreeState
         /\ g.off = w.off /\ g.size = w.size /\ g.i = w.i /\ g.ack = w.ack
         /\ g.buffer = w.buffer \cup Marks(w, blocks)
<1>1. Marks(w, blocks) \subseteq Block
  BY LookaheadAssumption DEF Marks, FreeState, Block
<1>2. g = Window(w.off, w.size, w.i, w.ack, w.buffer \cup Marks(w, blocks))
  BY DEF Filled
<1>3. /\ g.off = w.off /\ g.size = w.size /\ g.i = w.i /\ g.ack = w.ack
      /\ g.buffer = w.buffer \cup Marks(w, blocks)
  BY <1>2 DEF Window
<1>4. w.buffer \cup Marks(w, blocks) \in SUBSET Block
  BY <1>1 DEF FreeState
<1>5. g \in FreeState
  BY <1>2, <1>4 DEF FreeState, Window
<1> QED
  BY <1>3, <1>5

(* ... until the blocks of a traversal are marked in it.                   *)
LEMMA NextWindowType ==
  ASSUME NEW f \in FreeState, NEW blocks \in SUBSET Block,
         NEW g, g = Filled(NextWindow(f), blocks)
  PROVE  /\ g \in FreeState
         /\ g.off = (f.off + f.size) % BlockCount
         /\ g.off < BlockCount
         /\ g.size = Smaller(LookaheadBits, f.ack)
         /\ g.size <= f.ack
         /\ g.i = 0
         /\ g.ack = f.ack
         /\ g.buffer = {OffsetOf(g, b) : b \in blocks} \cap (0 .. (g.size - 1))
<1> DEFINE w == NextWindow(f)
<1>1. /\ w \in FreeState
      /\ w.off = (f.off + f.size) % BlockCount
      /\ w.off < BlockCount
      /\ w.size = Smaller(LookaheadBits, f.ack)
      /\ w.size <= f.ack
      /\ w.i = 0
      /\ w.ack = f.ack
      /\ w.buffer = {}
  BY EmptyWindowType
<1>2. g = Filled(w, blocks)
  OBVIOUS
<1> HIDE DEF w
<1>3. g \in FreeState /\ g.off = w.off /\ g.size = w.size
      /\ g.i = w.i /\ g.ack = w.ack /\ g.buffer = w.buffer \cup Marks(w, blocks)
  <2>1. w \in FreeState
    BY <1>1
  <2> QED
    BY <1>2, <2>1, FilledType
<1>4. \A b \in blocks : OffsetOf(w, b) = OffsetOf(g, b)
  BY <1>3, SameOffset
<1> QED
  BY <1>1, <1>3, <1>4 DEF Marks

(* lfs_alloc_reset leaves an empty window with the whole device ahead.     *)
LEMMA ResetType ==
  ASSUME NEW f \in FreeState, NEW s \in Nat
  PROVE  /\ ResetAt(f, s) \in FreeState
         /\ ResetAt(f, s).off = s
         /\ ResetAt(f, s).size = 0
         /\ ResetAt(f, s).i = 0
         /\ ResetAt(f, s).ack = BlockCount
         /\ ResetAt(f, s).buffer = f.buffer
BY LookaheadAssumption DEF FreeState, ResetAt, Window

(* lfs_alloc_ack changes nothing but ack.                                  *)
LEMMA AckedType ==
  ASSUME NEW f \in FreeState
  PROVE  /\ Acked(f) \in FreeState
         /\ Acked(f).off = f.off
         /\ Acked(f).size = f.size
         /\ Acked(f).i = f.i
         /\ Acked(f).ack = BlockCount
         /\ Acked(f).buffer = f.buffer
BY LookaheadAssumption DEF FreeState, Acked, Window
==============================================================================
