----------------------------- MODULE AllocProofs -----------------------------
(***************************************************************************)
(* Theorems about Alloc, for every device size, window size and seed.      *)
(*                                                                         *)
(* The argument measures every block by its Distance from the next         *)
(* candidate of the allocator.  Blocks in flight are at a distance of at   *)
(* least ack, the rest of the window is at a distance below ack            *)
(* (AckCoversWindow), so a candidate is never in flight; and the rest of   *)
(* the window marks every other block in use, because a block that becomes *)
(* visible to traversals after the window was filled was in flight before. *)
(***************************************************************************)
EXTENDS Alloc, LookaheadProofs

(* The distance to a block is less than the size of the device.            *)
LEMMA DistanceRange ==
  ASSUME NEW f \in FreeState, NEW b \in Block, f.i <= f.size
  PROVE  Distance(f, b) \in 0 .. (BlockCount - 1)
BY OffsetRange, LookaheadAssumption DEF FreeState, Distance

------------------------------------------------------------------------------
(* Type correctness.                                                       *)

(* A mount starts from an empty window with the whole device ahead.        *)
LEMMA MountType ==
  ASSUME NEW f, AfterMount(f)
  PROVE  /\ f \in FreeState
         /\ f.size = 0 /\ f.i = 0 /\ f.ack = BlockCount /\ f.buffer = {}
BY LookaheadAssumption, AllocAssumption DEF FreeState, AfterMount, Window

(* A format starts from a window at block 0 with no mark in it.            *)
LEMMA FormatType ==
  ASSUME NEW f, AfterFormatStart(f)
  PROVE  /\ f \in FreeState
         /\ f.off = 0 /\ f.size <= BlockCount /\ f.size >= 0
         /\ f.i = 0 /\ f.ack = BlockCount /\ f.buffer = {}
BY LookaheadAssumption DEF FreeState, AfterFormatStart, Window, Smaller

(* The initial states are well typed, and ack covers the window.           *)
LEMMA TypeInit == Init => TypeOK /\ AckCoversWindow
<1> SUFFICES ASSUME Init PROVE TypeOK /\ AckCoversWindow
  OBVIOUS
<1>1. /\ free \in FreeState
      /\ free.i = 0 /\ free.ack = BlockCount
      /\ free.size <= BlockCount /\ free.size >= 0
  <2>1. CASE AfterMount(free)
    BY <2>1, MountType, LookaheadAssumption
  <2>2. CASE AfterFormatStart(free)
    BY <2>2, FormatType, LookaheadAssumption
  <2> QED
    BY <2>1, <2>2 DEF Init
<1>2. used \in SUBSET Block /\ block \in Block
  BY LookaheadAssumption DEF Init, Block
<1>3. /\ inflight = {} /\ op = "idle" /\ err = "none"
      /\ scanBusy = used /\ ackBusy = used /\ staleBusy = used
  BY DEF Init
<1>4. TypeOK
  BY <1>1, <1>2, <1>3 DEF TypeOK
<1>5. AckCoversWindow
  BY <1>1, LookaheadAssumption DEF AckCoversWindow, FreeState
<1> QED
  BY <1>4, <1>5

(* Every step keeps the types, and keeps ack above the rest of the window. *)
LEMMA TypeStep ==
  TypeOK /\ AckCoversWindow /\ [Next]_vars => TypeOK' /\ AckCoversWindow'
<1> SUFFICES ASSUME TypeOK, AckCoversWindow, [Next]_vars
             PROVE  TypeOK' /\ AckCoversWindow'
  OBVIOUS
<1> USE DEF TypeOK, AckCoversWindow
<1>f. /\ free.off \in Nat /\ free.size \in 0 .. BlockCount
      /\ free.i \in 0 .. BlockCount /\ free.ack \in 0 .. BlockCount
      /\ free.buffer \in SUBSET Block
  BY DEF FreeState
<1>1. CASE BeginOp
  BY <1>1 DEF BeginOp, history
<1>2. CASE Ack
  BY <1>2, <1>f, AckedType, LookaheadAssumption DEF Ack, InUse
<1>3. CASE CallAlloc
  BY <1>3 DEF CallAlloc, history
<1>4. CASE AllocFound
  <2>o. PICK o \in free.i .. (free.size - 1) :
          /\ \E n \in (o + 1) .. free.size : free' = SkippedTo(free, n)
          /\ block' = BlockAt(free, o)
          /\ inflight' = inflight \cup {BlockAt(free, o)}
    BY <1>4 DEF AllocFound
  <2>1. PICK n \in (o + 1) .. free.size : free' = SkippedTo(free, n)
    BY <2>o
  <2>2. n \in free.i .. free.size /\ o \in Nat
    BY <1>f, <2>1, LookaheadAssumption
  <2>3. free' \in FreeState /\ free'.i <= free'.size
        /\ free'.size - free'.i <= free'.ack
    BY <2>1, <2>2, <1>f, SkippedType, LookaheadAssumption
  <2>4. block' \in Block /\ inflight' \in SUBSET Block
    BY <2>o, <2>2, BlockRange
  <2> QED
    BY <1>4, <2>3, <2>4 DEF AllocFound, Accumulate, InUse
<1>5. CASE AllocNoSpace
  <2>1. free' \in FreeState /\ free'.i <= free'.size
        /\ free'.size - free'.i <= free'.ack
    BY <1>5, <1>f, SkippedType, LookaheadAssumption DEF AllocNoSpace
  <2> QED
    BY <1>5, <2>1 DEF AllocNoSpace, history
<1>6. CASE AllocRescan
  <2> DEFINE f == SkippedTo(free, free.size)
  <2>1. f \in FreeState
    BY <1>f, SkippedType, LookaheadAssumption
  <2>2. free' = Filled(NextWindow(f), used)
    BY <1>6 DEF AllocRescan
  <2> HIDE DEF f
  <2>3. free' \in FreeState /\ free'.i = 0 /\ free'.size <= f.ack
        /\ free'.ack = f.ack
    BY <2>1, <2>2, NextWindowType
  <2>4. free'.size \in Nat /\ free'.ack \in Nat
    BY <2>3, LookaheadAssumption DEF FreeState
  <2> QED
    BY <1>6, <2>3, <2>4 DEF AllocRescan, InUse
<1>7. CASE AllocScanFails
  <2> DEFINE f == SkippedTo(free, free.size)
  <2>1. f \in FreeState
    BY <1>f, SkippedType, LookaheadAssumption
  <2>2. PICK visited \in SUBSET used, s \in Seeds :
          free' = ResetAt(Filled(NextWindow(f), visited), s)
    BY <1>7 DEF AllocScanFails
  <2> HIDE DEF f
  <2>3. Filled(NextWindow(f), visited) \in FreeState /\ s \in Nat
    BY <2>1, <2>2, NextWindowType, AllocAssumption
  <2>4. free' \in FreeState /\ free'.size = 0 /\ free'.i = 0
        /\ free'.ack = BlockCount
    BY <2>2, <2>3, ResetType
  <2> QED
    BY <1>7, <2>4, LookaheadAssumption
       DEF AllocScanFails, Restart, InUse
<1>8. CASE Link
  BY <1>8 DEF Link, Accumulate, InUse
<1>9. CASE EndOp
  BY <1>9 DEF EndOp, history
<1>10. CASE PowerLoss
  <2>1. free' \in FreeState /\ free'.size = 0 /\ free'.i = 0
        /\ free'.ack = BlockCount
    BY <1>10, MountType DEF PowerLoss
  <2>2. 0 \in Block
    BY LookaheadAssumption DEF Block
  <2> QED
    BY <1>10, <2>1, <2>2, LookaheadAssumption DEF PowerLoss, Restart, InUse
<1>11. CASE UNCHANGED vars
  BY <1>11 DEF vars
<1> QED
  BY <1>1, <1>2, <1>3, <1>4, <1>5, <1>6, <1>7, <1>8, <1>9, <1>10, <1>11
     DEF Next, AllocStep

(* The types and the bound of ack in one invariant.                        *)
LEMMA TypesAndAck == Spec => [](TypeOK /\ AckCoversWindow)
BY TypeInit, TypeStep, PTL DEF Spec

(* Every variable keeps its type, for every device, window and seed: the   *)
(* allocator of lfs.cpp:461-548 stays within the window it has scanned.    *)
THEOREM TypeCorrect == Spec => []TypeOK
BY TypesAndAck, PTL

(* What is left of the window never exceeds ack, so the unsigned counter   *)
(* ack never wraps (lfs.cpp:493, 504).                                     *)
THEOREM AckCovers == Spec => []AckCoversWindow
BY TypesAndAck, PTL

------------------------------------------------------------------------------
(* How the blocks that ack no longer covers change.                        *)

(* Moving the candidate to n adds exactly the offsets that are passed.     *)
LEMMA SkippedDistance ==
  ASSUME NEW f \in FreeState, f.i <= f.size, f.size - f.i <= f.ack,
         NEW n \in f.i .. f.size, NEW b \in Block,
         NEW g, g = SkippedTo(f, n)
  PROVE  Distance(g, b) >= g.ack
           <=> Distance(f, b) >= f.ack \/ OffsetOf(f, b) \in f.i .. (n - 1)
<1>1. /\ g.off = f.off /\ g.i = n /\ g.ack = f.ack - (n - f.i)
      /\ g \in FreeState
  BY SkippedType
<1>2. OffsetOf(g, b) = OffsetOf(f, b)
  BY <1>1, SameOffset
<1>3. OffsetOf(f, b) \in 0 .. (BlockCount - 1)
  BY OffsetRange
<1> QED
  BY <1>1, <1>2, <1>3, LookaheadAssumption DEF Distance, FreeState

(* A new window changes no distance: it starts where the old one ended.    *)
LEMMA NextWindowDistance ==
  ASSUME NEW f \in FreeState, f.off < BlockCount, f.i = f.size,
         NEW blocks \in SUBSET Block, NEW b \in Block,
         NEW g, g = Filled(NextWindow(f), blocks)
  PROVE  Distance(g, b) = Distance(f, b)
<1>1. /\ g \in FreeState /\ g.i = 0
      /\ g.off = (f.off + f.size) % BlockCount
  BY NextWindowType
<1>2. OffsetOf(g, b) = IF OffsetOf(f, b) >= f.size
                       THEN OffsetOf(f, b) - f.size
                       ELSE OffsetOf(f, b) - f.size + BlockCount
  BY <1>1, OffsetShift
<1>3. /\ OffsetOf(f, b) \in 0 .. (BlockCount - 1)
      /\ OffsetOf(g, b) \in 0 .. (BlockCount - 1)
  BY <1>1, OffsetRange
<1> QED
  BY <1>1, <1>2, <1>3, LookaheadAssumption DEF Distance, FreeState

------------------------------------------------------------------------------
(* The inductive invariant.                                                *)

(* The invariant holds when the file system is mounted or formatted.       *)
LEMMA InvInit == Init => IInv
<1> SUFFICES ASSUME Init PROVE IInv
  OBVIOUS
<1>1. TypeOK /\ AckCoversWindow
  BY TypeInit
<1>2. /\ inflight = {} /\ op = "idle"
      /\ scanBusy = used /\ ackBusy = used /\ staleBusy = used
  BY DEF Init
<1>3. free.ack = BlockCount /\ free.i = 0 /\ free.buffer = {}
      /\ (free.size = 0 \/ (free.off = 0 /\ used = {}))
  <2>1. CASE AfterMount(free)
    BY <2>1, MountType
  <2>2. CASE AfterFormatStart(free) /\ used = {}
    BY <2>2, FormatType
  <2> QED
    BY <2>1, <2>2 DEF Init
<1>4. UnwrappedIsEmpty
  BY <1>2, <1>3, LookaheadAssumption DEF UnwrappedIsEmpty
<1>5. InflightBehind
  BY <1>2 DEF InflightBehind
<1>6. UsedIsMarked
  BY <1>3, LookaheadAssumption DEF UsedIsMarked
<1>7. MarksWereUsed
  BY <1>3 DEF MarksWereUsed
<1>8. PassedWasBusy
  <2>1. ASSUME NEW b \in Block PROVE Distance(free, b) < free.ack
    BY <1>1, <1>3, DistanceRange, LookaheadAssumption
       DEF TypeOK, AckCoversWindow
  <2> QED
    BY <2>1, <1>1, DistanceRange, LookaheadAssumption, <1>3
       DEF PassedWasBusy, TypeOK, AckCoversWindow
<1>9. HistoryCoversUse
  BY <1>2 DEF HistoryCoversUse, InUse
<1> QED
  BY <1>1, <1>4, <1>5, <1>6, <1>7, <1>8, <1>9 DEF IInv

(* lfs_alloc hands out a block: the candidate passes it and the marked     *)
(* blocks that follow it.                                                  *)
LEMMA FoundStep ==
  IInv /\ AllocFound => IInv' /\ (~SplitAcks => block' \notin InUse)
<1> SUFFICES ASSUME IInv, AllocFound
             PROVE  IInv' /\ (~SplitAcks => block' \notin InUse)
  OBVIOUS
<1>t. TypeOK' /\ AckCoversWindow'
  BY TypeStep DEF IInv, Next, AllocStep
<1>f. /\ free \in FreeState /\ free.i <= free.size
      /\ free.size - free.i <= free.ack
      /\ free.size \in 0 .. BlockCount /\ free.i \in 0 .. BlockCount
      /\ free.ack \in 0 .. BlockCount /\ free.off \in Nat
  BY DEF IInv, TypeOK, AckCoversWindow, FreeState
<1>h. /\ scanBusy' = scanBusy \cup used \cup inflight'
      /\ ackBusy' = ackBusy \cup used \cup inflight'
      /\ staleBusy' = staleBusy /\ used' = used
      /\ op = "allocating" /\ op' = "running"
  BY DEF AllocFound, Accumulate, InUse
<1>o. PICK o \in free.i .. (free.size - 1) :
        /\ FirstClear(free, free.i, o)
        /\ \E n \in (o + 1) .. free.size :
             FirstClear(free, o + 1, n) /\ free' = SkippedTo(free, n)
        /\ block' = BlockAt(free, o)
        /\ inflight' = inflight \cup {BlockAt(free, o)}
  BY DEF AllocFound
<1>n. PICK n \in (o + 1) .. free.size :
        FirstClear(free, o + 1, n) /\ free' = SkippedTo(free, n)
  BY <1>o
<1>1. /\ n \in free.i .. free.size
      /\ o \in 0 .. (BlockCount - 1) /\ o \in Nat /\ free.off < BlockCount
  BY <1>f, LookaheadAssumption DEF IInv, UnwrappedIsEmpty
<1>2. /\ block' \in Block /\ OffsetOf(free, block') = o
  BY <1>o, <1>f, <1>1, BlockRange, OffsetOfBlockAt
<1>3. /\ free'.off = free.off /\ free'.size = free.size
      /\ free'.i = n /\ free'.buffer = free.buffer
  BY <1>n, <1>1, <1>f, SkippedType
<1>4. \A b \in Block : OffsetOf(free', b) = OffsetOf(free, b)
  BY <1>3, SameOffset
<1>5. \A b \in Block :
        Distance(free', b) >= free'.ack
          <=> \/ Distance(free, b) >= free.ack
              \/ OffsetOf(free, b) \in free.i .. (n - 1)
  BY <1>n, <1>1, <1>f, SkippedDistance
<1>6. \A q \in free.i .. (n - 1) : q # o => q \in free.buffer
  BY <1>o, <1>n, <1>f, LookaheadAssumption DEF FirstClear
<1>7. o \notin free.buffer
  BY <1>o, <1>f DEF FirstClear
<1>8. UnwrappedIsEmpty'
  BY <1>1, <1>3, <1>f, LookaheadAssumption DEF UnwrappedIsEmpty
<1>9. InflightBehind'
  <2> SUFFICES ASSUME ~SplitAcks, NEW b \in inflight'
               PROVE  Distance(free', b) >= free'.ack
    BY DEF InflightBehind
  <2>1. CASE b \in inflight
    BY <2>1, <1>5, <1>h DEF IInv, InflightBehind, TypeOK
  <2>2. CASE b = block'
    <3>1. OffsetOf(free, b) \in free.i .. (n - 1)
      BY <2>2, <1>2, <1>f, LookaheadAssumption
    <3> QED
      BY <3>1, <2>2, <1>2, <1>5
  <2> QED
    BY <2>1, <2>2, <1>o
<1>10. UsedIsMarked'
  BY <1>3, <1>4, <1>h, <1>f, <1>1 DEF IInv, UsedIsMarked, TypeOK
<1>11. MarksWereUsed'
  BY <1>3, <1>4, <1>h, <1>f, <1>1 DEF IInv, MarksWereUsed
<1>12. PassedWasBusy'
  <2> SUFFICES ASSUME NEW b \in Block, Distance(free', b) >= free'.ack
               PROVE  b \in ackBusy' \cup staleBusy'
    BY DEF PassedWasBusy
  <2>1. CASE Distance(free, b) >= free.ack
    BY <2>1, <1>h DEF IInv, PassedWasBusy
  <2>2. CASE OffsetOf(free, b) \in free.i .. (n - 1) /\ OffsetOf(free, b) # o
    <3>1. OffsetOf(free, b) \in free.buffer
      BY <2>2, <1>6
    <3>2. OffsetOf(free, b) \in free.i .. (free.size - 1)
      BY <2>2, <1>1, <1>f
    <3>3. b \in ackBusy \cup staleBusy
      BY <3>1, <3>2 DEF IInv, MarksWereUsed
    <3> QED
      BY <3>3, <1>h
  <2>3. CASE OffsetOf(free, b) = o
    <3>1. b = block'
      BY <2>3, <1>2, <1>1, <1>f, OffsetInjective
    <3> QED
      BY <3>1, <1>o, <1>h
  <2> QED
    BY <2>1, <2>2, <2>3, <1>5
<1>13. HistoryCoversUse'
  BY <1>h DEF HistoryCoversUse, InUse
<1>14. ASSUME ~SplitAcks PROVE block' \notin InUse
  <2>1. block' \notin used
    BY <1>14, <1>2, <1>7 DEF IInv, UsedIsMarked
  <2>2. block' \notin inflight
    <3> SUFFICES ASSUME block' \in inflight PROVE FALSE
      OBVIOUS
    <3>1. Distance(free, block') >= free.ack
      BY <1>14, <1>h DEF IInv, InflightBehind
    <3>2. Distance(free, block') = o - free.i
      BY <1>2, <1>f DEF Distance
    <3> QED
      BY <3>1, <3>2, <1>f
  <2> QED
    BY <2>1, <2>2 DEF InUse
<1> QED
  BY <1>t, <1>8, <1>9, <1>10, <1>11, <1>12, <1>13, <1>14 DEF IInv

(* The rest of the window is marked: i reaches its end without a block.    *)
LEMMA ExhaustedWindow ==
  ASSUME IInv, FirstClear(free, free.i, free.size),
         NEW f, f = SkippedTo(free, free.size)
  PROVE  /\ f \in FreeState
         /\ f.off = free.off /\ f.size = free.size /\ f.i = free.size
         /\ f.buffer = free.buffer
         /\ f.ack = free.ack - (free.size - free.i)
         /\ \A b \in Block :
              Distance(f, b) >= f.ack =>
                \/ Distance(free, b) >= free.ack
                \/ /\ OffsetOf(free, b) \in free.buffer
                   /\ OffsetOf(free, b) \in free.i .. (free.size - 1)
         /\ \A b \in Block :
              Distance(free, b) >= free.ack => Distance(f, b) >= f.ack
<1>f. /\ free \in FreeState /\ free.i <= free.size
      /\ free.size - free.i <= free.ack
      /\ free.size \in 0 .. BlockCount /\ free.i \in 0 .. BlockCount
      /\ free.size \in free.i .. free.size
  BY LookaheadAssumption DEF IInv, TypeOK, AckCoversWindow, FreeState
<1>1. \A b \in Block :
        Distance(f, b) >= f.ack
          <=> \/ Distance(free, b) >= free.ack
              \/ OffsetOf(free, b) \in free.i .. (free.size - 1)
  BY <1>f, SkippedDistance
<1>2. \A q \in free.i .. (free.size - 1) : q \in free.buffer
  BY DEF FirstClear
<1> QED
  BY <1>1, <1>2, <1>f, SkippedType

(* lfs_alloc gives up.                                                     *)
LEMMA NoSpaceStep ==
  IInv /\ AllocNoSpace => IInv' /\ ackBusy \cup staleBusy = Block
<1> SUFFICES ASSUME IInv, AllocNoSpace
             PROVE  IInv' /\ ackBusy \cup staleBusy = Block
  OBVIOUS
<1>t. TypeOK' /\ AckCoversWindow'
  BY TypeStep DEF IInv, Next, AllocStep
<1>h. /\ UNCHANGED <<used, inflight, scanBusy, ackBusy, staleBusy>>
      /\ op = "allocating" /\ op' = "running" /\ free'.ack = 0
      /\ free' = SkippedTo(free, free.size)
      /\ FirstClear(free, free.i, free.size)
  BY DEF AllocNoSpace, history
<1>f. /\ free \in FreeState /\ free.off \in Nat
      /\ free.size \in 0 .. BlockCount /\ free.i \in 0 .. BlockCount
      /\ free.i <= free.size /\ free.ack \in 0 .. BlockCount
  BY DEF IInv, TypeOK, AckCoversWindow, FreeState
<1>1. /\ free' \in FreeState
      /\ free'.off = free.off /\ free'.size = free.size
      /\ free'.i = free.size /\ free'.buffer = free.buffer
      /\ free'.ack = free.ack - (free.size - free.i)
      /\ \A b \in Block :
           Distance(free', b) >= free'.ack =>
             \/ Distance(free, b) >= free.ack
             \/ /\ OffsetOf(free, b) \in free.buffer
                /\ OffsetOf(free, b) \in free.i .. (free.size - 1)
      /\ \A b \in Block :
           Distance(free, b) >= free.ack => Distance(free', b) >= free'.ack
  BY <1>h, ExhaustedWindow
<1>2. \A b \in Block : OffsetOf(free', b) = OffsetOf(free, b)
  BY <1>1, SameOffset
<1>3. UnwrappedIsEmpty'
  <2>1. ~(free.off >= BlockCount)
    BY <1>1, <1>h, <1>f, LookaheadAssumption DEF IInv, UnwrappedIsEmpty
  <2> QED
    BY <2>1, <1>1 DEF UnwrappedIsEmpty
<1>4. InflightBehind'
  BY <1>1, <1>h DEF IInv, InflightBehind, TypeOK
<1>5. UsedIsMarked'
  BY <1>1, <1>f, LookaheadAssumption DEF UsedIsMarked
<1>6. MarksWereUsed'
  BY <1>1, <1>2, <1>h, <1>f, LookaheadAssumption DEF IInv, MarksWereUsed
<1>7. PassedWasBusy'
  <2> SUFFICES ASSUME NEW b \in Block, Distance(free', b) >= free'.ack
               PROVE  b \in ackBusy \cup staleBusy
    BY <1>h DEF PassedWasBusy
  <2> QED
    BY <1>1 DEF IInv, PassedWasBusy, MarksWereUsed
<1>8. HistoryCoversUse'
  BY <1>h DEF IInv, HistoryCoversUse, InUse
<1>9. ackBusy \cup staleBusy = Block
  <2>1. ASSUME NEW b \in Block PROVE b \in ackBusy \cup staleBusy
    <3>1. Distance(free', b) >= free'.ack
      BY <1>1, <1>h, <1>f, DistanceRange, LookaheadAssumption
    <3> QED
      BY <3>1, <1>7, <1>h DEF PassedWasBusy
  <2> QED
    BY <2>1 DEF IInv, TypeOK
<1> QED
  BY <1>t, <1>3, <1>4, <1>5, <1>6, <1>7, <1>8, <1>9 DEF IInv

(* lfs_alloc fills the next window.                                        *)
LEMMA RescanStep == IInv /\ AllocRescan => IInv'
<1> SUFFICES ASSUME IInv, AllocRescan PROVE IInv'
  OBVIOUS
<1>t. TypeOK' /\ AckCoversWindow'
  BY TypeStep DEF IInv, Next, AllocStep
<1>h. /\ UNCHANGED <<used, inflight, ackBusy, staleBusy>>
      /\ scanBusy' = used \cup inflight
      /\ op = "allocating" /\ op' = "allocating"
      /\ FirstClear(free, free.i, free.size)
      /\ used \in SUBSET Block /\ inflight \in SUBSET Block
  BY DEF AllocRescan, InUse, IInv, TypeOK
<1> DEFINE f == SkippedTo(free, free.size)
<1>g. free' = Filled(NextWindow(f), used)
  BY DEF AllocRescan
<1>1. /\ f \in FreeState
      /\ f.off = free.off /\ f.size = free.size /\ f.i = free.size
      /\ f.ack = free.ack - (free.size - free.i)
      /\ \A b \in Block :
           Distance(f, b) >= f.ack =>
             \/ Distance(free, b) >= free.ack
             \/ /\ OffsetOf(free, b) \in free.buffer
                /\ OffsetOf(free, b) \in free.i .. (free.size - 1)
      /\ \A b \in Block :
           Distance(free, b) >= free.ack => Distance(f, b) >= f.ack
  BY <1>h, ExhaustedWindow
<1> HIDE DEF f
<1>2. /\ free' \in FreeState /\ free'.off < BlockCount
      /\ free'.i = 0 /\ free'.ack = f.ack /\ free'.off \in Nat
      /\ free'.buffer
           = {OffsetOf(free', b) : b \in used} \cap (0 .. (free'.size - 1))
  BY <1>1, <1>g, <1>h, NextWindowType DEF FreeState
<1>3. UnwrappedIsEmpty'
  BY <1>2, LookaheadAssumption DEF UnwrappedIsEmpty
<1>4. UsedIsMarked'
  BY <1>2, <1>h DEF UsedIsMarked
<1>5. MarksWereUsed'
  <2> SUFFICES ASSUME NEW b \in Block, OffsetOf(free', b) \in free'.buffer
               PROVE  b \in used
    BY <1>h DEF MarksWereUsed, IInv, HistoryCoversUse, InUse
  <2>1. PICK c \in used : OffsetOf(free', c) = OffsetOf(free', b)
    BY <1>2
  <2>2. b = c
    BY <2>1, <1>2, <1>h, OffsetInjective
  <2> QED
    BY <2>2
<1>6. InflightBehind' /\ PassedWasBusy'
  <2>1. CASE free.off < BlockCount
    <3>1. \A b \in Block : Distance(free', b) = Distance(f, b)
      BY <2>1, <1>1, <1>g, <1>h, NextWindowDistance
    <3>2. InflightBehind'
      BY <3>1, <1>1, <1>2, <1>h DEF IInv, InflightBehind
    <3>3. PassedWasBusy'
      <4> SUFFICES ASSUME NEW b \in Block, Distance(free', b) >= free'.ack
                   PROVE  b \in ackBusy \cup staleBusy
        BY <1>h DEF PassedWasBusy
      <4>1. Distance(f, b) >= f.ack
        BY <3>1, <1>2
      <4> QED
        BY <4>1, <1>1 DEF IInv, PassedWasBusy, MarksWereUsed
    <3> QED
      BY <3>2, <3>3
  <2>2. CASE free.off >= BlockCount
    <3>1. free.size = 0 /\ free.ack = BlockCount /\ inflight = {}
      BY <2>2, <1>h DEF IInv, UnwrappedIsEmpty
    <3>2. free.i = 0 /\ free'.ack = BlockCount
      BY <3>1, <1>1, <1>2, LookaheadAssumption
         DEF IInv, TypeOK, AckCoversWindow, FreeState
    <3>3. ASSUME NEW b \in Block PROVE ~(Distance(free', b) >= free'.ack)
      <4>1. free'.i <= free'.size
        BY <1>t DEF AckCoversWindow
      <4>2. Distance(free', b) \in 0 .. (BlockCount - 1)
        BY <4>1, <1>2, DistanceRange
      <4> QED
        BY <4>2, <3>2, LookaheadAssumption
    <3> QED
      BY <3>1, <3>3, <1>h DEF InflightBehind, PassedWasBusy
  <2>3. free.off \in Nat
    BY DEF IInv, TypeOK, FreeState
  <2> QED
    BY <2>1, <2>2, <2>3, LookaheadAssumption
<1>7. HistoryCoversUse'
  BY <1>h DEF IInv, HistoryCoversUse, InUse
<1> QED
  BY <1>t, <1>3, <1>4, <1>5, <1>6, <1>7 DEF IInv

(* A window of size 0 satisfies every conjunct about offsets.              *)
LEMMA EmptyWindow ==
  ASSUME TypeOK', AckCoversWindow', HistoryCoversUse',
         free'.size = 0, free'.i = 0, free'.ack = BlockCount,
         inflight' = {} \/ op' = "failed"
  PROVE  IInv'
<1>1. UnwrappedIsEmpty' /\ InflightBehind'
  BY DEF UnwrappedIsEmpty, InflightBehind
<1>2. UsedIsMarked'
  BY DEF UsedIsMarked
<1>3. MarksWereUsed'
  <2>1. ASSUME NEW b \in Block PROVE ~(OffsetOf(free', b) < free'.size)
    BY OffsetRange, LookaheadAssumption DEF TypeOK
  <2> QED
    BY <2>1 DEF MarksWereUsed
<1>4. PassedWasBusy'
  <2>1. ASSUME NEW b \in Block PROVE ~(Distance(free', b) >= free'.ack)
    <3>1. Distance(free', b) \in 0 .. (BlockCount - 1)
      BY DistanceRange DEF TypeOK, AckCoversWindow
    <3> QED
      BY <3>1, LookaheadAssumption
  <2> QED
    BY <2>1 DEF PassedWasBusy
<1> QED
  BY <1>1, <1>2, <1>3, <1>4 DEF IInv

(* A traversal that fails leaves an empty window: the invariant holds.     *)
LEMMA ScanFailsStep == IInv /\ AllocScanFails => IInv'
<1> SUFFICES ASSUME IInv, AllocScanFails PROVE IInv'
  OBVIOUS
<1>t. TypeOK' /\ AckCoversWindow'
  BY TypeStep DEF IInv, Next, AllocStep
<1> DEFINE f == SkippedTo(free, free.size)
<1>1. f \in FreeState
  BY ExhaustedWindow DEF AllocScanFails
<1>2. PICK visited \in SUBSET used, s \in Seeds :
        free' = ResetAt(Filled(NextWindow(f), visited), s)
  BY DEF AllocScanFails
<1> HIDE DEF f
<1>3. Filled(NextWindow(f), visited) \in FreeState /\ s \in Nat
  BY <1>1, <1>2, NextWindowType, AllocAssumption DEF IInv, TypeOK
<1>4. free'.size = 0 /\ free'.i = 0 /\ free'.ack = BlockCount
  BY <1>2, <1>3, ResetType
<1>5. HistoryCoversUse' /\ op' = "failed"
  BY DEF AllocScanFails, Restart, HistoryCoversUse, InUse
<1> QED
  BY <1>t, <1>4, <1>5, EmptyWindow

(* After a power loss nothing is in flight and the window is empty.        *)
LEMMA PowerLossStep == IInv /\ PowerLoss => IInv'
<1> SUFFICES ASSUME IInv, PowerLoss PROVE IInv'
  OBVIOUS
<1>t. TypeOK' /\ AckCoversWindow'
  BY TypeStep DEF IInv, Next
<1>1. free'.size = 0 /\ free'.i = 0 /\ free'.ack = BlockCount
  BY MountType DEF PowerLoss
<1>2. HistoryCoversUse' /\ inflight' = {}
  BY DEF PowerLoss, Restart, HistoryCoversUse, InUse
<1> QED
  BY <1>t, <1>1, <1>2, EmptyWindow

(* An ack without blocks in flight (lfs.cpp:470) keeps the invariant.      *)
LEMMA AckStep == IInv /\ Ack => IInv'
<1> SUFFICES ASSUME IInv, Ack PROVE IInv'
  OBVIOUS
<1>t. TypeOK' /\ AckCoversWindow'
  BY TypeStep DEF IInv, Next
<1>1. /\ free'.off = free.off /\ free'.size = free.size
      /\ free'.i = free.i /\ free'.buffer = free.buffer
      /\ free'.ack = BlockCount /\ free' \in FreeState
  BY AckedType DEF Ack, IInv, TypeOK
<1>2. \A b \in Block : OffsetOf(free', b) = OffsetOf(free, b)
  BY <1>1, SameOffset
<1>3. /\ used' = used /\ inflight' = inflight /\ op' = op
      /\ scanBusy' = scanBusy /\ staleBusy' = scanBusy
      /\ ackBusy' = used \cup inflight /\ op = "running"
      /\ inflight = {} \/ SplitAcks
  BY DEF Ack, InUse
<1>4. UnwrappedIsEmpty'
  BY <1>1, <1>3 DEF IInv, UnwrappedIsEmpty
<1>5. InflightBehind'
  BY <1>3 DEF InflightBehind
<1>6. UsedIsMarked'
  BY <1>1, <1>2, <1>3 DEF IInv, UsedIsMarked, TypeOK
<1>7. MarksWereUsed'
  BY <1>1, <1>2, <1>3, LookaheadAssumption
     DEF IInv, MarksWereUsed, TypeOK, FreeState
<1>8. PassedWasBusy'
  <2>1. ASSUME NEW b \in Block PROVE ~(Distance(free', b) >= free'.ack)
    <3>1. Distance(free', b) \in 0 .. (BlockCount - 1)
      BY <1>1, <1>t, DistanceRange DEF AckCoversWindow
    <3> QED
      BY <3>1, <1>1, LookaheadAssumption
  <2> QED
    BY <2>1 DEF PassedWasBusy
<1>9. HistoryCoversUse'
  BY <1>3 DEF IInv, HistoryCoversUse, InUse
<1> QED
  BY <1>t, <1>4, <1>5, <1>6, <1>7, <1>8, <1>9 DEF IInv

(* A commit makes blocks in flight visible: they lie outside the rest of   *)
(* the window, so no mark is missing.                                      *)
LEMMA LinkStep == IInv /\ Link => IInv'
<1> SUFFICES ASSUME IInv, Link PROVE IInv'
  OBVIOUS
<1>t. TypeOK' /\ AckCoversWindow'
  BY TypeStep DEF IInv, Next
<1>h. /\ free' = free /\ op' = op /\ op = "running"
      /\ staleBusy' = staleBusy
      /\ scanBusy' = scanBusy \cup used' \cup inflight'
      /\ ackBusy' = ackBusy \cup used' \cup inflight'
      /\ used' \subseteq used \cup inflight /\ inflight' \subseteq inflight
  BY DEF Link, Accumulate, InUse
<1>1. UnwrappedIsEmpty' /\ InflightBehind'
  BY <1>h DEF IInv, UnwrappedIsEmpty, InflightBehind
<1>2. UsedIsMarked'
  <2> SUFFICES ASSUME ~SplitAcks, NEW b \in used',
                      OffsetOf(free, b) \in free.i .. (free.size - 1)
               PROVE  OffsetOf(free, b) \in free.buffer
    BY <1>h DEF UsedIsMarked
  <2>1. b \notin inflight
    <3> SUFFICES ASSUME b \in inflight PROVE FALSE
      OBVIOUS
    <3>1. Distance(free, b) >= free.ack
      BY <1>h DEF IInv, InflightBehind
    <3>2. Distance(free, b) = OffsetOf(free, b) - free.i
      BY DEF IInv, TypeOK, FreeState, Distance
    <3> QED
      BY <3>1, <3>2 DEF IInv, TypeOK, FreeState, AckCoversWindow
  <2> QED
    BY <2>1, <1>h DEF IInv, UsedIsMarked
<1>3. MarksWereUsed' /\ PassedWasBusy'
  BY <1>h DEF IInv, MarksWereUsed, PassedWasBusy
<1>4. HistoryCoversUse'
  BY <1>h DEF HistoryCoversUse, InUse
<1> QED
  BY <1>t, <1>1, <1>2, <1>3, <1>4 DEF IInv

(* What an operation forgets when it returns is no longer in flight.       *)
LEMMA EndOpStep == IInv /\ EndOp => IInv'
<1> SUFFICES ASSUME IInv, EndOp PROVE IInv'
  OBVIOUS
<1>t. TypeOK' /\ AckCoversWindow'
  BY TypeStep DEF IInv, Next
<1>h. /\ UNCHANGED <<free, used, scanBusy, ackBusy, staleBusy>>
      /\ inflight' = {}
  BY DEF EndOp, history
<1> QED
  BY <1>t, <1>h
     DEF IInv, UnwrappedIsEmpty, InflightBehind, UsedIsMarked,
         MarksWereUsed, PassedWasBusy, HistoryCoversUse, InUse

(* The invariant is kept by every step.                                    *)
LEMMA InvStep == IInv /\ [Next]_vars => IInv'
<1> SUFFICES ASSUME IInv, [Next]_vars PROVE IInv'
  OBVIOUS
<1>t. TypeOK' /\ AckCoversWindow'
  BY TypeStep DEF IInv
<1>1. CASE BeginOp \/ CallAlloc
  <2>1. /\ UNCHANGED <<free, used, inflight, scanBusy, ackBusy, staleBusy>>
        /\ op # "failed"
    BY <1>1 DEF BeginOp, CallAlloc, history
  <2> QED
    BY <1>t, <2>1
       DEF IInv, UnwrappedIsEmpty, InflightBehind, UsedIsMarked,
           MarksWereUsed, PassedWasBusy, HistoryCoversUse, InUse
<1>2. CASE UNCHANGED vars
  BY <1>t, <1>2
     DEF IInv, vars, UnwrappedIsEmpty, InflightBehind, UsedIsMarked,
         MarksWereUsed, PassedWasBusy, HistoryCoversUse, InUse
<1> QED
  BY <1>1, <1>2, AckStep, FoundStep, NoSpaceStep, RescanStep, ScanFailsStep,
     LinkStep, EndOpStep, PowerLossStep
     DEF Next, AllocStep

(* The inductive invariant of the allocator holds in every state.          *)
THEOREM Invariance == Spec => []IInv
BY InvInit, InvStep, PTL DEF Spec

(* lfs_alloc never hands out a block in use, provided no operation         *)
(* acknowledges while it holds blocks in flight: for every device size,    *)
(* window size and seed, across failing traversals and power loss.         *)
THEOREM AllocationIsSafe ==
  ASSUME ~SplitAcks
  PROVE  Spec => AllocatedIsFree
<1>1. ASSUME IInv, [Next]_vars
      PROVE  [op = "allocating" /\ op' = "running" /\ err' = "none"
                => block' \notin InUse]_vars
  <2> SUFFICES ASSUME Next, op = "allocating", op' = "running", err' = "none"
               PROVE  block' \notin InUse
    BY <1>1
  <2>1. AllocFound
    BY DEF Next, AllocStep, BeginOp, Ack, CallAlloc, AllocNoSpace,
           AllocRescan, AllocScanFails, Link, EndOp, PowerLoss
  <2> QED
    BY <2>1, <1>1, FoundStep
<1> QED
  BY <1>1, Invariance, PTL DEF Spec, AllocatedIsFree

(* LFS_ERR_NOSPC is only returned when every block was in use since the    *)
(* last ack or since the window in force at that ack was filled; this one  *)
(* needs no discipline of the callers.                                     *)
THEOREM NoSpaceIsSound == Spec => NoSpaceIsHonest
<1>1. ASSUME IInv, [Next]_vars
      PROVE  [op = "allocating" /\ op' = "running" /\ err' = "nospc"
                => ackBusy \cup staleBusy = Block]_vars
  <2> SUFFICES ASSUME Next, op = "allocating", op' = "running", err' = "nospc"
               PROVE  ackBusy \cup staleBusy = Block
    BY <1>1
  <2>1. AllocNoSpace
    BY DEF Next, AllocStep, BeginOp, Ack, CallAlloc, AllocFound,
           AllocRescan, AllocScanFails, Link, EndOp, PowerLoss
  <2> QED
    BY <2>1, <1>1, NoSpaceStep
<1> QED
  BY <1>1, Invariance, PTL DEF Spec, NoSpaceIsHonest
==============================================================================
