-------------------------------- MODULE Alloc --------------------------------
(***************************************************************************)
(* The block allocator of littlefs (littlefs/lfs.cpp:463-532) under every  *)
(* caller it has: operations that allocate blocks, link them into the      *)
(* file system and release others, failing traversals, and power loss      *)
(* followed by a mount.                                                    *)
(*                                                                         *)
(* Nothing on the device says that a block is free.  A block is in use     *)
(* when a traversal of the file system visits it (`used`: metadata pairs,  *)
(* blocks of files, blocks of open files), or when the running operation   *)
(* has taken it and not yet linked it (`inflight`, invisible to a          *)
(* traversal).  The allocator sees only `used`, and only at the moments it *)
(* fills the window.                                                       *)
(***************************************************************************)
EXTENDS Lookahead

CONSTANTS
  Seeds,       (* the values lfs->seed % block_size takes at a reset       *)
  SplitAcks    (* whether operations occur whose commit splits a directory *)
               (* while they hold blocks in flight (lfs_mkdir)             *)

ASSUME AllocAssumption ==
  /\ Seeds \subseteq Nat
  /\ SplitAcks \in BOOLEAN

VARIABLES
  free,        (* lfs->free                                                *)
  used,        (* the blocks a traversal visits                            *)
  inflight,    (* the blocks the running operation holds unlinked          *)
  op,          (* where the thread is: between operations, in one, in      *)
               (* lfs_alloc, or leaving an operation on an error           *)
  block, err,  (* what the last lfs_alloc returned                         *)
  scanBusy,    (* history: blocks in use since the window was filled       *)
  ackBusy,     (* history: blocks in use since the last lfs_alloc_ack      *)
  staleBusy    (* history: scanBusy at the last lfs_alloc_ack              *)

history == <<scanBusy, ackBusy, staleBusy>>
vars == <<free, used, inflight, op, block, err, scanBusy, ackBusy, staleBusy>>

InUse == used \cup inflight

(* The histories follow InUse in every step that neither fills a window    *)
(* nor acknowledges.                                                       *)
Accumulate ==
  /\ scanBusy' = scanBusy \cup InUse'
  /\ ackBusy' = ackBusy \cup InUse'
  /\ UNCHANGED staleBusy

Restart ==
  /\ scanBusy' = InUse'
  /\ ackBusy' = InUse'
  /\ staleBusy' = InUse'

------------------------------------------------------------------------------
(* lfs_mount ends with lfs_alloc_reset.                                    *)
AfterMount(f) ==
  \E s \in Seeds : f = Window(s, 0, 0, BlockCount, {})

(* lfs_format starts from a window that declares the device empty.         *)
AfterFormatStart(f) ==
  f = Window(0, Smaller(LookaheadBits, BlockCount), 0, BlockCount, {})

(* A mounted file system, or one being created.                            *)
Init ==
  /\ \/ used \in SUBSET Block /\ AfterMount(free)
     \/ used = {} /\ AfterFormatStart(free)
  /\ inflight = {}
  /\ op = "idle"
  /\ block = 0 /\ err = "none"
  /\ scanBusy = used /\ ackBusy = used /\ staleBusy = used

(* A call of the file system API starts.                                   *)
BeginOp ==
  /\ op = "idle"
  /\ op' = "running"
  /\ UNCHANGED <<free, used, inflight, block, err, history>>

(* lfs_alloc_ack.  lfs_mkdir, lfs_file_outline and lfs_file_write call it  *)
(* when they hold nothing in flight; lfs_dir_split calls it whatever the   *)
(* operation it is part of holds.                                          *)
Ack ==
  /\ op = "running"
  /\ inflight = {} \/ SplitAcks
  /\ free' = Acked(free)
  /\ staleBusy' = scanBusy
  /\ ackBusy' = InUse
  /\ UNCHANGED <<used, inflight, op, block, err, scanBusy>>

(* The operation calls lfs_alloc.                                          *)
CallAlloc ==
  /\ op = "running"
  /\ op' = "allocating"
  /\ UNCHANGED <<free, used, inflight, block, err, history>>

(* lfs_alloc finds a clear bit o and moves on eagerly to the next one, n.  *)
AllocFound ==
  /\ op = "allocating"
  /\ \E o \in free.i .. (free.size - 1) :
       /\ FirstClear(free, free.i, o)
       /\ \E n \in (o + 1) .. free.size :
            /\ FirstClear(free, o + 1, n)
            /\ free' = SkippedTo(free, n)
       /\ block' = BlockAt(free, o)
       /\ inflight' = inflight \cup {BlockAt(free, o)}
  /\ err' = "none"
  /\ op' = "running"
  /\ UNCHANGED used
  /\ Accumulate

(* The rest of the window is in use and every block has been inspected     *)
(* since the last ack.                                                     *)
AllocNoSpace ==
  /\ op = "allocating"
  /\ FirstClear(free, free.i, free.size)
  /\ free' = SkippedTo(free, free.size)
  /\ free'.ack = 0
  /\ err' = "nospc"
  /\ op' = "running"
  /\ UNCHANGED <<used, inflight, block, history>>

(* The rest of the window is in use: the next window, filled by            *)
(* lfs_fs_traverseraw.                                                     *)
AllocRescan ==
  /\ op = "allocating"
  /\ FirstClear(free, free.i, free.size)
  /\ LET f == SkippedTo(free, free.size) IN
       /\ f.ack # 0
       /\ free' = Filled(NextWindow(f), used)
  /\ scanBusy' = InUse
  /\ UNCHANGED <<used, inflight, op, block, err, ackBusy, staleBusy>>

(* The traversal fails (a metadata pair or a pointer that cannot be read): *)
(* the window is reset and the error ends the operation.                   *)
AllocScanFails ==
  /\ op = "allocating"
  /\ FirstClear(free, free.i, free.size)
  /\ LET f == SkippedTo(free, free.size) IN
       /\ f.ack # 0
       /\ \E visited \in SUBSET used, s \in Seeds :
            free' = ResetAt(Filled(NextWindow(f), visited), s)
  /\ err' = "corrupt"
  /\ op' = "failed"
  /\ UNCHANGED <<used, inflight, block>>
  /\ Restart

(* A commit, or a file that starts to write: some blocks in flight become  *)
(* visible to a traversal and some visible ones are given up.              *)
Link ==
  /\ op = "running"
  /\ \E new \in SUBSET inflight, old \in SUBSET used :
       /\ used' = (used \ old) \cup new
       /\ inflight' = inflight \ new
  /\ UNCHANGED <<free, op, block, err>>
  /\ Accumulate

(* The operation returns; what it has not linked is forgotten.             *)
EndOp ==
  /\ op \in {"running", "failed"}
  /\ op' = "idle"
  /\ inflight' = {}
  /\ UNCHANGED <<free, used, block, err, history>>

(* Power loss at any point, then lfs_mount.  The blocks only open files    *)
(* held are not visited any more.                                          *)
PowerLoss ==
  /\ op' = "idle"
  /\ inflight' = {}
  /\ used' \in SUBSET used
  /\ AfterMount(free')
  /\ block' = 0 /\ err' = "none"
  /\ Restart

AllocStep == AllocFound \/ AllocNoSpace \/ AllocRescan \/ AllocScanFails

Next ==
  \/ BeginOp \/ Ack \/ CallAlloc \/ AllocStep \/ Link \/ EndOp \/ PowerLoss

Spec == Init /\ [][Next]_vars

(* lfs_alloc is a loop of the one thread: once called it keeps running.    *)
FairSpec == Spec /\ WF_vars(AllocStep)

------------------------------------------------------------------------------
(* Types.                                                                  *)
TypeOK ==
  /\ free \in FreeState
  /\ used \in SUBSET Block
  /\ inflight \in SUBSET Block
  /\ op \in {"idle", "running", "allocating", "failed"}
  /\ block \in Block
  /\ err \in {"none", "nospc", "corrupt"}
  /\ scanBusy \in SUBSET Block
  /\ ackBusy \in SUBSET Block
  /\ staleBusy \in SUBSET Block

(* ack is unsigned and is decremented for every offset of the window that  *)
(* is passed (lfs.cpp:493, 504): it always covers the rest of the window,  *)
(* whatever acks and resets come between, so it never wraps.               *)
AckCoversWindow ==
  /\ free.i <= free.size
  /\ free.size - free.i <= free.ack

(* lfs_alloc never hands out a block that is in use: neither one a         *)
(* traversal would find nor one the same operation took before, although   *)
(* the bitmap is only as fresh as the last traversal and knows nothing of  *)
(* blocks in flight (lfs.cpp:488-532, "found a free block" :496).          *)
AllocatedIsFree ==
  [][op = "allocating" /\ op' = "running" /\ err' = "none"
       => block' \notin InUse]_vars

(* LFS_ERR_NOSPC (lfs.cpp:512-517) is honest up to the age of the window:  *)
(* every block was in use at some moment since the last ack, or since the  *)
(* window in force at that ack was filled.                                 *)
NoSpaceIsHonest ==
  [][op = "allocating" /\ op' = "running" /\ err' = "nospc"
       => ackBusy \cup staleBusy = Block]_vars

(* The inductive strengthening of AllocatedIsFree and NoSpaceIsHonest.     *)
(* Distance counts the blocks from the next candidate to block b.          *)
Distance(f, b) ==
  IF OffsetOf(f, b) >= f.i
  THEN OffsetOf(f, b) - f.i
  ELSE OffsetOf(f, b) - f.i + BlockCount

(* The seed of a reset is wrapped by the next window: until then the       *)
(* window is empty and nothing can be in flight.                           *)
UnwrappedIsEmpty ==
  free.off >= BlockCount =>
    /\ free.size = 0 /\ free.ack = BlockCount
    /\ op # "failed" => inflight = {}

(* Blocks in flight lie beyond everything that ack still lets inspect.     *)
InflightBehind ==
  ~SplitAcks /\ op # "failed" => \A b \in inflight : Distance(free, b) >= free.ack

(* The rest of the window marks every block a traversal would visit.       *)
UsedIsMarked ==
  ~SplitAcks =>
    \A b \in used :
      OffsetOf(free, b) \in free.i .. (free.size - 1)
        => OffsetOf(free, b) \in free.buffer

(* A mark stands for a block that was in use since the window was filled;  *)
(* one that is still ahead, for a block the histories of ack know.         *)
MarksWereUsed ==
  \A b \in Block :
    OffsetOf(free, b) \in free.buffer =>
      /\ OffsetOf(free, b) < free.size => b \in scanBusy
      /\ OffsetOf(free, b) \in free.i .. (free.size - 1)
           => b \in ackBusy \cup staleBusy

(* What has been inspected since the last ack has been in use.             *)
PassedWasBusy ==
  \A b \in Block : Distance(free, b) >= free.ack => b \in ackBusy \cup staleBusy

HistoryCoversUse == InUse \subseteq scanBusy /\ InUse \subseteq ackBusy

IInv ==
  /\ TypeOK
  /\ AckCoversWindow
  /\ UnwrappedIsEmpty
  /\ InflightBehind
  /\ UsedIsMarked
  /\ MarksWereUsed
  /\ PassedWasBusy
  /\ HistoryCoversUse

(* lfs_alloc returns: its `while (true)` (lfs.cpp:489) ends with a block,  *)
(* NOSPC or the error of the traversal.                                    *)
AllocReturns == op = "allocating" ~> op # "allocating"
==============================================================================
