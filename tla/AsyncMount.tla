------------------------------ MODULE AsyncMount ------------------------------
(***************************************************************************)
(* LittleFS::TaskRun and the operations it unrolls: the asynchronous mount *)
(* (lfs_mount_async) and the asynchronous traversal that is to prepare the *)
(* lookahead window (lfs_traverse_async), one slice of work per activation *)
(* of the task.  Between two activations the application may call the file *)
(* system: it unmounts, mounts again, and writes, syncs and removes files. *)
(*                                                                         *)
(* A directory is one metadata pair of the tail list: pair 1 is {0, 1},    *)
(* where the list starts, and 0 stands for the null pair.                  *)
(***************************************************************************)
EXTENDS Lookahead, FiniteSets

CONSTANTS
  Dir,        (* the metadata pairs, 1 .. n                                *)
  Disks,      (* the contents a device may have, see DiskSet               *)
  Seeds,      (* lfs->seed % block_size at a reset                         *)
  Faults,     (* whether reading a metadata pair may fail                  *)
  Files,      (* whether the application uses files once mounted           *)
  Remounts    (* how many times the application calls unmount              *)

(* What mount reads of a device: the tail list, which pairs hold a         *)
(* superblock entry and of which version, and the bit of global state      *)
(* every pair contributes to the exclusive-or.                             *)
DiskSet ==
  [tail: [Dir -> Dir \cup {0}], super: [Dir -> {"none", "ok", "newer"}],
   delta: [Dir -> {0, 1}]]

ASSUME AsyncMountAssumption ==
  /\ IsFiniteSet(Dir) /\ Dir = 1 .. Cardinality(Dir) /\ Dir # {}
  /\ 2 * Cardinality(Dir) <= BlockCount
  /\ Disks \subseteq DiskSet
  /\ Seeds \subseteq Nat
  /\ Faults \in BOOLEAN /\ Files \in BOOLEAN /\ Remounts \in Nat

Pair(d) == {2 * (d - 1), 2 * (d - 1) + 1}
MaxCycle == BlockCount \div 2

VARIABLES
  disk, files,       (* the device: metadata, and the blocks of the files  *)
                     (* every directory refers to                          *)
  open,              (* blocks of open files that are being written        *)
  bd, configured,    (* LittleFS::_bd and whether _config has been filled  *)
  curOperation, curOperationState,
  workdir, workblock,(* the iterator: next pair, and pairs seen so far     *)
  mounted, err,      (* LittleFS::_mounted and _err                        *)
  root, gstate,      (* lfs->root and lfs->gstate                          *)
  free,              (* lfs->free                                          *)
  allocating, block, (* a file operation is inside lfs_alloc; its result   *)
  unmounts           (* bounds unmount by Remounts                         *)

device == <<disk, files>>
task   == <<curOperation, curOperationState, workdir, workblock>>
status == <<mounted, err, root, gstate>>
vars   == <<disk, files, open, bd, configured, task, status, free,
            allocating, block, unmounts>>

TreeBlocks == UNION {Pair(d) \cup files[d] : d \in Dir}
Used == TreeBlocks \cup open

Init ==
  /\ disk \in Disks
  /\ files \in [Dir -> SUBSET (Block \ UNION {Pair(d) : d \in Dir})]
  /\ \A c, d \in Dir : c # d => files[c] \cap files[d] = {}
  /\ ~Files => \A d \in Dir : files[d] = {}
  /\ open = {}
  /\ bd = FALSE /\ configured = FALSE
  /\ curOperation = 1 /\ curOperationState = 0
  /\ workdir = 0 /\ workblock = 0
  /\ mounted = FALSE /\ err = "none"
  /\ root = 0 /\ gstate = 0
  /\ free = Window(0, 0, 0, 0, {})
  /\ allocating = FALSE /\ block = 0
  /\ unmounts = 0

------------------------------------------------------------------------------
(* lfs_mount, the synchronous reference: the walk along the tail list as a *)
(* function of the number of pairs fetched, and its outcome.               *)
Fetched(w, k) ==
  LET d == w.dir IN
  [dir  |-> k.tail[d],
   root |-> IF k.super[d] = "ok" THEN d ELSE w.root,
   g    |-> (w.g + k.delta[d]) % 2,
   err  |-> IF k.super[d] = "newer" THEN "inval" ELSE "none"]

Walk(k) ==
  LET walk[n \in 0 .. MaxCycle] ==
        IF n = 0
        THEN [dir |-> 1, root |-> 0, g |-> 0, err |-> "none"]
        ELSE LET w == walk[n - 1] IN
             IF w.dir = 0 \/ w.err # "none" THEN w ELSE Fetched(w, k)
  IN walk[MaxCycle]

lfs_mount(k) ==
  LET w == Walk(k) IN
  [err  |-> CASE w.err # "none" -> w.err
              [] w.err = "none" /\ w.dir # 0 -> "corrupt"
              [] w.err = "none" /\ w.dir = 0 /\ w.root = 0 -> "inval"
              [] OTHER -> "none",
   root |-> w.root, gstate |-> w.g]

------------------------------------------------------------------------------
(* lfs_mount_async under TaskRun, case 1.                                  *)

(* An error: TaskRun gives the operation up and reports it.                *)
MountFails(e) ==
  /\ curOperation' = 0 /\ curOperationState' = 0
  /\ mounted' = FALSE /\ err' = e

(* state 0: lfs_init; a configuration that mount_async has not filled yet  *)
(* is refused.                                                             *)
MountInit ==
  /\ curOperation = 1 /\ curOperationState = 0
  /\ \/ /\ ~configured
        /\ MountFails("nomem")
        /\ UNCHANGED <<workdir, workblock, root, gstate>>
     \/ /\ configured
        /\ curOperationState' = 1
        /\ workdir' = 1 /\ workblock' = 0
        /\ root' = 0 /\ gstate' = 0
        /\ UNCHANGED <<curOperation, mounted, err>>
  /\ open' = IF configured THEN {} ELSE open
  /\ UNCHANGED free

(* Mutated: pairs are not counted.                                         *)
NextCycleSame == workblock
(* Mutated: the last delta replaces those before it.                       *)
NextGstateReplaced(d) == disk.delta[d]

(* What fetching pair d adds: to the pairs seen, to the root and to the    *)
(* exclusive-or of the global state.                                       *)
NextCycle     == workblock + 1
NextRoot(d)   == IF disk.super[d] = "none" THEN root ELSE d
NextGstate(d) == (gstate + disk.delta[d]) % 2

(* state 1: one more pair of the tail list.                                *)
MountScan ==
  /\ curOperation = 1 /\ curOperationState = 1
  /\ workdir # 0
  /\ \/ /\ workblock >= MaxCycle
        /\ MountFails("corrupt")
        /\ UNCHANGED <<workdir, workblock, root, gstate>>
     \/ /\ workblock < MaxCycle
        /\ ~bd \/ Faults
        /\ MountFails("corrupt")
        /\ workblock' = NextCycle
        /\ UNCHANGED <<workdir, root, gstate>>
     \/ /\ workblock < MaxCycle /\ bd
        /\ workblock' = NextCycle
        /\ workdir' = disk.tail[workdir]
        /\ root' = NextRoot(workdir)
        /\ \/ /\ disk.super[workdir] = "newer"
              /\ MountFails("inval")
              /\ UNCHANGED gstate
           \/ /\ disk.super[workdir] # "newer"
              /\ gstate' = NextGstate(workdir)
              /\ UNCHANGED <<curOperation, curOperationState, mounted, err>>
  /\ UNCHANGED <<open, free>>

MountScanned ==
  /\ curOperation = 1 /\ curOperationState = 1
  /\ workdir = 0
  /\ curOperationState' = 2
  /\ UNCHANGED <<curOperation, workdir, workblock, status, open, free>>

(* state 2: the superblock must have been found; the window is reset.      *)
MountFinish ==
  /\ curOperation = 1 /\ curOperationState = 2
  /\ \/ /\ root = 0
        /\ MountFails("inval")
        /\ UNCHANGED free
     \/ /\ root # 0
        /\ curOperation' = 6 /\ curOperationState' = 0
        /\ mounted' = TRUE
        /\ \E s \in Seeds : free' = ResetAt(free, s)
        /\ UNCHANGED err
  /\ UNCHANGED <<workdir, workblock, root, gstate, open>>

------------------------------------------------------------------------------
(* lfs_traverse_async under TaskRun, case 6.  TaskRun drops its result.    *)

(* Mutated: the pairs seen are not counted afresh.                         *)
TraverseInitOnward ==
  /\ curOperation = 6 /\ curOperationState = 0
  /\ workdir' = 1
  /\ curOperationState' = 1
  /\ UNCHANGED <<curOperation, workblock, status, open, free>>

(* state 0: back to the head of the tail list.                             *)
TraverseInit ==
  /\ curOperation = 6 /\ curOperationState = 0
  /\ workdir' = 1 /\ workblock' = 0
  /\ curOperationState' = 1
  /\ UNCHANGED <<curOperation, status, open, free>>

(* state 1: the window moves on and is cleared in every slice, then one    *)
(* pair is visited; the pair's own blocks are marked before it is fetched. *)
(* A failure after the fetch, in the blocks of a file, leaves the iterator *)
(* on the next pair.  The marks do not survive a reset (its size is 0).    *)
TraverseScan ==
  /\ curOperation = 6 /\ curOperationState = 1
  /\ workdir # 0
  /\ LET w == NextWindow(free) IN
     \/ /\ workblock >= MaxCycle
        /\ \E s \in Seeds : free' = ResetAt(w, s)
        /\ UNCHANGED <<workdir, workblock>>
     \/ /\ workblock < MaxCycle
        /\ ~bd \/ Faults
        /\ \E s \in Seeds : free' = ResetAt(Filled(w, Pair(workdir)), s)
        /\ workblock' = NextCycle
        /\ workdir' \in {workdir, IF bd THEN disk.tail[workdir] ELSE workdir}
     \/ /\ workblock < MaxCycle /\ bd
        /\ free' = Filled(w, Pair(workdir) \cup files[workdir])
        /\ workblock' = NextCycle
        /\ workdir' = disk.tail[workdir]
  /\ UNCHANGED <<curOperation, curOperationState, status, open>>

(* ... also in the slice that only finds the end of the list.              *)
TraverseScanned ==
  /\ curOperation = 6 /\ curOperationState = 1
  /\ workdir = 0
  /\ free' = NextWindow(free)
  /\ curOperationState' = 2
  /\ UNCHANGED <<curOperation, workdir, workblock, status, open>>

(* Mutated: TaskRun does not start over.                                   *)
TraverseFinishOnly ==
  /\ curOperation = 6 /\ curOperationState = 2
  /\ free' = Filled(free, open)
  /\ curOperationState' = 3
  /\ UNCHANGED <<curOperation, workdir, workblock, status, open>>

(* state 2: the open files; TaskRun then starts over.                      *)
TraverseFinish ==
  /\ curOperation = 6 /\ curOperationState = 2
  /\ free' = Filled(free, open)
  /\ curOperationState' = 0 /\ curOperation' = 6
  /\ mounted' = TRUE
  /\ UNCHANGED <<workdir, workblock, err, root, gstate, open>>

(* ... or a pointer between the blocks of one of them cannot be read: the  *)
(* window is reset, and the next slice visits the open files again.        *)
TraverseFilesFails ==
  /\ curOperation = 6 /\ curOperationState = 2
  /\ open # {} /\ (~bd \/ Faults)
  /\ \E s \in Seeds : free' = ResetAt(free, s)
  /\ UNCHANGED <<task, status, open>>

TaskRun ==
  /\ ~allocating
  /\ \/ MountInit \/ MountScan \/ MountScanned \/ MountFinish
     \/ TraverseInit \/ TraverseScan \/ TraverseScanned
     \/ TraverseFinish \/ TraverseFilesFails
  /\ UNCHANGED <<device, bd, configured, allocating, block, unmounts>>

------------------------------------------------------------------------------
(* The application.                                                        *)

(* mount_async, called when no card is in use or when mounting failed: if  *)
(* the card answers, the task is told to mount.  The state of an operation *)
(* the call interrupts is left alone.                                      *)
MountAsync ==
  /\ ~allocating
  /\ ~bd \/ curOperation = 0
  /\ \/ /\ bd' = TRUE /\ configured' = TRUE
        /\ curOperation' = 1
     \/ /\ Faults
        /\ bd' = FALSE
        /\ UNCHANGED <<configured, curOperation>>
  /\ UNCHANGED <<device, open, curOperationState, workdir, workblock, status,
                 free, allocating, block, unmounts>>

(* unmount: the card is released, the task is not told.                    *)
Unmount ==
  /\ bd /\ ~allocating
  /\ unmounts < Remounts
  /\ bd' = FALSE
  /\ unmounts' = unmounts + 1
  /\ UNCHANGED <<device, open, configured, task, status, free, allocating,
                 block>>

(* A file is written: lfs_file_write acknowledges, then calls lfs_alloc.   *)
Write ==
  /\ Files /\ mounted /\ bd /\ ~allocating
  /\ allocating' = TRUE
  /\ free' = Acked(free)
  /\ UNCHANGED <<device, open, bd, configured, task, status, block, unmounts>>

WriteAllocates ==
  /\ allocating
  /\ \E o \in free.i .. (free.size - 1) :
       /\ FirstClear(free, free.i, o)
       /\ \E n \in (o + 1) .. free.size :
            /\ FirstClear(free, o + 1, n)
            /\ free' = SkippedTo(free, n)
       /\ block' = BlockAt(free, o)
       /\ open' = open \cup {BlockAt(free, o)}
  /\ allocating' = FALSE
  /\ UNCHANGED <<device, bd, configured, task, status, unmounts>>

WriteRescans ==
  /\ allocating
  /\ FirstClear(free, free.i, free.size)
  /\ LET f == SkippedTo(free, free.size) IN
       /\ f.ack # 0
       /\ free' = Filled(NextWindow(f), Used)
  /\ UNCHANGED <<device, open, bd, configured, task, status, allocating,
                 block, unmounts>>

WriteNoSpace ==
  /\ allocating
  /\ FirstClear(free, free.i, free.size)
  /\ free' = SkippedTo(free, free.size)
  /\ free'.ack = 0
  /\ allocating' = FALSE
  /\ UNCHANGED <<device, open, bd, configured, task, status, block, unmounts>>

(* lfs_file_sync: the written blocks become part of a directory's file.    *)
SyncFile(d) ==
  /\ Files /\ mounted /\ bd /\ ~allocating
  /\ open # {}
  /\ files' = [files EXCEPT ![d] = @ \cup open]
  /\ open' = {}
  /\ UNCHANGED <<disk, bd, configured, task, status, free, allocating,
                 block, unmounts>>

(* lfs_remove: a file's blocks are no longer referred to.                  *)
RemoveFile(d) ==
  /\ Files /\ mounted /\ bd /\ ~allocating
  /\ files[d] # {}
  /\ files' = [files EXCEPT ![d] = {}]
  /\ UNCHANGED <<disk, open, bd, configured, task, status, free, allocating,
                 block, unmounts>>

Next ==
  \/ TaskRun
  \/ MountAsync \/ Unmount
  \/ Write \/ WriteAllocates \/ WriteRescans \/ WriteNoSpace
  \/ \E d \in Dir : SyncFile(d) \/ RemoveFile(d)

(* notified() asks for the task whenever curOperation is not 0, and the    *)
(* task manager runs every task that asks.                                 *)
Spec == Init /\ [][Next]_vars /\ WF_vars(TaskRun)

------------------------------------------------------------------------------
TypeOK ==
  /\ disk \in Disks /\ files \in [Dir -> SUBSET Block]
  /\ open \in SUBSET Block
  /\ bd \in BOOLEAN /\ configured \in BOOLEAN
  /\ curOperation \in {0, 1, 6} /\ curOperationState \in 0 .. 2
  /\ workdir \in Dir \cup {0} /\ workblock \in 0 .. MaxCycle
  /\ mounted \in BOOLEAN
  /\ err \in {"none", "nomem", "corrupt", "inval"}
  /\ root \in Dir \cup {0} /\ gstate \in {0, 1}
  /\ free \in FreeState
  /\ allocating \in BOOLEAN /\ block \in Block
  /\ unmounts \in 0 .. Remounts

(* The mount that TaskRun unrolls ("to allow for unrolling of              *)
(* while-loops", LittleFS.h:130) ends where lfs_mount would: a mount       *)
(* completes exactly with the root and global state the synchronous walk   *)
(* finds, and only on a device that lfs_mount accepts; one that fails on a *)
(* readable device fails with the error of lfs_mount.                      *)
MountAgrees ==
  [][LET m == lfs_mount(disk) IN
       /\ curOperation = 1 /\ curOperation' = 6
            => m.err = "none" /\ root' = m.root /\ gstate' = m.gstate
       /\ curOperation = 1 /\ curOperation' = 0 /\ configured /\ bd /\ ~Faults
            => err' = m.err]_vars

(* A mount under way ends, also on a device whose tail list is a loop.     *)
MountEnds == curOperation = 1 ~> curOperation # 1

(* The traversal of a readable device keeps coming round, so every open    *)
(* file and every directory is visited again and again.                    *)
TraversalComesRound ==
  (curOperation = 6 /\ curOperationState = 1)
    ~> (curOperation = 6 /\ curOperationState = 2)

(* ack covers the window (lfs.cpp:493, 504), also when the slices of the   *)
(* traversal move the window between two file operations.                  *)
AckCoversWindow ==
  /\ free.i <= free.size
  /\ free.size - free.i <= free.ack

(* lfs_alloc returns "a free block" (lfs.cpp:496) after an asynchronous    *)
(* mount.  It hands out blocks of existing files.                          *)
AllocatedIsFree ==
  [][allocating /\ ~allocating' /\ open' # open => block' \notin Used]_vars
==============================================================================
