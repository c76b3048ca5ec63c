--------------------------- MODULE AsyncMountProofs ---------------------------
(***************************************************************************)
(* Theorems about AsyncMount, for every device, window, tail list and      *)
(* number of unmounts: the slices of the task and the operations of the    *)
(* application, in any order, keep the window well formed and ack above    *)
(* what is left of it, and the mount that is done in slices ends as the    *)
(* synchronous one does.                                                   *)
(*                                                                         *)
(* The first invariant is the conjunction of four parts, each of which     *)
(* every action keeps: the device, the task, the window, and the flags.    *)
(* The second, MountInv, says of a mount under way that what it has        *)
(* gathered is a prefix of the walk lfs_mount makes of the same device.    *)
(***************************************************************************)
EXTENDS AsyncMount, LookaheadProofs, FiniteSetTheorems,
        WellFoundedInduction

DeviceOK ==
  /\ disk \in Disks /\ files \in [Dir -> SUBSET Block]
  /\ open \in SUBSET Block
  /\ unmounts \in 0 .. Remounts

TaskOK ==
  /\ curOperation \in {0, 1, 6} /\ curOperationState \in 0 .. 2
  /\ workdir \in Dir \cup {0} /\ workblock \in 0 .. MaxCycle
  /\ err \in {"none", "nomem", "corrupt", "inval"}
  /\ root \in Dir \cup {0} /\ gstate \in {0, 1}

WindowOK ==
  /\ free \in FreeState
  /\ AckCoversWindow
  /\ block \in Block

FlagsOK ==
  /\ bd \in BOOLEAN /\ configured \in BOOLEAN
  /\ mounted \in BOOLEAN /\ allocating \in BOOLEAN

IInv == DeviceOK /\ TaskOK /\ WindowOK /\ FlagsOK

------------------------------------------------------------------------------
(* The device.                                                             *)

(* The pairs are blocks of the device, and the list starts in one of them. *)
LEMMA PairsAreBlocks ==
  /\ 1 \in Dir
  /\ \A d \in Dir : Pair(d) \subseteq Block
  /\ MaxCycle \in Nat
<1>1. Cardinality(Dir) \in Nat
  BY AsyncMountAssumption, FS_CardinalityType
<1>2. Dir = 1 .. Cardinality(Dir) /\ Dir # {} /\ 2 * Cardinality(Dir) <= BlockCount
  BY AsyncMountAssumption
<1>3. 1 \in Dir
  BY <1>1, <1>2
<1>4. \A d \in Dir : Pair(d) \subseteq Block
  BY <1>1, <1>2, LookaheadAssumption DEF Pair, Block
<1>5. MaxCycle \in Nat
  BY LookaheadAssumption DEF MaxCycle
<1> QED
  BY <1>3, <1>4, <1>5

(* What a pair adds to the mount has its type.                             *)
LEMMA DiskTypes ==
  ASSUME disk \in Disks, NEW d \in Dir
  PROVE  /\ disk.tail[d] \in Dir \cup {0}
         /\ disk.delta[d] \in {0, 1}
BY AsyncMountAssumption DEF DiskSet

(* A traversal visits blocks of the device.                                *)
LEMMA VisitedAreBlocks ==
  ASSUME DeviceOK
  PROVE  /\ \A d \in Dir : Pair(d) \cup files[d] \in SUBSET Block
         /\ Used \in SUBSET Block
BY PairsAreBlocks DEF DeviceOK, Used, TreeBlocks

------------------------------------------------------------------------------
(* The window.                                                             *)

(* A reset, an ack, a new window and a fill keep it well formed.           *)
Fits(f) == f \in FreeState /\ f.i <= f.size /\ f.size - f.i <= f.ack

(* A window that begins at the seed fits the device.                       *)
LEMMA ResetFits ==
  ASSUME NEW f \in FreeState, NEW s \in Seeds
  PROVE  Fits(ResetAt(f, s))
<1>1. s \in Nat
  BY AsyncMountAssumption
<1> QED
  BY <1>1, ResetType, LookaheadAssumption DEF Fits

(* lfs_alloc_ack only raises ack.                                          *)
LEMMA AckedFits ==
  ASSUME NEW f, Fits(f)
  PROVE  Fits(Acked(f))
BY AckedType, LookaheadAssumption DEF Fits, FreeState

(* A new window is no longer than ack.                                     *)
LEMMA NextFits ==
  ASSUME NEW f \in FreeState
  PROVE  Fits(NextWindow(f))
<1>1. NextWindow(f).size \in Nat /\ NextWindow(f).ack \in Nat
  BY EmptyWindowType, LookaheadAssumption DEF FreeState
<1> QED
  BY <1>1, EmptyWindowType DEF Fits

(* Marks do not matter.                                                    *)
LEMMA FilledFits ==
  ASSUME NEW f, Fits(f), NEW blocks \in SUBSET Block
  PROVE  Fits(Filled(f, blocks))
BY FilledType DEF Fits

(* What is passed is charged.                                              *)
LEMMA SkippedFits ==
  ASSUME NEW f, Fits(f), NEW n \in f.i .. f.size
  PROVE  Fits(SkippedTo(f, n))
BY SkippedType, LookaheadAssumption DEF Fits, FreeState

------------------------------------------------------------------------------
(* The flags are set and cleared, and nothing else.                        *)
LEMMA FlagsKeep ==
  ASSUME FlagsOK, [Next]_vars
  PROVE  FlagsOK'
<1>1. CASE TaskRun
  <2>1. bd' = bd /\ configured' = configured /\ allocating' = allocating
    BY <1>1 DEF TaskRun
  <2>2. mounted' = mounted \/ mounted' = FALSE \/ mounted' = TRUE
    BY <1>1 DEF TaskRun, MountInit, MountScan, MountScanned, MountFinish,
       MountFails, TraverseInit, TraverseScan, TraverseScanned,
       TraverseFinish, TraverseFilesFails, status
  <2> QED BY <2>1, <2>2 DEF FlagsOK
<1>2. CASE MountAsync \/ Unmount
  BY <1>2 DEF MountAsync, Unmount, task, status, FlagsOK
<1>3. CASE Write \/ WriteAllocates \/ WriteRescans \/ WriteNoSpace
  BY <1>3 DEF Write, WriteAllocates, WriteRescans, WriteNoSpace, status, FlagsOK
<1>4. CASE \E d \in Dir : SyncFile(d) \/ RemoveFile(d)
  BY <1>4 DEF SyncFile, RemoveFile, status, FlagsOK
<1>5. CASE UNCHANGED vars
  BY <1>5 DEF vars, status, FlagsOK
<1> QED BY <1>1, <1>2, <1>3, <1>4, <1>5 DEF Next

------------------------------------------------------------------------------
(* The task: mounting.                                                     *)
LEMMA MountInitKeeps ==
  ASSUME IInv, MountInit, UNCHANGED <<device, bd, configured, allocating, block, unmounts>>
  PROVE  DeviceOK' /\ TaskOK' /\ WindowOK'
<1>1. DeviceOK'
  BY DEF IInv, DeviceOK, MountInit, device
<1>2. TaskOK'
  BY PairsAreBlocks DEF IInv, TaskOK, MountInit, MountFails
<1>3. WindowOK'
  BY DEF IInv, WindowOK, AckCoversWindow, MountInit
<1> QED BY <1>1, <1>2, <1>3

(* One more pair is fetched.                                               *)
LEMMA MountScanKeeps ==
  ASSUME IInv, MountScan, UNCHANGED <<device, bd, configured, allocating, block, unmounts>>
  PROVE  DeviceOK' /\ TaskOK' /\ WindowOK'
<1>1. DeviceOK'
  BY DEF IInv, DeviceOK, MountScan, device
<1>2. TaskOK'
  <2>1. workdir \in Dir /\ disk \in Disks
    BY DEF IInv, DeviceOK, TaskOK, MountScan
  <2>2. /\ disk.tail[workdir] \in Dir \cup {0}
        /\ NextRoot(workdir) \in Dir \cup {0}
        /\ NextGstate(workdir) \in {0, 1}
    BY <2>1, DiskTypes DEF IInv, TaskOK, NextRoot, NextGstate
  <2>3. workblock < MaxCycle => NextCycle \in 0 .. MaxCycle
    BY PairsAreBlocks DEF IInv, TaskOK, NextCycle
  <2> QED
    BY <2>1, <2>2, <2>3 DEF IInv, TaskOK, MountScan, MountFails
<1>3. WindowOK'
  BY DEF IInv, WindowOK, AckCoversWindow, MountScan
<1> QED BY <1>1, <1>2, <1>3

(* The end of the list, and the end of the mount.                          *)
LEMMA MountEndKeeps ==
  ASSUME IInv, MountScanned \/ MountFinish,
         UNCHANGED <<device, bd, configured, allocating, block, unmounts>>
  PROVE  DeviceOK' /\ TaskOK' /\ WindowOK'
<1>1. DeviceOK'
  BY DEF IInv, DeviceOK, MountScanned, MountFinish, device
<1>2. TaskOK'
  BY DEF IInv, TaskOK, MountScanned, MountFinish, MountFails, status
<1>3. WindowOK'
  <2>1. CASE UNCHANGED free
    BY <2>1 DEF IInv, WindowOK, AckCoversWindow
  <2>2. CASE \E s \in Seeds : free' = ResetAt(free, s)
    BY <2>2, ResetFits DEF IInv, WindowOK, AckCoversWindow, Fits
  <2> QED BY <2>1, <2>2 DEF MountScanned, MountFinish
<1> QED BY <1>1, <1>2, <1>3

------------------------------------------------------------------------------
(* The task: traversing.                                                   *)
LEMMA TraverseScanKeeps ==
  ASSUME IInv, TraverseScan, UNCHANGED <<device, bd, configured, allocating, block, unmounts>>
  PROVE  DeviceOK' /\ TaskOK' /\ WindowOK'
<1>1. DeviceOK'
  BY DEF IInv, DeviceOK, TraverseScan, device
<1>2. workdir \in Dir /\ disk \in Disks /\ free \in FreeState
  BY DEF IInv, DeviceOK, TaskOK, WindowOK, TraverseScan
<1>3. TaskOK'
  <2>1. disk.tail[workdir] \in Dir \cup {0}
    BY <1>2, DiskTypes
  <2>2. workblock < MaxCycle => NextCycle \in 0 .. MaxCycle
    BY PairsAreBlocks DEF IInv, TaskOK, NextCycle
  <2> QED
    BY <1>2, <2>1, <2>2 DEF IInv, TaskOK, TraverseScan, status
<1>4. WindowOK'
  <2>1. /\ Pair(workdir) \in SUBSET Block
        /\ Pair(workdir) \cup files[workdir] \in SUBSET Block
    BY <1>2, VisitedAreBlocks DEF IInv
  <2>2. /\ Fits(NextWindow(free))
        /\ Fits(Filled(NextWindow(free), Pair(workdir)))
        /\ Fits(Filled(NextWindow(free), Pair(workdir) \cup files[workdir]))
    BY <1>2, <2>1, NextFits, FilledFits
  <2>3. Fits(free')
    <3>1. CASE \E s \in Seeds : free' = ResetAt(NextWindow(free), s)
      BY <2>2, <3>1, ResetFits DEF Fits
    <3>2. CASE \E s \in Seeds :
                 free' = ResetAt(Filled(NextWindow(free), Pair(workdir)), s)
      BY <2>2, <3>2, ResetFits DEF Fits
    <3>3. CASE free' = Filled(NextWindow(free), Pair(workdir) \cup files[workdir])
      BY <2>2, <3>3
    <3> QED BY <3>1, <3>2, <3>3 DEF TraverseScan
  <2> QED
    BY <2>3 DEF IInv, WindowOK, AckCoversWindow, Fits
<1> QED BY <1>1, <1>3, <1>4

(* The slices around it.                                                   *)
LEMMA TraverseEndsKeep ==
  ASSUME IInv,
         TraverseInit \/ TraverseScanned \/ TraverseFinish \/ TraverseFilesFails,
         UNCHANGED <<device, bd, configured, allocating, block, unmounts>>
  PROVE  DeviceOK' /\ TaskOK' /\ WindowOK'
<1>1. DeviceOK'
  BY DEF IInv, DeviceOK, TraverseInit, TraverseScanned, TraverseFinish,
     TraverseFilesFails, device
<1>2. TaskOK'
  BY PairsAreBlocks DEF IInv, TaskOK, TraverseInit, TraverseScanned,
     TraverseFinish, TraverseFilesFails, status, task
<1>3. WindowOK'
  <2>1. Fits(free) /\ free \in FreeState /\ open \in SUBSET Block
    BY DEF IInv, DeviceOK, WindowOK, AckCoversWindow, Fits
  <2>2. Fits(free')
    BY <2>1, NextFits, FilledFits, ResetFits
    DEF TraverseInit, TraverseScanned, TraverseFinish, TraverseFilesFails
  <2> QED BY <2>2 DEF IInv, WindowOK, AckCoversWindow, Fits
<1> QED BY <1>1, <1>2, <1>3

------------------------------------------------------------------------------
(* The application.                                                        *)
LEMMA MountCallsKeep ==
  ASSUME IInv, MountAsync \/ Unmount
  PROVE  DeviceOK' /\ TaskOK' /\ WindowOK'
<1>1. DeviceOK'
  BY AsyncMountAssumption DEF IInv, DeviceOK, MountAsync, Unmount, device
<1>2. TaskOK'
  BY DEF IInv, TaskOK, MountAsync, Unmount, task, status
<1>3. WindowOK'
  BY DEF IInv, WindowOK, AckCoversWindow, MountAsync, Unmount
<1> QED BY <1>1, <1>2, <1>3

(* A write, its allocation included.                                       *)
LEMMA WriteKeeps ==
  ASSUME IInv, Write \/ WriteAllocates \/ WriteRescans \/ WriteNoSpace
  PROVE  DeviceOK' /\ TaskOK' /\ WindowOK'
<1>1. TaskOK'
  BY DEF IInv, TaskOK, Write, WriteAllocates, WriteRescans, WriteNoSpace,
     task, status
<1>2. /\ Fits(free) /\ free \in FreeState
      /\ free.i \in Nat /\ free.size \in Nat /\ free.i <= free.size
  BY LookaheadAssumption DEF IInv, WindowOK, AckCoversWindow, Fits, FreeState
<1>3. CASE Write
  <2>1. Fits(free')
    BY <1>2, <1>3, AckedFits DEF Write
  <2> QED
    BY <1>1, <1>3, <2>1
    DEF IInv, DeviceOK, WindowOK, AckCoversWindow, Fits, Write, device
<1>4. CASE WriteAllocates
  <2>1. PICK o \in free.i .. (free.size - 1) :
          /\ \E n \in (o + 1) .. free.size : free' = SkippedTo(free, n)
          /\ block' = BlockAt(free, o)
          /\ open' = open \cup {BlockAt(free, o)}
    BY <1>4 DEF WriteAllocates
  <2>2. PICK n \in (o + 1) .. free.size : free' = SkippedTo(free, n)
    BY <2>1
  <2>3. n \in free.i .. free.size /\ o \in Nat
    BY <1>2, <2>2
  <2>4. Fits(free')
    BY <1>2, <2>2, <2>3, SkippedFits
  <2>5. BlockAt(free, o) \in Block
    BY <1>2, <2>3, BlockRange
  <2> QED
    BY <1>1, <1>4, <2>1, <2>4, <2>5
    DEF IInv, DeviceOK, WindowOK, AckCoversWindow, Fits, WriteAllocates, device
<1>5. CASE WriteRescans
  <2>1. Used \in SUBSET Block
    BY VisitedAreBlocks DEF IInv
  <2>2. SkippedTo(free, free.size) \in FreeState
    BY <1>2, SkippedFits DEF Fits
  <2>3. Fits(free')
    BY <1>5, <2>1, <2>2, NextFits, FilledFits DEF WriteRescans
  <2> QED
    BY <1>1, <1>5, <2>3
    DEF IInv, DeviceOK, WindowOK, AckCoversWindow, Fits, WriteRescans, device
<1>6. CASE WriteNoSpace
  <2>1. Fits(free')
    BY <1>2, <1>6, SkippedFits DEF WriteNoSpace
  <2> QED
    BY <1>1, <1>6, <2>1
    DEF IInv, DeviceOK, WindowOK, AckCoversWindow, Fits, WriteNoSpace, device
<1> QED BY <1>3, <1>4, <1>5, <1>6

(* Syncing and removing a file.                                            *)
LEMMA FilesKeep ==
  ASSUME IInv, NEW d \in Dir, SyncFile(d) \/ RemoveFile(d)
  PROVE  DeviceOK' /\ TaskOK' /\ WindowOK'
<1>1. DeviceOK'
  BY DEF IInv, DeviceOK, SyncFile, RemoveFile
<1>2. TaskOK'
  BY DEF IInv, TaskOK, SyncFile, RemoveFile, task, status
<1>3. WindowOK'
  BY DEF IInv, WindowOK, AckCoversWindow, SyncFile, RemoveFile
<1> QED BY <1>1, <1>2, <1>3

------------------------------------------------------------------------------
(* A card has some files and nothing of it is known.                       *)
LEMMA InvInit == Init => IInv
<1> SUFFICES ASSUME Init PROVE IInv
  OBVIOUS
<1>1. DeviceOK
  BY AsyncMountAssumption DEF Init, DeviceOK
<1>2. TaskOK
  BY PairsAreBlocks DEF Init, TaskOK
<1>3. WindowOK
  BY LookaheadAssumption
  DEF Init, WindowOK, AckCoversWindow, Window, FreeState, Block
<1>4. FlagsOK
  BY DEF Init, FlagsOK
<1> QED BY <1>1, <1>2, <1>3, <1>4 DEF IInv

(* Every step keeps the invariant.                                         *)
LEMMA InvStep == IInv /\ [Next]_vars => IInv'
<1> SUFFICES ASSUME IInv, [Next]_vars PROVE IInv'
  OBVIOUS
<1>1. CASE TaskRun
  BY <1>1, MountInitKeeps, MountScanKeeps, MountEndKeeps, TraverseScanKeeps,
     TraverseEndsKeep, FlagsKeep
  DEF TaskRun, IInv
<1>2. CASE UNCHANGED vars
  BY <1>2 DEF vars, task, status, IInv, DeviceOK, TaskOK, WindowOK, FlagsOK,
              AckCoversWindow
<1>3. CASE Next /\ ~TaskRun
  BY <1>3, MountCallsKeep, WriteKeeps, FilesKeep, FlagsKeep DEF Next, IInv
<1> QED
  BY <1>1, <1>2, <1>3

(* The types and the bounds of the window in every state.                  *)
LEMMA AsyncInvariant == Spec => []IInv
BY InvInit, InvStep, PTL DEF Spec

(* The types of the task and of the device, whatever slices of the task    *)
(* and operations of the application follow each other (LittleFS.cpp:66).     *)
THEOREM AsyncTypeCorrect == Spec => []TypeOK
<1>1. IInv => TypeOK
  BY DEF IInv, DeviceOK, TaskOK, WindowOK, FlagsOK, TypeOK
<1> QED BY <1>1, AsyncInvariant, PTL

(* The window the task shares with the application: no interleaving of     *)
(* slices and file operations makes the unsigned ack wrap (lfs.cpp:493,    *)
(* 504, 4553).                                                             *)
THEOREM AsyncAckCovers == Spec => []AckCoversWindow
<1>1. IInv => AckCoversWindow
  BY DEF IInv, WindowOK
<1> QED BY <1>1, AsyncInvariant, PTL

------------------------------------------------------------------------------
(* The walk of lfs_mount, one pair at a time.                              *)

(* A set of natural numbers that is not empty has a least element.         *)
LEMMA LeastNatural ==
  ASSUME NEW T \in SUBSET Nat, T # {}
  PROVE  \E m \in T : \A j \in T : m <= j
<1>1. PICK m \in T : \A j \in T : ~(<<j, m>> \in OpToRel(<, Nat))
  BY Zenon, NatLessThanWellFounded, WFMin
<1>2. \A j \in T : <<j, m>> \in Nat \X Nat
  OBVIOUS
<1>3. \A j \in T : ~(j < m)
  BY <1>1, <1>2 DEF OpToRel
<1> QED BY <1>3

(* The walk before the first pair, after one more, and as the sequence of  *)
(* all it goes through.                                                    *)
Start == [dir |-> 1, root |-> 0, g |-> 0, err |-> "none"]
Further(w, k) == IF w.dir = 0 \/ w.err # "none" THEN w ELSE Fetched(w, k)
Walks(g, k, n) ==
  g = [i \in 0 .. n |-> IF i = 0 THEN Start ELSE Further(g[i - 1], k)]
TheWalk(k) == CHOOSE g : Walks(g, k, MaxCycle)

(* The sequence exists: else there is a least length for which it does     *)
(* not, and one pair more than the sequence before it is one.              *)
LEMMA WalkExists ==
  ASSUME NEW k, NEW n \in Nat
  PROVE  \E g : Walks(g, k, n)
<1> DEFINE T == {m \in Nat : ~ \E g : Walks(g, k, m)}
<1> SUFFICES ASSUME T # {} PROVE FALSE
  OBVIOUS
<1>1. PICK m \in T : \A j \in T : m <= j
  <2> HIDE DEF T
  <2>1. T \in SUBSET Nat
    BY DEF T
  <2> QED BY <2>1, LeastNatural
<1>2. m \in Nat /\ ~ \E g : Walks(g, k, m)
  OBVIOUS
<1>3. CASE m = 0
  <2> DEFINE g == [i \in 0 .. 0 |-> Start]
  <2>1. g = [i \in 0 .. 0 |-> IF i = 0 THEN Start ELSE Further(g[i - 1], k)]
    OBVIOUS
  <2>2. Walks(g, k, m)
    BY <1>3, <2>1 DEF Walks
  <2> QED BY <1>2, <2>2
<1>4. CASE m # 0
  <2>1. m - 1 \in Nat /\ m - 1 \notin T
    BY <1>1, <1>2, <1>4
  <2>2. PICK h : Walks(h, k, m - 1)
    BY <2>1
  <2> DEFINE g == [i \in 0 .. m |-> IF i = m THEN Further(h[m - 1], k) ELSE h[i]]
  <2>3. ASSUME NEW i \in 0 .. m
        PROVE  g[i] = IF i = 0 THEN Start ELSE Further(g[i - 1], k)
    <3>1. CASE i = m
      BY <1>2, <1>4, <3>1
    <3>2. CASE i # m
      <4>1. i \in 0 .. m - 1 /\ g[i] = h[i] /\ (i # 0 => g[i - 1] = h[i - 1])
        BY <1>2, <3>2
      <4> QED BY <2>2, <4>1 DEF Walks
    <3> QED BY <3>1, <3>2
  <2>4. g = [i \in 0 .. m |-> IF i = 0 THEN Start ELSE Further(g[i - 1], k)]
    <3>1. g = [i \in 0 .. m |-> g[i]]
      OBVIOUS
    <3> HIDE DEF g
    <3> QED BY <2>3, <3>1
  <2>5. Walks(g, k, m)
    BY <2>4 DEF Walks
  <2> QED BY <1>2, <2>5
<1> QED BY <1>3, <1>4

(* lfs_mount sees its last element.                                        *)
LEMMA WalkSteps ==
  ASSUME NEW k
  PROVE  /\ TheWalk(k)[0] = Start
         /\ \A n \in 0 .. MaxCycle : n # 0 => TheWalk(k)[n] = Further(TheWalk(k)[n - 1], k)
         /\ Walk(k) = TheWalk(k)[MaxCycle]
<1>1. Walks(TheWalk(k), k, MaxCycle)
  BY WalkExists, PairsAreBlocks DEF TheWalk
<1>2. Walk(k) = TheWalk(k)[MaxCycle]
  BY DEF Walk, TheWalk, Walks, Further, Start
<1>3. 0 \in 0 .. MaxCycle
  BY PairsAreBlocks
<1> DEFINE g == TheWalk(k)
<1>4. g = [i \in 0 .. MaxCycle |-> IF i = 0 THEN Start ELSE Further(g[i - 1], k)]
  BY <1>1 DEF Walks
<1> HIDE DEF g
<1>5. /\ g[0] = Start
      /\ \A n \in 0 .. MaxCycle : n # 0 => g[n] = Further(g[n - 1], k)
  BY <1>3, <1>4
<1> QED BY <1>2, <1>5 DEF g

(* Once the list has ended, or fetching has failed, nothing changes.       *)
LEMMA WalkStays ==
  ASSUME NEW k, NEW n \in 0 .. MaxCycle,
         TheWalk(k)[n].dir = 0 \/ TheWalk(k)[n].err # "none"
  PROVE  Walk(k) = TheWalk(k)[n]
<1> DEFINE T == {m \in n .. MaxCycle : TheWalk(k)[m] # TheWalk(k)[n]}
<1>0. n \in Nat /\ MaxCycle \in Nat
  BY PairsAreBlocks
<1>1. T = {}
  <2> SUFFICES ASSUME T # {} PROVE FALSE
    OBVIOUS
  <2>1. PICK m \in T : \A j \in T : m <= j
    <3>1. T \in SUBSET Nat
      BY <1>0
    <3> HIDE DEF T
    <3> QED BY <3>1, LeastNatural
  <2>2. m # n /\ m \in n .. MaxCycle /\ TheWalk(k)[m] # TheWalk(k)[n]
    OBVIOUS
  <2>3. m - 1 \in n .. MaxCycle /\ m - 1 \notin T /\ m \in 0 .. MaxCycle /\ m # 0
    BY <1>0, <2>1, <2>2
  <2>4. TheWalk(k)[m - 1] = TheWalk(k)[n]
    BY <2>3
  <2>5. TheWalk(k)[m] = Further(TheWalk(k)[m - 1], k)
    BY <2>3, WalkSteps
  <2> QED BY <2>2, <2>4, <2>5 DEF Further
<1>2. MaxCycle \in n .. MaxCycle
  BY <1>0
<1>3. TheWalk(k)[MaxCycle] = TheWalk(k)[n]
  BY <1>1, <1>2
<1> QED BY <1>3, WalkSteps
------------------------------------------------------------------------------
(* The mount in slices.                                                    *)

(* What the slices of a mount have gathered.                               *)
WalkAt == [dir |-> workdir, root |-> root, g |-> gstate, err |-> "none"]

(* Until the first unmount an operation that is given up starts over, and  *)
(* one under way has a configuration and a device.                         *)
FlowInv ==
  /\ curOperation = 0 => curOperationState = 0
  /\ curOperation = 6 => configured
  /\ curOperation = 1 /\ curOperationState # 0 => configured
  /\ configured /\ curOperation # 0 => bd

(* A mount under way has gathered what the walk gathers from as many pairs. *)
WalkInv ==
  curOperation = 1 /\ curOperationState # 0
    => /\ TheWalk(disk)[workblock] = WalkAt
       /\ curOperationState = 2 => workdir = 0

MountInv == IInv /\ (unmounts = 0 => FlowInv /\ WalkInv)

(* The initial state satisfies the invariant of the mount.                 *)
LEMMA MountInvInit == Init => MountInv
<1> SUFFICES ASSUME Init PROVE MountInv
  OBVIOUS
<1>1. IInv
  BY InvInit
<1>2. FlowInv
  BY DEF Init, FlowInv
<1>3. WalkInv
  BY DEF Init, WalkInv
<1> QED BY <1>1, <1>2, <1>3 DEF MountInv

(* Only unmount takes the device from an operation under way.              *)
LEMMA FlowStep ==
  ASSUME IInv, FlowInv, [Next]_vars, unmounts' = 0
  PROVE  FlowInv'
<1>0. curOperation \in {0, 1, 6} /\ configured \in BOOLEAN
  BY DEF IInv, TaskOK, FlagsOK
<1>1. CASE TaskRun
  <2>1. bd' = bd /\ configured' = configured
    BY <1>1 DEF TaskRun
  <2>2. CASE MountInit
    BY <2>1, <2>2 DEF FlowInv, MountInit, MountFails
  <2>3. CASE MountScan
    BY <2>1, <2>3 DEF FlowInv, MountScan, MountFails
  <2>4. CASE MountScanned \/ MountFinish
    BY <2>1, <2>4 DEF FlowInv, MountScanned, MountFinish, MountFails
  <2>5. CASE \/ TraverseInit \/ TraverseScan \/ TraverseScanned
             \/ TraverseFinish \/ TraverseFilesFails
    BY <2>1, <2>5
    DEF FlowInv, TraverseInit, TraverseScan, TraverseScanned, TraverseFinish,
        TraverseFilesFails, task, status
  <2> QED BY <1>1, <2>2, <2>3, <2>4, <2>5 DEF TaskRun
<1>2. CASE MountAsync
  BY <1>0, <1>2 DEF FlowInv, MountAsync
<1>3. CASE Unmount
  <2>1. unmounts \in Nat /\ unmounts' = unmounts + 1
    BY <1>3, AsyncMountAssumption DEF Unmount, IInv, DeviceOK
  <2> QED BY <2>1
<1>4. CASE UNCHANGED <<bd, configured, task>>
  BY <1>4 DEF FlowInv, task
<1>5. CASE UNCHANGED vars
  BY <1>4, <1>5 DEF vars
<1>6. Write \/ WriteAllocates \/ WriteRescans \/ WriteNoSpace
      \/ (\E d \in Dir : SyncFile(d) \/ RemoveFile(d))
        => UNCHANGED <<bd, configured, task>>
  BY DEF Write, WriteAllocates, WriteRescans, WriteNoSpace, SyncFile, RemoveFile
<1> QED BY <1>1, <1>2, <1>3, <1>4, <1>5, <1>6 DEF Next

(* One more slice fetches the pair the walk fetches next.                  *)
LEMMA ScanMatches ==
  ASSUME IInv, WalkInv, curOperation = 1, curOperationState = 1, workdir # 0,
         workblock < MaxCycle
  PROVE  /\ workblock + 1 \in 0 .. MaxCycle
         /\ TheWalk(disk)[workblock + 1] = Fetched(WalkAt, disk)
<1>1. workblock \in 0 .. MaxCycle /\ MaxCycle \in Nat
  BY PairsAreBlocks DEF IInv, TaskOK
<1>2. workblock + 1 \in 0 .. MaxCycle /\ workblock + 1 # 0
      /\ (workblock + 1) - 1 = workblock
  BY <1>1
<1>3. TheWalk(disk)[workblock + 1] = Further(TheWalk(disk)[workblock], disk)
  <2>1. TheWalk(disk)[workblock + 1]
          = Further(TheWalk(disk)[(workblock + 1) - 1], disk)
    BY <1>2, WalkSteps
  <2> QED BY <1>2, <2>1
<1>4. Further(WalkAt, disk) = Fetched(WalkAt, disk)
  BY DEF Further, WalkAt
<1>5. TheWalk(disk)[workblock] = WalkAt
  BY DEF WalkInv
<1> QED BY <1>2, <1>3, <1>4, <1>5

(* Every step keeps the prefix: the interesting one is MountScan.          *)
LEMMA WalkStep ==
  ASSUME IInv, FlowInv, WalkInv, [Next]_vars
  PROVE  WalkInv'
<1>1. CASE TaskRun
  <2>1. disk' = disk
    BY <1>1 DEF TaskRun, device
  <2>2. CASE MountInit
    <3>1. CASE curOperation' = 1 /\ curOperationState' # 0
      <4>1. workdir' = 1 /\ workblock' = 0 /\ root' = 0 /\ gstate' = 0
            /\ curOperationState' = 1
        BY <2>2, <3>1 DEF MountInit, MountFails
      <4>2. TheWalk(disk)[0] = Start
        BY WalkSteps
      <4>3. TheWalk(disk')[workblock'] = WalkAt'
        BY <2>1, <4>1, <4>2 DEF Start, WalkAt
      <4> QED BY <4>1, <4>3 DEF WalkInv
    <3> QED BY <3>1 DEF WalkInv
  <2>3. CASE MountScan
    <3>1. CASE curOperation' = 1 /\ curOperationState' # 0
      <4>1. /\ curOperation = 1 /\ curOperationState = 1 /\ workdir # 0
            /\ workblock < MaxCycle /\ workblock' = NextCycle
            /\ workdir' = disk.tail[workdir] /\ root' = NextRoot(workdir)
            /\ disk.super[workdir] # "newer"
            /\ gstate' = NextGstate(workdir) /\ curOperationState' = 1
        BY <2>3, <3>1 DEF MountScan, MountFails
      <4>2. TheWalk(disk)[workblock + 1] = Fetched(WalkAt, disk)
        BY <4>1, ScanMatches
      <4>3. disk.super[workdir] \in {"none", "ok"}
        BY <4>1, AsyncMountAssumption DEF IInv, DeviceOK, TaskOK, DiskSet
      <4>4. Fetched(WalkAt, disk)
              = [dir |-> disk.tail[workdir], root |-> NextRoot(workdir),
                 g |-> NextGstate(workdir), err |-> "none"]
        BY <4>3 DEF Fetched, WalkAt, NextRoot, NextGstate
      <4>5. TheWalk(disk')[workblock'] = WalkAt'
        BY <2>1, <4>1, <4>2, <4>4 DEF WalkAt, NextCycle
      <4> QED BY <4>1, <4>5 DEF WalkInv
    <3> QED BY <3>1 DEF WalkInv
  <2>4. CASE MountScanned
    <3>1. UNCHANGED <<workdir, workblock, root, gstate>> /\ workdir = 0
      BY <2>4 DEF MountScanned, status
    <3>2. TheWalk(disk)[workblock] = WalkAt
      BY <2>4 DEF WalkInv, MountScanned
    <3> QED BY <2>1, <3>1, <3>2 DEF WalkInv, WalkAt
  <2>5. CASE MountFinish
    BY <2>5 DEF WalkInv, MountFinish, MountFails
  <2>6. CASE \/ TraverseInit \/ TraverseScan \/ TraverseScanned
             \/ TraverseFinish \/ TraverseFilesFails
    BY <2>6
    DEF WalkInv, TraverseInit, TraverseScan, TraverseScanned, TraverseFinish,
        TraverseFilesFails, task, status
  <2> QED BY <1>1, <2>2, <2>3, <2>4, <2>5, <2>6 DEF TaskRun
<1>2. CASE MountAsync
  <2>1. curOperation = 0 \/ ~bd
    BY <1>2 DEF MountAsync
  <2>2. UNCHANGED <<disk, workdir, workblock, root, gstate, curOperationState>>
    BY <1>2 DEF MountAsync, device, status
  <2>3. curOperation' = 1 /\ curOperationState # 0 => curOperation = 1
    <3>1. curOperation \in {0, 1, 6} /\ configured \in BOOLEAN
      BY DEF IInv, TaskOK, FlagsOK
    <3> QED BY <2>1, <3>1 DEF FlowInv
  <2> QED BY <2>2, <2>3 DEF WalkInv, WalkAt
<1>3. CASE UNCHANGED <<disk, task, status>>
  BY <1>3 DEF WalkInv, WalkAt, task, status
<1>4. CASE UNCHANGED vars
  BY <1>3, <1>4 DEF vars
<1>5. Unmount \/ Write \/ WriteAllocates \/ WriteRescans \/ WriteNoSpace
      \/ (\E d \in Dir : SyncFile(d) \/ RemoveFile(d))
        => UNCHANGED <<disk, task, status>>
  BY DEF Unmount, Write, WriteAllocates, WriteRescans, WriteNoSpace, SyncFile,
         RemoveFile, device
<1> QED BY <1>1, <1>2, <1>3, <1>4, <1>5 DEF Next

(* Once unmount has been called nothing is claimed.                        *)
LEMMA MountInvStep == MountInv /\ [Next]_vars => MountInv'
<1> SUFFICES ASSUME MountInv, [Next]_vars PROVE MountInv'
  OBVIOUS
<1>1. IInv /\ IInv'
  BY InvStep DEF MountInv
<1>2. ASSUME unmounts' = 0 PROVE unmounts = 0
  <2>1. CASE Unmount
    <3>1. unmounts \in Nat /\ unmounts' = unmounts + 1
      BY <1>1, <2>1, AsyncMountAssumption DEF Unmount, IInv, DeviceOK
    <3> QED BY <1>2, <3>1
  <2>2. CASE ~Unmount
    BY <1>2, <2>2
    DEF Next, TaskRun, MountAsync, Write, WriteAllocates, WriteRescans,
        WriteNoSpace, SyncFile, RemoveFile, vars
  <2> QED BY <2>1, <2>2
<1>3. ASSUME unmounts' = 0 PROVE FlowInv' /\ WalkInv'
  <2>1. FlowInv /\ WalkInv
    BY <1>2, <1>3 DEF MountInv
  <2> QED BY <1>1, <1>3, <2>1, FlowStep, WalkStep
<1> QED BY <1>1, <1>3 DEF MountInv

(* The outcome of lfs_mount, from the end of its walk.                     *)
LEMMA LfsMountIs ==
  ASSUME NEW k, NEW d \in Nat, NEW r \in Nat, NEW g, NEW e \in {"none", "inval"},
         Walk(k) = [dir |-> d, root |-> r, g |-> g, err |-> e]
  PROVE  /\ lfs_mount(k).root = r /\ lfs_mount(k).gstate = g
         /\ e = "inval" => lfs_mount(k).err = "inval"
         /\ e = "none" /\ d # 0 => lfs_mount(k).err = "corrupt"
         /\ e = "none" /\ d = 0 /\ r = 0 => lfs_mount(k).err = "inval"
         /\ e = "none" /\ d = 0 /\ r # 0 => lfs_mount(k).err = "none"
BY DEF lfs_mount

(* Where a mount ends, the walk has ended too.                             *)
LEMMA MountOutcome ==
  ASSUME IInv, WalkInv, curOperation = 1, curOperationState # 0
  PROVE  /\ workdir = 0 \/ workblock >= MaxCycle => Walk(disk) = WalkAt
         /\ /\ curOperationState = 1 /\ workdir # 0 /\ workblock < MaxCycle
            /\ disk.super[workdir] = "newer"
            => Walk(disk) = Fetched(WalkAt, disk)
<1>1. workblock \in 0 .. MaxCycle /\ MaxCycle \in Nat
  BY PairsAreBlocks DEF IInv, TaskOK
<1>2. TheWalk(disk)[workblock] = WalkAt
  BY DEF WalkInv
<1>3. CASE workdir = 0
  <2>1. TheWalk(disk)[workblock].dir = 0
    BY <1>2, <1>3 DEF WalkAt
  <2>2. Walk(disk) = TheWalk(disk)[workblock]
    BY <1>1, <2>1, WalkStays
  <2> QED BY <1>2, <1>3, <2>2
<1>4. CASE workblock >= MaxCycle
  <2>1. workblock = MaxCycle
    BY <1>1, <1>4
  <2> QED BY <1>1, <1>2, <1>4, <2>1, WalkSteps
<1>5. ASSUME curOperationState = 1, workdir # 0, workblock < MaxCycle,
             disk.super[workdir] = "newer"
      PROVE  Walk(disk) = Fetched(WalkAt, disk)
  <2>1. /\ workblock + 1 \in 0 .. MaxCycle
        /\ TheWalk(disk)[workblock + 1] = Fetched(WalkAt, disk)
    BY <1>5, ScanMatches
  <2>2. Fetched(WalkAt, disk).err = "inval"
    BY <1>5 DEF Fetched, WalkAt
  <2>3. TheWalk(disk)[workblock + 1].err # "none"
    BY <2>1, <2>2
  <2>4. Walk(disk) = TheWalk(disk)[workblock + 1]
    BY <2>1, <2>3, WalkStays
  <2> QED BY <2>1, <2>4
<1> QED BY <1>3, <1>4, <1>5

(* What MountAgrees says of a step.                                        *)
MountStepAgrees ==
  LET m == lfs_mount(disk) IN
    /\ curOperation = 1 /\ curOperation' = 6
         => m.err = "none" /\ root' = m.root /\ gstate' = m.gstate
    /\ curOperation = 1 /\ curOperation' = 0 /\ configured /\ bd /\ ~Faults
         => err' = m.err

(* A step that ends a mount ends it as lfs_mount does.                     *)
LEMMA StepAgrees ==
  ASSUME MountInv, unmounts = 0, [Next]_vars
  PROVE  MountStepAgrees
<1>0. IInv /\ FlowInv /\ WalkInv
  BY DEF MountInv
<1>1. /\ workdir \in Nat /\ root \in Nat
      /\ workblock \in 0 .. MaxCycle /\ MaxCycle \in Nat
  BY <1>0, AsyncMountAssumption, FS_CardinalityType, PairsAreBlocks
  DEF IInv, TaskOK
<1>2. CASE curOperation # 1 \/ curOperation' = 1
  BY <1>2 DEF MountStepAgrees
<1>3. CASE MountInit
  BY <1>3 DEF MountStepAgrees, MountInit, MountFails
<1>4. CASE MountScan
  <2>1. CASE workblock >= MaxCycle
    <3>1. Walk(disk) = WalkAt
      BY <1>0, <1>4, <2>1, MountOutcome DEF MountScan
    <3>2. lfs_mount(disk).err = "corrupt"
      BY <1>1, <1>4, <3>1, LfsMountIs DEF WalkAt, MountScan
    <3> QED BY <1>1, <1>4, <2>1, <3>2 DEF MountScan, MountFails, MountStepAgrees
  <2>2. CASE workblock < MaxCycle /\ disk.super[workdir] = "newer"
    <3>1. Walk(disk) = Fetched(WalkAt, disk)
      BY <1>0, <1>4, <2>2, MountOutcome DEF MountScan
    <3>2. Fetched(WalkAt, disk).err = "inval"
      BY <2>2 DEF Fetched, WalkAt
    <3>3. lfs_mount(disk).err = "inval"
      BY <3>1, <3>2 DEF lfs_mount
    <3> QED BY <1>1, <1>4, <2>2, <3>3 DEF MountScan, MountFails, MountStepAgrees
  <2>3. CASE workblock < MaxCycle /\ disk.super[workdir] # "newer"
    BY <1>1, <1>4, <2>3 DEF MountScan, MountFails, MountStepAgrees
  <2> QED BY <1>1, <2>1, <2>2, <2>3
<1>5. CASE MountFinish
  <2>1. workdir = 0 /\ curOperation = 1 /\ curOperationState = 2
    BY <1>0, <1>5 DEF WalkInv, MountFinish
  <2>2. Walk(disk) = WalkAt
    BY <1>0, <2>1, MountOutcome
  <2>3. /\ lfs_mount(disk).root = root /\ lfs_mount(disk).gstate = gstate
        /\ root = 0 => lfs_mount(disk).err = "inval"
        /\ root # 0 => lfs_mount(disk).err = "none"
    BY <1>1, <2>1, <2>2, LfsMountIs DEF WalkAt
  <2>4. root' = root /\ gstate' = gstate
    BY <1>5 DEF MountFinish
  <2> QED
    BY <1>5, <2>1, <2>3, <2>4 DEF MountFinish, MountFails, MountStepAgrees
<1>6. curOperation = 1 /\ curOperation' # 1 => MountInit \/ MountScan \/ MountFinish
  <2>1. [Next]_vars /\ ~TaskRun => curOperation' = curOperation \/ curOperation' = 1
    BY DEF Next, vars, task, MountAsync, Unmount, Write, WriteAllocates,
           WriteRescans, WriteNoSpace, SyncFile, RemoveFile
  <2>2. TaskRun /\ curOperation = 1
          => MountInit \/ MountScan \/ MountScanned \/ MountFinish
    BY DEF TaskRun, TraverseInit, TraverseScan, TraverseScanned, TraverseFinish,
           TraverseFilesFails
  <2>3. MountScanned => curOperation' = curOperation
    BY DEF MountScanned
  <2> QED BY <2>1, <2>2, <2>3
<1> QED BY <1>2, <1>3, <1>4, <1>5, <1>6

(* Until the application first calls unmount, a mount that LittleFS::TaskRun *)
(* unrolls into slices (lfs.cpp:3880) ends as lfs_mount would, on every    *)
(* device: whatever its tail list, also one that is a loop, and whatever the *)
(* application does between two slices.                                    *)
THEOREM FirstMountIsLfsMount == Spec => [][unmounts = 0 => MountStepAgrees]_vars
<1>1. MountInv /\ [Next]_vars => [unmounts = 0 => MountStepAgrees]_vars
  BY StepAgrees
<1> QED BY <1>1, MountInvInit, MountInvStep, PTL DEF Spec

(* An application that never calls unmount sees every mount end as lfs_mount *)
(* ends.  Remounts = 0 is needed: unmount leaves the task in the middle of an *)
(* operation, and the next mount goes on from there (LittleFS.cpp:183).    *)
THEOREM MountIsLfsMount ==
  ASSUME Remounts = 0
  PROVE  Spec => MountAgrees
<1>1. IInv => unmounts = 0
  BY AsyncMountAssumption DEF IInv, DeviceOK
<1>2. MountInv /\ [Next]_vars
        => [LET m == lfs_mount(disk) IN
              /\ curOperation = 1 /\ curOperation' = 6
                   => m.err = "none" /\ root' = m.root /\ gstate' = m.gstate
              /\ curOperation = 1 /\ curOperation' = 0 /\ configured /\ bd
                   /\ ~Faults
                   => err' = m.err]_vars
  BY <1>1, StepAgrees DEF MountStepAgrees, MountInv
<1> QED BY <1>2, MountInvInit, MountInvStep, PTL DEF Spec, MountAgrees
==============================================================================
