---------------------------- MODULE BdCacheProofs ----------------------------
(***************************************************************************)
(* What the caching block device promises, for all sizes of blocks, caches *)
(* and units, whatever fails and whatever the order of calls:              *)
(*   - reads are current: the read cache agrees with the device wherever   *)
(*     it is not known to be older (CacheIsCoherent, ReadsCurrent);        *)
(*   - the caches stay within their buffers and within a block             *)
(*     (TypeCorrect);                                                      *)
(*   - what was programmed is kept until it is given up (ProgrammedStays), *)
(*     and a caller is refused only after a failure                        *)
(*     (RefusalFollowsFailure).                                            *)
(***************************************************************************)
EXTENDS BdCache, TLAPS

(* What the proof needs of the types: numbers and records, not ranges.     *)
IsCache(c) ==
  /\ c = Cache(c.block, c.off, c.size, c.buffer)
  /\ c.block \in Block \cup {NoBlock} /\ c.off \in Int /\ c.size \in Int

IsRead ==
  /\ rd = [block |-> rd.block, off |-> rd.off, left |-> rd.left,
           hint |-> rd.hint, past |-> rd.past, got |-> rd.got]
  /\ rd.block \in Block \cup {NoBlock} /\ rd.off \in Int /\ rd.left \in Int
  /\ rd.hint \in Int /\ rd.past \in BOOLEAN

IsWrite ==
  /\ wr = [block |-> wr.block, off |-> wr.off, data |-> wr.data]
  /\ wr.block \in Block /\ wr.off \in Int /\ wr.data \in Seq(Byte)

Shape ==
  /\ DOMAIN disk = Block /\ disk = [b \in Block |-> disk[b]]
  /\ IsCache(rcache) /\ IsCache(pcache) /\ IsRead /\ IsWrite

(* rcache holds what the device holds, but for the places in `stale`.      *)
Coherent ==
  \A b \in Block, o \in Off :
    Covers(rcache, b, o) /\ <<b, o>> \notin stale
      => ByteAt(rcache, o) = disk[b][o]

IInv == Shape /\ Coherent

(* The sizes of the configuration.                                         *)
LEMMA SizesArePositive ==
  /\ BlockCount \in Nat \ {0} /\ BlockSize \in Nat \ {0}
  /\ ReadSize \in Nat \ {0} /\ ProgSize \in Nat \ {0}
  /\ CacheSize \in Nat \ {0}
  /\ Hints \subseteq Nat \ {0} /\ Lengths \subseteq Nat \ {0}
  BY BdCacheAssumption

(* What lfs_aligndown and lfs_alignup return.                              *)
LEMMA AlignedIsInt ==
  ASSUME NEW a \in Int, NEW n \in Nat \ {0}
  PROVE  /\ AlignDown(a, n) \in Int /\ AlignUp(a, n) \in Int
         /\ AlignDown(a, n) <= a
  <1>1. \A m \in Int : m % n \in Int /\ m % n >= 0
    OBVIOUS
  <1> QED BY <1>1 DEF AlignDown, AlignUp

(* What lfs_min returns.                                                   *)
LEMMA MinIsInt ==
  ASSUME NEW a \in Int, NEW b \in Int
  PROVE  lfs_min(a, b) \in Int /\ lfs_min(a, b) <= a /\ lfs_min(a, b) <= b
  BY DEF lfs_min

(* An empty cache covers nothing.                                          *)
LEMMA EmptyCovers ==
  ASSUME NEW buffer, NEW b \in Block, NEW o
  PROVE  ~Covers(Empty(buffer), b, o) /\ IsCache(Empty(buffer))
  <1>1. NoBlock \notin Block
    BY SizesArePositive DEF NoBlock, Block
  <1> QED BY <1>1 DEF Covers, Empty, Cache, IsCache

(* A step that drops rcache, or leaves rcache and the device alone, keeps  *)
(* them in agreement.                                                      *)
LEMMA DroppedIsCoherent ==
  ASSUME NEW c, rcache' = Dropped(c)
  PROVE  Coherent'
  BY EmptyCovers DEF Coherent, Dropped, Covers, Empty, Cache

(* A step that leaves rcache and the device keeps them equal.              *)
LEMMA UntouchedIsCoherent ==
  ASSUME Coherent, UNCHANGED <<rcache, disk, stale>>
  PROVE  Coherent'
  BY DEF Coherent, Covers, ByteAt

(* What the end of a call leaves in the locals.                            *)
LEMMA ReturnKeeps ==
  ASSUME NEW r, Return(r)
  PROVE  IsRead' /\ IsWrite'
  <1>1. 0 \in Block
    BY SizesArePositive DEF Block
  <1> QED BY <1>1 DEF Return, IsRead, IsWrite, NoRead, NoWrite

(* Programming changes the places of the unit only.                        *)
LEMMA ProgrammedElsewhere ==
  ASSUME Shape, pcache.block \in Block, NEW data,
         NEW b \in Block, NEW o \in Off, <<b, o>> \notin UnitPlaces
  PROVE  /\ Programmed(data)[b][o] = disk[b][o]
         /\ DOMAIN Programmed(data) = Block
         /\ Programmed(data) = [c \in Block |-> Programmed(data)[c]]
  <1>1. pcache.off \in Int /\ Unit \in Int
    BY SizesArePositive, AlignedIsInt DEF Shape, IsCache, Unit
  <1>2. CASE b = pcache.block
    <2>1. ~(pcache.off <= o /\ o < pcache.off + Unit)
      BY <1>1, <1>2, SizesArePositive DEF UnitPlaces, Off
    <2> QED BY <1>2, <2>1 DEF Programmed, Shape
  <1>3. CASE b # pcache.block
    BY <1>3 DEF Programmed, Shape
  <1> QED BY <1>2, <1>3

(* Programming the unit leaves a device.                                   *)
LEMMA ProgrammedShape ==
  ASSUME Shape, NEW data
  PROVE  /\ DOMAIN Programmed(data) = Block
         /\ Programmed(data) = [c \in Block |-> Programmed(data)[c]]
  BY DEF Programmed, Shape

(* Without validation rcache stays, but for the unit.                      *)
LEMMA FlushedIsCoherent ==
  ASSUME IInv, pcache.block \in Block, NEW data,
         disk' \in {disk, Programmed(data)}, UNCHANGED rcache,
         stale' = stale \cup (UnitPlaces \cap PlacesOf(rcache))
  PROVE  Coherent'
  <1> SUFFICES ASSUME NEW b \in Block, NEW o \in Off,
                      Covers(rcache, b, o), <<b, o>> \notin stale'
               PROVE  ByteAt(rcache, o) = disk'[b][o]
    BY DEF Coherent, Covers, ByteAt
  <1>1. <<b, o>> \in PlacesOf(rcache)
    BY DEF PlacesOf, Place
  <1>2. <<b, o>> \notin UnitPlaces /\ <<b, o>> \notin stale
    BY <1>1
  <1>3. ByteAt(rcache, o) = disk[b][o]
    BY <1>2 DEF IInv, Coherent
  <1> QED BY <1>2, <1>3, ProgrammedElsewhere DEF IInv

(* The bounds of a load.                                                   *)
LEMMA LoadedIsInt ==
  ASSUME Shape
  PROVE  LoadOff \in Int /\ LoadSize \in Int /\ LoadSize <= CacheSize
  <1> DEFINE rest ==
        lfs_min(AlignUp(rd.off + rd.hint, ReadSize), BlockSize) - LoadOff
  <1>0. rd.off \in Int /\ rd.off + rd.hint \in Int
    BY DEF Shape, IsRead
  <1>1. LoadOff \in Int /\ AlignUp(rd.off + rd.hint, ReadSize) \in Int
    BY <1>0, SizesArePositive, AlignedIsInt DEF LoadOff
  <1>2. lfs_min(AlignUp(rd.off + rd.hint, ReadSize), BlockSize) \in Int
    BY <1>1, SizesArePositive, MinIsInt
  <1>3. rest \in Int
    BY <1>1, <1>2
  <1>4. LoadSize = lfs_min(rest, CacheSize)
    BY DEF LoadSize
  <1> HIDE DEF rest
  <1> QED BY <1>1, <1>3, <1>4, SizesArePositive, MinIsInt

(* A load leaves a cache.                                                  *)
LEMMA LoadedIsCache ==
  ASSUME Shape, NEW data \in BOOLEAN
  PROVE  IsCache(Loaded(data))
  BY LoadedIsInt DEF Shape, IsRead, IsCache, Loaded, Cache

(* A load fills the cache from the device.                                 *)
LEMMA LoadedIsCoherent ==
  ASSUME Shape, rcache' = Loaded(TRUE), UNCHANGED disk
  PROVE  Coherent'
  <1>1. ASSUME NEW b \in Block, NEW o \in Off, Covers(rcache', b, o)
        PROVE  ByteAt(rcache', o) = disk[b][o]
    <2>1. b = rd.block /\ LoadOff <= o /\ o < LoadOff + LoadSize
      BY <1>1 DEF Covers, Loaded, Cache
    <2>2. o - LoadOff \in 0 .. CacheSize - 1 /\ o - LoadOff < LoadSize
      BY LoadedIsInt, <2>1, SizesArePositive DEF Off
    <2>3. rcache'.buffer[o - LoadOff] = disk[rd.block][LoadOff + (o - LoadOff)]
      BY <2>2 DEF Loaded, Cache
    <2>4. LoadOff + (o - LoadOff) = o /\ rcache'.off = LoadOff
      BY LoadedIsInt, <2>1, SizesArePositive DEF Off, Loaded, Cache
    <2> QED BY <2>1, <2>3, <2>4 DEF ByteAt
  <1> QED BY <1>1 DEF Coherent, Covers, ByteAt

(* The initial state satisfies the invariant.                              *)
LEMMA InitIsGood == Init => IInv
  <1>1. ASSUME Init PROVE Shape
    <2>1. 0 \in Block
      BY SizesArePositive DEF Block
    <2> QED BY <1>1, <2>1, EmptyCovers
            DEF Init, Shape, IsCache, IsRead, IsWrite, NoRead, NoWrite, Empty,
                Cache
  <1>2. ASSUME Init PROVE Coherent
    BY <1>2, EmptyCovers DEF Init, Coherent
  <1> QED BY <1>1, <1>2 DEF IInv

(* A turn of the loop that takes bytes keeps everything but rd.            *)
LEMMA AdvanceKeeps ==
  ASSUME IInv, NEW n \in Int, NEW bytes, NEW first, Advance(n, bytes, first),
         UNCHANGED <<rcache, stale, Same>>
  PROVE  IInv'
  <1>1. rd' = [block |-> rd.block, off |-> rd.off + n, left |-> rd.left - n,
               hint |-> rd.hint, past |-> rd.past, got |-> rd'.got]
    BY DEF Advance, IInv, Shape, IsRead
  <1>2. IsRead'
    BY <1>1 DEF IInv, Shape, IsRead
  <1> QED BY <1>2, UntouchedIsCoherent
          DEF Same, IInv, Shape, IsWrite, IsCache

(* The bytes up to where a cache begins are no more than asked for.        *)
LEMMA UntilIsInt ==
  ASSUME Shape, NEW c, IsCache(c), NEW n \in Int
  PROVE  Until(c, n) \in Int /\ Until(c, n) <= n
  BY MinIsInt DEF Until, Shape, IsRead, IsCache

(* So are those up to pcache, and up to both caches.                       *)
LEMMA BeforeIsInt ==
  ASSUME Shape
  PROVE  BeforePcache \in Int /\ BeforeCaches \in Int
  BY UntilIsInt DEF BeforePcache, BeforeCaches, Shape, IsRead

(* The turns of the loop of lfs_bd_read.                                   *)
LEMMA LoopKeeps ==
  ASSUME IInv,
         ReadPcache \/ ReadRcache \/ ReadDirectly \/ LoadRcache \/ LoadFails
           \/ ReadReturns
  PROVE  IInv'
  <1> USE DEF IInv
  <1>1. CASE ReadPcache
    <2>1. lfs_min(rd.left, pcache.off + pcache.size - rd.off) \in Int
      BY MinIsInt DEF Shape, IsCache, IsRead
    <2> QED BY <1>1, <2>1, AdvanceKeeps DEF ReadPcache
  <1>2. CASE ReadRcache
    <2>1. lfs_min(BeforePcache, rcache.off + rcache.size - rd.off) \in Int
      BY BeforeIsInt, MinIsInt DEF Shape, IsCache, IsRead
    <2> QED BY <1>2, <2>1, AdvanceKeeps DEF ReadRcache
  <1>3. CASE ReadDirectly
    <2>1. AlignDown(BeforeCaches, ReadSize) \in Int
      BY BeforeIsInt, AlignedIsInt, SizesArePositive
    <2> QED BY <1>3, <2>1, AdvanceKeeps DEF ReadDirectly
  <1>4. CASE LoadRcache
    <2>1. Coherent'
      BY <1>4, LoadedIsCoherent DEF LoadRcache, Same
    <2>2. Shape'
      BY <1>4, LoadedIsCache DEF LoadRcache, Same, Shape, IsRead, IsWrite, IsCache
    <2> QED BY <2>1, <2>2
  <1>5. CASE LoadFails
    <2>1. IsRead' /\ IsWrite'
      BY <1>5, ReturnKeeps DEF LoadFails, Fail
    <2>2. Shape'
      BY <1>5, <2>1, LoadedIsCache DEF LoadFails, Shape, IsCache
    <2>3. CASE UNCHANGED <<rcache, stale>>
      BY <1>5, <2>2, <2>3, UntouchedIsCoherent DEF LoadFails
    <2>4. CASE stale' = PlacesOf(rcache')
      BY <2>2, <2>4 DEF Coherent, PlacesOf, Place
    <2> QED BY <1>5, <2>3, <2>4 DEF LoadFails
  <1>6. CASE ReadReturns
    BY <1>6, ReturnKeeps, UntouchedIsCoherent DEF ReadReturns, Shape, IsCache
  <1> QED BY <1>1, <1>2, <1>3, <1>4, <1>5, <1>6

(* lfs_bd_flush, lfs_bd_cmp and lfs_bd_sync.                               *)
LEMMA ComparingIsRead ==
  ASSUME Shape, NEW i \in Int, rd' = Comparing(i)
  PROVE  IsRead'
  <1>1. Unit \in Int
    BY SizesArePositive, AlignedIsInt DEF Shape, IsCache, Unit
  <1> QED BY <1>1 DEF Shape, IsCache, Comparing, Reading, IsRead

(* The steps of lfs_bd_flush keep the invariant.                           *)
LEMMA FlushKeeps ==
  ASSUME IInv,
         Flush \/ FlushGarbled \/ FlushRefused \/ FlushNothing \/ Compared
           \/ ComparedUnequal \/ SyncDevice \/ FlushReturns
  PROVE  IInv'
  <1> USE DEF IInv
  <1>1. ASSUME NEW data, pcache.block \in Block, disk' = Programmed(data),
               rcache' = Dropped(rcache), rd' = Comparing(0),
               UNCHANGED <<pcache, wr>>
        PROVE  IInv'
    <2>1. Coherent'
      BY <1>1, DroppedIsCoherent
    <2>2. IsRead'
      BY <1>1, ComparingIsRead
    <2>3. IsCache(rcache)'
      BY <1>1, EmptyCovers, SizesArePositive
      DEF Dropped, IsCache, Empty, Cache
    <2> QED BY <1>1, <2>1, <2>2, <2>3, ProgrammedShape DEF Shape, IsCache, IsWrite
  <1>2. ASSUME NEW data, pcache.block \in Block, disk' = Programmed(data),
               pcache' = Zeroed(pcache), UNCHANGED <<rcache, rd, wr>>,
               stale' = stale \cup (UnitPlaces \cap PlacesOf(rcache))
        PROVE  IInv'
    <2>1. Coherent'
      BY <1>2, FlushedIsCoherent
    <2>2. IsCache(pcache)'
      BY <1>2, EmptyCovers DEF Zeroed, IsCache, Empty, Cache
    <2> QED BY <1>2, <2>1, <2>2, ProgrammedShape
            DEF Shape, IsCache, IsRead, IsWrite
  <1>3. CASE Flush
    <2>1. CASE call.validate
      BY <1>1, <1>3, <2>1 DEF Flush
    <2>2. CASE ~call.validate
      BY <1>2, <1>3, <2>2 DEF Flush
    <2> QED BY <2>1, <2>2
  <1>4. CASE FlushGarbled
    <2>1. PICK data : disk' = Programmed(data)
      BY <1>4 DEF FlushGarbled
    <2>2. CASE call.validate
      BY <1>1, <1>4, <2>1, <2>2 DEF FlushGarbled
    <2>3. CASE ~call.validate
      BY <1>2, <1>4, <2>1, <2>3 DEF FlushGarbled
    <2> QED BY <2>2, <2>3
  <1>5. CASE FlushRefused
    <2>1. Coherent'
      BY <1>5, FlushedIsCoherent DEF FlushRefused
    <2>2. IsRead' /\ IsWrite'
      BY <1>5, ReturnKeeps DEF FlushRefused, Fail
    <2> QED BY <1>5, <2>1, <2>2, ProgrammedShape
            DEF FlushRefused, Shape, IsCache
  <1>6. CASE FlushNothing
    BY <1>6, UntouchedIsCoherent
    DEF FlushNothing, Shape, IsCache, IsRead, IsWrite
  <1>7. CASE Compared
    <2>1. Coherent'
      BY <1>7, UntouchedIsCoherent DEF Compared
    <2>2. IsCache(pcache)'
      BY <1>7, EmptyCovers DEF Compared, Zeroed, IsCache, Empty, Cache, Shape
    <2>3. IsRead'
      <3>1. rd.off - pcache.off \in Int
        BY DEF Shape, IsRead, IsCache
      <3> QED BY <1>7, <3>1, ComparingIsRead DEF Compared, Shape, IsRead
    <2> QED BY <1>7, <2>1, <2>2, <2>3 DEF Compared, Shape, IsCache, IsWrite
  <1>8. CASE ComparedUnequal
    BY <1>8, ReturnKeeps, UntouchedIsCoherent
    DEF ComparedUnequal, Fail, Shape, IsCache
  <1>9. CASE SyncDevice
    BY <1>9, ReturnKeeps, UntouchedIsCoherent
    DEF SyncDevice, Fail, Shape, IsCache
  <1>10. CASE FlushReturns
    BY <1>10, ReturnKeeps, UntouchedIsCoherent
    DEF FlushReturns, Shape, IsCache
  <1> QED BY <1>3, <1>4, <1>5, <1>6, <1>7, <1>8, <1>9, <1>10

(* lfs_bd_prog touches neither rcache nor the device.                      *)
LEMMA ProgKeeps ==
  ASSUME IInv, ProgCopy \/ ProgPrepare \/ ProgNotFlushed \/ ProgReturns
  PROVE  IInv'
  <1> USE DEF IInv
  <1>1. CASE ProgCopy
    <2> DEFINE at == wr.off - pcache.off
               n  == lfs_min(Len(wr.data), Room)
    <2>1. Room \in Int /\ at \in Int /\ Len(wr.data) \in Nat
      BY SizesArePositive DEF Shape, IsWrite, IsCache, Room
    <2>2. n \in Int
      BY <2>1 DEF lfs_min
    <2>3. n >= 0
      BY <1>1, <2>1, SizesArePositive
      DEF ProgCopy, FitsPcache, Shape, IsWrite, IsCache, Room, lfs_min
    <2> HIDE DEF n
    <2>4. lfs_max(pcache.size, at + n) \in Int
      BY <2>1, <2>2 DEF lfs_max, Shape, IsCache
    <2>5. SubSeq(wr.data, n + 1, Len(wr.data)) \in Seq(Byte)
      BY <2>2, <2>3 DEF Shape, IsWrite
    <2>6. IsWrite'
      <3>1. wr' = [block |-> wr.block, off |-> wr.off + n,
                   data |-> SubSeq(wr.data, n + 1, Len(wr.data))]
        BY <1>1 DEF ProgCopy, Shape, IsWrite, n
      <3> QED BY <2>2, <2>5, <3>1 DEF Shape, IsWrite
    <2>7. IsCache(pcache)'
      <3>1. pcache' = Cache(pcache.block, pcache.off,
                            lfs_max(pcache.size, at + n), pcache'.buffer)
        BY <1>1 DEF ProgCopy, Shape, IsCache, Cache, n
      <3> QED BY <2>4, <3>1 DEF Shape, IsCache, Cache
    <2> QED BY <1>1, <2>6, <2>7, UntouchedIsCoherent
            DEF ProgCopy, Shape, IsCache, IsRead
  <1>2. CASE ProgPrepare
    <2>1. AlignDown(wr.off, ProgSize) \in Int
      BY AlignedIsInt, SizesArePositive DEF Shape, IsWrite
    <2>2. IsCache(pcache)'
      <3>1. pcache' = Cache(wr.block, AlignDown(wr.off, ProgSize), 0,
                            pcache.buffer)
        BY <1>2 DEF ProgPrepare, Shape, IsCache, Cache
      <3> QED BY <2>1, <3>1 DEF Shape, IsCache, Cache, IsWrite
    <2> QED BY <1>2, <2>2, UntouchedIsCoherent
            DEF ProgPrepare, Shape, IsCache, IsRead, IsWrite
  <1>3. CASE ProgNotFlushed
    BY <1>3, ReturnKeeps, UntouchedIsCoherent
    DEF ProgNotFlushed, Shape, IsCache
  <1>4. CASE ProgReturns
    BY <1>4, ReturnKeeps, UntouchedIsCoherent DEF ProgReturns, Shape, IsCache
  <1> QED BY <1>1, <1>2, <1>3, <1>4

(* The callers.                                                            *)
LEMMA CallerKeeps ==
  ASSUME IInv, Caller
  PROVE  IInv'
  <1> USE DEF IInv
  <1>1. ASSUME NEW b \in Block \cup {NoBlock}, NEW o \in Off,
               NEW n \in Lengths \cup {BlockSize}, NEW hint \in Hints,
               NEW past \in BOOLEAN, CallRead(b, o, n, hint, past)
        PROVE  IInv'
    <2>1. n \in Int /\ hint \in Int /\ o \in Int
      BY SizesArePositive DEF Off
    <2>2. IsRead'
      <3>1. CASE b \notin Block \/ o + n > BlockSize
        BY <1>1, <3>1 DEF CallRead, IsRead, Shape
      <3>2. CASE ~(b \notin Block \/ o + n > BlockSize)
        <4>1. rd' = Reading(b, o, n, hint, past)
          BY <1>1, <3>2 DEF CallRead
        <4> QED BY <2>1, <4>1 DEF Reading, IsRead
      <3> QED BY <3>1, <3>2
    <2> QED BY <1>1, <2>2, UntouchedIsCoherent
            DEF CallRead, Shape, IsCache, IsWrite
  <1>2. ASSUME NEW b \in Block, NEW o \in Off, NEW data \in Data,
               NEW validate \in BOOLEAN, CallProg(b, o, data, validate)
        PROVE  IInv'
    <2>1. data \in Seq(Byte) /\ o \in Int
      BY SizesArePositive DEF Data, Off
    <2>2. IsWrite'
      BY <1>2, <2>1 DEF CallProg, IsWrite, Shape
    <2> QED BY <1>2, <2>2, UntouchedIsCoherent
            DEF CallProg, Shape, IsCache, IsRead
  <1>3. ASSUME NEW validate \in BOOLEAN, CallFlush(validate)
        PROVE  IInv'
    BY <1>3, UntouchedIsCoherent
    DEF CallFlush, Shape, IsCache, IsRead, IsWrite
  <1>4. ASSUME NEW validate \in BOOLEAN, CallSync(validate)
        PROVE  IInv'
    <2>1. IsCache(rcache)'
      BY <1>4, EmptyCovers, SizesArePositive
      DEF CallSync, Dropped, IsCache, Empty, Cache
    <2> QED BY <1>4, <2>1, DroppedIsCoherent
            DEF CallSync, Shape, IsCache, IsRead, IsWrite
  <1>5. CASE GiveUp
    <2>1. IsCache(pcache)'
      BY <1>5, EmptyCovers, SizesArePositive
      DEF GiveUp, Dropped, IsCache, Empty, Cache
    <2> QED BY <1>5, <2>1, UntouchedIsCoherent
            DEF GiveUp, Shape, IsCache, IsRead, IsWrite
  <1>6. ASSUME NEW b \in Block, Erase(b)
        PROVE  IInv'
    BY <1>6, UntouchedIsCoherent DEF Erase, Shape, IsCache, IsRead, IsWrite
  <1> QED BY <1>1, <1>2, <1>3, <1>4, <1>5, <1>6 DEF Caller

(* Every step keeps the invariant.                                         *)
LEMMA NextKeeps == IInv /\ [Next]_vars => IInv'
  <1>1. ASSUME IInv, UNCHANGED vars PROVE IInv'
    BY <1>1, UntouchedIsCoherent
    DEF vars, IInv, Shape, IsCache, IsRead, IsWrite, hist
  <1>2. ASSUME IInv, Step PROVE IInv'
    BY <1>2, LoopKeeps, FlushKeeps, ProgKeeps DEF Step
  <1> QED BY <1>1, <1>2, CallerKeeps DEF Next

(* The invariant: rcache agrees with the device outside `stale`.           *)
THEOREM CacheIsCoherent == Spec => []IInv
  BY InitIsGood, NextKeeps, PTL DEF Spec

------------------------------------------------------------------------------
(* A read that starts outside pcache stops before it.                      *)
LEMMA PcacheStaysAhead ==
  ASSUME IInv, rd.past, ~InPcache, NEW i \in Int, i >= 1, i <= BeforePcache
  PROVE  ~Covers(pcache, rd.block, rd.off + i - 1)
  <1>1. CASE pcache.block = rd.block /\ rd.off < pcache.off
    <2>1. BeforePcache \in Int /\ BeforePcache <= pcache.off - rd.off
      BY <1>1, MinIsInt, BeforeIsInt
      DEF BeforePcache, Until, IInv, Shape, IsCache, IsRead
    <2> QED BY <2>1 DEF Covers, IInv, Shape, IsCache, IsRead
  <1>2. CASE ~(pcache.block = rd.block /\ rd.off < pcache.off)
    BY <1>2 DEF InPcache, Covers, IInv, Shape, IsCache, IsRead
  <1> QED BY <1>1, <1>2

(* Why the bytes of rcache are those a reader should get: it is not asked  *)
(* for more than it holds, nor past where pcache has priority.             *)
LEMMA FromRcache ==
  ASSUME IInv, InRcache, NEW i \in Int, i >= 1,
         i <= lfs_min(BeforePcache, rcache.off + rcache.size - rd.off),
         <<rd.block, rd.off + i - 1>> \in Place \ stale
  PROVE  rcache.buffer[(rd.off + i - 1) - rcache.off]
           = Stored(rd.past, rd.block, rd.off + i - 1)
  <1> DEFINE o == rd.off + i - 1
  <1>0. rd.block \in Block /\ o \in Off /\ <<rd.block, o>> \notin stale
    BY DEF Place
  <1>1. /\ BeforePcache \in Int /\ rcache.off + rcache.size - rd.off \in Int
        /\ i <= BeforePcache /\ i <= rcache.off + rcache.size - rd.off
    BY BeforeIsInt, MinIsInt DEF IInv, Shape, IsCache, IsRead, lfs_min
  <1>2. Covers(rcache, rd.block, o)
    BY <1>1 DEF InRcache, Covers, IInv, Shape, IsCache, IsRead
  <1>3. ByteAt(rcache, o) = disk[rd.block][o]
    BY <1>0, <1>2 DEF IInv, Coherent
  <1>4. rd.past => ~Covers(pcache, rd.block, o)
    BY <1>1, PcacheStaysAhead DEF InRcache
  <1>5. Stored(rd.past, rd.block, o) = disk[rd.block][o]
    BY <1>4 DEF Stored
  <1>6. ByteAt(rcache, o) = rcache.buffer[o - rcache.off]
    BY DEF ByteAt
  <1> QED BY <1>3, <1>5, <1>6

(* A turn of the loop moves rd.off by the bytes it takes.                  *)
LEMMA AdvanceTakes ==
  ASSUME IInv, NEW n \in Int, NEW bytes, NEW first, Advance(n, bytes, first),
         rd'.off > rd.off, NEW i \in 1 .. Len(rd'.got)
  PROVE  i \in 1 .. n /\ rd'.got[i] = bytes[(rd.off + i - 1) - first]
  <1>1. rd'.off = rd.off + n /\ n > 0
    BY DEF Advance, IInv, Shape, IsRead
  <1>2. rd'.got = [j \in 1 .. n |-> bytes[(rd.off + j - 1) - first]]
    BY DEF Advance, IInv, Shape, IsRead
  <1>3. Len(rd'.got) = n
    BY <1>1, <1>2
  <1> QED BY <1>2, <1>3

Takes ==
  \A i \in 1 .. Len(rd'.got) :
    LET o == rd.off + i - 1
    IN <<rd.block, o>> \in Place \ stale
         => rd'.got[i] = Stored(rd.past, rd.block, o)

(* Every turn of the loop that takes bytes takes those stored.             *)
LEMMA StepReadsCurrent ==
  ASSUME IInv, [Next]_vars, rd'.off > rd.off
  PROVE  Takes
  <1> SUFFICES ASSUME NEW i \in 1 .. Len(rd'.got),
                      <<rd.block, rd.off + i - 1>> \in Place \ stale
               PROVE  rd'.got[i] = Stored(rd.past, rd.block, rd.off + i - 1)
    BY DEF Takes
  <1>1. CASE ReadPcache
    <2> DEFINE n == lfs_min(rd.left, pcache.off + pcache.size - rd.off)
    <2>1. n \in Int /\ n <= pcache.off + pcache.size - rd.off
      BY DEF IInv, Shape, IsCache, IsRead, lfs_min
    <2>2. Advance(n, pcache.buffer, pcache.off)
      BY <1>1 DEF ReadPcache
    <2> HIDE DEF n
    <2>3. i \in 1 .. n /\ rd'.got[i] = pcache.buffer[(rd.off + i - 1) - pcache.off]
      BY <2>1, <2>2, AdvanceTakes
    <2>4. i \in Int /\ i >= 1 /\ i <= pcache.off + pcache.size - rd.off
      BY <2>1, <2>3 DEF IInv, Shape, IsCache, IsRead
    <2>5. rd.past /\ pcache.block = rd.block /\ pcache.off <= rd.off
      BY <1>1 DEF ReadPcache, InPcache, Covers
    <2>6. Covers(pcache, rd.block, rd.off + i - 1)
      BY <2>4, <2>5 DEF Covers, IInv, Shape, IsCache, IsRead
    <2>7. Stored(rd.past, rd.block, rd.off + i - 1)
            = ByteAt(pcache, rd.off + i - 1)
      BY <2>5, <2>6 DEF Stored
    <2>8. ByteAt(pcache, rd.off + i - 1)
            = pcache.buffer[(rd.off + i - 1) - pcache.off]
      BY DEF ByteAt
    <2> QED BY <2>3, <2>7, <2>8
  <1>2. CASE ReadRcache
    <2> DEFINE n == lfs_min(BeforePcache, rcache.off + rcache.size - rd.off)
    <2>1. n \in Int
      BY BeforeIsInt, MinIsInt DEF IInv, Shape, IsCache, IsRead
    <2>2. Advance(n, rcache.buffer, rcache.off) /\ InRcache
      BY <1>2 DEF ReadRcache
    <2>3. i \in 1 .. n /\ rd'.got[i] = rcache.buffer[(rd.off + i - 1) - rcache.off]
      <3> HIDE DEF n
      <3> QED BY <2>1, <2>2, AdvanceTakes
    <2>4. i \in Int /\ i >= 1 /\ i <= n
      BY <2>1, <2>3
    <2> QED BY <2>2, <2>3, <2>4, FromRcache
  <1>3. CASE ReadDirectly
    <2> DEFINE n == AlignDown(BeforeCaches, ReadSize)
    <2>1. n \in Int /\ n <= BeforeCaches
      BY BeforeIsInt, AlignedIsInt, SizesArePositive DEF IInv
    <2>2. Advance(n, disk[rd.block], 0) /\ ~InPcache
      BY <1>3 DEF ReadDirectly
    <2> HIDE DEF n
    <2>3. i \in 1 .. n /\ rd'.got[i] = disk[rd.block][(rd.off + i - 1) - 0]
      BY <2>1, <2>2, AdvanceTakes
    <2>4. i \in Int /\ i >= 1 /\ i <= BeforePcache /\ rd.off + i - 1 \in Int
      BY <2>1, <2>3, BeforeIsInt, UntilIsInt
      DEF BeforeCaches, IInv, Shape, IsRead
    <2>5. rd.past => ~Covers(pcache, rd.block, rd.off + i - 1)
      BY <2>2, <2>4, PcacheStaysAhead
    <2> QED BY <2>3, <2>4, <2>5 DEF Stored
  <1>4. CASE LoadRcache
    BY <1>4 DEF LoadRcache, IInv, Shape, IsRead
  <1>6. CASE rd' = rd
    BY <1>6 DEF IInv, Shape, IsRead
  <1>7. CASE rd'.got = <<>>
    <2>1. Len(rd'.got) = 0
      BY <1>7
    <2> QED BY <2>1
  <1>5. CASE LoadFails \/ ReadReturns
    <2>1. rd' = NoRead
      BY <1>5 DEF LoadFails, ReadReturns, Fail, Return
    <2> QED BY <1>7, <2>1 DEF NoRead
  <1>8. CASE Step
    <2>1. ASSUME Flush \/ FlushGarbled \/ FlushRefused \/ FlushNothing
                   \/ Compared \/ ComparedUnequal \/ SyncDevice
                   \/ FlushReturns
          PROVE  rd' = rd \/ rd'.got = <<>>
      BY <2>1 DEF Flush, FlushGarbled, FlushRefused, FlushNothing, Compared,
                  ComparedUnequal, SyncDevice, FlushReturns, Fail, Return,
                  NoRead, Comparing, Reading
    <2>2. ASSUME ProgCopy \/ ProgPrepare \/ ProgNotFlushed \/ ProgReturns
          PROVE  rd' = rd \/ rd'.got = <<>>
      BY <2>2 DEF ProgCopy, ProgPrepare, ProgNotFlushed, ProgReturns, Return,
                  NoRead
    <2> QED BY <1>1, <1>2, <1>3, <1>4, <1>5, <1>6, <1>7, <1>8, <2>1, <2>2
            DEF Step
  <1>9. CASE Caller
    <2>1. rd' = rd \/ rd'.got = <<>>
      <3>1. ASSUME NEW b, NEW o, NEW n, NEW hint, NEW past,
                   CallRead(b, o, n, hint, past)
            PROVE  rd' = rd \/ rd'.got = <<>>
        <4>1. rd' = rd \/ rd' = Reading(b, o, n, hint, past)
          BY <3>1 DEF CallRead
        <4> QED BY <4>1 DEF Reading
      <3>2. ASSUME NEW b, NEW o, NEW data, NEW validate,
                   CallProg(b, o, data, validate)
            PROVE  rd' = rd
        BY <3>2 DEF CallProg
      <3> QED BY <1>9, <3>1, <3>2 DEF Caller, CallFlush, CallSync, GiveUp, Erase
    <2> QED BY <1>6, <1>7, <2>1
  <1> QED BY <1>6, <1>8, <1>9 DEF Next, vars

(* Whatever the sizes, the faults and the order of calls, a read takes the *)
(* bytes that are stored where it reads, outside `stale`.                  *)
THEOREM ReadsCurrent == Spec => ReadsAreCurrent
  <1>1. IInv /\ [Next]_vars => (rd'.off > rd.off => Takes)
    BY StepReadsCurrent
  <1>2. [][rd'.off > rd.off => Takes]_vars => ReadsAreCurrent
    BY PTL DEF ReadsAreCurrent, Takes
  <1> QED BY <1>1, <1>2, CacheIsCoherent, PTL DEF Spec

------------------------------------------------------------------------------
(* Arithmetic of units.                                                    *)

(* Division with remainder, and that the remainder is unique.              *)
LEMMA DivMod ==
  ASSUME NEW a \in Int, NEW n \in Nat \ {0}
  PROVE  a % n \in 0 .. n - 1 /\ a \div n \in Int /\ a = n * (a \div n) + (a % n)
  <1>1. a % n \in 0 .. n - 1
    OBVIOUS
  <1>2. a \div n \in Int
    OBVIOUS
  <1>3. a = n * (a \div n) + (a % n)
    OBVIOUS
  <1> QED BY <1>1, <1>2, <1>3

(* The remainder of a number written as a multiple and a rest.             *)
LEMMA ModUnique ==
  ASSUME NEW k \in Int, NEW r \in Int, NEW n \in Int, 0 <= r, r < n
  PROVE  (n * k + r) % n = r
  OBVIOUS

(* Aligning down leaves a multiple of the unit.                            *)
LEMMA MultipleMod ==
  ASSUME NEW a \in Int, NEW n \in Nat \ {0}
  PROVE  a % n = 0 <=> \E k \in Int : a = n * k
  <1>1. ASSUME a % n = 0 PROVE \E k \in Int : a = n * k
    <2>1. a \div n \in Int /\ a = n * (a \div n) + 0
      BY <1>1, DivMod
    <2>2. n * (a \div n) \in Int
      BY <2>1
    <2>3. a = n * (a \div n)
      BY <2>1, <2>2
    <2> QED BY <2>1, <2>3
  <1>2. ASSUME NEW k \in Int, a = n * k PROVE a % n = 0
    <2>1. (n * k + 0) % n = 0
      BY ModUnique
    <2>2. n * k + 0 = a
      BY <1>2
    <2> QED BY <2>1, <2>2
  <1> QED BY <1>1, <1>2

(* Aligning down leaves a multiple of the unit, less than one unit below. *)
LEMMA AlignedDown ==
  ASSUME NEW a \in Int, NEW n \in Nat \ {0}
  PROVE  /\ AlignDown(a, n) % n = 0 /\ AlignDown(a, n) \in Int
         /\ AlignDown(a, n) <= a /\ a < AlignDown(a, n) + n
         /\ a >= 0 => AlignDown(a, n) >= 0
         /\ a % n = 0 => AlignDown(a, n) = a
  <1> DEFINE d == a \div n
             m == a % n
  <1>1. d \in Int /\ m \in Int /\ 0 <= m /\ m < n /\ a = n * d + m
    BY DivMod
  <1>2. AlignDown(a, n) = n * d
    BY <1>1 DEF AlignDown
  <1>3. AlignDown(a, n) = a - m
    BY DEF AlignDown
  <1> HIDE DEF d, m
  <1>4. n * d \in Int
    BY <1>1
  <1>5. AlignDown(a, n) % n = 0
    BY <1>1, <1>2, <1>4, MultipleMod
  <1>6. a >= 0 => AlignDown(a, n) >= 0
    <2>1. a >= 0 => d >= 0
      <3>1. d <= -1 => n * d <= -n
        BY <1>1
      <3> QED BY <1>1, <3>1
    <2>2. d >= 0 => n * d >= 0
      BY <1>1
    <2> QED BY <1>2, <2>1, <2>2
  <1> QED BY <1>1, <1>3, <1>5, <1>6 DEF m

(* Aligning up stays below every multiple of the unit that is above.       *)
LEMMA AlignedUp ==
  ASSUME NEW a \in Int, NEW n \in Nat \ {0}
  PROVE  /\ AlignUp(a, n) \in Int /\ AlignUp(a, n) % n = 0
         /\ a <= AlignUp(a, n)
         /\ a >= 0 => AlignUp(a, n) >= 0
         /\ \A b \in Int : a <= b /\ b % n = 0 => AlignUp(a, n) <= b
  <1> DEFINE u == AlignDown(a + n - 1, n)
  <1>1. /\ u \in Int /\ u % n = 0 /\ u <= a + n - 1 /\ a + n - 1 < u + n
        /\ a + n - 1 >= 0 => u >= 0
    BY AlignedDown
  <1>2. AlignUp(a, n) = u
    BY DEF AlignUp
  <1> HIDE DEF u
  <1>3. ASSUME NEW b \in Int, a <= b, b % n = 0 PROVE u <= b
    <2>1. PICK k \in Int : u = n * k
      BY <1>1, MultipleMod
    <2>2. PICK j \in Int : b = n * j
      BY <1>3, MultipleMod
    <2>3. n * (k - j) <= n - 1
      BY <1>1, <1>3, <2>1, <2>2
    <2>4. k - j >= 1 => n * (k - j) >= n
      BY <2>1, <2>2
    <2>5. k - j <= 0
      BY <2>3, <2>4
    <2>6. n * k <= n * j
      BY <2>5
    <2> QED BY <2>1, <2>2, <2>6
  <1> QED BY <1>1, <1>2, <1>3

(* Sums and differences of multiples are multiples.                        *)
LEMMA SumMod ==
  ASSUME NEW a \in Int, NEW b \in Int, NEW n \in Nat \ {0}, a % n = 0, b % n = 0
  PROVE  (a + b) % n = 0 /\ (b - a) % n = 0
  <1>1. PICK k \in Int : a = n * k
    BY MultipleMod
  <1>2. PICK j \in Int : b = n * j
    BY MultipleMod
  <1>3. n * (k + j) = n * k + n * j /\ n * (j - k) = n * j - n * k
    OBVIOUS
  <1>4. a + b = n * (k + j) /\ b - a = n * (j - k)
    BY <1>1, <1>2, <1>3
  <1>5. k + j \in Int /\ j - k \in Int /\ a + b \in Int /\ b - a \in Int
    OBVIOUS
  <1> QED BY <1>4, <1>5, MultipleMod

(* The block size is a multiple of the program unit.                       *)
LEMMA BlockIsUnits == BlockSize % ProgSize = 0 /\ CacheSize % ProgSize = 0
  <1>0. CacheSize % ProgSize = 0 /\ BlockSize % CacheSize = 0
    BY BdCacheAssumption
  <1>1. /\ BlockSize \in Int /\ CacheSize \in Nat \ {0} /\ CacheSize \in Int
        /\ ProgSize \in Nat \ {0}
    BY SizesArePositive
  <1>2. \E k \in Int : CacheSize = ProgSize * k
    BY <1>0, <1>1, MultipleMod
  <1>3. \E j \in Int : BlockSize = CacheSize * j
    BY <1>0, <1>1, MultipleMod
  <1>4. PICK k \in Int, j \in Int : CacheSize = ProgSize * k /\ BlockSize = CacheSize * j
    BY <1>2, <1>3
  <1>5. (ProgSize * k) * j = ProgSize * (k * j) /\ k * j \in Int
    BY <1>1
  <1>6. BlockSize = ProgSize * (k * j)
    BY <1>4, <1>5
  <1> QED BY <1>0, <1>1, <1>5, <1>6, MultipleMod

------------------------------------------------------------------------------
(* Types and ranges.                                                       *)

Buffers == [0 .. CacheSize - 1 -> Byte]

(* The parts of TypeOK, with what it takes for them to be inductive.       *)
DiskOK == disk \in [Block -> [Off -> Byte]]
RcacheOK == CacheType(rcache)
PcacheOK == CacheType(pcache) /\ pcache.off % ProgSize = 0
ReadOK ==
  /\ rd.block \in Block /\ rd.off \in 0 .. BlockSize
  /\ rd.left \in 0 .. BlockSize - rd.off
  /\ rd.past \in BOOLEAN /\ rd.hint \in Nat /\ rd.got \in Seq(Byte)
WriteOK == wr.block \in Block /\ wr.off \in Nat /\ wr.off + Len(wr.data) <= BlockSize
CallOK ==
  /\ call = [op |-> call.op, validate |-> call.validate, then |-> call.then]
  /\ call.validate \in BOOLEAN
  /\ call.then \in {"idle", "prog", "flushed", "sync"}
PcOK ==
  /\ pc \in {"idle", "read", "compare", "flush", "flushed", "sync", "prog"}
  /\ pc = "compare" => pcache.block \in Block /\ rd.off >= pcache.off
GivenOK ==
  /\ given = [b \in Block |-> given[b]]
  /\ \A b \in Block : DOMAIN given[b] \subseteq Off
CountsOK ==
  /\ stale \subseteq Place /\ failed \in BOOLEAN /\ calls \in 0 .. MaxCalls
  /\ faults \in 0 .. MaxFaults

Ranges == /\ DiskOK /\ RcacheOK /\ PcacheOK /\ ReadOK /\ WriteOK
          /\ CallOK /\ PcOK /\ GivenOK /\ CountsOK

TypeInv == Shape /\ Ranges

(* The ranges of the variables are their types.                            *)
LEMMA RangesAreTypes == Ranges => TypeOK
  BY DEF Ranges, DiskOK, RcacheOK, PcacheOK, ReadOK, WriteOK, CallOK, PcOK,
     GivenOK, CountsOK, TypeOK

(* A unit that lfs_bd_flush programs stays within the buffer and within    *)
(* the block, since the sizes are multiples of each other.                 *)
LEMMA UnitFits ==
  ASSUME PcacheOK
  PROVE  /\ Unit \in 0 .. CacheSize /\ pcache.off + Unit <= BlockSize
         /\ pcache.size <= Unit /\ pcache.off \in Nat /\ pcache.off < BlockSize
         /\ pcache.size \in 0 .. CacheSize
  <1>1. /\ pcache.off \in Int /\ pcache.size \in Int /\ pcache.size >= 0
        /\ pcache.off >= 0 /\ pcache.off < BlockSize
        /\ pcache.size <= CacheSize /\ pcache.off + pcache.size <= BlockSize
        /\ pcache.off % ProgSize = 0 /\ BlockSize \in Int /\ CacheSize \in Int
        /\ ProgSize \in Nat \ {0}
    BY SizesArePositive DEF PcacheOK, CacheType, Off
  <1>2. (BlockSize - pcache.off) % ProgSize = 0
    BY <1>1, BlockIsUnits, SumMod
  <1>3. BlockSize - pcache.off \in Int /\ pcache.size <= BlockSize - pcache.off
    BY <1>1
  <1>4. AlignUp(pcache.size, ProgSize) <= BlockSize - pcache.off
    BY <1>1, <1>2, <1>3, AlignedUp
  <1>5. /\ AlignUp(pcache.size, ProgSize) <= CacheSize
        /\ AlignUp(pcache.size, ProgSize) \in Int
        /\ AlignUp(pcache.size, ProgSize) >= 0
        /\ pcache.size <= AlignUp(pcache.size, ProgSize)
    BY <1>1, BlockIsUnits, AlignedUp
  <1> QED BY <1>1, <1>4, <1>5 DEF Unit

(* The device after a unit was programmed.                                 *)
LEMMA ProgrammedTyped ==
  ASSUME DiskOK, PcacheOK, pcache.block \in Block, NEW data \in Buffers
  PROVE  Programmed(data) \in [Block -> [Off -> Byte]]
  <1>1. ASSUME NEW o \in Off, pcache.off <= o, o < pcache.off + Unit
        PROVE  data[o - pcache.off] \in Byte
    <2>1. o - pcache.off \in 0 .. CacheSize - 1
      BY <1>1, UnitFits, SizesArePositive DEF Off
    <2> QED BY <2>1 DEF Buffers
  <1>2. [o \in Off |-> IF pcache.off <= o /\ o < pcache.off + Unit
                       THEN data[o - pcache.off] ELSE disk[pcache.block][o]]
          \in [Off -> Byte]
    BY <1>1 DEF DiskOK
  <1> QED BY <1>2 DEF Programmed, DiskOK

(* What a caller keeps whose unit is lost.                                 *)
LEMMA LostTyped ==
  ASSUME GivenOK, pcache.block \in Block
  PROVE  /\ Lost = [b \in Block |-> Lost[b]]
         /\ \A b \in Block : DOMAIN Lost[b] \subseteq DOMAIN given[b]
         /\ \A b \in Block : b # pcache.block => Lost[b] = given[b]
         /\ Lost[pcache.block] = [o \in {q \in DOMAIN given[pcache.block] : q < pcache.off} |-> given[pcache.block][o]]
  BY DEF GivenOK, Lost

(* The end of a call leaves the locals in range.                           *)
LEMMA ReturnTyped ==
  ASSUME NEW r, Return(r)
  PROVE  ReadOK' /\ WriteOK' /\ CallOK' /\ PcOK'
  <1>1. 0 \in Block /\ BlockSize \in Nat
    BY SizesArePositive DEF Block
  <1>2. ReadOK'
    BY <1>1 DEF Return, ReadOK, NoRead
  <1>3. WriteOK'
    BY <1>1 DEF Return, WriteOK, NoWrite
  <1>4. CallOK' /\ PcOK'
    BY DEF Return, CallOK, NoCall, PcOK
  <1> QED BY <1>2, <1>3, <1>4

(* A call that fails leaves every local at its initial value.              *)
LEMMA FailTyped ==
  ASSUME NEW r, Fail(r), GivenOK, failed \in BOOLEAN
  PROVE  ReadOK' /\ WriteOK' /\ CallOK' /\ PcOK' /\ GivenOK' /\ failed' \in BOOLEAN
  <1>1. ReadOK' /\ WriteOK' /\ CallOK' /\ PcOK'
    BY ReturnTyped DEF Fail
  <1>2. CASE call.op # "read" /\ pcache.block \in Block
    <2>1. given' = Lost /\ failed' = TRUE
      BY <1>2 DEF Fail
    <2>2. GivenOK'
      BY <1>2, <2>1, LostTyped DEF GivenOK
    <2> QED BY <1>1, <2>1, <2>2
  <1>3. CASE ~(call.op # "read" /\ pcache.block \in Block)
    BY <1>1, <1>3 DEF Fail, GivenOK
  <1> QED BY <1>2, <1>3

(* Empty caches.                                                           *)
LEMMA EmptyTyped ==
  ASSUME NEW buffer \in Buffers
  PROVE  CacheType(Empty(buffer)) /\ Empty(buffer).off % ProgSize = 0
         /\ Empty(buffer).block = NoBlock /\ Empty(buffer).size = 0
  <1>1. 0 \in Off /\ 0 \in 0 .. CacheSize /\ BlockSize \in Nat
    BY SizesArePositive DEF Off
  <1>2. 0 % ProgSize = 0
    BY SizesArePositive
  <1> QED BY <1>1, <1>2 DEF CacheType, Empty, Cache, Buffers

(* A buffer of zeros is a buffer.                                          *)
LEMMA ZerosTyped == Zeros \in Buffers
  BY BdCacheAssumption DEF Zeros, Buffers

(* LFS_BLOCK_NULL is the number of no block.                               *)
LEMMA NoBlockIsNone == NoBlock \notin Block
  BY SizesArePositive DEF NoBlock, Block

(* A turn of the loop of lfs_bd_read takes n of the bytes left.            *)
LEMMA AdvanceTyped ==
  ASSUME TypeInv, NEW n \in 0 .. rd.left, NEW bytes, NEW first,
         Advance(n, bytes, first),
         \A i \in 1 .. n : bytes[(rd.off + i - 1) - first] \in Byte
  PROVE  ReadOK' /\ rd'.off >= rd.off /\ rd'.off = rd.off + n
         /\ rd'.left = rd.left - n /\ rd'.block = rd.block /\ rd'.past = rd.past
         /\ rd'.got = [i \in 1 .. n |-> bytes[(rd.off + i - 1) - first]]
  <1> DEFINE got == [i \in 1 .. n |-> bytes[(rd.off + i - 1) - first]]
  <1>1. rd' = [block |-> rd.block, off |-> rd.off + n, left |-> rd.left - n,
               hint |-> rd.hint, past |-> rd.past, got |-> got]
    BY DEF Advance, TypeInv, Shape, IsRead
  <1>2. rd.left \in Int /\ n \in Nat /\ n <= rd.left /\ rd.off \in Int
        /\ rd.left <= BlockSize - rd.off /\ rd.off >= 0
    BY SizesArePositive DEF TypeInv, Ranges, ReadOK
  <1>3. got \in Seq(Byte)
    BY <1>2
  <1> HIDE DEF got
  <1>4. rd.off + n \in 0 .. BlockSize
        /\ rd.left - n \in 0 .. BlockSize - (rd.off + n)
    BY <1>2, SizesArePositive
  <1>5. ReadOK'
    BY <1>1, <1>3, <1>4 DEF TypeInv, Ranges, ReadOK
  <1> QED BY <1>1, <1>2, <1>5 DEF got

(* lfs_bd_cmp reads one byte of the unit at a time.                        *)
LEMMA ComparingTyped ==
  ASSUME PcacheOK, NEW i \in Nat, pcache.block \in Block, i < Unit \/ i = 0,
         rd' = Comparing(i)
  PROVE  ReadOK' /\ rd'.off = pcache.off + i /\ rd'.left = 1
         /\ rd'.block = pcache.block /\ rd'.past = FALSE /\ rd'.got = <<>>
  <1>1. rd' = [block |-> pcache.block, off |-> pcache.off + i, left |-> 1,
               hint |-> Unit - i, past |-> FALSE, got |-> <<>>]
    BY DEF Comparing, Reading
  <1>2. pcache.off + i \in 0 .. BlockSize /\ 1 \in 0 .. BlockSize - (pcache.off + i)
        /\ Unit - i \in Nat
    BY UnitFits, SizesArePositive
  <1> QED BY <1>1, <1>2 DEF ReadOK

(* What the bounds of a turn of the loop are.                              *)
LEMMA TurnBounds ==
  ASSUME TypeInv, Loop
  PROVE  /\ rd.off \in Nat /\ rd.off < BlockSize /\ rd.left \in Nat /\ rd.left > 0
         /\ rd.off + rd.left <= BlockSize
         /\ BeforePcache \in 0 .. rd.left /\ BeforeCaches \in 0 .. rd.left
         /\ rcache.off \in Nat /\ pcache.off \in Nat /\ rd.block \in Block
         /\ rcache.size \in 0 .. CacheSize /\ pcache.size \in 0 .. CacheSize
         /\ rcache.buffer \in Buffers /\ pcache.buffer \in Buffers
  <1>1. /\ rd.off \in Int /\ rd.off >= 0 /\ rd.left \in Int /\ rd.left > 0
        /\ rd.left <= BlockSize - rd.off /\ rd.block \in Block
        /\ rd.past \in BOOLEAN
    BY SizesArePositive DEF TypeInv, Ranges, ReadOK, Loop
  <1>2. /\ rcache.off \in Int /\ pcache.off \in Int
        /\ rcache.off >= 0 /\ pcache.off >= 0
        /\ rcache.size \in 0 .. CacheSize /\ pcache.size \in 0 .. CacheSize
        /\ rcache.buffer \in Buffers /\ pcache.buffer \in Buffers
    BY SizesArePositive
       DEF TypeInv, Ranges, RcacheOK, PcacheOK, CacheType, Off, Buffers
  <1>3. ASSUME NEW c, c.off \in Int, NEW n \in 0 .. rd.left
        PROVE  Until(c, n) \in 0 .. rd.left
    BY <1>1, <1>3 DEF Until, lfs_min
  <1>4. rd.left \in 0 .. rd.left
    BY <1>1
  <1>5. BeforePcache \in 0 .. rd.left
    BY <1>2, <1>3, <1>4 DEF BeforePcache
  <1>6. BeforeCaches \in 0 .. rd.left
    BY <1>2, <1>3, <1>5 DEF BeforeCaches
  <1> QED BY <1>1, <1>2, <1>5, <1>6, SizesArePositive

(* How many bytes a turn takes, and from where.                            *)
LEMMA TurnTakes ==
  ASSUME TypeInv, ReadPcache \/ ReadRcache \/ ReadDirectly
  PROVE  \E n \in 0 .. rd.left :
           /\ ReadOK' /\ rd'.off = rd.off + n /\ rd'.left = rd.left - n
           /\ rd'.block = rd.block /\ rd'.past = rd.past /\ Len(rd'.got) = n
           /\ rd.left = 1 => n = 1
  <1>0. Loop
    BY DEF ReadPcache, ReadRcache, ReadDirectly
  <1>1. ASSUME NEW n \in 0 .. rd.left, NEW bytes, NEW first,
               Advance(n, bytes, first), rd.left = 1 => n = 1,
               \A i \in 1 .. n : bytes[(rd.off + i - 1) - first] \in Byte
        PROVE  \E m \in 0 .. rd.left :
                 /\ ReadOK' /\ rd'.off = rd.off + m /\ rd'.left = rd.left - m
                 /\ rd'.block = rd.block /\ rd'.past = rd.past /\ Len(rd'.got) = m
                 /\ rd.left = 1 => m = 1
    <2>1. n \in Nat
      BY <1>0, TurnBounds
    <2>2. Len([i \in 1 .. n |-> bytes[(rd.off + i - 1) - first]]) = n
      BY <2>1
    <2>3. /\ ReadOK' /\ rd'.off = rd.off + n /\ rd'.left = rd.left - n
          /\ rd'.block = rd.block /\ rd'.past = rd.past
          /\ rd'.got = [i \in 1 .. n |-> bytes[(rd.off + i - 1) - first]]
      BY <1>1, AdvanceTyped
    <2>4. Len(rd'.got) = n
      BY <2>2, <2>3
    <2> QED BY <1>1, <2>3, <2>4
  <1>2. CASE ReadPcache
    <2> DEFINE n == lfs_min(rd.left, pcache.off + pcache.size - rd.off)
    <2>1. pcache.off <= rd.off /\ rd.off < pcache.off + pcache.size
      BY <1>2 DEF ReadPcache, InPcache, Covers
    <2>2. /\ n \in 0 .. rd.left /\ n <= pcache.off + pcache.size - rd.off
          /\ rd.left = 1 => n = 1
      BY <1>0, <2>1, TurnBounds DEF lfs_min
    <2> HIDE DEF n
    <2>3. \A i \in 1 .. n : (rd.off + i - 1) - pcache.off \in 0 .. CacheSize - 1
      BY <1>0, <2>1, <2>2, TurnBounds, SizesArePositive
    <2>4. \A i \in 1 .. n : pcache.buffer[(rd.off + i - 1) - pcache.off] \in Byte
      BY <1>0, <2>3, TurnBounds DEF Buffers
    <2>5. Advance(n, pcache.buffer, pcache.off)
      BY <1>2 DEF ReadPcache, n
    <2> QED BY <1>1, <2>2, <2>4, <2>5
  <1>3. CASE ReadRcache
    <2> DEFINE n == lfs_min(BeforePcache, rcache.off + rcache.size - rd.off)
    <2>1. rcache.off <= rd.off /\ rd.off < rcache.off + rcache.size
      BY <1>3 DEF ReadRcache, InRcache, Covers
    <2>0. rd.left = 1 => BeforePcache = 1
      BY <1>0, <1>3, TurnBounds DEF BeforePcache, Until, lfs_min, ReadRcache
    <2>2. /\ n \in 0 .. rd.left /\ n <= rcache.off + rcache.size - rd.off
          /\ rd.left = 1 => n = 1
      BY <1>0, <2>0, <2>1, TurnBounds DEF lfs_min
    <2> HIDE DEF n
    <2>3. \A i \in 1 .. n : (rd.off + i - 1) - rcache.off \in 0 .. CacheSize - 1
      BY <1>0, <2>1, <2>2, TurnBounds, SizesArePositive
    <2>4. \A i \in 1 .. n : rcache.buffer[(rd.off + i - 1) - rcache.off] \in Byte
      BY <1>0, <2>3, TurnBounds DEF Buffers
    <2>5. Advance(n, rcache.buffer, rcache.off)
      BY <1>3 DEF ReadRcache, n
    <2> QED BY <1>1, <2>2, <2>4, <2>5
  <1>4. CASE ReadDirectly
    <2> DEFINE n == AlignDown(BeforeCaches, ReadSize)
    <2>0. BeforeCaches \in Int /\ BeforeCaches >= 0 /\ BeforeCaches <= rd.left
      BY <1>0, TurnBounds
    <2>1. n \in 0 .. rd.left
      <3>1. n \in Int /\ n >= 0 /\ n <= BeforeCaches
        BY <2>0, AlignedDown, SizesArePositive
      <3> HIDE DEF n
      <3> QED BY <1>0, <2>0, <3>1, TurnBounds
    <2>2. rd.left = 1 => n = 1
      <3>1. SUFFICES ASSUME rd.left = 1 PROVE n = 1
        OBVIOUS
      <3>2. BeforePcache = 1
        BY <1>0, <3>1, TurnBounds DEF BeforePcache, Until, lfs_min
      <3>3. BeforeCaches = 1
        BY <1>0, <3>1, <3>2, TurnBounds DEF BeforeCaches, Until, lfs_min
      <3>4. ReadSize = 1
        BY <1>4, <3>1, SizesArePositive DEF ReadDirectly, Bypass
      <3>5. 1 % 1 = 0
        OBVIOUS
      <3> QED BY <3>3, <3>4, <3>5 DEF AlignDown
    <2> HIDE DEF n
    <2>3. \A i \in 1 .. n : (rd.off + i - 1) - 0 \in Off
      BY <1>0, <2>1, TurnBounds, SizesArePositive DEF Off
    <2>4. \A i \in 1 .. n : disk[rd.block][(rd.off + i - 1) - 0] \in Byte
      BY <1>0, <2>3, TurnBounds DEF TypeInv, Ranges, DiskOK
    <2>5. Advance(n, disk[rd.block], 0)
      BY <1>4 DEF ReadDirectly, n
    <2> QED BY <1>1, <2>1, <2>2, <2>4, <2>5
  <1> QED BY <1>2, <1>3, <1>4

(* A load stays within the buffer and within the block.                    *)
LEMMA LoadedTyped ==
  ASSUME TypeInv, Loop, NEW data \in BOOLEAN
  PROVE  CacheType(Loaded(data))
  <1> DEFINE up == AlignUp(rd.off + rd.hint, ReadSize)
             top == lfs_min(up, BlockSize)
             buf == [i \in 0 .. CacheSize - 1 |->
                       IF data /\ i < LoadSize THEN disk[rd.block][LoadOff + i]
                       ELSE rcache.buffer[i]]
  <1>1. /\ rd.off \in Nat /\ rd.off < BlockSize /\ rd.hint \in Nat
        /\ rd.block \in Block
    BY TurnBounds DEF TypeInv, Ranges, ReadOK
  <1>2. LoadOff \in Nat /\ LoadOff <= rd.off
    <2>1. rd.off \in Int /\ rd.off >= 0 /\ ReadSize \in Nat \ {0}
      BY <1>1, SizesArePositive
    <2>2. /\ AlignDown(rd.off, ReadSize) \in Int
          /\ AlignDown(rd.off, ReadSize) >= 0
          /\ AlignDown(rd.off, ReadSize) <= rd.off
      BY <2>1, AlignedDown
    <2> QED BY <2>2 DEF LoadOff
  <1>3. up \in Int /\ rd.off + rd.hint <= up
    <2>1. rd.off + rd.hint \in Int
      BY <1>1
    <2> QED BY <2>1, AlignedUp, SizesArePositive
  <1> HIDE DEF up
  <1>4. top \in Int /\ LoadOff <= top /\ top <= BlockSize
    BY <1>1, <1>2, <1>3, SizesArePositive DEF lfs_min
  <1>5. LoadSize = lfs_min(top - LoadOff, CacheSize)
    BY DEF LoadSize, top, up
  <1> HIDE DEF top
  <1>6. LoadSize \in 0 .. CacheSize /\ LoadOff + LoadSize <= BlockSize
    BY <1>2, <1>4, <1>5, SizesArePositive DEF lfs_min
  <1>7. LoadOff \in Off
    BY <1>1, <1>2, SizesArePositive DEF Off
  <1>8. buf \in Buffers
    <2>1. ASSUME NEW i \in 0 .. CacheSize - 1, i < LoadSize
          PROVE  disk[rd.block][LoadOff + i] \in Byte
      <3>1. LoadOff + i \in Off
        BY <1>2, <1>6, <2>1, SizesArePositive DEF Off
      <3> QED BY <1>1, <3>1 DEF TypeInv, Ranges, DiskOK
    <2>2. rcache.buffer \in Buffers
      BY TurnBounds
    <2> QED BY <2>1, <2>2 DEF Buffers
  <1>9. Loaded(data) = Cache(rd.block, LoadOff, LoadSize, buf)
    BY DEF Loaded
  <1> HIDE DEF buf
  <1> QED BY <1>1, <1>6, <1>7, <1>8, <1>9 DEF CacheType, Cache, Buffers

(* The turns of the loop of lfs_bd_read.                                   *)
LEMMA LoopRanges ==
  ASSUME TypeInv,
         ReadPcache \/ ReadRcache \/ ReadDirectly \/ LoadRcache \/ LoadFails
           \/ ReadReturns
  PROVE  Ranges'
  <1> USE DEF TypeInv
  <1>1. CASE ReadPcache \/ ReadRcache \/ ReadDirectly
    <2>1. UNCHANGED <<disk, rcache, pcache, pc, call, wr, given, stale, failed,
                      calls, faults>>
      BY <1>1 DEF ReadPcache, ReadRcache, ReadDirectly, Same, hist
    <2>2. PICK n \in 0 .. rd.left : ReadOK' /\ rd'.off = rd.off + n
      BY <1>1, TurnTakes
    <2>3. Loop
      BY <1>1 DEF ReadPcache, ReadRcache, ReadDirectly
    <2>4. n \in Nat /\ rd.off \in Nat
      BY <2>2, <2>3, TurnBounds
    <2>5. pc = "compare" => rd'.off >= pcache.off
      BY <2>2, <2>3, <2>4, TurnBounds DEF Ranges, PcOK
    <2> QED BY <2>1, <2>2, <2>5
            DEF Ranges, DiskOK, RcacheOK, PcacheOK, CacheType, WriteOK, CallOK,
                PcOK, GivenOK, CountsOK
  <1>2. CASE LoadRcache
    <2>1. RcacheOK'
      BY <1>2, LoadedTyped DEF LoadRcache, RcacheOK, CacheType
    <2>2. UNCHANGED <<disk, pcache, pc, call, rd, wr, given, failed,
                      calls, faults>> /\ stale' = {}
      BY <1>2 DEF LoadRcache, Same, hist
    <2> QED BY <2>1, <2>2
            DEF Ranges, DiskOK, PcacheOK, CacheType, ReadOK, WriteOK, CallOK,
                PcOK, GivenOK, CountsOK
  <1>3. CASE LoadFails
    <2>1. Loop /\ Fail("io") /\ UNCHANGED <<disk, pcache, calls>>
          /\ Fault("unread")
      BY <1>3 DEF LoadFails
    <2>2. RcacheOK' /\ stale' \subseteq Place
      <3>1. CASE Bypass
        BY <1>3, <3>1 DEF LoadFails, Ranges, RcacheOK, CacheType, CountsOK
      <3>2. CASE ~Bypass
        BY <1>3, <2>1, <3>2, LoadedTyped
           DEF LoadFails, RcacheOK, CacheType, PlacesOf
      <3> QED BY <3>1, <3>2
    <2>3. ReadOK' /\ WriteOK' /\ CallOK' /\ PcOK' /\ GivenOK' /\ failed' \in BOOLEAN
      BY <2>1, FailTyped DEF Ranges, CountsOK
    <2>4. faults' \in 0 .. MaxFaults
      BY <2>1, BdCacheAssumption DEF Fault, Ranges, CountsOK
    <2> QED BY <2>1, <2>2, <2>3, <2>4
            DEF Ranges, DiskOK, PcacheOK, CacheType, CountsOK
  <1>4. CASE ReadReturns
    <2>1. UNCHANGED <<disk, rcache, pcache, given, stale, failed, calls, faults>>
      BY <1>4 DEF ReadReturns, hist
    <2>2. ReadOK' /\ WriteOK' /\ CallOK' /\ PcOK'
      BY <1>4, ReturnTyped DEF ReadReturns
    <2> QED BY <2>1, <2>2
            DEF Ranges, DiskOK, RcacheOK, PcacheOK, CacheType, GivenOK, CountsOK
  <1> QED BY <1>1, <1>2, <1>3, <1>4

(* lfs_cache_drop leaves an empty cache.                                   *)
LEMMA DroppedTyped ==
  ASSUME NEW c, CacheType(c)
  PROVE  CacheType(Dropped(c)) /\ Dropped(c).off % ProgSize = 0
         /\ Dropped(c).block = NoBlock /\ Dropped(c).size = 0
  BY EmptyTyped DEF Dropped, CacheType, Buffers

(* So does lfs_cache_zero.                                                 *)
LEMMA ZeroedTyped ==
  ASSUME NEW c
  PROVE  CacheType(Zeroed(c)) /\ Zeroed(c).off % ProgSize = 0
         /\ Zeroed(c).block = NoBlock /\ Zeroed(c).size = 0
  BY EmptyTyped, ZerosTyped DEF Zeroed

(* The places that rcache covers are on the device.                        *)
LEMMA PlacesTyped == PlacesOf(rcache) \subseteq Place
  BY DEF PlacesOf

(* A step that does not touch a part of the state keeps its type.          *)
LEMMA UntouchedRanges ==
  ASSUME Ranges
  PROVE  /\ UNCHANGED disk => DiskOK'
         /\ UNCHANGED rcache => RcacheOK'
         /\ UNCHANGED pcache => PcacheOK'
         /\ UNCHANGED rd => ReadOK'
         /\ UNCHANGED wr => WriteOK'
         /\ UNCHANGED call => CallOK'
         /\ UNCHANGED <<pc, rd, pcache>> => PcOK'
         /\ UNCHANGED given => GivenOK'
         /\ UNCHANGED <<stale, failed, calls, faults>> => CountsOK'
  BY DEF Ranges, DiskOK, RcacheOK, PcacheOK, CacheType, ReadOK, WriteOK, CallOK,
         PcOK, GivenOK, CountsOK

(* lfs_bd_flush, lfs_bd_cmp and lfs_bd_sync.                               *)
LEMMA FlushRanges ==
  ASSUME TypeInv,
         Flush \/ FlushGarbled \/ FlushRefused \/ FlushNothing \/ Compared
           \/ ComparedUnequal \/ SyncDevice \/ FlushReturns
  PROVE  Ranges'
  <1> USE DEF TypeInv
  <1>0. pcache.buffer \in Buffers
    BY DEF Ranges, PcacheOK, CacheType, Buffers
  <1>1. ASSUME NEW data \in Buffers, pcache.block \in Block,
               disk' = Programmed(data), pc = "flush", UNCHANGED <<call, wr, calls>>,
               faults' \in 0 .. MaxFaults, GivenOK',
               IF call.validate
               THEN /\ rcache' = Dropped(rcache) /\ stale' = {}
                    /\ pc' = "compare" /\ rd' = Comparing(0)
                    /\ UNCHANGED <<pcache, failed>>
               ELSE /\ pcache' = Zeroed(pcache) /\ pc' = call.then /\ failed' = FALSE
                    /\ stale' = stale \cup (UnitPlaces \cap PlacesOf(rcache))
                    /\ UNCHANGED <<rcache, rd>>
        PROVE  Ranges'
    <2>1. DiskOK'
      BY <1>1, ProgrammedTyped DEF Ranges, DiskOK
    <2>2. WriteOK' /\ CallOK'
      BY <1>1, UntouchedRanges
    <2>3. CASE call.validate
      <3>1. RcacheOK'
        BY <1>1, <2>3, DroppedTyped DEF Ranges, RcacheOK, CacheType
      <3>2. ReadOK' /\ rd'.off = pcache.off + 0
        BY <1>1, <2>3, ComparingTyped DEF Ranges
      <3>3. PcOK'
        BY <1>1, <2>3, <3>2, UnitFits DEF Ranges, PcOK
      <3>4. PcacheOK' /\ CountsOK'
        BY <1>1, <2>3, UntouchedRanges DEF Ranges, CountsOK
      <3> QED BY <1>1, <2>1, <2>2, <3>1, <3>2, <3>3, <3>4 DEF Ranges
    <2>4. CASE ~call.validate
      <3>1. PcacheOK'
        BY <1>1, <2>4, ZeroedTyped DEF PcacheOK, CacheType
      <3>2. PcOK'
        BY <1>1, <2>4 DEF Ranges, PcOK, CallOK
      <3>3. RcacheOK' /\ ReadOK'
        BY <1>1, <2>4, UntouchedRanges
      <3>4. CountsOK'
        BY <1>1, <2>4, PlacesTyped DEF Ranges, CountsOK
      <3> QED BY <1>1, <2>1, <2>2, <3>1, <3>2, <3>3, <3>4 DEF Ranges
    <2> QED BY <2>3, <2>4
  <1>2. CASE Flush
    <2>1. GivenOK' /\ faults' \in 0 .. MaxFaults
      BY <1>2, UntouchedRanges DEF Flush, Ranges, CountsOK
    <2>2. /\ pcache.block \in Block /\ disk' = Programmed(pcache.buffer)
          /\ pc = "flush" /\ UNCHANGED <<call, wr, calls>>
          /\ IF call.validate
             THEN /\ rcache' = Dropped(rcache) /\ stale' = {}
                  /\ pc' = "compare" /\ rd' = Comparing(0)
                  /\ UNCHANGED <<pcache, failed>>
             ELSE /\ pcache' = Zeroed(pcache) /\ pc' = call.then /\ failed' = FALSE
                  /\ stale' = stale \cup (UnitPlaces \cap PlacesOf(rcache))
                  /\ UNCHANGED <<rcache, rd>>
      BY <1>2 DEF Flush
    <2> QED BY <1>0, <1>1, <2>1, <2>2
  <1>3. CASE FlushGarbled
    <2>1. PICK o \in pcache.off .. pcache.off + Unit - 1, b \in Byte :
            disk' = Programmed([pcache.buffer EXCEPT ![o - pcache.off] = b])
      BY <1>3 DEF FlushGarbled
    <2>2. [pcache.buffer EXCEPT ![o - pcache.off] = b] \in Buffers
      BY <1>0 DEF Buffers
    <2>3. faults' \in 0 .. MaxFaults
      BY <1>3, BdCacheAssumption DEF FlushGarbled, Fault, Ranges, CountsOK
    <2>4. GivenOK'
      <3>1. CASE call.validate
        BY <1>3, <3>1, UntouchedRanges DEF FlushGarbled
      <3>2. CASE ~call.validate
        BY <1>3, <3>2, LostTyped DEF FlushGarbled, Ranges, GivenOK
      <3> QED BY <3>1, <3>2
    <2>5. /\ pcache.block \in Block /\ pc = "flush" /\ UNCHANGED <<call, wr, calls>>
          /\ IF call.validate
             THEN /\ rcache' = Dropped(rcache) /\ stale' = {}
                  /\ pc' = "compare" /\ rd' = Comparing(0)
                  /\ UNCHANGED <<pcache, failed>>
             ELSE /\ pcache' = Zeroed(pcache) /\ pc' = call.then /\ failed' = FALSE
                  /\ stale' = stale \cup (UnitPlaces \cap PlacesOf(rcache))
                  /\ UNCHANGED <<rcache, rd>>
      BY <1>3 DEF FlushGarbled
    <2> QED BY <1>1, <2>1, <2>2, <2>3, <2>4, <2>5
  <1>4. CASE FlushRefused
    <2>1. pcache.block \in Block /\ Fail("io") /\ Fault("refused")
          /\ UNCHANGED <<rcache, pcache, calls>>
      BY <1>4 DEF FlushRefused
    <2>2. DiskOK'
      BY <1>0, <1>4, <2>1, ProgrammedTyped DEF FlushRefused, Ranges, DiskOK
    <2>3. ReadOK' /\ WriteOK' /\ CallOK' /\ PcOK' /\ GivenOK' /\ failed' \in BOOLEAN
      BY <2>1, FailTyped DEF Ranges, CountsOK
    <2>4. faults' \in 0 .. MaxFaults
      BY <2>1, BdCacheAssumption DEF Fault, Ranges, CountsOK
    <2>5. stale' \subseteq Place
      BY <1>4, PlacesTyped DEF FlushRefused, Ranges, CountsOK
    <2>6. RcacheOK' /\ PcacheOK'
      BY <2>1, UntouchedRanges
    <2> QED BY <2>1, <2>2, <2>3, <2>4, <2>5, <2>6 DEF Ranges, CountsOK
  <1>5. CASE FlushNothing
    <2>1. PcOK'
      BY <1>5 DEF FlushNothing, Ranges, PcOK, CallOK
    <2> QED BY <1>5, <2>1, UntouchedRanges DEF FlushNothing, hist, Ranges
  <1>6. CASE Compared
    <2>1. UNCHANGED <<faults, disk, rcache, call, wr, given, stale, calls>>
      BY <1>6 DEF Compared
    <2>2. rd.off - pcache.off \in Nat /\ pcache.block \in Block
      BY <1>6, SizesArePositive, UnitFits DEF Compared, Ranges, PcOK, ReadOK
    <2>3. CASE rd.off - pcache.off < Unit
      <3>1. /\ rd' = Comparing(rd.off - pcache.off) /\ UNCHANGED <<pcache, pc, failed>>
            /\ pc = "compare"
        BY <1>6, <2>3 DEF Compared
      <3>2. ReadOK' /\ rd'.off = pcache.off + (rd.off - pcache.off)
        BY <2>2, <2>3, <3>1, ComparingTyped DEF Ranges
      <3>3. PcOK'
        BY <2>2, <3>1, <3>2, UnitFits DEF Ranges, PcOK
      <3> QED BY <2>1, <3>1, <3>2, <3>3, UntouchedRanges DEF Ranges
    <2>4. CASE ~(rd.off - pcache.off < Unit)
      <3>1. /\ pcache' = Zeroed(pcache) /\ pc' = call.then
            /\ failed' = FALSE /\ UNCHANGED rd
        BY <1>6, <2>4 DEF Compared
      <3>2. PcacheOK'
        BY <3>1, ZeroedTyped DEF PcacheOK, CacheType
      <3>3. PcOK'
        BY <3>1 DEF Ranges, PcOK, CallOK
      <3>4. CountsOK'
        BY <2>1, <3>1 DEF Ranges, CountsOK
      <3> QED BY <2>1, <3>1, <3>2, <3>3, <3>4, UntouchedRanges DEF Ranges
    <2> QED BY <2>3, <2>4
  <1>7. CASE ComparedUnequal
    <2>1. Fail("corrupt") /\ UNCHANGED <<faults, disk, rcache, pcache, stale, calls>>
      BY <1>7 DEF ComparedUnequal
    <2>2. ReadOK' /\ WriteOK' /\ CallOK' /\ PcOK' /\ GivenOK' /\ failed' \in BOOLEAN
      BY <2>1, FailTyped DEF Ranges, CountsOK
    <2>3. CountsOK'
      BY <2>1, <2>2 DEF Ranges, CountsOK
    <2> QED BY <2>1, <2>2, <2>3, UntouchedRanges DEF Ranges
  <1>8. CASE SyncDevice
    <2>1. UNCHANGED <<disk, rcache, pcache, stale, calls>>
      BY <1>8 DEF SyncDevice
    <2>2. CASE Return("ok") /\ UNCHANGED <<given, failed, faults>>
      BY <2>1, <2>2, ReturnTyped, UntouchedRanges DEF Ranges
    <2>3. CASE Fault("unsynced") /\ Fail("io")
      <3>1. ReadOK' /\ WriteOK' /\ CallOK' /\ PcOK' /\ GivenOK' /\ failed' \in BOOLEAN
        BY <2>3, FailTyped DEF Ranges, CountsOK
      <3>2. CountsOK'
        BY <2>1, <2>3, <3>1, BdCacheAssumption DEF Fault, Ranges, CountsOK
      <3> QED BY <2>1, <3>1, <3>2, UntouchedRanges DEF Ranges
    <2> QED BY <1>8, <2>2, <2>3 DEF SyncDevice
  <1>9. CASE FlushReturns
    BY <1>9, ReturnTyped, UntouchedRanges DEF FlushReturns, hist, Ranges
  <1> QED BY <1>2, <1>3, <1>4, <1>5, <1>6, <1>7, <1>8, <1>9

(* What one turn of the loop of lfs_bd_prog copies.                        *)
CopyAt   == wr.off - pcache.off
CopySize == lfs_min(Len(wr.data), Room)
CopyHere == wr.off .. wr.off + CopySize - 1

(* Where a copy into pcache begins and ends.                               *)
LEMMA CopyBounds ==
  ASSUME TypeInv, ProgCopy
  PROVE  /\ CopyAt \in 0 .. CacheSize - 1 /\ CopySize \in Nat /\ CopySize >= 1
         /\ CopySize <= Len(wr.data) /\ CopyAt + CopySize <= CacheSize
         /\ CopySize < Len(wr.data) => CopyAt + CopySize = CacheSize
         /\ wr.off + CopySize <= BlockSize /\ wr.off \in Nat /\ Len(wr.data) \in Nat
         /\ pcache.off \in Nat /\ pcache.size \in 0 .. CacheSize
         /\ wr.off = pcache.off + CopyAt
         /\ wr.block = pcache.block /\ pcache.block \in Block
         /\ wr.off + Len(wr.data) <= BlockSize
  <1>1. wr.data \in Seq(Byte) /\ wr.data # <<>> /\ wr.off \in Nat
        /\ wr.off + Len(wr.data) <= BlockSize
    BY DEF ProgCopy, TypeInv, Shape, IsWrite, Ranges, WriteOK
  <1>2. Len(wr.data) \in Nat /\ Len(wr.data) >= 1
    BY <1>1
  <1>3. /\ pcache.off <= wr.off /\ wr.off < pcache.off + CacheSize
        /\ wr.block = pcache.block
    BY DEF ProgCopy, FitsPcache
  <1>4. wr.block \in Block
    BY DEF TypeInv, Ranges, WriteOK
  <1>5. pcache.off \in Nat /\ pcache.size \in 0 .. CacheSize
    BY UnitFits DEF TypeInv, Ranges
  <1>6. /\ CopyAt \in 0 .. CacheSize - 1 /\ wr.off = pcache.off + CopyAt
        /\ Room = CacheSize - CopyAt /\ Room \in Nat /\ Room >= 1
    BY <1>1, <1>3, <1>5, SizesArePositive DEF CopyAt, Room
  <1>7. /\ CopySize \in Nat /\ CopySize >= 1 /\ CopySize <= Len(wr.data)
        /\ CopySize <= Room
        /\ CopySize < Len(wr.data) => CopySize = Room
    BY <1>2, <1>6 DEF CopySize, lfs_min
  <1>8. /\ CopyAt + CopySize <= CacheSize
        /\ CopySize < Len(wr.data) => CopyAt + CopySize = CacheSize
    BY <1>6, <1>7, SizesArePositive
  <1>9. wr.off + CopySize <= BlockSize
    BY <1>1, <1>2, <1>7, SizesArePositive
  <1> QED BY <1>1, <1>2, <1>3, <1>4, <1>5, <1>6, <1>7, <1>8, <1>9

(* What a copy into pcache changes.                                        *)
LEMMA CopyIs ==
  ASSUME TypeInv, ProgCopy
  PROVE  /\ pcache' = [pcache EXCEPT
              !.size = lfs_max(pcache.size, CopyAt + CopySize),
              !.buffer = [i \in DOMAIN @ |->
                            IF i \in CopyAt .. CopyAt + CopySize - 1
                            THEN wr.data[i - CopyAt + 1] ELSE @[i]]]
         /\ wr' = [wr EXCEPT !.off = @ + CopySize,
                       !.data = SubSeq(@, CopySize + 1, Len(@))]
         /\ given' = [given EXCEPT ![wr.block] =
              [o \in CopyHere \cup DOMAIN @ |->
                IF o \in CopyHere THEN wr.data[o - wr.off + 1] ELSE @[o]]]
         /\ pc' = IF lfs_max(pcache.size, CopyAt + CopySize) = CacheSize
                  THEN "flush" ELSE pc
         /\ pc = "prog"
         /\ UNCHANGED <<faults, disk, rcache, call, rd, result, stale, failed, calls>>
  BY DEF ProgCopy, CopyAt, CopySize, CopyHere

(* Its effect, field by field.                                             *)
LEMMA CopyEffect ==
  ASSUME TypeInv, ProgCopy
  PROVE  /\ pcache'.block = pcache.block /\ pcache'.off = pcache.off
         /\ pcache'.size = lfs_max(pcache.size, CopyAt + CopySize)
         /\ pcache' = Cache(pcache'.block, pcache'.off, pcache'.size, pcache'.buffer)
         /\ pcache'.buffer = [i \in 0 .. CacheSize - 1 |->
                                IF i \in CopyAt .. CopyAt + CopySize - 1
                                THEN wr.data[i - CopyAt + 1] ELSE pcache.buffer[i]]
         /\ wr'.block = wr.block /\ wr'.off = wr.off + CopySize
         /\ wr'.data = SubSeq(wr.data, CopySize + 1, Len(wr.data))
         /\ given' = [b \in Block |-> given'[b]]
         /\ \A b \in Block : b # wr.block => given'[b] = given[b]
         /\ given'[wr.block] =
              [o \in CopyHere \cup DOMAIN given[wr.block] |->
                IF o \in CopyHere THEN wr.data[o - wr.off + 1] ELSE given[wr.block][o]]
  <1>0. pcache = Cache(pcache.block, pcache.off, pcache.size, pcache.buffer)
        /\ DOMAIN pcache.buffer = 0 .. CacheSize - 1
    BY DEF TypeInv, Ranges, PcacheOK, CacheType
  <1> DEFINE buf == [i \in 0 .. CacheSize - 1 |->
                                IF i \in CopyAt .. CopyAt + CopySize - 1
                                THEN wr.data[i - CopyAt + 1] ELSE pcache.buffer[i]]
  <1>1. pcache' = Cache(pcache.block, pcache.off,
                        lfs_max(pcache.size, CopyAt + CopySize), buf)
    <2>1. pcache' = [pcache EXCEPT
              !.size = lfs_max(pcache.size, CopyAt + CopySize),
              !.buffer = buf]
      BY <1>0, CopyIs
    <2> HIDE DEF buf
    <2> QED BY <1>0, <2>1 DEF Cache
  <1> HIDE DEF buf
  <1>2. /\ pcache'.block = pcache.block /\ pcache'.off = pcache.off
        /\ pcache'.size = lfs_max(pcache.size, CopyAt + CopySize)
        /\ pcache'.buffer = buf
    BY <1>1 DEF Cache
  <1>3. wr' = [block |-> wr.block, off |-> wr.off + CopySize,
               data |-> SubSeq(wr.data, CopySize + 1, Len(wr.data))]
    BY CopyIs DEF TypeInv, Shape, IsWrite
  <1>4. given = [b \in Block |-> given[b]] /\ wr.block \in Block
    BY DEF TypeInv, Ranges, GivenOK, WriteOK
  <1>5. /\ given' = [b \in Block |-> given'[b]]
        /\ \A b \in Block : b # wr.block => given'[b] = given[b]
        /\ given'[wr.block] =
              [o \in CopyHere \cup DOMAIN given[wr.block] |->
                IF o \in CopyHere THEN wr.data[o - wr.off + 1] ELSE given[wr.block][o]]
    BY <1>4, CopyIs
  <1> QED BY <1>1, <1>2, <1>3, <1>5 DEF buf

(* Data that is left means that pcache is full.                            *)
LEMMA CopyRest ==
  ASSUME TypeInv, ProgCopy
  PROVE  /\ wr'.data \in Seq(Byte) /\ Len(wr'.data) = Len(wr.data) - CopySize
         /\ wr'.data # <<>> => CopyAt + CopySize = CacheSize
  <1>1. wr.data \in Seq(Byte)
    BY DEF TypeInv, Shape, IsWrite
  <1>2. wr'.data = SubSeq(wr.data, CopySize + 1, Len(wr.data))
    BY CopyEffect
  <1>3. CopySize \in Nat /\ CopySize <= Len(wr.data) /\ Len(wr.data) \in Nat
    BY CopyBounds
  <1>4. wr'.data \in Seq(Byte) /\ Len(wr'.data) = Len(wr.data) - CopySize
    BY <1>1, <1>2, <1>3
  <1>5. wr'.data # <<>> => Len(wr'.data) # 0
    BY <1>4
  <1> QED BY <1>3, <1>4, <1>5, CopyBounds

(* A copy into pcache stays within the buffer.                             *)
LEMMA CopyRanges ==
  ASSUME TypeInv, ProgCopy
  PROVE  Ranges'
  <1>0. Ranges
    BY DEF TypeInv
  <1>1. PcacheOK'
    <2>1. pcache'.buffer \in Buffers
      <3>1. ASSUME NEW i \in CopyAt .. CopyAt + CopySize - 1
            PROVE  wr.data[i - CopyAt + 1] \in Byte
        <4>1. i - CopyAt + 1 \in 1 .. Len(wr.data)
          BY CopyBounds
        <4>2. wr.data \in Seq(Byte)
          BY DEF TypeInv, Shape, IsWrite
        <4> QED BY <4>1, <4>2
      <3>2. pcache.buffer \in Buffers
        BY <1>0 DEF Ranges, PcacheOK, CacheType, Buffers
      <3>3. pcache'.buffer = [i \in 0 .. CacheSize - 1 |->
                                IF i \in CopyAt .. CopyAt + CopySize - 1
                                THEN wr.data[i - CopyAt + 1] ELSE pcache.buffer[i]]
        BY CopyEffect
      <3> HIDE DEF CopyAt, CopySize
      <3> QED BY <3>1, <3>2, <3>3 DEF Buffers
    <2>2. /\ pcache'.size \in 0 .. CacheSize
          /\ pcache'.off + pcache'.size <= BlockSize
      <3>1. pcache.off + pcache.size <= BlockSize
        BY <1>0 DEF Ranges, PcacheOK, CacheType
      <3>2. /\ CopyAt \in Nat /\ CopySize \in Nat /\ CopyAt + CopySize <= CacheSize
            /\ pcache.off + (CopyAt + CopySize) <= BlockSize
            /\ pcache.size \in 0 .. CacheSize
        BY CopyBounds, SizesArePositive
      <3>3. /\ pcache'.size = lfs_max(pcache.size, CopyAt + CopySize)
            /\ pcache'.off = pcache.off
        BY CopyEffect
      <3> QED BY <3>1, <3>2, <3>3, SizesArePositive DEF lfs_max
    <2> QED BY <1>0, <2>1, <2>2, CopyEffect DEF Ranges, PcacheOK, CacheType, Buffers
  <1>2. WriteOK'
    <2>1. wr'.off + Len(wr'.data) = wr.off + Len(wr.data) /\ wr'.off \in Nat
      BY CopyBounds, CopyEffect, CopyRest
    <2> QED BY <1>0, <2>1, CopyEffect DEF Ranges, WriteOK
  <1>3. GivenOK'
    <2>1. CopyHere \subseteq Off
      <3>1. wr.off \in Nat /\ CopySize \in Nat /\ wr.off + CopySize <= BlockSize
        BY CopyBounds
      <3> QED BY <3>1, SizesArePositive DEF CopyHere, Off
    <2>2. wr.block \in Block
      BY CopyBounds
    <2> QED BY <1>0, <2>1, <2>2, CopyEffect DEF Ranges, GivenOK
  <1>4. PcOK'
    BY <1>0, CopyIs DEF Ranges, PcOK
  <1>5. DiskOK' /\ RcacheOK' /\ ReadOK' /\ CallOK' /\ CountsOK'
    BY <1>0, CopyIs, UntouchedRanges
  <1> QED BY <1>1, <1>2, <1>3, <1>4, <1>5 DEF Ranges

(* The loop of lfs_bd_prog keeps the ranges.                               *)
LEMMA ProgRanges ==
  ASSUME TypeInv, ProgCopy \/ ProgPrepare \/ ProgNotFlushed \/ ProgReturns
  PROVE  Ranges'
  <1>0. Ranges
    BY DEF TypeInv
  <1>1. CASE ProgCopy
    BY <1>1, CopyRanges
  <1>2. CASE ProgPrepare
    <2> DEFINE off == AlignDown(wr.off, ProgSize)
    <2>1. pcache' = Cache(wr.block, off, 0, pcache.buffer)
      <3>1. pcache = Cache(pcache.block, pcache.off, pcache.size, pcache.buffer)
        BY <1>0 DEF Ranges, PcacheOK, CacheType
      <3> QED BY <1>2, <3>1 DEF ProgPrepare, Cache
    <2>2. wr.off \in Nat /\ wr.off < BlockSize /\ wr.block \in Block
      <3>1. wr.data \in Seq(Byte) /\ wr.data # <<>> /\ wr.off \in Nat
            /\ wr.off + Len(wr.data) <= BlockSize /\ wr.block \in Block
        BY <1>2 DEF ProgPrepare, TypeInv, Shape, IsWrite, Ranges, WriteOK
      <3>2. Len(wr.data) \in Nat /\ Len(wr.data) >= 1
        BY <3>1
      <3> QED BY <3>1, <3>2, SizesArePositive
    <2>3. off \in Int /\ off >= 0 /\ off <= wr.off /\ off % ProgSize = 0
      <3>1. wr.off \in Int /\ wr.off >= 0 /\ ProgSize \in Nat \ {0}
        BY <2>2, SizesArePositive
      <3> QED BY <3>1, AlignedDown
    <2> HIDE DEF off
    <2>4. off \in Off /\ off + 0 <= BlockSize /\ 0 \in 0 .. CacheSize
      BY <2>2, <2>3, SizesArePositive DEF Off
    <2>5. PcacheOK'
      BY <1>0, <2>1, <2>2, <2>3, <2>4 DEF Ranges, PcacheOK, CacheType, Cache
    <2>6. PcOK'
      BY <1>0, <1>2 DEF ProgPrepare, Ranges, PcOK
    <2> QED BY <1>0, <1>2, <2>5, <2>6, UntouchedRanges DEF ProgPrepare, hist, Ranges
  <1>3. CASE ProgNotFlushed \/ ProgReturns
    BY <1>0, <1>3, ReturnTyped, UntouchedRanges
       DEF ProgNotFlushed, ProgReturns, hist, Ranges
  <1> QED BY <1>1, <1>2, <1>3

(* The callers.                                                            *)
LEMMA CallerRanges ==
  ASSUME TypeInv, Caller
  PROVE  Ranges'
  <1>0. Ranges
    BY DEF TypeInv
  <1>1. ASSUME NEW b \in Block \cup {NoBlock}, NEW o \in Off,
               NEW n \in Lengths \cup {BlockSize}, NEW hint \in Hints,
               NEW past \in BOOLEAN, CallRead(b, o, n, hint, past)
        PROVE  Ranges'
    <2>1. UNCHANGED <<disk, rcache, pcache, wr, stale, given, failed, calls, faults>>
      BY <1>1 DEF CallRead, hist
    <2>2. CASE b \notin Block \/ o + n > BlockSize
      BY <1>0, <1>1, <2>1, <2>2, UntouchedRanges DEF CallRead, Ranges
    <2>3. CASE ~(b \notin Block \/ o + n > BlockSize)
      <3>1. /\ pc' = "read" /\ rd' = Reading(b, o, n, hint, past)
            /\ Calling("read", FALSE, "idle")
        BY <1>1, <2>3 DEF CallRead
      <3>2. /\ o \in Int /\ o >= 0 /\ o < BlockSize /\ n \in Nat /\ hint \in Nat
            /\ b \in Block /\ o + n <= BlockSize
        BY <2>3, SizesArePositive DEF Off
      <3>3. ReadOK'
        BY <3>1, <3>2, SizesArePositive DEF Reading, ReadOK
      <3>4. CallOK' /\ PcOK'
        BY <3>1 DEF Calling, CallOK, PcOK
      <3> QED BY <1>0, <2>1, <3>3, <3>4, UntouchedRanges DEF Ranges
    <2> QED BY <2>2, <2>3
  <1>2. ASSUME NEW b \in Block, NEW o \in Off, NEW data \in Data,
               NEW validate \in BOOLEAN, CallProg(b, o, data, validate)
        PROVE  Ranges'
    <2>1. /\ UNCHANGED <<faults, disk, rcache, pcache, rd, stale, given, failed>>
          /\ calls' \in 0 .. MaxCalls
      BY <1>0, <1>2, BdCacheAssumption DEF CallProg, Ranges, CountsOK
    <2>0. CountsOK'
      BY <1>0, <2>1 DEF Ranges, CountsOK
    <2>2. CASE o + Len(data) > BlockSize
      BY <1>0, <1>2, <2>0, <2>1, <2>2, UntouchedRanges DEF CallProg, Ranges
    <2>3. CASE ~(o + Len(data) > BlockSize)
      <3>1. /\ Calling("prog", validate, "prog") /\ pc' = "prog"
            /\ wr' = [block |-> b, off |-> o, data |-> data]
        BY <1>2, <2>3 DEF CallProg
      <3>2. data \in Seq(Byte) /\ o \in Nat
        BY SizesArePositive DEF Data, Off
      <3>3. o + Len(data) <= BlockSize
        <4>1. Len(data) \in Nat
          BY <3>2
        <4> QED BY <2>3, <3>2, <4>1, SizesArePositive
      <3>4. WriteOK' /\ CallOK' /\ PcOK'
        BY <3>1, <3>2, <3>3 DEF WriteOK, Calling, CallOK, PcOK
      <3> QED BY <1>0, <2>0, <2>1, <3>4, UntouchedRanges DEF Ranges
    <2> QED BY <2>2, <2>3
  <1>3. ASSUME NEW validate \in BOOLEAN, CallFlush(validate)
        PROVE  Ranges'
    <2>1. CallOK' /\ PcOK'
      BY <1>3 DEF CallFlush, Calling, CallOK, PcOK
    <2> QED BY <1>0, <1>3, <2>1, UntouchedRanges DEF CallFlush, hist, Ranges
  <1>4. ASSUME NEW validate \in BOOLEAN, CallSync(validate)
        PROVE  Ranges'
    <2>1. CallOK' /\ PcOK'
      BY <1>4 DEF CallSync, Calling, CallOK, PcOK
    <2>2. RcacheOK' /\ CountsOK'
      BY <1>0, <1>4, DroppedTyped
         DEF CallSync, hist, Ranges, RcacheOK, CountsOK, CacheType
    <2> QED BY <1>0, <1>4, <2>1, <2>2, UntouchedRanges DEF CallSync, hist, Ranges
  <1>5. CASE GiveUp
    <2>1. PcacheOK' /\ PcOK' /\ CountsOK'
      BY <1>0, <1>5, DroppedTyped
         DEF GiveUp, Ranges, PcacheOK, PcOK, CountsOK, CacheType
    <2>2. GivenOK'
      BY <1>0, <1>5, LostTyped DEF GiveUp, Ranges, GivenOK
    <2> QED BY <1>0, <1>5, <2>1, <2>2, UntouchedRanges DEF GiveUp, Ranges
  <1>6. ASSUME NEW b \in Block, Erase(b)
        PROVE  Ranges'
    <2>1. GivenOK'
      BY <1>0, <1>6 DEF Erase, Ranges, GivenOK
    <2>2. CountsOK'
      BY <1>0, <1>6, BdCacheAssumption DEF Erase, Ranges, CountsOK
    <2> QED BY <1>0, <1>6, <2>1, <2>2, UntouchedRanges DEF Erase, Ranges, PcOK
  <1> QED BY <1>1, <1>2, <1>3, <1>4, <1>5, <1>6 DEF Caller

(* The variables begin in range.                                           *)
LEMMA RangesInit == Init => Ranges
  <1> SUFFICES ASSUME Init PROVE Ranges
    OBVIOUS
  <1>1. 0 \in Block /\ BlockSize \in Nat
    BY SizesArePositive DEF Block
  <1>2. DiskOK
    BY BdCacheAssumption DEF Init, DiskOK
  <1>3. RcacheOK /\ PcacheOK
    BY EmptyTyped, ZerosTyped DEF Init, RcacheOK, PcacheOK
  <1>4. ReadOK /\ WriteOK
    BY <1>1 DEF Init, ReadOK, WriteOK, NoRead, NoWrite
  <1>5. CallOK /\ PcOK /\ GivenOK
    BY DEF Init, CallOK, PcOK, GivenOK, NoCall
  <1>6. CountsOK
    <2>1. failed \in BOOLEAN /\ stale = {} /\ calls = 0 /\ faults = 0
      BY DEF Init
    <2>2. 0 \in 0 .. MaxCalls /\ 0 \in 0 .. MaxFaults
      BY BdCacheAssumption
    <2> QED BY <2>1, <2>2 DEF CountsOK
  <1> QED BY <1>2, <1>3, <1>4, <1>5, <1>6 DEF Ranges

(* Every step keeps them in range.                                         *)
LEMMA RangesStep == TypeInv /\ [Next]_vars => Ranges'
  <1>1. ASSUME TypeInv, Next PROVE Ranges'
    BY <1>1, LoopRanges, FlushRanges, ProgRanges, CallerRanges DEF Next, Step
  <1>2. ASSUME TypeInv, UNCHANGED vars PROVE Ranges'
    BY <1>2, UntouchedRanges DEF vars, TypeInv, Ranges
  <1> QED BY <1>1, <1>2

(* They are always in range.                                               *)
LEMMA RangesHold == Spec => []TypeInv
  <1>1. IInv /\ Ranges /\ [Next]_vars => Ranges'
    BY RangesStep DEF IInv, TypeInv
  <1>2. IInv /\ Ranges => TypeInv
    BY DEF IInv, TypeInv
  <1> QED BY <1>1, <1>2, CacheIsCoherent, RangesInit, PTL DEF Spec

(* The caches stay within their buffers and within a block, and every      *)
(* variable keeps its type: lfs_bd_read, lfs_bd_prog and lfs_bd_flush      *)
(* never copy past the end of a buffer.                                    *)
THEOREM TypeCorrect == Spec => []TypeOK
  <1>1. TypeInv => TypeOK
    BY RangesAreTypes DEF TypeInv
  <1> QED BY <1>1, RangesHold, PTL

------------------------------------------------------------------------------
(* What was programmed is kept.                                            *)

(* Nothing that callers count on lies at or beyond offset o of block b.    *)
Ahead(b, o) == \A q \in DOMAIN given[b] : q < o

(* Who is flushing, and what for.                                          *)
CallInv ==
  /\ pc \in {"compare", "flush", "prog"}
       => call.then \in {"prog", "flushed", "sync"}
  /\ pc \in {"compare", "flush", "flushed", "sync", "prog"} => call.op # "read"

(* A flush within lfs_bd_prog leaves the rest of the data right behind the *)
(* unit; and what is still to be programmed finds its place in pcache, or  *)
(* an empty pcache to start on a unit with nothing behind it.              *)
ProgInv ==
  /\ pc \in {"flush", "compare"} /\ call.then = "prog" =>
       /\ pcache.block \in Block
       /\ wr.data = <<>> \/ (wr.block = pcache.block
                             /\ wr.off = pcache.off + CacheSize)
  /\ pc = "prog" /\ wr.data # <<>> =>
       IF pcache.block = NoBlock
       THEN wr.off % ProgSize = 0 /\ Ahead(wr.block, wr.off)
       ELSE FitsPcache \/ failed

(* Nothing lies behind pcache in its block, and a full pcache is flushed   *)
(* unless an earlier flush has failed.                                     *)
PcacheInv ==
  pcache.block \in Block =>
    /\ Ahead(pcache.block, pcache.off + pcache.size)
    /\ pcache.size = CacheSize => failed \/ pc \in {"flush", "compare"}

(* The unit agrees with the device up to offset n.                         *)
Checked(n) ==
  \A q \in Off : pcache.off <= q /\ q < n /\ q < pcache.off + Unit
                   => disk[pcache.block][q] = ByteAt(pcache, q)

(* lfs_bd_cmp reads the device, byte by byte: rcache was dropped before.   *)
CompareInv ==
  pc = "compare" =>
    /\ stale = {} /\ rd.past = FALSE /\ rd.block = pcache.block
    /\ pcache.block \in Block /\ rd.left \in {0, 1}
    /\ rd.left = 1 => Checked(rd.off)
    /\ rd.left = 0 => /\ Checked(rd.off - 1)
                      /\ rd.got[1] = disk[rd.block][rd.off - 1]

KeptInv == CallInv /\ ProgInv /\ PcacheInv /\ CompareInv /\ ProgrammedIsKept

------------------------------------------------------------------------------
(* Between calls only pcache matters.                                      *)
LEMMA IdleKeeps ==
  ASSUME pc' = "idle"
  PROVE  CallInv' /\ ProgInv' /\ CompareInv'
  BY DEF CallInv, ProgInv, CompareInv

(* What callers count on only shrinks.                                     *)
Shrinks ==
  \A b \in Block :
    /\ DOMAIN given'[b] \subseteq DOMAIN given[b]
    /\ \A o \in DOMAIN given'[b] : given'[b][o] = given[b][o]

(* What a failed flush loses is no longer counted as programmed.           *)
LEMMA LostShrinks ==
  ASSUME TypeInv, pcache.block \in Block, given' = Lost
  PROVE  Shrinks
  <1>1. /\ \A b \in Block : b # pcache.block => Lost[b] = given[b]
        /\ Lost[pcache.block] = [o \in {q \in DOMAIN given[pcache.block] : q < pcache.off}
                                   |-> given[pcache.block][o]]
    BY LostTyped DEF TypeInv, Ranges
  <1>2. ASSUME NEW b \in Block, b = pcache.block
        PROVE  /\ DOMAIN given'[b] \subseteq DOMAIN given[b]
               /\ \A o \in DOMAIN given'[b] : given'[b][o] = given[b][o]
    BY <1>1, <1>2
  <1> QED BY <1>1, <1>2 DEF Shrinks

(* What remains counted lies before pcache.                                *)
LEMMA LostAhead ==
  ASSUME TypeInv, pcache.block \in Block, given' = Lost
  PROVE  \A q \in DOMAIN given'[pcache.block] : q < pcache.off
  BY LostTyped DEF TypeInv, Ranges

(* Steps that leave what is stored, and add nothing to what counts.        *)
LEMMA ShrunkIsKept ==
  ASSUME ProgrammedIsKept, Shrinks,
         \A b \in Block : \A o \in DOMAIN given'[b] :
           Stored(TRUE, b, o)' = Stored(TRUE, b, o)
  PROVE  ProgrammedIsKept'
  BY DEF ProgrammedIsKept, Shrinks

(* A step that leaves the device and pcache keeps what was programmed.     *)
LEMMA UntouchedIsKept ==
  ASSUME ProgrammedIsKept, UNCHANGED <<disk, pcache>>,
         Shrinks \/ UNCHANGED given
  PROVE  ProgrammedIsKept'
  BY DEF ProgrammedIsKept, Shrinks, Stored, Covers, ByteAt

(* A call that fails has lost what was in pcache.                          *)
LEMMA FailKeeps ==
  ASSUME TypeInv, KeptInv, NEW r, Fail(r), UNCHANGED pcache,
         \A b \in Block : \A o \in DOMAIN given'[b] :
           Stored(TRUE, b, o)' = Stored(TRUE, b, o)
  PROVE  KeptInv'
  <1>1. pc' = "idle"
    BY DEF Fail, Return
  <1>2. CASE call.op # "read" /\ pcache.block \in Block
    <2>1. given' = Lost /\ failed' = TRUE
      BY <1>2 DEF Fail
    <2>2. ProgrammedIsKept'
      BY <1>2, <2>1, LostShrinks, ShrunkIsKept DEF KeptInv
    <2>3. Ahead(pcache.block, pcache.off + pcache.size)'
      <3>1. pcache.off \in Nat /\ pcache.size \in Nat
        BY UnitFits, SizesArePositive DEF TypeInv, Ranges
      <3>2. ASSUME NEW q \in DOMAIN given'[pcache.block]
            PROVE  q < pcache.off + pcache.size
        <4>1. q < pcache.off /\ q \in DOMAIN given[pcache.block]
          BY <1>2, <2>1, LostAhead, LostTyped DEF TypeInv, Ranges
        <4>2. q \in Int
          BY <1>2, <4>1, SizesArePositive DEF TypeInv, Ranges, GivenOK, Off
        <4> QED BY <3>1, <4>1, <4>2
      <3> QED BY <3>2 DEF Ahead
    <2>4. PcacheInv'
      BY <2>1, <2>3 DEF PcacheInv
    <2> QED BY <1>1, <2>2, <2>4, IdleKeeps DEF KeptInv
  <1>3. CASE ~(call.op # "read" /\ pcache.block \in Block)
    <2>1. UNCHANGED <<failed, given>>
      BY <1>3 DEF Fail
    <2>2. ProgrammedIsKept'
      BY <2>1 DEF KeptInv, ProgrammedIsKept
    <2>3. PcacheInv'
      BY <1>1, <1>3, <2>1 DEF KeptInv, PcacheInv, CallInv, Ahead
    <2> QED BY <1>1, <2>2, <2>3, IdleKeeps DEF KeptInv
  <1> QED BY <1>2, <1>3

(* A call that returns otherwise changes nothing.                          *)
LEMMA ReturnKeepsAll ==
  ASSUME TypeInv, KeptInv, NEW r, Return(r), pc \notin {"flush", "compare"},
         UNCHANGED <<disk, pcache, given, failed>>
  PROVE  KeptInv'
  <1>1. pc' = "idle"
    BY DEF Return
  <1>2. PcacheInv'
    BY DEF KeptInv, PcacheInv, Ahead
  <1> QED BY <1>1, <1>2, IdleKeeps, UntouchedIsKept DEF KeptInv

(* Reading the byte to compare.                                            *)
LEMMA CompareTurn ==
  ASSUME TypeInv, IInv, KeptInv, pc = "compare", [Next]_vars,
         ReadPcache \/ ReadRcache \/ ReadDirectly
  PROVE  CompareInv'
  <1>0. /\ stale = {} /\ rd.past = FALSE /\ rd.block = pcache.block
        /\ pcache.block \in Block /\ rd.left \in {0, 1}
        /\ rd.left = 1 => Checked(rd.off)
    BY DEF KeptInv, CompareInv
  <1>1. Loop /\ UNCHANGED <<stale, pcache, disk, pc>>
    BY DEF ReadPcache, ReadRcache, ReadDirectly, Same
  <1>2. rd.left = 1 /\ rd.off \in Nat /\ rd.off < BlockSize /\ rd.off \in Off
    BY <1>0, <1>1, TurnBounds, SizesArePositive DEF Loop, Off
  <1>3. /\ rd'.off = rd.off + 1 /\ rd'.left = 0 /\ rd'.block = rd.block
        /\ rd'.past = rd.past /\ Len(rd'.got) = 1
    <2>1. PICK n \in 0 .. rd.left :
             /\ rd'.off = rd.off + n /\ rd'.left = rd.left - n
             /\ rd'.block = rd.block /\ rd'.past = rd.past /\ Len(rd'.got) = n
             /\ rd.left = 1 => n = 1
      BY TurnTakes
    <2>2. n = 1
      BY <1>2, <2>1
    <2> QED BY <1>2, <2>1, <2>2
  <1>4. rd.off + 1 - 1 = rd.off /\ rd'.off - 1 = rd.off /\ rd'.off > rd.off
    BY <1>2, <1>3
  <1>5. Takes
    BY <1>4, StepReadsCurrent
  <1>6. 1 \in 1 .. Len(rd'.got)
    BY <1>3
  <1>7. <<rd.block, rd.off + 1 - 1>> \in Place \ stale
    BY <1>0, <1>2, <1>4 DEF Place
  <1>8. rd'.got[1] = Stored(rd.past, rd.block, rd.off + 1 - 1)
    BY <1>5, <1>6, <1>7 DEF Takes
  <1>9. rd'.got[1] = disk[rd.block][rd.off]
    BY <1>0, <1>4, <1>8 DEF Stored
  <1>10. Checked(rd.off - 1)'
    <2>1. Checked(rd.off)
      BY <1>0, <1>2
    <2>2. ASSUME NEW q \in Off, pcache.off <= q, q < rd'.off - 1, q < pcache.off + Unit
          PROVE  disk[pcache.block][q] = ByteAt(pcache, q)
      BY <1>4, <2>1, <2>2 DEF Checked
    <2> QED BY <1>1, <2>2 DEF Checked, Unit, ByteAt
  <1> QED BY <1>0, <1>1, <1>3, <1>4, <1>9, <1>10 DEF CompareInv

(* The turns of the loop of lfs_bd_read.                                   *)
LEMMA LoopKept ==
  ASSUME TypeInv, IInv, KeptInv, [Next]_vars,
         ReadPcache \/ ReadRcache \/ ReadDirectly \/ LoadRcache \/ LoadFails
           \/ ReadReturns
  PROVE  KeptInv'
  <1>1. ASSUME UNCHANGED <<disk, pcache, pc, call, wr, given, failed>>, CompareInv'
        PROVE  KeptInv'
    <2>1. CallInv' /\ ProgInv' /\ PcacheInv'
      BY <1>1 DEF KeptInv, CallInv, ProgInv, PcacheInv, Ahead, FitsPcache
    <2> QED BY <1>1, <2>1, UntouchedIsKept DEF KeptInv
  <1>2. CASE ReadPcache \/ ReadRcache \/ ReadDirectly
    <2>1. UNCHANGED <<disk, pcache, pc, call, wr, given, failed>>
      BY <1>2 DEF ReadPcache, ReadRcache, ReadDirectly, Same, hist
    <2>2. CompareInv'
      <3>1. CASE pc = "compare"
        BY <1>2, <3>1, CompareTurn
      <3>2. CASE pc # "compare"
        BY <2>1, <3>2 DEF CompareInv
      <3> QED BY <3>1, <3>2
    <2> QED BY <1>1, <2>1, <2>2
  <1>3. CASE LoadRcache
    <2>1. UNCHANGED <<disk, pcache, pc, call, wr, given, failed, rd>> /\ stale' = {}
      BY <1>3 DEF LoadRcache, Same, hist
    <2>2. CompareInv'
      BY <2>1 DEF KeptInv, CompareInv, Checked, Unit, ByteAt
    <2> QED BY <1>1, <2>1, <2>2
  <1>4. CASE LoadFails
    <2>1. Fail("io") /\ UNCHANGED <<disk, pcache>>
      BY <1>4 DEF LoadFails
    <2>2. \A b \in Block : \A o \in DOMAIN given'[b] :
            Stored(TRUE, b, o)' = Stored(TRUE, b, o)
      BY <2>1 DEF Stored, Covers, ByteAt
    <2> QED BY <2>1, <2>2, FailKeeps
  <1>5. CASE ReadReturns
    BY <1>5, ReturnKeepsAll DEF ReadReturns, hist
  <1> QED BY <1>2, <1>3, <1>4, <1>5

(* What callers count on is not in the part of a unit behind pcache.       *)
LEMMA BehindPcache ==
  ASSUME TypeInv, PcacheInv, pcache.block \in Block,
         NEW b \in Block, NEW o \in DOMAIN given[b], ~Covers(pcache, b, o)
  PROVE  o \in Off /\ <<b, o>> \notin UnitPlaces
  <1>1. o \in Off
    BY DEF TypeInv, Ranges, GivenOK
  <1>2. CASE b = pcache.block
    <2>1. o < pcache.off + pcache.size
      BY <1>2 DEF PcacheInv, Ahead
    <2>2. o < pcache.off
      BY <1>1, <1>2, <2>1, UnitFits, SizesArePositive
         DEF Covers, TypeInv, Ranges, Off
    <2> QED BY <1>1, <2>2, UnitFits, SizesArePositive
            DEF UnitPlaces, TypeInv, Ranges, Off
  <1>3. CASE b # pcache.block
    BY <1>1, <1>3 DEF UnitPlaces
  <1> QED BY <1>2, <1>3

(* The bytes of a unit that was programmed.                                *)
LEMMA ProgrammedBytes ==
  ASSUME TypeInv, pcache.block \in Block, NEW data,
         NEW o \in Off, Covers(pcache, pcache.block, o)
  PROVE  Programmed(data)[pcache.block][o] = data[o - pcache.off]
  <1>1. pcache.off <= o /\ o < pcache.off + Unit
    <2>1. /\ pcache.off \in Int /\ pcache.size \in Int /\ Unit \in Int
          /\ pcache.size <= Unit
      BY UnitFits, SizesArePositive DEF TypeInv, Ranges
    <2> QED BY <2>1, SizesArePositive DEF Covers, Off
  <1> QED BY <1>1 DEF Programmed, TypeInv, Shape

(* The device now holds the unit: pcache is not needed any more.           *)
LEMMA FlushedIsKept ==
  ASSUME TypeInv, KeptInv, pcache.block \in Block,
         disk' = Programmed(pcache.buffer), pcache' = Zeroed(pcache), UNCHANGED given
  PROVE  ProgrammedIsKept'
  <1> SUFFICES ASSUME NEW b \in Block, NEW o \in DOMAIN given[b]
               PROVE  Stored(TRUE, b, o)' = given[b][o]
    BY DEF ProgrammedIsKept
  <1>1. o \in Off
    BY DEF TypeInv, Ranges, GivenOK
  <1>2. ~Covers(pcache', b, o)
    BY ZeroedTyped, NoBlockIsNone DEF Covers
  <1>3. Stored(TRUE, b, o)' = disk'[b][o]
    BY <1>2 DEF Stored
  <1>4. Stored(TRUE, b, o) = given[b][o]
    BY DEF KeptInv, ProgrammedIsKept
  <1>5. CASE Covers(pcache, b, o)
    <2>1. b = pcache.block
      BY <1>5 DEF Covers
    <2>2. disk'[b][o] = ByteAt(pcache, o)
      BY <1>1, <1>5, <2>1, ProgrammedBytes DEF ByteAt
    <2> QED BY <1>3, <1>4, <1>5, <2>2 DEF Stored
  <1>6. CASE ~Covers(pcache, b, o)
    <2>1. disk'[b][o] = disk[b][o]
      BY <1>6, BehindPcache, ProgrammedElsewhere DEF KeptInv, TypeInv
    <2> QED BY <1>3, <1>4, <1>6, <2>1 DEF Stored
  <1> QED BY <1>5, <1>6

(* What went wrong without notice was in the unit, and pcache has it.      *)
LEMMA PendingIsKept ==
  ASSUME TypeInv, KeptInv, pcache.block \in Block, NEW data,
         disk' = Programmed(data), UNCHANGED pcache
  PROVE  \A b \in Block : \A o \in DOMAIN given[b] :
           Stored(TRUE, b, o)' = Stored(TRUE, b, o)
  <1> SUFFICES ASSUME NEW b \in Block, NEW o \in DOMAIN given[b]
               PROVE  Stored(TRUE, b, o)' = Stored(TRUE, b, o)
    OBVIOUS
  <1>1. CASE Covers(pcache, b, o)
    BY <1>1 DEF Stored, Covers, ByteAt
  <1>2. CASE ~Covers(pcache, b, o)
    <2>1. o \in Off /\ <<b, o>> \notin UnitPlaces /\ Shape
      BY <1>2, BehindPcache DEF KeptInv, TypeInv
    <2>2. disk'[b][o] = disk[b][o]
      BY <2>1, ProgrammedElsewhere
    <2> QED BY <1>2, <2>2 DEF Stored, Covers
  <1> QED BY <1>1, <1>2

(* A caller who learns of the failure gives up the unit.                   *)
LEMMA GivenUpIsKept ==
  ASSUME TypeInv, KeptInv, pcache.block \in Block, NEW data,
         disk' = disk \/ disk' = Programmed(data), given' = Lost,
         pcache'.block = NoBlock
  PROVE  ProgrammedIsKept'
  <1> SUFFICES ASSUME NEW b \in Block, NEW o \in DOMAIN given'[b]
               PROVE  Stored(TRUE, b, o)' = given'[b][o]
    BY DEF ProgrammedIsKept
  <1>1. given'[b][o] = given[b][o] /\ o \in DOMAIN given[b]
    BY LostShrinks DEF Shrinks
  <1>2. Stored(TRUE, b, o)' = disk'[b][o]
    BY NoBlockIsNone DEF Stored, Covers
  <1>3. ~Covers(pcache, b, o)
    <2>1. o \in Off
      BY <1>1 DEF TypeInv, Ranges, GivenOK
    <2>2. b = pcache.block => o < pcache.off
      BY LostAhead
    <2> QED BY <2>1, <2>2, UnitFits, SizesArePositive
            DEF Covers, Off, TypeInv, Ranges
  <1>4. disk'[b][o] = disk[b][o]
    <2>1. o \in Off /\ <<b, o>> \notin UnitPlaces /\ Shape
      BY <1>1, <1>3, BehindPcache DEF KeptInv, TypeInv
    <2>2. Programmed(data)[b][o] = disk[b][o]
      BY <2>1, ProgrammedElsewhere
    <2> QED BY <2>2
  <1>5. disk[b][o] = given[b][o]
    BY <1>1, <1>3 DEF KeptInv, ProgrammedIsKept, Stored
  <1> QED BY <1>1, <1>2, <1>4, <1>5

(* What follows a flush: the rest of the data starts on a unit.            *)
LEMMA FlushedProceeds ==
  ASSUME TypeInv, KeptInv, pc \in {"flush", "compare"}, pcache.block \in Block,
         pcache' = Zeroed(pcache), pc' = call.then, UNCHANGED <<call, wr>>,
         UNCHANGED given \/ given' = Lost
  PROVE  CallInv' /\ ProgInv' /\ PcacheInv' /\ CompareInv'
  <1>1. call.then \in {"prog", "flushed", "sync"} /\ call.op # "read"
    BY DEF KeptInv, CallInv
  <1>2. pcache'.block = NoBlock
    BY ZeroedTyped
  <1>3. CallInv' /\ CompareInv' /\ PcacheInv'
    BY <1>1, <1>2, NoBlockIsNone DEF CallInv, CompareInv, PcacheInv
  <1>4. ASSUME call.then = "prog", wr.data # <<>>
        PROVE  wr.off % ProgSize = 0 /\ \A q \in DOMAIN given'[wr.block] : q < wr.off
    <2>1. wr.block = pcache.block /\ wr.off = pcache.off + CacheSize
      BY <1>4 DEF KeptInv, ProgInv
    <2>2. /\ pcache.off \in Int /\ pcache.off % ProgSize = 0
          /\ pcache.size \in 0 .. CacheSize /\ CacheSize \in Int
          /\ ProgSize \in Nat \ {0}
      BY UnitFits, SizesArePositive DEF TypeInv, Ranges, PcacheOK
    <2>3. wr.off % ProgSize = 0
      <3>1. CacheSize % ProgSize = 0
        BY BlockIsUnits
      <3>2. (pcache.off + CacheSize) % ProgSize = 0
        BY <2>2, <3>1, SumMod
      <3> QED BY <2>1, <3>2
    <2>4. DOMAIN given'[wr.block] \subseteq DOMAIN given[wr.block]
      BY <2>1, LostShrinks DEF Shrinks
    <2>5. ASSUME NEW q \in DOMAIN given[pcache.block] PROVE q < wr.off
      <3>1. q < pcache.off + pcache.size
        BY DEF KeptInv, PcacheInv, Ahead
      <3>2. q \in Int
        BY SizesArePositive DEF TypeInv, Ranges, GivenOK, Off
      <3> QED BY <2>1, <2>2, <3>1, <3>2
    <2> QED BY <2>1, <2>3, <2>4, <2>5
  <1>5. ProgInv'
    BY <1>1, <1>2, <1>4 DEF ProgInv, Ahead
  <1> QED BY <1>3, <1>5

(* lfs_bd_cmp starts on what was just programmed.                          *)
LEMMA CompareStarts ==
  ASSUME TypeInv, KeptInv, pc = "flush", pcache.block \in Block, NEW data,
         disk' = Programmed(data), UNCHANGED <<call, wr, pcache, given, failed>>,
         stale' = {}, pc' = "compare", rd' = Comparing(0)
  PROVE  KeptInv'
  <1>1. CallInv' /\ ProgInv' /\ PcacheInv'
    BY DEF KeptInv, CallInv, ProgInv, PcacheInv, Ahead
  <1>2. CompareInv'
    <2>1. /\ rd'.off = pcache.off + 0 /\ rd'.left = 1
          /\ rd'.block = pcache.block /\ rd'.past = FALSE
      BY ComparingTyped DEF TypeInv, Ranges
    <2>2. pcache.off \in Int /\ rd'.off = pcache.off
      BY <2>1, UnitFits, SizesArePositive DEF TypeInv, Ranges
    <2>3. Checked(rd.off)'
      BY <2>2, SizesArePositive DEF Checked, Off
    <2> QED BY <2>1, <2>3 DEF CompareInv
  <1>3. ProgrammedIsKept'
    <2>1. \A b \in Block : \A o \in DOMAIN given[b] :
            Stored(TRUE, b, o)' = Stored(TRUE, b, o)
      BY PendingIsKept
    <2> QED BY <2>1 DEF KeptInv, ProgrammedIsKept
  <1> QED BY <1>1, <1>2, <1>3 DEF KeptInv

(* lfs_bd_flush.                                                           *)
LEMMA FlushKept ==
  ASSUME TypeInv, KeptInv,
         Flush \/ FlushGarbled \/ FlushRefused \/ FlushNothing
  PROVE  KeptInv'
  <1>1. CASE Flush
    <2>1. /\ pc = "flush" /\ pcache.block \in Block
          /\ disk' = Programmed(pcache.buffer) /\ UNCHANGED <<call, wr, given>>
      BY <1>1 DEF Flush
    <2>2. CASE call.validate
      BY <1>1, <2>1, <2>2, CompareStarts DEF Flush
    <2>3. CASE ~call.validate
      <3>1. pcache' = Zeroed(pcache) /\ pc' = call.then
        BY <1>1, <2>3 DEF Flush
      <3> QED BY <2>1, <3>1, FlushedProceeds, FlushedIsKept DEF KeptInv
    <2> QED BY <2>2, <2>3
  <1>2. CASE FlushGarbled
    <2>1. /\ pc = "flush" /\ pcache.block \in Block /\ UNCHANGED <<call, wr>>
      BY <1>2 DEF FlushGarbled
    <2>2. PICK data : disk' = Programmed(data)
      BY <1>2 DEF FlushGarbled
    <2>3. CASE call.validate
      BY <1>2, <2>1, <2>2, <2>3, CompareStarts DEF FlushGarbled
    <2>4. CASE ~call.validate
      <3>1. pcache' = Zeroed(pcache) /\ pc' = call.then /\ given' = Lost
        BY <1>2, <2>4 DEF FlushGarbled
      <3>2. ProgrammedIsKept'
        BY <2>1, <2>2, <3>1, ZeroedTyped, GivenUpIsKept
      <3> QED BY <2>1, <3>1, <3>2, FlushedProceeds DEF KeptInv
    <2> QED BY <2>3, <2>4
  <1>3. CASE FlushRefused
    <2>1. /\ pcache.block \in Block /\ Fail("io") /\ UNCHANGED pcache
          /\ disk' \in {disk, Programmed(pcache.buffer)}
      BY <1>3 DEF FlushRefused
    <2>2. \A b \in Block : \A o \in DOMAIN given[b] :
            Stored(TRUE, b, o)' = Stored(TRUE, b, o)
      <3>1. CASE disk' = disk
        BY <2>1, <3>1 DEF Stored, Covers, ByteAt
      <3>2. CASE disk' = Programmed(pcache.buffer)
        BY <2>1, <3>2, PendingIsKept
      <3> QED BY <2>1, <3>1, <3>2
    <2>3. \A b \in Block : DOMAIN given'[b] \subseteq DOMAIN given[b]
      BY <2>1, LostShrinks DEF Fail, Shrinks
    <2> QED BY <2>1, <2>2, <2>3, FailKeeps
  <1>4. CASE FlushNothing
    <2>1. /\ pc = "flush" /\ pcache.block = NoBlock /\ pc' = call.then
          /\ UNCHANGED <<disk, pcache, call, wr, given, failed>>
      BY <1>4 DEF FlushNothing, hist
    <2>2. call.then \in {"flushed", "sync"} /\ call.op # "read"
      BY <2>1, NoBlockIsNone DEF KeptInv, CallInv, ProgInv
    <2>3. CallInv' /\ ProgInv' /\ PcacheInv' /\ CompareInv'
      BY <2>1, <2>2, NoBlockIsNone DEF CallInv, ProgInv, PcacheInv, CompareInv
    <2> QED BY <2>1, <2>3, UntouchedIsKept DEF KeptInv
  <1> QED BY <1>1, <1>2, <1>3, <1>4

(* The bytes compared so far are those of the device.                      *)
LEMMA ComparedSoFar ==
  ASSUME TypeInv, KeptInv, Compared
  PROVE  Checked(rd.off) /\ rd.off \in Nat /\ pcache.block \in Block
         /\ pcache.off \in Nat /\ rd.off >= pcache.off
  <1>1. /\ rd.left = 0 /\ rd.got[1] = ByteAt(pcache, rd.off - 1) /\ pc = "compare"
    BY DEF Compared, Differs
  <1>2. /\ rd.block = pcache.block /\ Checked(rd.off - 1) /\ pcache.block \in Block
        /\ disk[pcache.block][rd.off - 1] = ByteAt(pcache, rd.off - 1)
    BY <1>1 DEF KeptInv, CompareInv
  <1>3. rd.off \in Nat /\ pcache.off \in Nat /\ rd.off >= pcache.off
    BY <1>1, SizesArePositive, UnitFits DEF TypeInv, Ranges, ReadOK, PcOK
  <1>4. ASSUME NEW q \in Off, pcache.off <= q, q < rd.off, q < pcache.off + Unit
        PROVE  disk[pcache.block][q] = ByteAt(pcache, q)
    <2>1. q < rd.off - 1 \/ q = rd.off - 1
      BY <1>3, <1>4, SizesArePositive DEF Off
    <2>2. CASE q < rd.off - 1
      BY <1>2, <1>4, <2>2 DEF Checked
    <2>3. CASE q = rd.off - 1
      BY <1>2, <2>3
    <2> QED BY <2>1, <2>2, <2>3
  <1> QED BY <1>2, <1>3, <1>4 DEF Checked

(* A byte that is the same in pcache and on the device outlives pcache.    *)
LEMMA CheckedIsKept ==
  ASSUME TypeInv, KeptInv, pcache.block \in Block, NEW n \in Nat, Checked(n),
         n >= pcache.off + Unit, pcache'.block = NoBlock, UNCHANGED <<disk, given>>
  PROVE  ProgrammedIsKept'
  <1> SUFFICES ASSUME NEW b \in Block, NEW o \in DOMAIN given[b]
               PROVE  Stored(TRUE, b, o)' = given[b][o]
    BY DEF ProgrammedIsKept
  <1>1. Stored(TRUE, b, o)' = disk[b][o]
    BY NoBlockIsNone DEF Stored, Covers
  <1>2. Stored(TRUE, b, o) = given[b][o]
    BY DEF KeptInv, ProgrammedIsKept
  <1>3. CASE Covers(pcache, b, o)
    <2>1. o \in Off /\ b = pcache.block
      BY <1>3 DEF TypeInv, Ranges, GivenOK, Covers
    <2>2. pcache.off <= o /\ o < n /\ o < pcache.off + Unit
      <3>1. /\ pcache.off \in Int /\ pcache.size \in Int /\ Unit \in Int
            /\ pcache.size <= Unit
        BY UnitFits, SizesArePositive DEF TypeInv, Ranges
      <3> QED BY <1>3, <2>1, <3>1, SizesArePositive DEF Covers, Off
    <2>3. disk[b][o] = ByteAt(pcache, o)
      BY <2>1, <2>2 DEF Checked
    <2> QED BY <1>1, <1>2, <1>3, <2>3 DEF Stored
  <1>4. CASE ~Covers(pcache, b, o)
    BY <1>1, <1>2, <1>4 DEF Stored
  <1> QED BY <1>3, <1>4

(* lfs_bd_cmp and lfs_bd_sync.                                             *)
LEMMA CompareKept ==
  ASSUME TypeInv, KeptInv,
         Compared \/ ComparedUnequal \/ SyncDevice \/ FlushReturns
  PROVE  KeptInv'
  <1>0. \A b \in Block : \A o \in DOMAIN given'[b] :
          UNCHANGED <<disk, pcache>> => Stored(TRUE, b, o)' = Stored(TRUE, b, o)
    BY DEF Stored, Covers, ByteAt
  <1>1. CASE Compared
    <2>0. /\ pc = "compare" /\ UNCHANGED <<disk, call, wr, given, stale>>
      BY <1>1 DEF Compared
    <2>1. /\ Checked(rd.off) /\ rd.off \in Nat /\ pcache.block \in Block
          /\ pcache.off \in Nat /\ rd.off >= pcache.off /\ Unit \in Int
      BY <1>1, ComparedSoFar, UnitFits, SizesArePositive DEF TypeInv, Ranges
    <2>2. rd.off - pcache.off \in Nat /\ pcache.off + (rd.off - pcache.off) = rd.off
      BY <2>1
    <2>3. CASE rd.off - pcache.off < Unit
      <3>1. rd' = Comparing(rd.off - pcache.off) /\ UNCHANGED <<pcache, pc, failed>>
        BY <1>1, <2>3 DEF Compared
      <3>2. /\ rd'.off = rd.off /\ rd'.left = 1 /\ rd'.block = pcache.block
            /\ rd'.past = FALSE
        BY <2>1, <2>2, <2>3, <3>1, ComparingTyped DEF TypeInv, Ranges
      <3>3. Checked(rd.off)'
        BY <2>0, <2>1, <3>1, <3>2 DEF Checked, Unit, ByteAt
      <3>4. CompareInv'
        BY <2>0, <2>1, <3>1, <3>2, <3>3 DEF KeptInv, CompareInv
      <3>5. CallInv' /\ ProgInv' /\ PcacheInv'
        BY <2>0, <3>1 DEF KeptInv, CallInv, ProgInv, PcacheInv, Ahead, FitsPcache
      <3> QED BY <2>0, <3>1, <3>4, <3>5, UntouchedIsKept DEF KeptInv
    <2>4. CASE ~(rd.off - pcache.off < Unit)
      <3>1. pcache' = Zeroed(pcache) /\ pc' = call.then
        BY <1>1, <2>4 DEF Compared
      <3>2. rd.off >= pcache.off + Unit
        BY <2>1, <2>4
      <3>3. ProgrammedIsKept'
        BY <2>0, <2>1, <3>1, <3>2, ZeroedTyped, CheckedIsKept
      <3> QED BY <2>0, <2>1, <3>1, <3>3, FlushedProceeds DEF KeptInv
    <2> QED BY <2>3, <2>4
  <1>2. CASE ComparedUnequal
    BY <1>0, <1>2, FailKeeps DEF ComparedUnequal
  <1>3. CASE SyncDevice
    <2>1. UNCHANGED <<disk, pcache>> /\ pc = "sync"
      BY <1>3 DEF SyncDevice
    <2>2. CASE Return("ok") /\ UNCHANGED <<given, failed, faults>>
      BY <2>1, <2>2, ReturnKeepsAll
    <2>3. CASE Fault("unsynced") /\ Fail("io")
      BY <1>0, <2>1, <2>3, FailKeeps
    <2> QED BY <1>3, <2>2, <2>3 DEF SyncDevice
  <1>4. CASE FlushReturns
    BY <1>4, ReturnKeepsAll DEF FlushReturns, hist
  <1> QED BY <1>1, <1>2, <1>3, <1>4

(* Copying into pcache: what callers count on is in pcache up to its end.  *)
LEMMA CopyIsKept ==
  ASSUME TypeInv, KeptInv, ProgCopy
  PROVE  ProgrammedIsKept'
  <1> SUFFICES ASSUME NEW b \in Block, NEW o \in DOMAIN given'[b]
               PROVE  Stored(TRUE, b, o)' = given'[b][o]
    BY DEF ProgrammedIsKept
  <1>0. disk' = disk /\ pcache'.block = pcache.block /\ pcache'.off = pcache.off
        /\ wr.block = pcache.block /\ pcache.block \in Block
    BY CopyIs, CopyEffect, CopyBounds
  <1>1. CASE b # wr.block
    <2>1. given'[b] = given[b]
      BY <1>1, CopyEffect
    <2>2. ~Covers(pcache, b, o) /\ ~Covers(pcache', b, o)
      BY <1>0, <1>1 DEF Covers
    <2> QED BY <1>0, <2>1, <2>2 DEF KeptInv, ProgrammedIsKept, Stored
  <1>2. CASE b = wr.block
    <2>0. /\ given'[b] = [q \in CopyHere \cup DOMAIN given[b] |->
                 IF q \in CopyHere THEN wr.data[q - wr.off + 1] ELSE given[b][q]]
          /\ pcache'.buffer = [i \in 0 .. CacheSize - 1 |->
                                IF i \in CopyAt .. CopyAt + CopySize - 1
                                THEN wr.data[i - CopyAt + 1] ELSE pcache.buffer[i]]
          /\ pcache'.size = lfs_max(pcache.size, CopyAt + CopySize)
      BY <1>2, CopyEffect
    <2>1. /\ pcache.off \in Nat /\ pcache.size \in 0 .. CacheSize
          /\ CopyAt \in Nat /\ CopySize \in Nat /\ CopyAt + CopySize <= CacheSize
          /\ wr.off = pcache.off + CopyAt /\ CacheSize \in Nat
      BY CopyBounds, SizesArePositive
    <2>2. /\ pcache'.size \in Int /\ pcache.size <= pcache'.size
          /\ CopyAt + CopySize <= pcache'.size
      BY <2>0, <2>1 DEF lfs_max
    <2>3. CASE o \in CopyHere
      <3>1. o \in Int /\ o >= wr.off /\ o < wr.off + CopySize
        BY <2>1, <2>3 DEF CopyHere
      <3>2. Covers(pcache', b, o)
        BY <1>0, <1>2, <2>1, <2>2, <3>1 DEF Covers
      <3>3. /\ o - pcache.off \in CopyAt .. CopyAt + CopySize - 1
            /\ o - pcache.off \in 0 .. CacheSize - 1
            /\ (o - pcache.off) - CopyAt + 1 = o - wr.off + 1
        BY <2>1, <3>1
      <3>4. pcache'.buffer[o - pcache.off] = wr.data[o - wr.off + 1]
        BY <2>0, <3>3
      <3>5. given'[b][o] = wr.data[o - wr.off + 1]
        BY <2>0, <2>3
      <3> QED BY <1>0, <3>2, <3>4, <3>5 DEF Stored, ByteAt
    <2>4. CASE o \notin CopyHere
      <3>0. o \in DOMAIN given[b] /\ given'[b][o] = given[b][o]
        BY <2>0, <2>4
      <3>1. o \in Int /\ o >= 0
        BY <3>0, SizesArePositive DEF TypeInv, Ranges, GivenOK, Off
      <3>2. o < pcache.off + pcache.size
        BY <1>0, <1>2, <3>0 DEF KeptInv, PcacheInv, Ahead
      <3>3. Stored(TRUE, b, o) = given[b][o]
        BY <3>0 DEF KeptInv, ProgrammedIsKept
      <3>4. CASE pcache.off <= o
        <4>1. Covers(pcache, b, o) /\ Covers(pcache', b, o)
          BY <1>0, <1>2, <2>1, <2>2, <3>1, <3>2, <3>4 DEF Covers
        <4>2. /\ o - pcache.off \in 0 .. CacheSize - 1
              /\ o - pcache.off \notin CopyAt .. CopyAt + CopySize - 1
          BY <2>1, <2>4, <3>1, <3>2, <3>4 DEF CopyHere
        <4>3. pcache'.buffer[o - pcache.off] = pcache.buffer[o - pcache.off]
          BY <2>0, <4>2
        <4> QED BY <1>0, <3>0, <3>3, <4>1, <4>3 DEF Stored, ByteAt
      <3>5. CASE ~(pcache.off <= o)
        <4>1. ~Covers(pcache, b, o) /\ ~Covers(pcache', b, o)
          BY <1>0, <3>5 DEF Covers
        <4> QED BY <1>0, <3>0, <3>3, <4>1 DEF Stored
      <3> QED BY <3>4, <3>5
    <2> QED BY <2>3, <2>4
  <1> QED BY <1>1, <1>2

(* lfs_bd_prog.                                                            *)
LEMMA CopyKept ==
  ASSUME TypeInv, KeptInv, ProgCopy
  PROVE  KeptInv'
  <1>0. /\ pcache'.block = pcache.block /\ pcache'.off = pcache.off
        /\ pcache'.size = lfs_max(pcache.size, CopyAt + CopySize)
        /\ wr.block = pcache.block /\ pcache.block \in Block
        /\ wr'.block = wr.block /\ wr'.off = wr.off + CopySize
    BY CopyEffect, CopyBounds
  <1>1. /\ pcache.off \in Nat /\ pcache.size \in 0 .. CacheSize
        /\ CopyAt \in Nat /\ CopySize \in Nat /\ CopyAt + CopySize <= CacheSize
        /\ wr.off = pcache.off + CopyAt /\ CacheSize \in Nat
    BY CopyBounds, SizesArePositive
  <1>2. /\ pcache'.size \in 0 .. CacheSize /\ pcache.size <= pcache'.size
        /\ CopyAt + CopySize <= pcache'.size
    BY <1>0, <1>1 DEF lfs_max
  <1>3. /\ pc' = IF pcache'.size = CacheSize THEN "flush" ELSE "prog"
        /\ pc = "prog" /\ UNCHANGED <<call, failed>>
    BY <1>0, CopyIs
  <1>4. wr'.data # <<>> => CopyAt + CopySize = CacheSize
    BY CopyRest
  <1>5. wr'.data # <<>> =>
          wr'.off = pcache.off + CacheSize /\ pcache'.size = CacheSize
    BY <1>0, <1>1, <1>2, <1>4
  <1>6. CallInv'
    <2>1. call.op # "read" /\ pc' \in {"flush", "prog"}
      BY <1>3 DEF KeptInv, CallInv
    <2>2. call.then \in {"prog", "flushed", "sync"}
      BY <1>3 DEF KeptInv, CallInv, ProgInv
    <2> QED BY <1>3, <2>1, <2>2 DEF CallInv
  <1>7. ProgInv'
    BY <1>0, <1>3, <1>5 DEF ProgInv
  <1>8. PcacheInv'
    <2>1. ASSUME NEW q \in DOMAIN given'[pcache.block]
          PROVE  q < pcache.off + pcache'.size
      <3>1. given'[pcache.block] =
              [o \in CopyHere \cup DOMAIN given[pcache.block] |->
                 IF o \in CopyHere THEN wr.data[o - wr.off + 1]
                 ELSE given[pcache.block][o]]
        BY <1>0, CopyEffect
      <3>2. CASE q \in CopyHere
        BY <1>1, <1>2, <3>2 DEF CopyHere
      <3>3. CASE q \in DOMAIN given[pcache.block]
        <4>1. q < pcache.off + pcache.size
          BY <1>0, <3>3 DEF KeptInv, PcacheInv, Ahead
        <4>2. q \in Int
          BY <1>0, <3>3, SizesArePositive DEF TypeInv, Ranges, GivenOK, Off
        <4> QED BY <1>1, <1>2, <4>1, <4>2
      <3> QED BY <3>1, <3>2, <3>3
    <2> QED BY <1>0, <1>3, <2>1 DEF PcacheInv, Ahead
  <1>9. CompareInv'
    BY <1>3 DEF CompareInv
  <1> QED BY <1>6, <1>7, <1>8, <1>9, CopyIsKept DEF KeptInv

(* An empty pcache starts on a unit with nothing of the callers behind it. *)
LEMMA PrepareKept ==
  ASSUME TypeInv, KeptInv, ProgPrepare
  PROVE  KeptInv'
  <1>1. /\ pc = "prog" /\ wr.data # <<>> /\ pcache.block = NoBlock
        /\ UNCHANGED <<disk, pc, call, wr, given, failed>>
    BY DEF ProgPrepare, hist
  <1>2. /\ wr.off % ProgSize = 0 /\ Ahead(wr.block, wr.off)
    BY <1>1 DEF KeptInv, ProgInv
  <1>3. /\ wr.off \in Int /\ ProgSize \in Nat \ {0} /\ wr.block \in Block
        /\ CacheSize \in Int /\ CacheSize > 0
    BY SizesArePositive DEF TypeInv, Ranges, WriteOK
  <1>4. AlignDown(wr.off, ProgSize) = wr.off
    BY <1>2, <1>3, AlignedDown
  <1>5. pcache'.block = wr.block /\ pcache'.off = wr.off /\ pcache'.size = 0
    <2>1. pcache = Cache(pcache.block, pcache.off, pcache.size, pcache.buffer)
      BY DEF TypeInv, Ranges, PcacheOK, CacheType
    <2>2. pcache' = Cache(wr.block, wr.off, 0, pcache.buffer)
      BY <1>4, <2>1 DEF ProgPrepare, Cache
    <2> QED BY <2>2 DEF Cache
  <1>6. CallInv' /\ CompareInv'
    BY <1>1 DEF KeptInv, CallInv, CompareInv
  <1>7. ProgInv'
    <2>1. wr.off < wr.off + CacheSize
      BY <1>3
    <2>2. FitsPcache' /\ pcache'.block # NoBlock
      BY <1>1, <1>3, <1>5, <2>1, NoBlockIsNone DEF FitsPcache
    <2> QED BY <1>1, <2>2 DEF ProgInv
  <1>8. PcacheInv'
    <2>1. pcache'.off + pcache'.size = wr.off /\ pcache'.size # CacheSize
      BY <1>3, <1>5
    <2>2. \A q \in DOMAIN given'[pcache'.block] : q < pcache'.off + pcache'.size
      BY <1>1, <1>2, <1>5, <2>1 DEF Ahead
    <2> QED BY <2>1, <2>2 DEF PcacheInv, Ahead
  <1>9. ProgrammedIsKept'
    <2> SUFFICES ASSUME NEW b \in Block, NEW o \in DOMAIN given[b]
                 PROVE  Stored(TRUE, b, o)' = given[b][o]
      BY <1>1 DEF ProgrammedIsKept
    <2>1. o \in Int
      BY SizesArePositive DEF TypeInv, Ranges, GivenOK, Off
    <2>2. ~Covers(pcache, b, o) /\ ~Covers(pcache', b, o)
      BY <1>1, <1>3, <1>5, <2>1, NoBlockIsNone DEF Covers
    <2> QED BY <1>1, <2>2 DEF KeptInv, ProgrammedIsKept, Stored
  <1> QED BY <1>6, <1>7, <1>8, <1>9 DEF KeptInv

(* The loop of lfs_bd_prog keeps what was programmed.                      *)
LEMMA ProgKept ==
  ASSUME TypeInv, KeptInv, ProgCopy \/ ProgPrepare \/ ProgNotFlushed \/ ProgReturns
  PROVE  KeptInv'
  <1>1. CASE ProgNotFlushed \/ ProgReturns
    BY <1>1, ReturnKeepsAll DEF ProgNotFlushed, ProgReturns, hist
  <1> QED BY <1>1, CopyKept, PrepareKept

(* The callers.                                                            *)
LEMMA CallerKept ==
  ASSUME TypeInv, KeptInv, Caller
  PROVE  KeptInv'
  <1>1. ASSUME NEW b \in Block \cup {NoBlock}, NEW o \in Off,
               NEW n \in Lengths \cup {BlockSize}, NEW hint \in Hints,
               NEW past \in BOOLEAN, CallRead(b, o, n, hint, past)
        PROVE  KeptInv'
    <2>1. /\ pc = "idle" /\ UNCHANGED <<disk, pcache, wr, given, failed>>
          /\ pc' \in {"idle", "read"}
      BY <1>1 DEF CallRead, hist
    <2>2. CallInv' /\ ProgInv' /\ CompareInv'
      BY <2>1 DEF CallInv, ProgInv, CompareInv
    <2>3. PcacheInv'
      BY <2>1 DEF KeptInv, PcacheInv, Ahead
    <2> QED BY <2>1, <2>2, <2>3, UntouchedIsKept DEF KeptInv
  <1>2. ASSUME NEW b \in Block, NEW o \in Off, NEW data \in Data,
               NEW validate \in BOOLEAN, CallProg(b, o, data, validate)
        PROVE  KeptInv'
    <2>1. /\ pc = "idle" /\ UNCHANGED <<disk, pcache, given, failed>>
          /\ GoesOn(b, o) \/ StartsAt(b, o)
      BY <1>2 DEF CallProg
    <2>2. PcacheInv'
      BY <2>1 DEF KeptInv, PcacheInv, Ahead
    <2>3. CASE o + Len(data) > BlockSize
      <3>1. UNCHANGED <<pc, call, wr>>
        BY <1>2, <2>3 DEF CallProg
      <3> QED BY <2>1, <2>2, <3>1, IdleKeeps, UntouchedIsKept DEF KeptInv
    <2>4. CASE ~(o + Len(data) > BlockSize)
      <3>1. /\ Calling("prog", validate, "prog") /\ pc' = "prog"
            /\ wr' = [block |-> b, off |-> o, data |-> data]
        BY <1>2, <2>4 DEF CallProg
      <3>2. CallInv' /\ CompareInv'
        BY <3>1 DEF Calling, CallInv, CompareInv
      <3>3. CASE pcache.block = NoBlock
        <4>1. StartsAt(b, o)
          BY <2>1, <3>3, NoBlockIsNone DEF GoesOn
        <4>2. o % ProgSize = 0 /\ \A q \in DOMAIN given[b] : q < o
          BY <4>1 DEF StartsAt
        <4>3. ProgInv'
          BY <2>1, <3>1, <3>3, <4>2 DEF ProgInv, Ahead
        <4> QED BY <2>1, <2>2, <3>2, <4>3, UntouchedIsKept DEF KeptInv
      <3>4. CASE pcache.block # NoBlock
        <4>1. (b = pcache.block /\ pcache.off <= o /\ o < pcache.off + CacheSize)
              \/ failed
          <5>1. CASE failed
            BY <5>1
          <5>2. CASE ~failed
            <6>1. pcache.block = b /\ o = pcache.off + pcache.size
              BY <2>1, <3>4, <5>2 DEF StartsAt, GoesOn
            <6>2. pcache.size # CacheSize
              BY <2>1, <5>2, <6>1 DEF KeptInv, PcacheInv
            <6>3. pcache.off \in Nat /\ pcache.size \in 0 .. CacheSize
                  /\ CacheSize \in Nat
              BY UnitFits, SizesArePositive DEF TypeInv, Ranges
            <6> QED BY <6>1, <6>2, <6>3
          <5> QED BY <5>1, <5>2
        <4>2. ProgInv'
          <5>1. CASE failed
            BY <2>1, <3>1, <3>4, <5>1 DEF ProgInv
          <5>2. CASE ~failed
            BY <2>1, <3>1, <3>4, <4>1, <5>2 DEF ProgInv, FitsPcache
          <5> QED BY <5>1, <5>2
        <4> QED BY <2>1, <2>2, <3>2, <4>2, UntouchedIsKept DEF KeptInv
      <3> QED BY <3>3, <3>4
    <2> QED BY <2>3, <2>4
  <1>3. ASSUME NEW validate \in BOOLEAN, CallFlush(validate) \/ CallSync(validate)
        PROVE  KeptInv'
    <2>1. /\ pc = "idle" /\ UNCHANGED <<disk, pcache, wr, given, failed>>
          /\ pc' = "flush" /\ call'.op # "read"
          /\ call'.then \in {"flushed", "sync"}
      BY <1>3 DEF CallFlush, CallSync, Calling, hist
    <2>2. CallInv' /\ ProgInv' /\ CompareInv'
      BY <2>1 DEF CallInv, ProgInv, CompareInv
    <2>3. PcacheInv'
      BY <2>1 DEF KeptInv, PcacheInv, Ahead
    <2> QED BY <2>1, <2>2, <2>3, UntouchedIsKept DEF KeptInv
  <1>4. CASE GiveUp
    <2>1. /\ pc = "idle" /\ pc' = "idle" /\ pcache.block \in Block
          /\ given' = Lost /\ pcache' = Dropped(pcache) /\ UNCHANGED disk
      BY <1>4 DEF GiveUp
    <2>2. pcache'.block = NoBlock
      BY <2>1 DEF Dropped, Empty, Cache
    <2>3. ProgrammedIsKept'
      BY <2>1, <2>2, GivenUpIsKept
    <2>4. PcacheInv'
      BY <2>2, NoBlockIsNone DEF PcacheInv
    <2> QED BY <2>1, <2>3, <2>4, IdleKeeps DEF KeptInv
  <1>5. ASSUME NEW b \in Block, Erase(b)
        PROVE  KeptInv'
    <2>1. /\ pc = "idle" /\ pc' = "idle" /\ pcache.block # b
          /\ given' = [given EXCEPT ![b] = <<>>]
          /\ UNCHANGED <<disk, pcache, failed>>
      BY <1>5 DEF Erase
    <2>2. Shrinks
      <3>1. given = [c \in Block |-> given[c]]
        BY DEF TypeInv, Ranges, GivenOK
      <3>2. given'[b] = <<>> /\ \A c \in Block : c # b => given'[c] = given[c]
        BY <2>1, <3>1
      <3>3. DOMAIN <<>> = {}
        OBVIOUS
      <3> QED BY <3>2, <3>3 DEF Shrinks
    <2>3. PcacheInv'
      BY <2>1, <2>2 DEF KeptInv, PcacheInv, Ahead, Shrinks
    <2> QED BY <2>1, <2>2, <2>3, IdleKeeps, UntouchedIsKept DEF KeptInv
  <1> QED BY <1>1, <1>2, <1>3, <1>4, <1>5 DEF Caller

(* Nothing has been programmed in the initial state.                       *)
LEMMA KeptInit == Init => KeptInv
  <1> SUFFICES ASSUME Init PROVE KeptInv
    OBVIOUS
  <1>1. pcache.block = NoBlock
    BY DEF Init, Empty, Cache
  <1>2. \A b \in Block : DOMAIN given[b] = {}
    BY DEF Init
  <1>3. CallInv /\ ProgInv /\ CompareInv
    BY DEF Init, CallInv, ProgInv, CompareInv
  <1> QED BY <1>1, <1>2, <1>3, NoBlockIsNone DEF KeptInv, PcacheInv, ProgrammedIsKept

(* Every step keeps the strengthened invariant.                            *)
LEMMA KeptStep == TypeInv /\ IInv /\ KeptInv /\ [Next]_vars => KeptInv'
  <1> SUFFICES ASSUME TypeInv, IInv, KeptInv, [Next]_vars PROVE KeptInv'
    OBVIOUS
  <1>1. CASE Step
    BY <1>1, LoopKept, FlushKept, CompareKept, ProgKept DEF Step
  <1>2. CASE Caller
    BY <1>2, CallerKept
  <1>3. CASE UNCHANGED vars
    <2>1. UNCHANGED <<disk, pcache, pc, call, rd, wr, given, stale, failed>>
      BY <1>3 DEF vars
    <2>2. CallInv' /\ ProgInv' /\ PcacheInv' /\ CompareInv'
      BY <2>1 DEF KeptInv, CallInv, ProgInv, PcacheInv, CompareInv, Checked, Unit,
                  ByteAt, Ahead, FitsPcache
    <2> QED BY <2>1, <2>2, UntouchedIsKept DEF KeptInv
  <1> QED BY <1>1, <1>2, <1>3 DEF Next

(* What was programmed is kept in every state.                             *)
LEMMA KeptHolds == Spec => []KeptInv
  BY KeptInit, KeptStep, RangesHold, CacheIsCoherent, PTL DEF Spec

(* lfs_bd_prog and lfs_bd_flush lose nothing: what a caller has programmed *)
(* is in pcache or on the device until the caller gives it up, erases it   *)
(* or is told of a failure in its unit.                                    *)
THEOREM ProgrammedStays == Spec => []ProgrammedIsKept
  <1>1. KeptInv => ProgrammedIsKept
    BY DEF KeptInv
  <1> QED BY <1>1, KeptHolds, PTL

(* Only lfs_bd_prog refuses, and ProgInv says when.                        *)
LEMMA RefusalStep ==
  ASSUME KeptInv, [Next]_vars, pc # "idle", pc' = "idle", result' = "notflushed"
  PROVE  failed
  <1>1. CASE ProgNotFlushed
    BY <1>1 DEF ProgNotFlushed, KeptInv, ProgInv
  <1>2. CASE Step /\ ~ProgNotFlushed
    <2>1. ASSUME NEW r, Return(r) \/ Fail(r), r # "notflushed" PROVE FALSE
      BY <2>1 DEF Return, Fail
    <2>2. ~LoadFails /\ ~ReadReturns /\ ~FlushRefused /\ ~ComparedUnequal
          /\ ~SyncDevice /\ ~FlushReturns /\ ~ProgReturns
      BY <2>1 DEF LoadFails, ReadReturns, FlushRefused, ComparedUnequal,
                  SyncDevice, FlushReturns, ProgReturns
    <2>3. ~ReadPcache /\ ~ReadRcache /\ ~ReadDirectly /\ ~LoadRcache /\ ~ProgPrepare
      BY DEF ReadPcache, ReadRcache, ReadDirectly, LoadRcache, Same, ProgPrepare
    <2>4. pc \in {"flush", "compare"} => call.then # "idle"
      BY DEF KeptInv, CallInv
    <2>5. ~Flush /\ ~FlushGarbled /\ ~FlushNothing /\ ~Compared
      BY <2>4 DEF Flush, FlushGarbled, FlushNothing, Compared
    <2>6. ~ProgCopy
      BY DEF ProgCopy
    <2> QED BY <1>2, <2>2, <2>3, <2>5, <2>6 DEF Step
  <1>3. CASE Caller
    BY <1>3 DEF Caller, CallRead, CallProg, CallFlush, CallSync, GiveUp, Erase
  <1>4. CASE UNCHANGED vars
    BY <1>4 DEF vars
  <1> QED BY <1>1, <1>2, <1>3, <1>4 DEF Next

(* The LFS_ASSERT of lfs_bd_prog: a caller that goes on where it stopped   *)
(* or starts on a unit finds pcache flushed, unless an earlier call failed.*)
THEOREM RefusalFollowsFailure == Spec => RefusedOnlyAfterFailure
  <1>1. KeptInv /\ [Next]_vars =>
          (pc # "idle" /\ pc' = "idle" /\ result' = "notflushed" => failed)
    BY RefusalStep
  <1> QED BY <1>1, KeptHolds, PTL DEF Spec, RefusedOnlyAfterFailure
==============================================================================
