# Verification of the SD card file system

This directory holds TLA+ models of the code in `src/`: an SD card driver over
SPI (`SDCard.cpp`), littlefs v2 (`littlefs/`), and the class that runs littlefs
on the card from a cooperative task (`LittleFS.cpp`). The modules are checked
with TLC on small instances; theorems about them are proved with TLAPS for all
values of the constants. `PROJECT.json` maps every definition to the lines it
stands for and lists the runs, the mutations each property was seen to catch,
and the hazards of the code.

## 1. Inventory

| Component | Source | State | Operations | Model |
|---|---|---|---|---|
| SD card driver | `SDCard.cpp`, `SDCard.h` | `_card_type`, `_sectors`, `_is_initialized`, chip select | `init`, `deinit`, `read`, `program`, `trim` | `SDCard`, against `BlockDevice` |
| Glue | `LittleFS.cpp` `lfs_sd_*` | none | read, prog; erase and sync do nothing | part of `SDCard`, `MetadataPair` |
| File system task | `LittleFS.cpp`, `LittleFS.h` | `curOperation`, `curOperationState`, `workdir`, `workblock`, `_mounted`, `_err`, `_bd` | `TaskRun`, `notified`, `mount_async`, `unmount`, `mount`, `format`, wrappers | `AsyncMount` |
| Block allocator | `lfs.cpp:463-532` | `lfs->free`: window, bitmap, `i`, `ack` | `lfs_alloc`, `lfs_alloc_ack`, `lfs_alloc_reset` | `Lookahead`, `Alloc` |
| Asynchronous mount and traversal | `lfs.cpp:3880-4022`, `4115-4208`, `4546-4561` | root, global state, the caller's iterator | one slice per call | `AsyncMount` |
| Metadata pair log | `lfs.cpp:787-1028`, `1213-1916` | two blocks, `lfs_mdir_t` | fetch, commit, compact | `MetadataPair`; splits in `DirTree` |
| Block device cache | `lfs.cpp:13-254` | `rcache`, `pcache` | read, cmp, flush, sync, prog, erase | `BdCache` |
| Tags and lookup | `lfs.cpp:293-363`, `535-1211` | none | getslice, traverse, fetchmatch, find | `DirLog`, against `EntryStore` |
| Directory tree | `lfs.cpp:1414-1482`, `1730-2169`, `3201-3425`, `4215-4525` | tail list, global state, orphan bit, `lfs->mlist` | mkdir, remove, rename, create, directory iteration, deorphan, demove | `DirTree`, against `Namespace` |
| Files, CTZ lists | `lfs.cpp:2204-3187`, `4033-4208` | `lfs_file_t`, the skip list | open, read, write, seek, truncate, sync, close | `File`, against `FileStore` |
| Custom attributes | `lfs.cpp:3427-3510` | none | getattr, setattr, removeattr | `DirLog` |
| Wear leveling | `lfs.cpp:1540-1577`, `4297-4389` | none | never triggered (`block_cycles` is -1) | no |
| CRC, byte order, arithmetic | `lfs_util.*` | none | pure functions | `lfs_min`, `lfs_scmp`, `lfs_ctz`, `lfs_npw2`, `lfs_popc` and the like where used |
| SPI driver, board headers | `DSPI_A.*`, `inc/` | registers | one byte out, one byte in | no: hardware access |

### How they interact

`LittleFS` is a task of a cooperative task manager: `notified()` asks for it
while `curOperation` is not 0 and `TaskRun` does one slice of the running
operation. Between two slices the application, in the same thread of control,
calls the class: it mounts, unmounts, and uses files. Both share the one
`lfs_t`: the window of the allocator, the caches, the global state. littlefs
calls the driver through four function pointers; a call of the driver is
synchronous and busy-waits on the card. The card is the only other actor: it
becomes ready, answers or does not, and may be pulled out at any moment. Power
may be lost at any moment; only the card keeps its contents.

In this product read size, program size, cache size and block size are all 512
bytes, so that a metadata block holds one program unit and **every commit is a
compaction**; the driver's `erase` and `sync` do nothing; `block_cycles` is -1.
littlefs then asks the driver for single blocks only. The constructor of
`LittleFS` lets a user choose other sizes, so logs of several commits and
transfers of several blocks are modelled too.

### What is hard, and what makes each component correct

* **Driver.** Every command can fail, most failures have their own early
  return, and statuses overwrite each other. Correct means: what a call reports
  is what has happened to the blocks; no path leaves the card selected or in
  the middle of a transfer; `init` succeeds only for a device that can be used;
  every call returns.
* **Allocator.** Nothing on the card says that a block is free. The bitmap is a
  snapshot that ages while blocks are linked and released, and blocks in flight
  are invisible to it; `ack` is all that stands between them and being handed
  out again. Correct means: no block in use is handed out, NOSPC is honest,
  the loop ends, `ack` never wraps.
* **Unrolled operations.** A loop became a state machine in another class,
  whose state survives `unmount`. Correct means: it ends where the loop would.
* **Metadata pair.** Blocks are not erased: whatever older commits left lies
  behind the log, and one bit tells them apart. Correct means: a mount finds
  the last committed value or one begun since, and memory agrees with the card.
* **Caches.** Two caches lie over the card, one of them dirty; a read has to put
  together bytes of three sources, and a cache is labelled before it is filled.
  Correct means: a read sees what is pending or stored, what was accepted is
  not lost without a report, the loops end.
* **Tags.** An entry has no place in a pair but an id, which every later tag may
  move; a lookup by id, a lookup by name and a compaction each follow the moves in
  a way of their own, and an entry waiting to be deleted after a rename shifts
  what two of them see. Correct means: all agree, on what was last written.
* **Tree.** Renames and removals take several commits; what a crash leaves
  between them must be found and finished by the next call that changes
  anything. Every commit shifts the entries under open files and directories.
  Correct means: calls are atomic, every pair stays on the tail list, nothing
  open points at the wrong entry.
* **Files.** A file is copied on write, block by block, while its old blocks
  stay in force; its blocks hang on nothing but an open handle until it is
  synchronised. Correct means: what is open reads as written, what is stored
  changes only at a sync and then wholly, and the allocator is told of every
  block that either needs.

## 2. The modules

`Lookahead` - pure operations on `lfs->free`; a bitmap is the set of its set
offsets. `BlockAt`/`OffsetOf` are the arithmetic modulo the device size of
`lfs_alloc` and `lfs_alloc_lookahead`; `FirstClear` and `SkippedTo` the two inner
loops of `lfs_alloc`; `NextWindow`, `Filled`, `ResetAt`, `Acked` the rest of it.

`Alloc` (EXTENDS `Lookahead`) - the allocator under every caller. `used` is
what a traversal visits, `inflight` what the running operation holds. `Link`
stands for any commit or file write that makes blocks in flight visible and
gives others up; `AllocFound`, `AllocNoSpace`, `AllocRescan`, `AllocScanFails` are
the outcomes of one turn of the loop of `lfs_alloc`. A scan that fails ends the
operation. `PowerLoss` includes the mount after it. Three history variables
record what was in use since the window was filled and since the last ack; no
action reads them. `SplitAcks` says whether `lfs_dir_split` acknowledges inside
an operation that holds blocks (`lfs_mkdir` of a directory whose parent splits).

`LookaheadProofs`, `AllocProofs`, `AsyncMountProofs`, `SDCardProofs`,
`MetadataPairProofs` - lemmas and theorems about the modules they are named after (section 4);
`SDCardProofs` ends with the refinement of `BlockDevice`.

`AsyncMount` (EXTENDS `Lookahead`) - `TaskRun` with cases 1 and 6, one action
per state of `lfs_mount_async` and `lfs_traverse_async`, `TraverseFilesFails` for the
blocks of an open file that cannot be read, and the application:
`mount_async`, `unmount`, a file write with its allocation, sync, and remove. A
directory is one metadata pair of the tail list. `lfs_mount` is translated as a
function (the walk along the list) and serves as the reference for the slices.
The blocks a slice visits are those of the pair and of its files.

`BlockDevice` - what the driver promises: an operation changes only the blocks
of its range and only to what was asked; if it reports no error all of it has
happened; if it reports one, any part of it has.

`SDCard` - the driver and the card. A step is one `_cmd` with its answer, one
data block, or the end of a call; `_wait_ready` is a guard. `Command` carries
`_cmd`'s retries, its mapping of the R1 response to a status, and which commands
leave the card selected; `Cmd55Missed` is an application command whose CMD55 stays
unanswered or is refused. The card (external: modelled as the driver uses it)
has a kind, an idle bit, a busy line, an open transfer and its contents, and
between steps becomes ready, is pulled out, dies, or is exchanged. `KeepsPromise`
instantiates `BlockDevice` with the card's contents, `_is_initialized`, the
running call, its result and its buffer.

`MetadataPair` - one pair. A block is a sequence of program units; a commit
takes one or more of them and ends in a CRC (taken as perfect) over what it
covers. A unit also shows the bit a fetch would take for the valid bit of a
tag, which is how leftovers are told from the log. `Fetch` is
`lfs_dir_fetchmatch`; `Start`, `Program`, `NoFit`, `Verified`, `Unverified` and
`VerifyFails` are `lfs_dir_commit` and `lfs_dir_compact` cut at every unit
written; `Refetch` is the fetch every operation starts with; `PowerLoss` may
tear the unit being written. Initially the blocks hold what older file systems
left. Values stand for all a commit stores. Revision counts are modulo `Revs`.
The variable `on` never changes: it says what card the pair is on, so that one
run checks the product's and one with a log.

`BdCache` - `lfs_bd_read`, `lfs_bd_cmp`, `lfs_bd_flush`, `lfs_bd_sync`,
`lfs_bd_prog` and `lfs_bd_erase`. A step is one turn of their loops or one call
of the device, which may fail to read, refuse to program, store another byte or
fail to synchronise. The callers are what littlefs does with them: anything may
be read, with or without `pcache`; programming goes forward through a block from
a multiple of the program size, and starts elsewhere only when all is flushed or
something has failed. Left out is a caller that, after a failure, asks in pieces
again for a unit that `pcache` still holds whole (see the end of the list of
failing settings). `given` records what callers may count on, `stale` where
`rcache` is known to be older than the device, `failed` whether `pcache` holds
leftovers of a failure; no action but `StartsAt` reads them.

`Namespace` - what directories promise: a set of entries; a call that changes
it does so at one moment between its start and its return, wholly if it reports
success and not at all if it reports an error; a power loss may come before or
after that moment.

`DirTree` - directories as metadata pairs on one tail list. A commit to a pair is
atomic (`MetadataPair` is about that) and a step is one commit with all that the
code computes up to the next: `Mkdir`, `MkdirLink`, `MkdirEntry`; `RemoveEntry`,
`DropRemoved`; `Rename`, `RenameDelete`, `DropRemoved`; `Demove`, `DropOrphan`,
`Deorphaned` for `lfs_fs_forceconsistency` at the start of a call that changes
anything. `Put` is `lfs_dir_commit`, which may split the pair; `Delete` adds the
dropping of a pair that it empties. A pair whose upper half would itself be split
again (only if `Full = 2 * Capacity`) is split once, as in the code when no second
pair is free. The global state is the set of what is
recorded in it, added up with exclusive or over all pairs as in the code. One
file or directory may be open; `FixUp` is the end of `lfs_dir_commit` that brings
it up to date, `OpenDir` and `ReadDir` iterate. `NamesPromise` instantiates
`Namespace` with the entries that a mount of the card would show.

`EntryStore` - what a directory promises: entries by name, each with contents and
attributes, which a call changes whole and nothing else changes; a listing shows
the names in order.

`DirLog` - the log of tags in which a pair holds entries. A tag is a record of
type, id and value; a log is a sequence of them. `Get` is `lfs_dir_getslice`, a
fold over the reversed log; `Best` and `Match` the search of `lfs_dir_fetchmatch`
and `Find` that of `lfs_dir_find` along the pairs; `Unique` is
`lfs_dir_traverse`, `Filter` its callback, and `FromMove` the tags that a rename
takes from another pair. `Commits` gives the outcomes of a commit: the tags are
appended, or the log is compacted, or it is compacted into this pair and a new
one; which of them is a matter of sizes, which are left out, so that each may
happen. Actions are the calls, one commit each, but for a rename between pairs
which has two. `EntriesPromise` instantiates `EntryStore` with what lookups by
name and then by id, and a listing, find in the logs. A commit is atomic here:
failing ones are in `DirTree` and `MetadataPair`. The operator `Of` only makes TLC
compute a value once.

`FileStore` - what files promise: an open file is a sequence and a position as
in POSIX; what is stored changes only at a sync or close that succeeds, then to
all of what was written; a call that fails may have had part of its effect, and
one that is cut by a loss of power (`Cut`) all or nothing of it.

`File` - `lfs_file_t`, the skip list and the calls of a file. One action is one
call. Power may be lost between two calls (`PowerLoss`), which leaves blocks that
no entry leads to, and in a sync or close right before or right after each commit
of the entry (`SyncIsCut`), so that the order of flushing and committing matters.
The calls are operators from a state to a state with an error
(`State`): `lfs_file_write`, `lfs_file_flush` and `lfs_file_sync` keep the names
and the mutual recursion of the code, with `NextBlock`, `Place`, `Extend` and
`Settle` for the parts of their loops; a block that does not keep what is
programmed is moved by `lfs_file_relocate`. Sizes are in units of four bytes,
the size of a pointer. The allocator takes the next block that `InUse`, the
traversal, does not meet and that was not handed out since the last ack; its
window is `Alloc`'s. `FilePromise` instantiates `FileStore` with the contents of
entries and handles, read by the definition of the list instead of the code.
`MCFile` also checks the formula of `lfs_ctz_index` as an ASSUME, position by
position.

`BdCacheProofs` - the coherence of `rcache`, the bounds of both caches, and the
fate of programmed bytes (section 4).

`DirTreeProofs` - the tail list, the orphans, the global state and the handles of
open files, from one invariant (section 4).

`DirTreeNames` (EXTENDS `DirTreeProofs`, whose last lemmas are about the places of
entries and their order) - the refinement of `Namespace`, and what an open directory
reads (section 4).

`MCAlloc`, `MCAsyncMount`, `MCSDCard`, `MCMetadataPair`, `MCBdCache`, `MCDirTree`,
`MCDirLog` and `MCFile` give the constants their values. Operators commented "Mutated:" are the wrong variants each property
was seen to catch; nothing else uses them.

## 3. What the runs check

Runs that pass:

| Run | Question | Bounds | States |
|---|---|---|---|
| `MCAlloc` | Is a block in use ever handed out, is NOSPC honest, does `lfs_alloc` return? | 4 blocks, window of 3, seeds in and beyond the device | 268 k |
| `MCAsyncMount` | Does the unrolled mount accept, refuse and compute what `lfs_mount` does, and end? Does the traversal keep coming round? | all tail lists of two pairs, loops included, all placements of superblocks and global state; 5 blocks | 6 k |
| `MCAsyncFiles` | Does `ack` cover the window when slices and file operations interleave, with read failures and an unmount? | one pair, 4 blocks, window of 2 | 2.3 M |
| `MCSDCard` | On a card that works, does the driver implement the block device, with every call returning? | V1, SC, HC, and a card refused for its voltage; 2 blocks of 2 bytes; all addresses 0-3, sizes 1, 2, 4 | 34 k |
| `MCSDOneBlock` | With single blocks, does it keep its promise and release the card, whatever fails on a byte-addressed card? | V1, SC; lost, refused and garbled commands, refused and missing blocks, the card dead or pulled out | 736 k |
| `MCPair` | On the product's card and on one with a log: does a mount always find a committed value, and does memory agree with the card? | one unit per block, 8 commits, torn, garbled, refused and unread units; two units per block, 5 commits, leftovers in both blocks, torn, garbled and refused units; revisions wrap at 8 | 593 k |
| `MCDirTree` | Are calls atomic across power losses, is the tail list whole, are orphans findable, do open files and directories follow? | 4 pairs that split beyond one or two entries, 3 names, one file, 4 calls, 3 of them with a directory open | 72 k |
| `MCBdCache` | Do reads see what is pending or stored, is nothing accepted lost unreported, do the loops end? | one block of 4 bytes, units and caches of 2, 2 calls that program or erase with any reads between, one fault of any kind | 625 k |
| `MCFile` | Is a file what was written to it, power losses inside a synchronisation included, and is the allocator told of all its blocks? | 2 files, 2 handles, 8 blocks of 6 units (one of which may be bad), files of up to 17 units in 4 blocks, 4 calls | 54 k |
| `MCDirLog` | Do lookups by name and id and a listing agree with what the calls left, however the tags are stored? | 3 names in up to two pairs, 2 types of attributes; empty or full at the start, the entries created in any order, compacted or split; 2 calls, with power losses | 10 k |

Runs in which TLC finds the code to disagree with what it says of itself:

| Run | What it shows |
|---|---|
| `MCAsyncAlloc` | `lfs_traverse_async` moves and clears the window in every slice (`lfs.cpp:4553`), so after a traversal the window is non-empty and has marks for the open files only. The next write takes a block of the tree. |
| `MCFileTruncate` | `lfs_file_truncate` looks up the block of position `size` (`lfs.cpp:3103`). When a block ends there that is the block after the last one of the shortened file, and what is read from then on is pointers and later data. |

More settings under which the code does not keep a property, found the same
way; change the constants of the run named to see them:

* `MCAlloc` with `SplitAcks = TRUE`: `AllocatedIsFree` fails. `lfs_dir_split`
  acknowledges (`lfs.cpp:1437`) while `lfs_mkdir` holds the two blocks of the new
  directory; on an almost full device they are handed out again.
* `MCAsyncMount` with `Remounts = 1`: `MountAgrees` fails,
  on a healthy device too (`Disks <- HealthyDisk`). `mount_async` sets
  `curOperation` but not `curOperationState` (`LittleFS.cpp:183`): after an
  unmount in the middle of an operation the mount goes on in its middle.
* `MCSDCard` with `Kinds <- Standard`, `Sizes <- OneBlock`, `Faults <- NoToken`:
  `InitMakesUsable` fails. `init` sets `_is_initialized` before it reads the
  capacity; if that fails the next `init` returns OK for a device of no sectors.
* `MCSDCard` with `Kinds <- Standard`, `Sizes <- TwoBlocks`, and `Faults <- Refusals`
  or `NoToken`: `KeepsPromise` fails. A block refused in a multiple block write
  leaves the loop without a status; CMD12's status replaces that of a block that
  never came.
* `MCSDCard` with `Kinds = {"HC"}`, `Faults = {"lost"}`, `Sizes = {2}`:
  `InitMakesUsable` fails. A failed CMD58 is overwritten by CMD59's status.
* `MCSDCard` with `TakesCmd12 = FALSE`: `TransfersAreEnded` fails. The comment at
  `SDCard.cpp:229` speaks of the stop token, the code sends CMD12.
* `MCSDCard` with `Kinds = {"MMC"}`: `CallsReturn` fails in the loop of ACMD41,
  which `SDCard.cpp:90` marks "TODO: Fix infinite loop problem".
* `MCPair` with two units, `Crowded = FALSE` and the fault "unread":
  `Recoverable` and `MemoryAgrees` fail. A compaction that is written but cannot be
  read back returns the error and leaves a newer block; the next append goes to
  the older block and is lost.
* `MCBdCache` with `ProgSize = 1`: `CallsReturn` fails. A direct read that stops
  where `pcache` begins is aligned down to nothing (`lfs.cpp:76`). littlefs asks
  for no relation between read and program size.
* `MCDirTree` with `Uses <- NoSpace`, `Full = 1`, `MaxWatched = 0`:
  `OrphansAreFlagged`, `GlobalStateIsKnown` and, with that alone, `NamesPromise`
  fail. `lfs_rename`
  records the move in `lfs->gstate` before the commit of the new entry
  (`lfs.cpp:3373`, `3385`). If that commit fails, here because the directory is
  full and no pair is free to split it, the record stays, the next commit of
  anything writes it to the card, and the entry that was not renamed is gone.
* `MCDirLog` with "ghosts" in `Uses`, `Sizes = {2}`, `Attr = {}`: `EntriesPromise`
  fails. With a move pending, `lfs_dir_fetchmatch` takes one from the id of its
  match (`lfs.cpp:994`) but not from `dir->count`. If the match is a deleted entry
  at the end of the pair, it seems to lie before the end, and the search stops
  there (`lfs.cpp:1006`). After a rename between pairs that is cut by a loss of
  power, the entry is found under neither name until a call finishes the move. It
  takes a block of several program units, which is not this product's default: a
  compaction leaves no deleted entries behind. `MCDirLog` excludes it by its cause:
  it has no rename out of a pair with such an entry (`Ghost`).
* `MCDirLog` with "early", `Sizes = {3}`: `EntriesPromise` fails. `lfs_commitattr`
  (`lfs.cpp:3486`) does not finish a pending move and commits to the id that a
  lookup shows. Behind a hidden entry that is the id of the entry before: an
  attribute set on one entry is stored with another, though `lfs.h:468` says it is
  created. This and the one before were confirmed by compiling `lfs.cpp` against
  a device in memory that stops accepting writes at each write in turn.
* `MCDirTree` with "fails" in `Uses`: `GlobalStateIsKnown` fails. A commit that
  fails after `lfs_dir_drop` has taken over a pair's global state (`lfs.cpp:1416`),
  or after a split has written its tail, leaves `gdelta` or `gdisk` changed.
* `MCDirTree` with "rdonly": `GlobalStateIsKnown` fails. A file created with
  `LFS_O_RDONLY | LFS_O_CREAT` skips `lfs_fs_forceconsistency` (`lfs.cpp:2399`), and
  moves the entry that is still to be deleted.
* `MCDirTree` with "next": `StaysReadable` fails. When the entry that an open
  directory would read next is removed, its handle loses its pair
  (`lfs.cpp:1884`) and the next `lfs_dir_read` fails. With "early", which lets a
  directory be opened before a pending move is finished, the same happens to the
  hidden entry; it takes seven calls and was found by simulation.
* `MCFile` with "whole" in `Uses`: `BlocksHaveOneOwner` fails. When a write fills a
  new block in one go and finds it bad (`lfs.cpp:3006`), another is allocated
  before `file->pos` counts anything of the new one; the traversal
  (`lfs.cpp:4104`) takes it for the block before it in the list and misses the
  blocks that it then skips.
* `MCFile` with "twice", "held" or "remount": `TraversalMeetsAll` fails. Blocks of
  a clean file are kept by its entry alone: when another handle replaces them, the
  file is removed, or the mount empties `lfs->mlist`, an open handle goes on
  reading blocks that the allocator gives away.

Noticed while modelling and not a property of a run: `_wait_ready` compares a
counter it never increments (`SDCard.cpp:741-752`), so no wait is bounded;
`TaskRun` never looks at the result of `lfs_traverse_async`; a driver that is not
initialised reports "parameter", not "uninitialized", as `_sectors` is 0; a
failed load leaves its label on `rcache`, so that the same read asked again
succeeds with old bytes; a flush that fails leaves `file->pos` where the copying
had come to; closing a file after an error returns 0 and stores nothing; the
checks of the access mode test `LFS_F_OPENED` (`lfs.cpp:2822`, `2908`), so a file
opened for reading can be written; `lfs_file_opencfg` reports every failure of
the commit that creates a file as a name too long; a directory can be moved into
itself, after which no path leads to it ("selfmove": all properties hold, for
none is about reachability); an append that `lfs_dir_commitprog` tries again after
an error of the device asks in pieces for a unit that `pcache` still holds whole:
the first piece flushes the unit, and the second starts it anew and programs 0xff
over the first (`lfs.cpp:218`, `237`). With a caller that does this,
`ProgrammedIsKept` fails; littlefs notices in `lfs_dir_commitcrc`, which reads the
checksum back.

### Why the bounds are enough

* Allocator: with 4 blocks and a window of 3 the window wraps round the device
  and ends in the middle of it, windows are shorter than the bitmap when `ack`
  runs out, seeds lie beyond the device, and an operation can hold several
  blocks. The proofs cover all sizes.
* Mount: two pairs are the smallest list with loops of length one and two, a
  pair that is not reached, and global state to add up.
* Driver: two blocks are the smallest card with transfers of one and two
  blocks, within it and across its end; the byte and block addresses differ.
* Caches: a block of two units and caches of one unit make reads start before,
  in and behind either cache, and cross from one to the other.
* Tree: four pairs are the root, two directories and one more to split into, or
  a directory of three pairs; a pair splits beyond one entry and holds two, so
  that splits, emptied pairs and moves within and between pairs all occur within
  four calls. A second directory below the first needs no more. `Full` is twice
  `Capacity` there, so that an upper half of two could be split again, which is left
  out. Sizes where no half can were checked too, with the same result: `Full` and
  `Capacity` both 1 (28 k states), both 2 (44 k), and 3 and 2 (48 k); with three
  pairs, both 2 and five calls (117 k).
* Tags: three names are the least with an entry before, at and behind the one
  that moves; a full directory, created in any order or split, puts any two of
  them in one pair or in two. The two calls with their commits then append to
  logs that were appended to, compacted or split before. A directory of two
  entries at the start was checked too, with the same result.
* Files: sixteen bytes of data and two pointers a block: lists of four blocks
  have all numbers of pointers up to two, and eight blocks with two of metadata
  run full when a file is copied. Lists of seven blocks (one file, one handle, 13
  blocks, 31 units), five calls without bad blocks, and four calls at other sizes
  were checked too, with the same result.
* Pair: a block of two units is the smallest with a log; five commits suffice to
  fill a block, compact it, come back to the first block and append among its
  leftovers. Revision counts start just below their wrap-around.

Bounds on behaviours: `MaxCommits` (commits begun), `Remounts` (unmounts),
`MaxCalls` and `MaxWatched` (calls of the tree, of files, and of callers that
program), `MaxFaults`,
`IdleRetries` (2 for the code's 5), `Revs` (for 2^32; even, since allocation
rounds revisions up to even numbers). `CHECK_DEADLOCK FALSE` is set in
`MCSDOneBlock`, where a dead card does stop the driver, and in `MCFile`,
`MCFileTruncate` and `MCDirLog`, where a behaviour is over once its calls are used
up. `MCPair` uses the symmetry of the two values, `MCDirTree` that
of the pairs other than the root, `MCFile` that of files and of handles; all
their properties are safety properties.

### Fairness

* `Alloc!FairSpec`: weak fairness of the steps of `lfs_alloc`. It is a loop of
  the only thread.
* `AsyncMount!Spec`: weak fairness of `TaskRun`. `notified()` holds while
  `curOperation` is not 0 and the task manager runs every task that asks.
* `SDCard!FairSpec`: weak fairness of the driver, of the end of a busy time and
  of the end of the power-up, which the card's makers promise. Nothing is
  assumed of a card that has died, and `CallsReturn` is not claimed for one.

* `BdCache!Spec`: weak fairness of `Step`, the loops of the functions, which are
  those of the only thread. Callers owe nothing.

`DirTree`, `DirLog`, `File` and `MetadataPair` claim safety only, and have no fairness.

## 4. What is proved

`LookaheadProofs` holds the lemmas about the window that the others cite: the
arithmetic of offsets modulo the device, and what each operation keeps of the
window's types.

`AllocProofs`, from `BlockCount, LookaheadBits \in Nat \ {0}` and `Seeds` a set
of naturals:

* `TypeCorrect` - `Spec => []TypeOK`.
* `AckCovers` - `Spec => []AckCoversWindow`: `ack` is never less than the rest of
  the window, so the unsigned decrement never wraps.
* `Invariance` - `Spec => []IInv`.
* `NoSpaceIsSound` - `Spec => NoSpaceIsHonest`.
* `AllocationIsSafe` - `Spec => AllocatedIsFree`, assuming `~SplitAcks`: no block
  in use is handed out.

The invariant is `IInv`. "A clear bit is a free block" is not inductive, for the
window also passes over blocks in flight, which no traversal marks. What keeps
them safe is distance: `InflightBehind` says that a block in flight lies at
least `ack` blocks ahead of the next candidate, counted round the device. A block
that is taken falls behind the candidate, so the way round to it is at least
what remains of `ack`; each step brings every block nearer by as much as it takes
from `ack`; and the rest of the window is never longer than `ack`. An ack resets `ack` to a whole turn, which is sound only with nothing in flight;
that is `~SplitAcks`, and `MCAlloc` with `SplitAcks` shows that it is needed.
`UsedIsMarked` gives the same for linked blocks: the rest of the window marks all
of them, because a block becomes linked from being in flight, hence from beyond
the window. `UnwrappedIsEmpty` covers the seed of a reset, which is not reduced
modulo the device. `MarksWereUsed`, `PassedWasBusy` and `HistoryCoversUse` tie
marks and passed blocks to the histories, which gives `NoSpaceIsHonest`.
`InflightBehind` and `UsedIsMarked` are conditional on `~SplitAcks`; the parts
that `NoSpaceIsSound` needs are not.

`AsyncMountProofs`, from the assumptions of `AsyncMount` (the directories are
numbered from 1 and their pairs fit on the device):

* `AsyncTypeCorrect` - `Spec => []TypeOK`, and `AsyncAckCovers` - `Spec =>
  []AckCoversWindow`: slices of the task and operations of the application, in any
  order, with failures and any number of unmounts, never make `ack` wrap. The
  invariant has one part for each of the device, the task, the window and the
  flags; the window's part, `Fits`, is kept by each operation of `Lookahead`, so
  each action cites one lemma.
* `FirstMountIsLfsMount` - until the application first calls `unmount`, a mount in
  slices ends with the error, root and global state of `lfs_mount`, also on a
  device whose list is a loop. Hence `MountIsLfsMount` - `Spec => MountAgrees`,
  assuming `Remounts = 0` (section 3 shows what an unmount does). The invariant,
  `MountInv`, says that what the slices have gathered (`WalkAt`) is the element
  number `workblock` of the walk of `lfs_mount`. The walk is a recursive function:
  that it exists (`WalkExists`), and does not change any more once the list has
  ended (`WalkStays`), is shown with the least element of the set of lengths for
  which it does not, so that no induction over a formula is needed.

`SDCardProofs`, without assumptions on the constants but those of `SDCard`:

* `SelectionIsInvariant` - the card is selected only where the driver waits for
  data or for the end of a busy time.
* `ReleasedOnReturn` - hence `CardIsReleased`: for every card, size and
  combination of faults, multiple block transfers included, a call returns with
  the card released. `MCSDOneBlock` checks the same on single blocks.
* `TypeCorrect` - `Spec => []TypeOK`, for every card and every combination of
  faults. `TypeInv`, which `ShapeIsInvariant` shows to be inductive, adds to the
  types what every step needs to know of where it is: a call past its checks has
  arguments that passed them (`StartedOK`), the steps of `init` follow each other
  with the type of card found so far (`InitOK`), and the blocks counted down and
  those received make up the request (`CountOK`).
* `TransfersEnd` - `Spec => []TransfersAreEnded`, assuming `Reliable` (the card is
  not pulled out and answers every command) and `TakesCmd12`. Data blocks may be
  refused or missing. `StreamInv` has the open transfer for each place in the code.
* `InitialisedIsUsable` - `Spec => InitMakesUsable`, assuming `Reliable` and that
  the card sends its CSD register. `UsableInv`: a device that is initialised, and
  is not just reading the register, knows its size; a card that has left the idle
  state does not fall back into it before `init` is done.

* `DriverIsABlockDevice` - `Spec => KeepsPromise`, the refinement of
  `BlockDevice`, assuming `SafeAddressing` (if a high capacity card may be in the
  slot, no command is lost or refused with a CRC error) and `FullReports`
  (transfers are of single blocks, or the card stays in and neither refuses nor
  withholds a data block). The settings of section 3 show that both are needed:
  the failure of CMD58 is overwritten, so that a high capacity card would be
  addressed in bytes; and the status of a transfer of several blocks is that of
  CMD12, which says nothing of its blocks. Everything else may happen: exchange of
  cards, standard cards that lose commands, single blocks refused, any
  sequence of calls. Both runs of the driver are instances of the hypotheses.
  The argument: `AddrInv` says that an initialised driver addresses the card in
  the card's unit, so that command arguments mean the blocks of the call
  (`SentErase` and its like); `ContentInv` says how far the data has come, in the
  buffer (`ReadUpTo`) or on the card (`WrittenUpTo`, `AllErased`), for each place
  in the code; so that a return with "ok" finds all of it, and one with an error
  finds changes only in the range of the call. Each action is then a step of
  `BlockDevice` or a stutter.

`BdCacheProofs`, from the assumption of `BdCache` (caches are whole units, blocks
whole caches), whatever fails and in whatever order calls come:

* `CacheIsCoherent` - `Spec => []IInv`: wherever `rcache` covers a place that is
  not in `stale`, it has the byte of the device.
* `ReadsCurrent` - hence `ReadsAreCurrent`: whatever the sizes, hints and faults,
  a byte that a read takes is that of `pcache` if the read looks at it and it
  covers the place, else that of the device, or its place is in `stale`. The
  argument: a turn of the loop takes its bytes from one source; a turn that does
  not start in `pcache` ends where `pcache` begins (`BeforePcache`), so none of
  its bytes are pending; and no step changes the device without either dropping
  `rcache` or adding the places it covers to `stale`. The types of the caches
  are needed for the offsets: `IInv` has them and the coherence as its parts.
* `TypeCorrect` - `Spec => []TypeOK`. `Ranges` adds to the types that `pcache`
  starts on a unit: with sizes that divide each other (`UnitFits`, `AlignedUp`)
  neither cache reaches past its buffer or past a block.
* `ProgrammedStays` - `Spec => []ProgrammedIsKept`: what a caller has programmed
  is in `pcache` or on the device until it is given up, erased, or reported as
  failed. What makes it inductive is that nothing callers count on lies behind
  `pcache` in its block (`PcacheInv`), so that programming the rounded-up unit
  overwrites nothing; that a flush in the middle of a program leaves the rest of
  the data right behind the unit (`ProgInv`); and that the bytes `lfs_bd_cmp` has
  compared so far are the device's (`CompareInv`), because `rcache` was dropped
  first.
* `RefusalFollowsFailure` - `Spec => RefusedOnlyAfterFailure`, from the same
  invariant: the assertion that `pcache` has been flushed can only fail after a
  call that failed.

`MetadataPairProofs`, from the assumption of `MetadataPair`:

* `TypeCorrect` - `Spec => []TypeOK`, and `MountFindsTheDirectory` - `Spec =>
  [](linked => Found(disk))`: whatever is torn, stored wrongly, refused or cannot be
  read back, a pair that was once committed to is readable. Both follow from
  `LogInv`: the mdir in memory is a prefix of the log in its block (`Logged`), and
  the running commit lies behind it and asks its successor for a valid bit that
  the unit behind it does not hold (`Writing`). A write behind a prefix changes
  nothing of the prefix (`Stable`), which is the lemma about the scan that all
  rests on; the scan is a recursive function and its steps are reasoned about as
  those of `lfs_mount` are.
* `PairIsRecoverable` - `Spec => []Recoverable`, and `MemoryMatchesTheLog` - `Spec =>
  []MemoryAgrees`, assuming `ReadsBack`: reading back fails only where a commit
  fills the whole block, as it does in this product. The setting "unread" of section
  3 shows that it is needed. `Recoverable` is not inductive: a block may hold a
  complete commit that nobody promised, in front of or behind the log. `Kept` says
  what such a commit can be: behind the log only the running one or one that failed
  (`Tail`: one commit at most, for it asks for the wrong bit next), and in the other
  block an older directory, or a compaction that carries the next revision
  (`OtherInv`). `QuietInv` is what makes an append safe: a failed compaction that is
  complete all the same has left a unit in the program cache, and with that no unit
  of an append can be programmed. So a commit that succeeds is in the newer block
  and nothing follows it, which is `MemoryAgrees`. The signed comparison of
  revisions is right because the two blocks are at most two apart (`Older`), from
  `Revs >= 6`; the two comes from the rounding in `lfs_dir_alloc`.

`DirTreeProofs`, from the assumption of `DirTree` and `Sure`: `Uses` has none of
"fails", "full" and "rdonly". That is, a commit does not report an error, and no
call changes the tree without `lfs_fs_forceconsistency` before. Section 3 names
runs in which each of the three breaks `GlobalStateIsKnown`. Power losses between
any two commits, open files and directories, moves of a directory into itself and
all sizes are covered; `MCDirTree` runs with a setting that satisfies `Sure`.

* `TheTreeIsListed` - `Spec => []TreeIsListed`.
* `AnOrphanIsFlagged` - `Spec => []OrphansAreFlagged`.
* `TheGlobalStateIsKnown` - `Spec => []GlobalStateIsKnown`.
* `AnOpenFileIsFollowed` - `Spec => []HandleFollowsFile`.
* `TypeCorrect` - `Spec => []TypeOK`.
* `Invariance` - `Spec => []Inv`, from which all of them follow.

None of the five is inductive. That an orphan is flagged, for one, depends on a
directory having no more names than it should: else a deletion would leave one
that is not empty, or not leave one where the code expects it. `Inv` therefore
counts names. `NameCount(d, x)` is the number of entries on the list that name x;
a directory has one (`NamesOK`), or two while a rename between pairs is half done,
and then the global state hides one of them (`MovesOK`); at most one has none, it
is empty and flagged (`OrphansOK`). These and the shape of the list (`Threaded`:
no tail leads to the root, no two pairs share one) make up `CardOK`, which speaks
of the card alone. So it is what a commit has to keep whatever call it is part of,
and a power loss after it changes nothing. `OpOK` adds what the running call still
has to do: which directory it has orphaned, which entry it has to delete, and for
`lfs_mkdir` that the pair it has written already has the tail and the share of
the global state that make linking it a step of the list. `GlobalOK` ties `lfs_t`
to the card, and `Follows` the handle.

The proof has three layers. A commit (`PutCommits`) either writes its pair or
splits it; in both cases the list, the names and the sum of the global state are
what the contents called for, since the pair that is split off takes its place in
the list behind the other (`SplitNames`) and the whole of the change with it
(`SumAdd`, `SumChange`). On it rest lemmas that say what each kind of commit does
to names, list, sum and handles: `AddedIs`, `DeleteIs` (with the drop of a pair
left empty before it), `DropIs`, `LinkedIs`, `RenamedIs`. Then `RemoveKeeps`,
`DemoveKeeps`, `DropKeeps`, `FileLands`, `NamedLands` and `RenameLands` show that
`CardOK` is kept, and one lemma for each action, ending in `Inv`, puts that
together with what the call does around it.

Two facts about recursion are proved by hand, for the provers have no induction:
`Closure` follows tails as many times as there are pairs, and that is enough to
reach all of the list because each step that is not the last adds a pair
(`ClosureCloses`); and a directory ends (`ChainEnds`), since pairs that all went
on in one another could not be reached from the root. TLC checked `Inv` on
instances of `MCDirTree`'s size before it was proved.

`DirTreeNames`, from the same assumptions:

* `CallsAreAtomic` - `Spec => NamesPromise`, the refinement of `Namespace`: every
  step changes the names that a mount of the card would show by nothing, or by the
  whole of what the running call is to do, and that once between its start and its
  return; a call that reports an error has changed nothing.
* `NamesInvariance` - `Spec => []NamesInv`, the invariant it rests on.

`NamesInv` adds two things to `Inv`. `OrderOK`: along the pairs of a directory the
names increase strictly, so that no directory has a name twice. `CallOK`: while a
call is between two commits, the card shows what it showed at the call's start
(`mkdir` before its entry) or already all of what the call is to leave (`remove`
and `rename` after their first commit); for `mkdir` also that the place the lookup
found is still the place of the new name. Order is what makes lookups right:
`LookupFinds` shows that the walk of `lfs_dir_find`, which stops at the first name
not below the one sought, finds the entry if there is one, and otherwise the only
place (`Place`) where the name can go; and inserting a name at its place keeps the
order (`AddedNames`), in one pair or in one that splits.

A commit is then one of four kinds: it alters the entries of one pair (`Alters`), it
splits a pair (`Extended`), it puts an empty directory on the list (`Appended`) or
takes an empty pair off it (`Gone`). For each a lemma says what becomes of the
places of all other entries, hence that the set of all entries (`All`) changes by
exactly the entry created or deleted. What a mount shows is `All` without the entry
that the global state hides (`OneHidden`): a rename between pairs adds the new
entry and hides the old one in the same commit, and deletes the old one, hidden
already, in the next; `lfs_fs_demove` does the latter after a loss of power. The
last part (`NextNames`) has one lemma for each action, which names the step of
`Namespace` that it is.

Records need one assumption more, `NoCallAssumption`: the constant that stands for
"no call" is none of the calls.

The second half of `DirTreeNames` is about a directory that is open for reading.
It assumes that `Uses` has neither "next" nor "early", which section 3 shows to be
needed: the entry that is read next is not removed, and no directory is opened
before a pending move is finished.

* `AlwaysReadable` - `Spec => StaysReadable`: `lfs_dir_read` never comes upon a
  place that is not there.
* `EachReadOnce` - `Spec => ReadsEachOnce`: no entry is returned twice, and at the
  end none is left out that was there all along.
* `ReadsInvariance` - `Spec => []ReadInv`, the invariant they rest on.

`ReadInv` relates three things: the handle (pair, id and its copy of the pair's
count and tail), the card, and the history of what was read. Either the handle
stands at a place in its directory (`Stands`) and its copy is fresh (`Fresh`), or it
is at the end of a pair that was dropped when it had nothing left (`Blind`).
`StoryOK` says that what has been returned lies behind that place (`Read`) and what is
still due ahead of it (`Unread`), where "behind" is the order of places along the
pairs of the directory (`Before`). `Keeps` says of one commit, and of one place
before it and one after it, that all entries but those the commit writes stay on
the side they were on. It is shown for each of the kinds of commit above, with
`FixUp` taking the handle from the one place to the other, and `RenameReads` does it
for the commit that creates one entry and deletes another in the same pair.

A handle at the end of a dropped pair is where the claim ends. No traversal visits
that pair, so it may be given to another directory, and the handle would go on
with that directory's entries. The model calls such a handle "astray":
`StaysReadable` covers it, and `ReadsEachOnce`, which speaks of `handle.kind =
"dir"`, says nothing of it.

### Only model-checked

Liveness (`AllocReturns`, `MountEnds`, `TraversalComesRound`, both `CallsReturn`)
and anything about `ENABLED` are beyond the proof system. So is induction over
data where the induction hypothesis is a formula: what the properties of `File`
(lists, and calls that are recursive) and of `DirLog` (folds over a log) say of a
recursive definition is checked by TLC only. What
the store of values promises about a `DirLog` is a formula about such folds, and
`TypeOK` of both modules goes through them as well: that a log stays well-formed
is what the fold computes.

## 5. Not modelled

The bits of a tag, names and the bytes of entries (a directory holds a number of
entries), `.` and `..` in paths; the superblock entry and its
expansion; the relocation of metadata pairs, which a commit that reads back
wrongly causes in a pair other than the root (`block_cycles` is -1, so that wear
causes none, and the driver never reports `LFS_ERR_CORRUPT` of its own), and the
half-orphans that only relocation leaves; attributes given with an open file; the CRC (perfect where a commit is
read back, absent for data blocks as in the driver); the bits of the CSD
register; frequency; `DSPI_A`; the synchronous `mount`, `format` and `statvfs` of
the class `LittleFS`; the migration code of littlefs v1, which is compiled out.
An exchange of cards under an initialised driver is left out: the code has no way
to notice it. In `AsyncMount` a failing traversal inside `lfs_alloc` is left to
`Alloc`. In `File` commits always succeed (their failures are in `MetadataPair`
and `DirTree`), reading is not cached (`BdCache`), and a call is not interleaved
with the slices of the asynchronous traversal (`AsyncMount`).

## 6. Plan

Done: `Lookahead`, `Alloc`, `AsyncMount`, `BlockDevice`, `SDCard`, `MetadataPair`,
`BdCache`, `Namespace` with `DirTree`, `EntryStore` with `DirLog`, `FileStore` with
`File`, and the proofs
`LookaheadProofs`, `AllocProofs`, `AsyncMountProofs`, `SDCardProofs`,
`BdCacheProofs`, `MetadataPairProofs`, `DirTreeProofs`, `DirTreeNames`.

Next, in this order:

1. `DirTree` with two open handles, and with a commit that fails in each of its
   places, to say which of its invariants survive which failure.
2. `MetadataPair` and `Alloc` composed, so that the blocks of a pair come from the
   allocator, with relocation of a pair that turns bad.
3. The synchronous `mount` and `format` of `LittleFS` beside the unrolled ones.
