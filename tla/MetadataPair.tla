---------------------------- MODULE MetadataPair -----------------------------
(***************************************************************************)
(* One metadata pair of littlefs: two blocks that hold a log of commits,   *)
(* written by lfs_dir_commit and lfs_dir_compact, and read back by         *)
(* lfs_dir_fetchmatch after a power loss at any moment                     *)
(* (littlefs/lfs.cpp:787-1000, 1223-1412, 1484-1916).                      *)
(*                                                                         *)
(* A block is `Units` program units; a commit fills whole units.  Erasing  *)
(* does nothing on an SD card (SDCard.h:270), so a unit always holds what  *)
(* was last programmed there, whoever wrote it.  What keeps the end of the *)
(* log apart from older contents is the valid bit: the first tag of a      *)
(* commit is stored with bit 31 as its predecessor's CRC tag asks for, and *)
(* a CRC tag asks for the opposite of what the next unit holds.            *)
(*                                                                         *)
(* A commit is represented by the value the directory has after it.  The   *)
(* CRC is taken to be perfect.  The pair is the superblock pair {0, 1},    *)
(* which is never relocated.                                               *)
(***************************************************************************)
EXTENDS Integers

CONSTANTS
  Value,        (* contents of the directory                               *)
  Revs,         (* revision counts are numbers modulo Revs (2^32)          *)
  Crowded,      (* whether the directory may have 255 entries, which makes *)
                (* a commit append without knowing the rest of the block   *)
  Settings      (* each of the variable `on`                               *)

ASSUME MetadataPairAssumption ==
  /\ Revs \in Nat /\ Revs >= 6 /\ Revs % 2 = 0
  /\ Crowded \in BOOLEAN
  /\ \A s \in Settings :
       /\ s.units \in Nat \ {0} /\ s.sizes \subseteq 1 .. s.units
       /\ s.strays \subseteq 0 .. (Revs - 1)
       /\ s.faults \subseteq {"torn", "garbled", "refused", "unread"}
       /\ s.commits \in Nat

VARIABLES
  on,           (* what the pair is on; never changes                      *)
  disk,         (* the two blocks                                          *)
  linked,       (* whether the pair is part of a file system               *)
  dir,          (* lfs_mdir_t of the running operations                    *)
  pc, new,      (* the running commit: its phase, and its parameters       *)
  at,           (* units of it that have been programmed                   *)
  pending,      (* the unit lfs->pcache still holds after a failure        *)
  result,       (* what the last commit returned                           *)
  promised,     (* history: the values a mount may find                    *)
  begun         (* commits begun, up to MaxCommits                         *)

vars == <<on, disk, linked, dir, pc, new, at, pending, result, promised,
          begun>>

Units == on.units           (* block_size / prog_size                      *)
Sizes == on.sizes           (* units a commit may take                     *)
StrayRevs == on.strays      (* revision counts that older file systems     *)
                            (* have left, or that a torn unit shows        *)
Faults == on.faults         (* "torn", power is lost in the middle of a    *)
                            (* unit; "garbled", a unit is stored wrongly   *)
                            (* without notice; "refused", programming      *)
                            (* fails; "unread", reading back fails         *)
MaxCommits == on.commits    (* bounds the commits begun in a behaviour     *)

Bit == {0, 1}
Unit == 1 .. Units
Rev == 0 .. (Revs - 1)
Block == {0, 1}

(* A commit as its CRC covers it: `rev` is covered by the first one in a   *)
(* block only.  `bit` is bit 31 of its first tag as stored, `next` what it *)
(* asks of its successor.                                                  *)
Commit(val, of, bit, next, rev) ==
  [val |-> val, of |-> of, bit |-> bit, next |-> next, rev |-> rev]
NoRev == -1
Garbage == Commit("garbage", 0, 0, 0, NoRev)
NoCommit == Commit("none", 0, 0, 0, NoRev)
Commits ==
  {Garbage} \cup [val: Value, of: Unit, bit: Bit, next: Bit,
                  rev: Rev \cup {NoRev}]

(* A unit holds part of a commit; `bit` is bit 31 of the word a fetch      *)
(* would take for a tag, and `rev` its first word, were it the first one   *)
(* of the block.                                                           *)
Contents == [commit: Commits, part: 0 .. Units, bit: Bit, rev: Rev]

------------------------------------------------------------------------------
(* lfs_scmp(a, b) > 0.                                                     *)
Newer(a, b) == (a - b + Revs) % Revs \in 1 .. ((Revs \div 2) - 1)

(* lfs_dir_fetchmatch of one block: is the commit that starts in unit u    *)
(* complete?                                                               *)
Complete(blk, u) ==
  LET c == blk[u].commit IN
  /\ c # Garbage /\ blk[u].part = 1
  /\ u + c.of - 1 <= Units
  /\ \A i \in 1 .. c.of : blk[u + i - 1].commit = c /\ blk[u + i - 1].part = i
  /\ c.rev = IF u = 1 THEN blk[1].rev ELSE NoRev

(* The scan: off is the number of units of complete commits, `expect` the  *)
(* valid bit the next tag must have.  It ends where there is none with     *)
(* that bit or no complete commit; what is beyond a tag with the wrong bit *)
(* counts as erased.                                                       *)
Seen(off, expect, val) == [off |-> off, expect |-> expect, val |-> val]
Follows(blk, s) ==
  /\ s.off < Units /\ blk[s.off + 1].bit = s.expect
  /\ Complete(blk, s.off + 1)
Onward(blk, s) ==
  LET c == blk[s.off + 1].commit IN
  IF Follows(blk, s) THEN Seen(s.off + c.of, c.next, c.val) ELSE s
Scan(blk) ==
  LET step[n \in 0 .. Units] ==
        IF n = 0 THEN Seen(0, 1, "none") ELSE Onward(blk, step[n - 1])
  IN step[Units]
ErasedAfter(blk, s) ==
  s.off > 0 /\ s.off < Units /\ blk[s.off + 1].bit # s.expect

(* An lfs_mdir_t read from block b of the pair.                            *)
Mdir(d, b) ==
  LET s == Scan(d[b]) IN
  [block |-> b, rev |-> d[b][1].rev, off |-> s.off, bit |-> s.expect,
   val |-> s.val, erased |-> ErasedAfter(d[b], s)]

(* lfs_dir_fetchmatch: the block with the newer revision, else the other.  *)
Fetch(d) ==
  LET first == IF Newer(d[1][1].rev, d[0][1].rev) THEN 1 ELSE 0
  IN IF Mdir(d, first).off > 0 THEN Mdir(d, first) ELSE Mdir(d, 1 - first)

Found(d) == Fetch(d).off > 0

(* Mutated: the revision is rounded up in a wider type.                    *)
AllocatedWide(d) ==
  LET r == d[1][1].rev IN
  [block |-> 1, rev |-> r + (r % 2), off |-> 0, bit |-> 1,
   val |-> "none", erased |-> FALSE]

(* lfs_dir_alloc takes the blocks backwards and writes nothing; the        *)
(* revision goes on from what block 1 happens to hold.                     *)
Allocated(d) ==
  LET r == d[1][1].rev IN
  [block |-> 1, rev |-> (r + (r % 2)) % Revs, off |-> 0, bit |-> 1,
   val |-> "none", erased |-> FALSE]

------------------------------------------------------------------------------
(* What other file systems have left in a block: nothing readable, or a    *)
(* commit and leftovers of longer ones.                                    *)
Leftover(bit, rev) == [commit |-> Garbage, part |-> 0, bit |-> bit, rev |-> rev]
OldBlock(rev, v, bits) ==
  [u \in Unit |->
     IF u = 1
     THEN [commit |-> Commit(v, 1, 1, IF Units > 1 THEN 1 - bits ELSE 0, rev),
           part |-> 1, bit |-> 1, rev |-> rev]
     ELSE Leftover(bits, 0)]
RawBlock(rev, bits) ==
  [u \in Unit |-> Leftover(bits, IF u = 1 THEN rev ELSE 0)]

Init ==
  /\ on \in Settings
  /\ disk \in [Block -> {OldBlock(r, v, b) : r \in StrayRevs, v \in Value, b \in Bit}
                       \cup {RawBlock(r, b) : r \in StrayRevs, b \in Bit}]
  /\ linked = FALSE
  /\ dir = Allocated(disk)
  /\ pc = "idle" /\ at = 0
  /\ new = NoCommit
  /\ pending = <<>>
  /\ result = "none"
  /\ promised = {}
  /\ begun = 0

(* Where the running commit goes: its block, and the units before it.      *)
Target == IF pc = "append" THEN dir.block ELSE 1 - dir.block
Base   == IF pc = "append" THEN dir.off ELSE 0

(* Mutated: asks for the valid bit the unit holds already.                 *)
OppositeSame(blk, u) == IF u > Units THEN 0 ELSE blk[u].bit

(* lfs_dir_commitcrc asks for the opposite of the valid bit that the unit  *)
(* after the commit holds; beyond the block there is nothing to tell from. *)
Opposite(blk, u) == IF u > Units THEN 0 ELSE 1 - blk[u].bit

(* lfs_dir_compact of value v into m units of the other block.  The        *)
(* program cache is dropped.                                               *)
Compact(v) ==
  /\ \E m \in Sizes :
       new' = Commit(v, m, 1, Opposite(disk[1 - dir.block], m + 1),
                     (dir.rev + 1) % Revs)
  /\ pc' = "compact" /\ at' = 0
  /\ pending' = <<>>

(* lfs_dir_commit of value v: n units are appended if the rest of the      *)
(* block is known to hold no commits, or if the directory is crowded       *)
(* (count >= 0xff).                                                        *)
Start ==
  /\ pc = "idle"
  /\ begun < MaxCommits /\ begun' = begun + 1
  /\ \E v \in Value :
       /\ \/ /\ dir.erased \/ (Crowded /\ dir.off > 0)
             /\ \E n \in Sizes :
                  new' = Commit(v, n, dir.bit,
                                Opposite(disk[dir.block], dir.off + n + 1), NoRev)
             /\ pc' = "append" /\ at' = 0
             /\ UNCHANGED pending
          \/ ~dir.erased /\ Compact(v)
       /\ promised' = promised \cup {v}
  /\ UNCHANGED <<disk, linked, dir, result>>

(* A commit that fails: the caller's lfs_mdir_t is as before.              *)
Fail(r) ==
  /\ pc' = "idle" /\ at' = 0 /\ new' = NoCommit
  /\ result' = r
  /\ UNCHANGED <<linked, dir, promised, begun>>

(* lfs_bd_prog of the next unit.  When the card reports an error the       *)
(* program cache keeps the unit.                                           *)
Garbled(u) == {Leftover(b, r) : b \in Bit, r \in IF u = 1 THEN StrayRevs ELSE {0}}

Program ==
  /\ pc # "idle" /\ at < new.of /\ Base + at + 1 <= Units
  /\ LET u == Base + at + 1
         stored == {[commit |-> new, part |-> at + 1, bit |-> b,
                     rev |-> IF u = 1 THEN new.rev ELSE 0] :
                      b \in IF at = 0 THEN {new.bit} ELSE Bit}
     IN
     \/ /\ pending \notin {<<>>, <<Target, u>>}
        /\ Fail("not_flushed")
        /\ UNCHANGED <<disk, pending>>
     \/ /\ pending \in {<<>>, <<Target, u>>}
        /\ \E x \in stored \cup (IF "garbled" \in Faults THEN Garbled(u) ELSE {}) :
             disk' = [disk EXCEPT ![Target][u] = x]
        /\ at' = at + 1
        /\ pending' = <<>>
        /\ UNCHANGED <<linked, dir, pc, new, result, promised, begun>>
     \/ /\ pending \in {<<>>, <<Target, u>>}
        /\ "refused" \in Faults
        /\ \E x \in {disk[Target][u]} \cup Garbled(u) :
             disk' = [disk EXCEPT ![Target][u] = x]
        /\ pending' = <<Target, u>>
        /\ Fail("io")

(* An attribute does not fit any more, when some units have been written.  *)
NoFit ==
  /\ pc = "append" /\ Base + new.of > Units
  /\ Compact(new.val)
  /\ UNCHANGED <<disk, linked, dir, result, promised, begun>>

(* Mutated: the commit is not read back.                                   *)
ReadableUnread == TRUE

(* lfs_dir_commitcrc computes the CRC of what it reads back.               *)
Readable == Complete(disk[Target], Base + 1)

(* The end of lfs_dir_commitcrc: the commit is read back.                  *)
Verified ==
  /\ pc # "idle" /\ at = new.of
  /\ Readable
  /\ dir' = [block |-> Target, rev |-> IF pc = "append" THEN dir.rev ELSE new.rev,
             off |-> Base + new.of, bit |-> new.next, val |-> new.val,
             erased |-> dir.erased]
  /\ pc' = "idle" /\ at' = 0 /\ new' = NoCommit
  /\ result' = "ok"
  /\ linked' = TRUE
  /\ promised' = {new.val}
  /\ UNCHANGED <<disk, pending, begun>>

(* A commit that cannot be read is compacted into the other block; if that *)
(* fails too the superblock cannot be moved elsewhere.                     *)
Unverified ==
  /\ pc # "idle" /\ at = new.of
  /\ ~Readable
  /\ \/ /\ pc = "append" /\ Compact(new.val)
        /\ UNCHANGED <<linked, dir, result, promised, begun>>
     \/ /\ pc = "compact" /\ Fail("no_space")
        /\ pending' = <<>>
  /\ UNCHANGED disk

(* Reading back fails.                                                     *)
VerifyFails ==
  /\ pc # "idle" /\ at = new.of
  /\ "unread" \in Faults
  /\ Fail("io")
  /\ UNCHANGED <<disk, pending>>

(* Every operation starts with a fetch.                                    *)
Refetch ==
  /\ pc = "idle" /\ linked
  /\ dir' = Fetch(disk)
  /\ UNCHANGED <<disk, linked, pc, new, at, pending, result, promised, begun>>

(* Power is lost, perhaps in the middle of a unit; the next mount goes on  *)
(* from what it finds.  A pair nobody refers to is allocated again.        *)
PowerLoss ==
  /\ \/ disk' = disk
     \/ /\ "torn" \in Faults
        /\ pc # "idle" /\ at < new.of /\ Base + at + 1 <= Units
        /\ \E x \in Garbled(Base + at + 1) :
             disk' = [disk EXCEPT ![Target][Base + at + 1] = x]
  /\ dir' = IF linked THEN Fetch(disk') ELSE Allocated(disk')
  /\ promised' = IF linked THEN {dir'.val} ELSE {}
  /\ pc' = "idle" /\ at' = 0 /\ new' = NoCommit
  /\ pending' = <<>>
  /\ result' = "none"
  /\ UNCHANGED <<linked, begun>>

Next ==
  /\ UNCHANGED on
  /\ \/ Start \/ Program \/ NoFit \/ Verified \/ Unverified \/ VerifyFails
     \/ Refetch \/ PowerLoss

Spec == Init /\ [][Next]_vars

------------------------------------------------------------------------------
TypeOK ==
  /\ disk \in [Block -> [Unit -> Contents]]
  /\ linked \in BOOLEAN
  /\ dir.block \in Block /\ dir.rev \in Rev /\ dir.off \in 0 .. Units
  /\ dir.bit \in Bit
  /\ pc \in {"idle", "append", "compact"}
  /\ at \in 0 .. Units
  /\ promised \subseteq Value

(* "strong copy-on-write guarantees and storage on disk is always kept in  *)
(* a valid state" (littlefs/README.md:19): at any moment a mount finds a   *)
(* value, and it is the last one committed or that of a commit begun       *)
(* since, never one that lies in the block from before.                    *)
Recoverable ==
  linked => Found(disk) /\ Fetch(disk).val \in promised

(* The lfs_mdir_t in memory after a commit is the one a fetch would read,  *)
(* so that the next commit is appended where the log ends, with the valid  *)
(* bit the log asks for (lfs_dir_commit, "successful commit, update dir"). *)
MemoryAgrees ==
  pc = "idle" /\ result = "ok" =>
    LET f == Fetch(disk) IN
      /\ f.block = dir.block /\ f.rev = dir.rev
      /\ f.off = dir.off /\ f.bit = dir.bit /\ f.val = dir.val
==============================================================================
