------------------------------- MODULE DirTree -------------------------------
(***************************************************************************)
(* The directories of littlefs: entries in metadata pairs, all pairs       *)
(* threaded on one tail list, and the global state that ties together the  *)
(* commits of an operation that needs several (littlefs/lfs.cpp:1039-1211, *)
(* 1385-1442, 1693-1916, 1920-2169, 3201-3425, 4215-4300, 4388-4525).      *)
(*                                                                         *)
(* A commit to one pair is atomic here (module MetadataPair shows that).   *)
(* A step is one commit, with all the code computes up to the next one;    *)
(* power may be lost between any two.  The size of a directory is the      *)
(* number of its entries.  Ids count from 1; the superblock's own entry,   *)
(* which stays first in the root's first pair, is left out.  Pairs are     *)
(* never relocated: block_cycles is -1, and no commit reads back wrongly.  *)
(***************************************************************************)
EXTENDS Naturals, FiniteSets, SequencesExt

CONSTANTS
  Pair,        (* metadata pairs of the device                             *)
  Root,        (* the pair {0, 1}                                          *)
  NoPair,      (* LFS_BLOCK_NULL twice                                     *)
  Name,        (* names: numbers, to be sorted by                          *)
  File,        (* files; an entry names a file, or a pair: a directory     *)
  Capacity,    (* entries a compaction leaves in a pair without splitting  *)
  Full,        (* entries that fit in a pair at all                        *)
  MaxCalls,    (* bounds the mutating calls in a behaviour,                *)
  MaxWatched,  (* and those up to the last one while a directory is open   *)
  NoCall,
  Uses         (* what happens: "crash", power is lost; "fails", commits   *)
               (* report errors; "full", a commit may find no pair free to *)
               (* split into, and fails; "files", "dirs", a file or a      *)
               (* directory is held open; "rdonly", files are created with *)
               (* LFS_O_RDONLY | LFS_O_CREAT; "selfmove", a directory is   *)
               (* moved into itself; "early", a directory is opened while  *)
               (* an entry has yet to be deleted after a rename; "next",   *)
               (* the entry that a directory reads next is removed         *)

ASSUME DirTreeAssumption ==
  /\ Root \in Pair /\ NoPair \notin Pair /\ IsFiniteSet(Pair)
  /\ Name \subseteq Nat /\ Pair \cap File = {}
  /\ Capacity \in Nat \ {0} /\ Full \in Capacity .. (2 * Capacity)
  /\ MaxCalls \in Nat /\ MaxWatched \in Nat
  /\ Uses \subseteq {"crash", "fails", "full", "files", "dirs", "rdonly",
                     "selfmove", "early", "next"}

(* "No call" is none of the calls that take several commits.               *)
ASSUME NoCallAssumption ==
  LET Found == SUBSET (Pair \X Name \X (Pair \cup File)) IN
  /\ NoCall \notin [op : {"make"}, dir : Pair, name : Name, node : Pair, found : Found]
  /\ NoCall \notin [op : {"remove"}, dir : Pair, name : Name, found : Found]
  /\ NoCall \notin [op : {"rename"}, dir : Pair, name : Name, to : Pair, as : Name,
                   found : Found]

VARIABLES
  disk,        (* what a fetch of each pair finds                          *)
  lfs,         (* the global state in lfs_t: gstate, gdisk, gdelta         *)
  op,          (* the running call: where it is, and its locals            *)
  call,        (* history: the running call as its caller made it          *)
  result,      (* what the last call returned                              *)
  handle,      (* an open file or directory, on lfs->mlist                 *)
  calls        (* mutating calls begun, up to MaxCalls                     *)

vars == <<disk, lfs, op, call, result, handle, calls>>

------------------------------------------------------------------------------
(* Global state.  lfs_gstate_t is three words that are only combined with  *)
(* exclusive or; here it is the set of what was put in: the orphan bit,    *)
(* and entries that have been moved away and must be deleted.  The count   *)
(* of orphans next to the bit is never above one: every call that raises   *)
(* it starts with lfs_fs_forceconsistency, which brings it to zero.        *)
Orphans == <<NoPair, 0>>
Token == {Orphans} \cup (Pair \X (1 .. (Full + 1)))
Xor(a, b) == (a \ b) \cup (b \ a)
HasMove(g) == g \ {Orphans} # {}
(* Mutated: the move is not recorded.                                      *)
PrepMoveNot(l, moves) == l
(* Mutated: the orphan is not recorded.                                    *)
PrepOrphansNot(l, on) == l
PrepMove(l, moves) ==
  [l EXCEPT !.gstate = (@ \cap {Orphans}) \cup moves]
PrepOrphans(l, on) ==
  [l EXCEPT !.gstate = IF on THEN @ \cup {Orphans} ELSE @ \ {Orphans}]

(* What a commit has to bring to the card.                                 *)
Pending(l) == Xor(Xor(l.gstate, l.gdisk), l.gdelta)
Settled(l) == [l EXCEPT !.gdisk = l.gstate, !.gdelta = {}]

(* lfs_dir_getgstate: the part that a pair about to be dropped contributes *)
(* is to be taken over.                                                    *)
(* Mutated: it is forgotten.                                               *)
TakenNot(l, delta) == l
Taken(l, delta) == [l EXCEPT !.gdelta = Xor(@, delta)]

------------------------------------------------------------------------------
(* Pairs and the tail list.                                                *)
Entry == [name : Name, node : Pair \cup File]
Blank == [ents |-> <<>>, tail |-> NoPair, split |-> FALSE, delta |-> {}]

(* The pairs met from those of P on by following tails, where they go on   *)
(* with the next directory or only where they stay in the same.            *)
Closure(d, P, hard) ==
  LET met[n \in 0 .. Cardinality(Pair)] ==
        IF n = 0 THEN P
        ELSE LET m == met[n - 1]
             IN m \cup ({d[p].tail : p \in {p \in m : hard => d[p].split}}
                          \ {NoPair})
  IN met[Cardinality(Pair)]
Listed(d)   == Closure(d, {Root}, FALSE)
Chain(d, h) == Closure(d, {h}, TRUE)
LastOf(d, h) == CHOOSE p \in Chain(d, h) : ~d[p].split
Pred(d, q)  == CHOOSE p \in Listed(d) : d[p].tail = q
Heads(d) ==
  {Root} \cup ({d[p].tail : p \in {p \in Listed(d) : ~d[p].split}} \ {NoPair})

(* The entries lfs_dir_getslice and lfs_dir_fetchmatch show: the one that  *)
(* the global state says has been moved away is hidden.                    *)
Visible(d, g, p) == {i \in DOMAIN d[p].ents : <<p, i>> \notin g}
Shown(d, g, p)   == {d[p].ents[i] : i \in Visible(d, g, p)}
Inside(d, g, h)  == UNION {Shown(d, g, p) : p \in Chain(d, h)}
Tree(d, g) ==
  UNION {{<<h, e.name, e.node>> : e \in Inside(d, g, h)} : h \in Heads(d)}

(* lfs_fs_parent finds q.                                                  *)
HasParent(d, g, q) ==
  \E p \in Listed(d) : \E e \in Shown(d, g, p) : e.node = q

(* The sum a mount computes.                                               *)
Sum(d, P) ==
  {t \in UNION {d[p].delta : p \in P} :
     Cardinality({p \in P : t \in d[p].delta}) % 2 = 1}
OnCard(d) == Sum(d, Listed(d))

(* Directories a path can lead to from h.                                  *)
Below(d, g, h) ==
  LET reach[n \in 0 .. Cardinality(Pair)] ==
        IF n = 0 THEN {h}
        ELSE LET r == reach[n - 1]
             IN r \cup ({e.node : e \in UNION {Inside(d, g, p) : p \in r}}
                         \cap Pair)
  IN reach[Cardinality(Pair)]

(* lfs_dir_find of name n in the directory at h: the first pair that holds *)
(* it or a greater one, else the end of the last.  An entry before it that *)
(* has been moved away does not count in the id.                           *)
Lookup(d, g, h, n) ==
  LET from(p) == {i \in DOMAIN d[p].ents : d[p].ents[i].name >= n}
      at[k \in 0 .. Cardinality(Pair)] ==
        IF k = 0 THEN h
        ELSE LET p == at[k - 1]
             IN IF ~d[p].split \/ from(p) # {} THEN p ELSE d[p].tail
      p == at[Cardinality(Pair)]
      hit == from(p) # {}
      i == IF hit THEN Min(from(p)) ELSE Len(d[p].ents) + 1
      found == hit /\ d[p].ents[i].name = n /\ <<p, i>> \notin g
      before == {j \in 1 .. (i - 1) : <<p, j>> \in g}
  IN [pair |-> p, found |-> found,
      id |-> IF hit THEN i - Cardinality(before) ELSE i,
      node |-> IF found THEN d[p].ents[i].node ELSE NoPair]

------------------------------------------------------------------------------
(* Commits.  A state of the card and of lfs_t, with the pair that is       *)
(* allocated but not linked; the outcomes also say whether the commit      *)
(* reports success and which pairs the open handles have been told of.     *)
Held == IF op.at \in {"mkdir_link", "mkdir_entry"} THEN {op.dir} ELSE {}
Now == [disk |-> disk, lfs |-> lfs, held |-> Held, ok |-> TRUE, told |-> {}]
Free(s) == Pair \ (Listed(s.disk) \cup s.held)
Fails(s) == [s EXCEPT !.ok = FALSE]

(* Mutated: one entry too many is written.                                 *)
FitsOneMore(n) == n <= Full + 1
Fits(n) == n <= Full

(* lfs_dir_commit of contents m to pair p.  The log has room for Full      *)
(* entries; a compaction splits off the upper half if there are more than  *)
(* Capacity and a pair is free.  The split-off pair is written first and   *)
(* takes the global state with it.  Only with Full = 2 * Capacity can that *)
(* half hold more than Capacity: it is then kept in one pair, as the code  *)
(* keeps it when no further pair is free (lfs.cpp:1523); where one is, the *)
(* code splits it once more, which is left out.                            *)
Put(s, p, m) ==
  LET n == Len(m.ents)
      h == n \div 2
      change == Pending(s.lfs)
      whole == [s EXCEPT !.disk[p] = [m EXCEPT !.delta = Xor(@, change)],
                         !.lfs = Settled(@), !.told = @ \cup {p}]
      tail(q) == [s EXCEPT !.disk[q] = [m EXCEPT
                                          !.ents = SubSeq(@, h + 1, n),
                                          !.delta = change],
                           !.lfs = Settled(@)]
      halves(q) == [tail(q) EXCEPT !.told = @ \cup {p},
                      !.disk[p] = [m EXCEPT !.ents = SubSeq(@, 1, h),
                                            !.tail = q, !.split = TRUE]]
      spare == IF n > Capacity THEN Free(s) ELSE {}
  IN  (IF Fits(n) THEN {whole} ELSE {})
      \cup {halves(q) : q \in spare}
      \cup (IF ~Fits(n) /\ spare = {} /\ "full" \in Uses
            THEN {Fails(s)} ELSE {})
      \cup (IF "fails" \in Uses
            THEN {Fails(s)} \cup {Fails(tail(q)) : q \in spare} ELSE {})

(* lfs_dir_drop: p takes over the tail of q, its successor, and the global *)
(* state q holds.                                                          *)
Drop(s, p, q) ==
  Put([s EXCEPT !.lfs = Taken(@, s.disk[q].delta)], p,
      [s.disk[p] EXCEPT !.tail = s.disk[q].tail, !.split = s.disk[q].split])

(* A commit that deletes entry i; a pair it leaves empty is first taken    *)
(* out of its directory, unless it is the directory's first.               *)
Delete(s, p, i) ==
  LET m == [s.disk[p] EXCEPT !.ents = RemoveAt(@, i)]
      emptied == m.ents = <<>> /\ p # Root /\ s.disk[Pred(s.disk, p)].split
  IN IF ~emptied THEN Put(s, p, m)
     ELSE UNION {IF o.ok THEN Put(o, p, m) ELSE {o} :
                   o \in Drop(s, Pred(s.disk, p), p)}

------------------------------------------------------------------------------
(* Open files and directories.  id is the entry of a file, or the next one *)
(* that lfs_dir_read returns; count, tail, split are the handle's copy of  *)
(* its lfs_mdir_t.  What an open directory has returned (seen) and still   *)
(* has to (due) is history.                                                *)
NoHandle == [kind |-> "none", pair |-> NoPair, id |-> 0, count |-> 0,
             tail |-> NoPair, split |-> FALSE, head |-> NoPair,
             node |-> NoPair, seen |-> {}, due |-> {}]

Create(i) == [op |-> "create", id |-> i]
Del(i)    == [op |-> "delete", id |-> i]
(* Mutated: a file is not moved on by an entry created in its place.       *)
ShiftBehind(h, a) ==
  IF a.op = "delete" /\ h.id = a.id THEN [h EXCEPT !.pair = NoPair]
  ELSE IF a.op = "delete" /\ h.id > a.id THEN [h EXCEPT !.id = @ - 1]
  ELSE IF a.op = "create" /\ h.id > a.id THEN [h EXCEPT !.id = @ + 1]
  ELSE h
(* Mutated: an entry deleted before the place is not counted.              *)
ShiftUp(h, a) ==
  IF a.op = "delete" /\ h.id = a.id THEN [h EXCEPT !.pair = NoPair]
  ELSE IF a.op = "create" /\ h.id >= a.id THEN [h EXCEPT !.id = @ + 1]
  ELSE h
(* Mutated: the last entry read is taken for the one to be read.           *)
ShiftLate(h, a) ==
  IF a.op = "delete" /\ h.id - 1 = a.id THEN [h EXCEPT !.pair = NoPair]
  ELSE IF a.op = "delete" /\ h.id > a.id THEN [h EXCEPT !.id = @ - 1]
  ELSE IF a.op = "create" /\ h.id >= a.id THEN [h EXCEPT !.id = @ + 1]
  ELSE h

(* What an attribute of a commit does to a handle of the pair.             *)
Shift(h, a) ==
  IF a.op = "delete" /\ h.id = a.id THEN [h EXCEPT !.pair = NoPair]
  ELSE IF a.op = "delete" /\ h.id > a.id THEN [h EXCEPT !.id = @ - 1]
  ELSE IF a.op = "create" /\ h.id >= a.id THEN [h EXCEPT !.id = @ + 1]
  ELSE h

Copy(h, d, p) ==
  [h EXCEPT !.count = Len(d[p].ents), !.tail = d[p].tail,
            !.split = d[p].split]
Crossed(h, d) ==
  IF h.id > h.count /\ h.split
  THEN Copy([h EXCEPT !.pair = h.tail, !.id = @ - h.count], d, h.tail)
  ELSE h

(* The attributes of a commit, one after the other.                        *)
Shifted(h, attrs) ==
  LET at[n \in 0 .. Len(attrs)] ==
        IF n = 0 THEN h ELSE Shift(at[n - 1], attrs[n])
  IN at[Len(attrs)]

(* The end of a lfs_dir_commit with attributes attrs to pair p: handles of *)
(* a pair that has been committed are brought up to date, and follow their *)
(* entry into the tail.                                                    *)
FixUp(h, o, p, attrs) ==
  LET moved == IF h.pair = p THEN Shifted(h, attrs) ELSE h
      fresh == Copy(moved, o.disk, h.pair)
  IN IF h.pair \notin o.told THEN h
     ELSE IF moved.pair = NoPair THEN fresh
     ELSE Crossed(Crossed(fresh, o.disk), o.disk)

(* Where lfs_dir_read reads.  Past the end of a pair it goes on with the   *)
(* next; an id behind a hidden entry stands for the one after it, and for  *)
(* none at the end of the pair.                                            *)
Behind(h) ==
  h.id + Cardinality({t \in lfs.gdisk \ {Orphans} :
                        t[1] = h.pair /\ t[2] <= h.id})
Skipped(h) ==
  IF h.pair # NoPair /\ h.id <= h.count /\ Behind(h) > Len(disk[h.pair].ents)
  THEN [h EXCEPT !.id = @ + 1] ELSE h
Sought(h) ==
  LET at[n \in 0 .. Cardinality(Pair)] ==
        IF n = 0 THEN Crossed(h, disk)
        ELSE LET s == at[n - 1] IN Crossed(Skipped(s), disk)
  IN at[Cardinality(Pair)]

(* Whether entry i of p may be deleted: not when a directory reads it      *)
(* next, unless "next" is in Uses.                                         *)
Removes(p, i) ==
  \/ "next" \in Uses \/ handle.kind \in {"none", "reg"}
  \/ LET h == Sought(handle) IN h.pair # p \/ h.id # i

(* History: what is left of seen and due when the directory has changed.   *)
(* A directory is astray when a pair that it still has to read has been    *)
(* dropped and is in use again.                                            *)
Ahead(h) == ({h.pair} \cup IF h.split THEN Chain(disk, h.tail) ELSE {}) \ {NoPair}
Remember(h, o) ==
  LET now == {<<e.name, e.node>> : e \in Inside(o.disk, o.lfs.gdisk, h.head)}
      reused == (Ahead(h) \ Listed(disk)) \cap (Listed(o.disk) \cup o.held)
  IN IF h.kind # "dir" THEN h
     ELSE [h EXCEPT !.seen = @ \cap now, !.due = @ \cap now,
                    !.kind = IF reused = {} THEN @ ELSE "astray"]

Apply(o, p, attrs) ==
  /\ disk' = o.disk
  /\ lfs' = o.lfs
  /\ handle' = FixUp(Remember(handle, o), o, p, attrs)

------------------------------------------------------------------------------
Idle == [at |-> "idle"]
Running(c) == call' = c /\ UNCHANGED result
Return(r) == op' = Idle /\ call' = NoCall /\ result' = r

(* What lfs_fs_forceconsistency leaves to a mutating call.                 *)
Consistent == ~HasMove(lfs.gdisk) /\ Orphans \notin lfs.gstate
Ready == op.at = "ready" \/ (op.at = "idle" /\ Consistent)
Begin ==
  /\ calls < MaxCalls /\ calls' = calls + 1
  /\ handle.kind \in {"dir", "astray"} => calls < MaxWatched
Dirs == {Root} \cup Below(disk, lfs.gdisk, Root)

Init ==
  /\ disk = [p \in Pair |-> Blank]
  /\ lfs = [gstate |-> {}, gdisk |-> {}, gdelta |-> {}]
  /\ op = Idle /\ call = NoCall /\ result = "none"
  /\ handle = NoHandle /\ calls = 0

(* lfs_fs_demove, at the start of a call: delete the entry that has been   *)
(* moved away.                                                             *)
Demove ==
  /\ op.at = "idle" /\ HasMove(lfs.gdisk)
  /\ \E t \in lfs.gdisk \ {Orphans} :
       \E o \in Delete([Now EXCEPT !.lfs = PrepMove(@, {})], t[1], t[2]) :
         /\ Apply(o, t[1], <<Del(t[2])>>)
         /\ IF ~o.ok THEN Return("error")
            ELSE /\ op' = IF Orphans \in o.lfs.gstate
                          THEN [at |-> "deorphan", from |-> Root]
                          ELSE [at |-> "ready"]
                 /\ UNCHANGED <<call, result>>
  /\ UNCHANGED calls

(* lfs_fs_deorphan: from pdir on, the first directory without a parent.    *)
Scanned(p) == Closure(disk, {p}, FALSE)
Lost(p) ==
  {q \in Scanned(p) :
     /\ ~disk[q].split /\ disk[q].tail # NoPair
     /\ ~HasParent(disk, lfs.gdisk, disk[q].tail)}
Deorphaning ==
  \/ op.at = "deorphan"
  \/ op.at = "idle" /\ ~HasMove(lfs.gdisk) /\ Orphans \in lfs.gstate
From == IF op.at = "deorphan" THEN op.from ELSE Root

DropOrphan ==
  /\ Deorphaning
  /\ \E p \in Lost(From) :
       /\ Lost(From) \subseteq Scanned(p)
       /\ \E o \in Drop(Now, p, disk[p].tail) :
            /\ Apply(o, p, <<>>)
            /\ IF ~o.ok THEN Return("error")
               ELSE op' = [at |-> "deorphan", from |-> p]
                    /\ UNCHANGED <<call, result>>
  /\ UNCHANGED calls

Deorphaned ==
  /\ Deorphaning /\ Lost(From) = {}
  /\ lfs' = PrepOrphans(lfs, FALSE)
  /\ op' = [at |-> "ready"]
  /\ UNCHANGED <<disk, call, result, handle, calls>>

(* A call that finds its arguments wrong, or no space, before it has       *)
(* committed anything.                                                     *)
Refuse ==
  /\ op.at = "ready" /\ Return("error")
  /\ UNCHANGED <<disk, lfs, handle, calls>>

------------------------------------------------------------------------------
(* lfs_mkdir.  The new pair is written first, to end the list where its    *)
(* predecessor does; a parent of one pair then links it and names it in    *)
(* one commit; in a parent that is split the last pair links it, an orphan *)
(* until the entry is written.                                             *)
(* Mutated: the list ends with the new pair.                               *)
NewPairLast(d, last) == Blank
NewPair(d, last) == [Blank EXCEPT !.tail = d[last].tail]

Mkdir ==
  /\ Ready /\ Begin
  /\ \E h \in Dirs, n \in Name, q \in Free(Now) :
       LET w == Lookup(disk, lfs.gdisk, h, n)
           last == LastOf(disk, w.pair)
       IN /\ ~w.found
          /\ \E o \in Put([Now EXCEPT !.held = {q}], q, NewPair(disk, last)) :
               /\ Apply(o, q, <<>>)
               /\ IF ~o.ok THEN Return("error")
                  ELSE /\ op' = [at |-> IF disk[w.pair].split
                                        THEN "mkdir_link" ELSE "mkdir_entry",
                                 dir |-> q, cwd |-> w.pair, id |-> w.id,
                                 name |-> n, last |-> last,
                                 split |-> disk[w.pair].split]
                       /\ Running([op |-> "make", dir |-> h, name |-> n,
                                   node |-> q,
                                   found |-> Tree(disk, lfs.gdisk)])

MkdirLink ==
  /\ op.at = "mkdir_link"
  /\ \E o \in Put([Now EXCEPT !.lfs = PrepOrphans(@, TRUE)], op.last,
                 [disk[op.last] EXCEPT !.tail = op.dir, !.split = FALSE]) :
       IF ~o.ok THEN Apply(o, op.last, <<>>) /\ Return("error")
       ELSE /\ Apply([o EXCEPT !.lfs = PrepOrphans(@, FALSE)], op.last, <<>>)
            /\ op' = [op EXCEPT !.at = "mkdir_entry"]
            /\ UNCHANGED <<call, result>>
  /\ UNCHANGED calls

MkdirEntry ==
  /\ op.at = "mkdir_entry"
  /\ LET m == disk[op.cwd]
         e == [name |-> op.name, node |-> op.dir]
     IN \E o \in Put(Now, op.cwd,
                    [m EXCEPT !.ents = InsertAt(@, op.id, e),
                              !.tail = IF op.split THEN @ ELSE op.dir]) :
          /\ Apply(o, op.cwd, <<Create(op.id)>>)
          /\ Return(IF o.ok THEN "ok" ELSE "error")
  /\ UNCHANGED calls

(* lfs_file_open of a name that does not exist, with LFS_O_CREAT; the file *)
(* may be kept open.  With LFS_O_RDONLY the file system is not made        *)
(* consistent first.                                                       *)
CreateFile ==
  /\ Ready \/ ("rdonly" \in Uses /\ op.at = "idle")
  /\ Begin
  /\ \E h \in Dirs, n \in Name, f \in File, keep \in BOOLEAN :
       LET w == Lookup(disk, lfs.gdisk, h, n)
           m == disk[w.pair]
           mine == [NoHandle EXCEPT !.kind = "reg", !.pair = w.pair,
                                    !.id = w.id, !.node = f]
       IN /\ ~w.found
          /\ f \notin {e[3] : e \in Tree(disk, lfs.gdisk)}
          /\ keep => handle = NoHandle /\ "files" \in Uses
          /\ handle.node # f
          /\ \E o \in Put(Now, w.pair,
                [m EXCEPT !.ents = InsertAt(@, w.id,
                                            [name |-> n, node |-> f])]) :
               /\ Return(IF o.ok THEN "ok" ELSE "error")
               /\ IF keep /\ o.ok
                  THEN /\ disk' = o.disk /\ lfs' = o.lfs
                       /\ handle' = FixUp(mine, o, w.pair, <<>>)
                  ELSE Apply(o, w.pair, <<Create(w.id)>>)

(* lfs_file_sync of the open file: its entry is written again.  The file   *)
(* system is not made consistent first.                                    *)
SyncFile ==
  /\ op.at = "idle" /\ handle.kind = "reg" /\ handle.pair # NoPair
  /\ \E o \in Put(Now, handle.pair, disk[handle.pair]) :
       /\ Apply(o, handle.pair, <<>>)
       /\ Return(IF o.ok THEN "ok" ELSE "error")
  /\ UNCHANGED calls

Close ==
  /\ op.at = "idle" /\ handle # NoHandle /\ handle' = NoHandle
  /\ UNCHANGED <<disk, lfs, op, call, result, calls>>

(* lfs_remove.                                                             *)
Empty(q) == disk[q].ents = <<>> /\ ~disk[q].split
RemoveEntry ==
  /\ Ready /\ Begin
  /\ \E h \in Dirs, n \in Name :
       LET w == Lookup(disk, lfs.gdisk, h, n)
           isDir == w.node \in Pair
       IN /\ w.found /\ (isDir => Empty(w.node))
          /\ Removes(w.pair, w.id)
          /\ \E o \in Delete([Now EXCEPT !.lfs =
                              IF isDir THEN PrepOrphans(@, TRUE) ELSE @],
                            w.pair, w.id) :
               IF o.ok /\ isDir
               THEN /\ Apply([o EXCEPT !.lfs = PrepOrphans(@, FALSE)],
                             w.pair, <<Del(w.id)>>)
                    /\ op' = [at |-> "drop", dir |-> w.node]
                    /\ Running([op |-> "remove", dir |-> h, name |-> n,
                                found |-> Tree(disk, lfs.gdisk)])
               ELSE /\ Apply(o, w.pair, <<Del(w.id)>>)
                    /\ Return(IF o.ok THEN "ok" ELSE "error")

(* lfs_fs_pred and lfs_dir_drop at the end of lfs_remove and lfs_rename.   *)
DropRemoved ==
  /\ op.at = "drop"
  /\ IF op.dir \notin Listed(disk)
     THEN Return("error") /\ UNCHANGED <<disk, lfs, handle>>
     ELSE \E o \in Drop(Now, Pred(disk, op.dir), op.dir) :
            /\ Apply(o, Pred(disk, op.dir), <<>>)
            /\ Return(IF o.ok THEN "ok" ELSE "error")
  /\ UNCHANGED calls

(* lfs_rename.  Across pairs, the commit that writes the new entry also    *)
(* records in the global state that the old one is to be deleted.          *)
Renamed(d, w, v, n) ==
  LET e    == [name |-> n, node |-> w.node]
      kept == IF v.found THEN RemoveAt(d[v.pair].ents, v.id)
              ELSE d[v.pair].ents
      added == InsertAt(kept, v.id, e)
      old  == IF ~v.found /\ v.id <= w.id THEN w.id + 1 ELSE w.id
  IN [d[v.pair] EXCEPT !.ents =
        IF w.pair = v.pair THEN RemoveAt(added, old) ELSE added]
RenameAttrs(w, v) ==
  (IF v.found THEN <<Del(v.id)>> ELSE <<>>) \o <<Create(v.id)>> \o
  (IF w.pair # v.pair THEN <<>>
   ELSE <<Del(IF ~v.found /\ v.id <= w.id THEN w.id + 1 ELSE w.id)>>)

Rename ==
  /\ Ready /\ Begin
  /\ \E h \in Dirs, n \in Name :
       LET w == Lookup(disk, lfs.gdisk, h, n)
           isDir == w.node \in Pair
       IN /\ w.found /\ Removes(w.pair, w.id)
          /\ \E k \in Dirs, a \in Name :
               LET v == Lookup(disk, lfs.gdisk, k, a)
                   prev == v.found /\ v.node \in Pair
                   cross == w.pair # v.pair
                   prepared == PrepMove(IF prev THEN PrepOrphans(lfs, TRUE)
                                                ELSE lfs,
                                        IF cross THEN {<<w.pair, w.id>>}
                                        ELSE lfs.gstate \ {Orphans})
                   attrs == RenameAttrs(w, v)
               IN /\ v.found => /\ isDir = prev /\ (prev => Empty(v.node))
                                /\ w.pair # v.pair \/ w.id # v.id
                                /\ Removes(v.pair, v.id)
                  /\ isDir /\ "selfmove" \notin Uses =>
                       k \notin Below(disk, lfs.gdisk, w.node)
                  /\ \E o \in Put([Now EXCEPT !.lfs = prepared], v.pair,
                                 Renamed(disk, w, v, a)) :
                       IF ~o.ok \/ ~(cross \/ prev)
                       THEN /\ Apply(o, v.pair, attrs)
                            /\ Return(IF o.ok THEN "ok" ELSE "error")
                       ELSE /\ Apply(IF cross THEN o ELSE
                                       [o EXCEPT !.lfs = PrepOrphans(@, FALSE)],
                                     v.pair, attrs)
                            /\ op' = IF cross
                                 THEN [at |-> "rename_delete", pair |-> w.pair,
                                       id |-> w.id, dir |->
                                         IF prev THEN v.node ELSE NoPair]
                                 ELSE [at |-> "drop", dir |-> v.node]
                            /\ Running([op |-> "rename", dir |-> h,
                                 name |-> n, to |-> k, as |-> a,
                                 found |-> Tree(disk, lfs.gdisk)])

RenameDelete ==
  /\ op.at = "rename_delete"
  /\ \E o \in Delete([Now EXCEPT !.lfs = PrepMove(@, {})], op.pair, op.id) :
       IF o.ok /\ op.dir # NoPair
       THEN /\ Apply([o EXCEPT !.lfs = PrepOrphans(@, FALSE)], op.pair,
                     <<Del(op.id)>>)
            /\ op' = [at |-> "drop", dir |-> op.dir]
            /\ UNCHANGED <<call, result>>
       ELSE /\ Apply(o, op.pair, <<Del(op.id)>>)
            /\ Return(IF o.ok THEN "ok" ELSE "error")
  /\ UNCHANGED calls

(* lfs_dir_open, as any call that only reads, does not make the file       *)
(* system consistent first.                                                *)
OpenDir ==
  /\ op.at = "idle" /\ "dirs" \in Uses /\ handle = NoHandle
  /\ calls < MaxWatched
  /\ "early" \in Uses \/ ~HasMove(lfs.gdisk)
  /\ \E h \in Dirs :
       handle' = Copy([NoHandle EXCEPT
         !.kind = "dir", !.pair = h, !.head = h, !.id = 1,
         !.due = {<<e.name, e.node>> : e \in Inside(disk, lfs.gdisk, h)}],
         disk, h)
  /\ UNCHANGED <<disk, lfs, op, call, result, calls>>

ReadDir ==
  /\ op.at = "idle" /\ handle.kind \in {"dir", "astray"}
  /\ LET h == Sought(handle) IN
       \/ h.id > h.count /\ handle' = h /\ Return("end")
       \/ /\ h.id <= h.count /\ h.pair = NoPair
          /\ handle' = h /\ Return("unreadable")
       \/ /\ h.id <= h.count /\ h.pair # NoPair
          /\ LET e == disk[h.pair].ents[Behind(h)]
                 r == <<e.name, e.node>>
             IN handle' = [h EXCEPT !.id = @ + 1, !.seen = @ \cup {r},
                                    !.due = @ \ {r}]
          /\ Return("read")
  /\ UNCHANGED <<disk, lfs, calls>>

(* Power is lost, or the file system unmounted, and lfs_mount adds up the  *)
(* global state of all pairs.                                              *)
PowerLoss ==
  /\ "crash" \in Uses
  /\ lfs' = [gstate |-> OnCard(disk), gdisk |-> OnCard(disk), gdelta |-> {}]
  /\ handle' = NoHandle
  /\ Return("lost")
  /\ UNCHANGED <<disk, calls>>

Next ==
  \/ Demove \/ DropOrphan \/ Deorphaned \/ Refuse
  \/ Mkdir \/ MkdirLink \/ MkdirEntry
  \/ CreateFile \/ SyncFile \/ Close \/ OpenDir \/ ReadDir
  \/ RemoveEntry \/ DropRemoved \/ Rename \/ RenameDelete
  \/ PowerLoss

Spec == Init /\ [][Next]_vars

------------------------------------------------------------------------------
(* The variables are of their types: what is on a pair, the global state,  *)
(* and where the running call is.                                          *)
TypeOK ==
  /\ \A p \in Pair :
       /\ disk[p].ents \in Seq(Entry) /\ Len(disk[p].ents) <= Full
       /\ disk[p].tail \in Pair \cup {NoPair} /\ disk[p].split \in BOOLEAN
       /\ disk[p].delta \subseteq Token
  /\ lfs \in [gstate : SUBSET Token, gdisk : SUBSET Token,
              gdelta : SUBSET Token]
  /\ op.at \in {"idle", "ready", "deorphan", "mkdir_link", "mkdir_entry",
                "rename_delete", "drop"}
  /\ result \in {"none", "ok", "error", "lost", "read", "end", "unreadable"}
  /\ calls \in 0 .. MaxCalls

(* Whatever a directory entry leads to is on the tail list, each pair of   *)
(* it once: lfs_fs_traverse marks the list, and the allocator would hand   *)
(* out any other pair.                                                     *)
TreeIsListed ==
  LET listed == Listed(disk) IN
  /\ \A h \in Dirs : Chain(disk, h) \subseteq listed
  /\ \A p, q \in listed :
       disk[p].tail = disk[q].tail /\ disk[p].tail # NoPair => p = q

(* A directory on the list that no entry leads to is an empty one, and the *)
(* global state a mount would find says that there is one: the next        *)
(* mutating call will drop it.                                             *)
OrphansAreFlagged ==
  LET g == OnCard(disk) IN
  \A h \in Heads(disk) \ {Root} :
    ~HasParent(disk, g, h) => Empty(h) /\ Orphans \in g

(* The global state that lfs_t takes for the card's is the card's (with    *)
(* what lfs_mkdir has written to a pair that it has not linked yet), and   *)
(* is a state: at most one entry is to be deleted, it exists, and the file *)
(* or directory it names has another.                                      *)
GlobalStateIsKnown ==
  /\ lfs.gdisk = Sum(disk, Listed(disk) \cup Held)
  /\ \A t, u \in OnCard(disk) \ {Orphans} :
       /\ t = u
       /\ t[1] \in Listed(disk) /\ t[2] \in DOMAIN disk[t[1]].ents
       /\ \E p \in Listed(disk) : \E i \in DOMAIN disk[p].ents :
            <<p, i>> # t /\ disk[p].ents[i].node = disk[t[1]].ents[t[2]].node

(* An open file's handle points at the file's entry for as long as the     *)
(* file is where it was opened, whatever commits move entries about; else  *)
(* it points at nothing.                                                   *)
HandleFollowsFile ==
  handle.kind = "reg" /\ handle.pair # NoPair =>
    /\ handle.pair \in Listed(disk)
    /\ handle.id \in DOMAIN disk[handle.pair].ents
    /\ disk[handle.pair].ents[handle.id].node = handle.node

(* lfs_dir_read returns every entry that is in the directory from when it  *)
(* was opened to the end exactly once, whatever is created, removed or     *)
(* renamed between two reads.                                              *)
ReadsEachOnce ==
  [][ReadDir /\ handle.kind = "dir" =>
       /\ result' = "end" => handle.due = {}
       /\ result' = "read" => handle'.seen # handle.seen]_vars

(* "this complicated bit of logic is for fixing up any active              *)
(* metadata-pairs that we may have affected" (lfs.cpp:1869): an open       *)
(* directory stays readable.                                               *)
StaysReadable == [][ReadDir => result' # "unreadable"]_vars

(* Calls are atomic, power losses or not: what can be reached by name is   *)
(* what Namespace allows.                                                  *)
Names == INSTANCE Namespace WITH
  Dir <- Pair, tree <- Tree(disk, OnCard(disk))
NamesPromise == Names!Promise
==============================================================================
