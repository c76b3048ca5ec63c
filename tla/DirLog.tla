------------------------------- MODULE DirLog -------------------------------
(***************************************************************************)
(* How a metadata pair holds the entries of a directory: a log of tags, in *)
(* which an entry has no place of its own but an id that later tags move   *)
(* (littlefs/lfs.cpp:293-363, 535-1098, 1385-1916).  Creating an entry     *)
(* moves those behind it up by one id, deleting one moves them down; a     *)
(* lookup by id reads the log backwards and undoes that, a lookup by name  *)
(* reads it forwards and does it, and a compaction writes what a filter    *)
(* leaves of it.                                                           *)
(*                                                                         *)
(* A directory is a chain of pairs.  A commit is atomic (module            *)
(* MetadataPair) and never fails (module DirTree has failures, the tail    *)
(* list and the global state).  The size of a tag is left out: a commit    *)
(* may find room in the log or not, and a compaction may split the pair or *)
(* not, once.  Names are numbers, the superblock's entry is left out.      *)
(***************************************************************************)
EXTENDS Naturals, FiniteSets, SequencesExt

CONSTANTS
  Name, Attr,  (* names and types of custom attributes                     *)
  Kinds,       (* what is created: "reg" or "dir"                          *)
  Pair,        (* pairs of the directory, and those it may grow by         *)
  First,       (* its first pair                                           *)
  NoPair, Absent, NoValue,
  Sizes,       (* how many entries there may be at the start               *)
  MaxCalls,    (* bounds the changing calls of a behaviour                 *)
  Uses         (* what happens: "crash", power is lost; "early", calls     *)
               (* that do not make the file system consistent first are    *)
               (* made while an entry has yet to be deleted after a rename;*)
               (* "ghosts", a rename leaves a pair with ghosts             *)

ASSUME DirLogAssumption ==
  /\ Name \subseteq Nat /\ First \in Pair /\ NoPair \notin Pair
  /\ Kinds \subseteq {"reg", "dir"}
  /\ MaxCalls \in Nat /\ Uses \subseteq {"crash", "early", "ghosts"}
  /\ Sizes \subseteq 0 .. Cardinality(Name)

VARIABLES
  disk,        (* of each pair the log, and the next pair of the directory *)
  move,        (* lfs->gdisk: the pair and id of an entry to be deleted    *)
  op,          (* what the running call has yet to delete                  *)
  call,        (* history: the last changing call                          *)
  calls        (* changing calls, up to MaxCalls                           *)

vars == <<disk, move, op, call, calls>>

------------------------------------------------------------------------------
(* Tags.  sub is the rest of the type: the kind of a name, the type of an  *)
(* attribute.  A removed attribute has the value NoValue, size 0x3ff.      *)
Tag(type, sub, id, val) == [type |-> type, sub |-> sub, id |-> id, val |-> val]
Created(id) == Tag("create", "", id, "")
Deleted(id) == Tag("delete", "", id, "")
NoId == 1023
IsSplice(t) == t.type \in {"create", "delete"}
(* The id of an entry behind splice t, from the one before it.             *)
Spliced(id, t) ==
  IF ~IsSplice(t) \/ t.id > id THEN id
  ELSE IF t.type = "create" THEN id + 1 ELSE id - 1

(* F of x, a value which TLC then computes once.                           *)
Of(x, F(_)) == CHOOSE r \in {F(y) : y \in {x}} : TRUE
Fold(F(_, _), start, s) ==
  LET at[k \in 0 .. Len(s)] ==
        IF k = 0 THEN start ELSE Of(at[k - 1], LAMBDA r : F(r, s[k]))
  IN at[Len(s)]

(* Mutated: an attribute replaces those of other types too.                *)
ReplacesAll(u, f) == u.type = f.type /\ u.id = f.id
(* lfs_dir_traverse_filter: tag f as a later tag u leaves it.  Only of     *)
(* attributes are there several types in one entry.                        *)
Dropped == Tag("dropped", "", NoId, "")
Replaces(u, f) ==
  u.type = f.type /\ u.id = f.id /\ (u.type = "attr" => u.sub = f.sub)
Filter(f, u) ==
  IF f = Dropped \/ Replaces(u, f) \/ f.val = NoValue
       \/ (u.type = "delete" /\ u.id = f.id)
  THEN Dropped
  ELSE [f EXCEPT !.id = Spliced(@, u)]

(* lfs_dir_traverse over the tags s, for those of the wanted types that    *)
(* nothing later replaces, with ids from begin up to end, moved by a       *)
(* difference.  later(k) are the tags a callback sees behind s[k].         *)
Unique(s, Wanted(_), Later(_), begin, end, new) ==
  LET InRange(f) == f.id \in begin .. (end - 1)
      Kept(f) == IF InRange(f) THEN <<[f EXCEPT !.id = new + @ - begin]>> ELSE <<>>
      At(k) == IF Wanted(s[k]) THEN Of(Fold(Filter, s[k], Later(k)), Kept) ELSE <<>>
  IN FlattenSeq([k \in DOMAIN s |-> At(k)])

(* LFS_FROM_MOVE: what belongs to entry `sub` of the log `val`.            *)
Belongs(t) == t.type \in {"struct", "attr"}
FromMove(t) ==
  Unique(t.val, Belongs, LAMBDA k : SubSeq(t.val, k + 1, Len(t.val)),
         t.sub, t.sub + 1, t.id)
Expanded(s) ==
  FlattenSeq([k \in DOMAIN s |->
    IF s[k].type = "move" THEN FromMove(s[k]) ELSE <<s[k]>>])

(* What a compaction writes of the tags s.                                 *)
Compacted(s, begin, end) ==
  Expanded(Unique(s, LAMBDA t : ~IsSplice(t),
                  LAMBDA k : Expanded(SubSeq(s, k + 1, Len(s))),
                  begin, end, 0))

------------------------------------------------------------------------------
(* lfs_dir_getslice: the tag of a type and id in pair p, looked for from   *)
(* the end of the log.  An entry behind one that has been moved away has   *)
(* an id one higher than it shows.                                         *)
MovedFrom(p) == IF move # Absent /\ move.pair = p THEN move.id ELSE NoId
InLog(p, id) == IF MovedFrom(p) <= id THEN id + 1 ELSE id

Back(g, t) ==
  IF g.done THEN g
  ELSE IF t = Created(g.id) THEN [g EXCEPT !.done = TRUE]
  ELSE IF IsSplice(t) /\ t.id <= g.id
  THEN [g EXCEPT !.id = IF t.type = "create" THEN @ - 1 ELSE @ + 1]
  ELSE IF t.type = g.type /\ t.id = g.id /\ (g.sub # "" => t.sub = g.sub)
  THEN [g EXCEPT !.done = TRUE, !.got = t.val] ELSE g
Get(p, type, sub, id) ==
  Fold(Back, [id |-> InLog(p, id), type |-> type, sub |-> sub,
              done |-> FALSE, got |-> NoValue], Reverse(disk[p].log)).got

(* lfs_dir_fetchmatch: the best match for name n after tag t.  A name that *)
(* is greater marks where n would be; a match is valid.                    *)
NoMatch == [valid |-> FALSE, id |-> NoId, kind |-> ""]
Shifted(b, t) ==
  IF t.type = "delete" /\ t.id = b.id THEN [b EXCEPT !.valid = FALSE]
  ELSE IF b = NoMatch THEN b
  ELSE [b EXCEPT !.id = Spliced(@, t)]
Compared(b, t, n) ==
  IF t.type # "name" THEN b
  ELSE IF t.val = n THEN [valid |-> TRUE, id |-> t.id, kind |-> t.sub]
  ELSE IF t.id = b.id /\ t.sub = b.kind THEN NoMatch
  ELSE IF t.val > n /\ t.id <= b.id THEN [valid |-> FALSE, id |-> t.id, kind |-> t.sub]
  ELSE b
Best(log, n) == Fold(LAMBDA b, t : Compared(Shifted(b, t), t, n), NoMatch, log)

(* The number of entries: dir->count as a fetch finds it.                  *)
Counted(c, t) ==
  CASE t.type = "name"   -> Max({c, t.id + 1})
    [] t.type = "create" -> c + 1
    [] t.type = "delete" -> c - 1
    [] OTHER             -> c
Count(log) == Fold(Counted, 0, log)

(* The match of a pair, with the entry that has been moved away hidden.    *)
Match(p, n) ==
  LET Hidden(b) == IF b.id = MovedFrom(p) THEN [b EXCEPT !.valid = FALSE]
                   ELSE IF b # NoMatch /\ MovedFrom(p) < b.id THEN [b EXCEPT !.id = @ - 1]
                   ELSE b
  IN Of(Best(disk[p].log, n), Hidden)
(* lfs_dir_find, for the last name of a path.                              *)
Find(n) ==
  LET In(p, b, count) ==
        [pair |-> p, found |-> b.valid, kind |-> b.kind, id |-> Min({b.id, count}),
         ends |-> b.valid \/ b.id < count \/ disk[p].tail = NoPair]
      Look(p) == Of(Match(p, n), LAMBDA b : Of(Count(disk[p].log), LAMBDA c : In(p, b, c)))
      Further(w) == IF w.ends THEN w ELSE Look(disk[w.pair].tail)
      at[k \in 1 .. Cardinality(Pair)] ==
        IF k = 1 THEN Look(First) ELSE Of(at[k - 1], Further)
  IN at[Cardinality(Pair)]

------------------------------------------------------------------------------
(* Commits.                                                                *)
Unused == [log |-> <<>>, tail |-> NoPair]
Chain(d) ==
  LET at[k \in 0 .. Cardinality(Pair)] ==
        IF k = 0 THEN <<First>>
        ELSE IF d[Last(at[k - 1])].tail = NoPair THEN at[k - 1]
        ELSE Append(at[k - 1], d[Last(at[k - 1])].tail)
  IN at[Cardinality(Pair)]
Free(d) == Pair \ Range(Chain(d))
Pred(d, p) == CHOOSE q \in Range(Chain(d)) : d[q].tail = p

(* lfs_dir_commit of tags attrs to pair p: they are appended, or all is    *)
(* compacted, to the other block of the pair or to this pair and a new one *)
(* behind it.  A pair that would be empty is taken out of the directory,   *)
(* unless it is the first.                                                 *)
Commits(d, p, attrs) ==
  LET s == d[p].log \o attrs
      n == Fold(Counted, Count(d[p].log), SelectSeq(attrs, IsSplice))
      h == n \div 2
  IN IF n = 0 /\ p # First
     THEN {[d EXCEPT ![Pred(d, p)].tail = d[p].tail, ![p] = Unused]}
     ELSE {[d EXCEPT ![p].log = @ \o Expanded(attrs)],
           [d EXCEPT ![p].log = Compacted(s, 0, n)]}
          \cup {[d EXCEPT ![p] = [log |-> Compacted(s, 0, h), tail |-> q],
                          ![q] = [log |-> Compacted(s, h, n), tail |-> d[p].tail]] :
                  q \in IF n > 1 THEN Free(d) ELSE {}}

Commit(p, attrs) == disk' \in Commits(disk, p, attrs)
Makes(c) == calls < MaxCalls /\ calls' = calls + 1 /\ call' = c
(* What a call writes is new.                                             *)
New == calls + 1
Idle == op = Absent
(* lfs_fs_forceconsistency has nothing left to do.                         *)
Consistent == Idle /\ move = Absent
Anyhow == Idle /\ (move # Absent => "early" \in Uses)

------------------------------------------------------------------------------
(* lfs_file_opencfg of a new file, and the commit of lfs_mkdir to the      *)
(* parent.                                                                 *)
NewEntry(kind, x) ==
  [kind |-> kind, data |-> x, attrs |-> [a \in Attr |-> NoValue]]
NewTags(n, kind, id, x) ==
  <<Created(id), Tag("name", kind, id, n), Tag("struct", "", id, x)>>
Create(n, kind) ==
  /\ Consistent /\ ~Find(n).found
  /\ Makes([op |-> "create", name |-> n, entry |-> NewEntry(kind, New)])
  /\ Commit(Find(n).pair, NewTags(n, kind, Find(n).id, New))
  /\ UNCHANGED <<move, op>>

(* lfs_file_sync of a file that has been opened for writing.               *)
Write(n) ==
  /\ Consistent /\ Find(n).found /\ Find(n).kind = "reg"
  /\ Makes([op |-> "write", name |-> n, data |-> New])
  /\ Commit(Find(n).pair, <<Tag("struct", "", Find(n).id, New)>>)
  /\ UNCHANGED <<move, op>>

(* lfs_commitattr, for lfs_setattr and lfs_removeattr, which do not call   *)
(* lfs_fs_forceconsistency.                                                *)
SetAttr(n, a, x) ==
  /\ Anyhow /\ Find(n).found
  /\ Makes([op |-> "setattr", name |-> n, type |-> a, value |-> x])
  /\ Commit(Find(n).pair, <<Tag("attr", a, Find(n).id, x)>>)
  /\ UNCHANGED <<move, op>>

RemoveEntry(n) ==
  /\ Consistent /\ Find(n).found
  /\ Makes([op |-> "remove", name |-> n])
  /\ Commit(Find(n).pair, <<Deleted(Find(n).id)>>)
  /\ UNCHANGED <<move, op>>

(* A name whose match in the log of p has been deleted, with nothing left  *)
(* behind it, and which is therefore looked for in the pairs that follow.  *)
Ghost(p, n) ==
  LET b == Best(disk[p].log, n)
  IN b # NoMatch /\ ~b.valid /\ b.id >= Count(disk[p].log)

(* lfs_rename of n to m.  Within a pair one commit does it all.  Between   *)
(* pairs it also says in the global state what is to be deleted.           *)
Rename(n, m) ==
  LET w == Find(n)
      v == Find(m)
      same == w.pair = v.pair
      old == IF ~v.found /\ v.id <= w.id THEN w.id + 1 ELSE w.id
      prev == IF v.found THEN <<Deleted(v.id)>> ELSE <<>>
      tags == <<Created(v.id), Tag("name", w.kind, v.id, m),
                Tag("move", w.id, v.id, disk[w.pair].log)>>
      rest == IF same THEN <<Deleted(old)>> ELSE <<>>
      left == [pair |-> w.pair, id |-> w.id]
  IN /\ Consistent /\ n # m /\ w.found /\ (v.found => v.kind = w.kind)
     /\ ~same /\ "ghosts" \notin Uses => \A k \in Name : ~Ghost(w.pair, k)
     /\ Makes([op |-> "rename", name |-> n, to |-> m])
     /\ Commit(v.pair, prev \o tags \o rest)
     /\ IF same THEN UNCHANGED <<move, op>> ELSE move' = left /\ op' = left

(* Mutated: the record of what is to be deleted stays.                     *)
DeleteOnly(x) ==
  /\ Commit(x.pair, <<Deleted(x.id)>>)
  /\ op' = Absent
  /\ UNCHANGED <<move, call, calls>>
(* The second commit of lfs_rename; after a loss of power, that of         *)
(* lfs_fs_demove.                                                          *)
Delete(x) ==
  /\ Commit(x.pair, <<Deleted(x.id)>>)
  /\ move' = Absent /\ op' = Absent
  /\ UNCHANGED <<call, calls>>
RenameDelete == ~Idle /\ Delete(op)
Demove       == Idle /\ move # Absent /\ Delete(move)

(* Between the commits of a call the power may be lost.                    *)
PowerLoss ==
  /\ "crash" \in Uses /\ ~Idle /\ op' = Absent
  /\ UNCHANGED <<disk, move, call, calls>>

(* Some entries are there at the start, created one after the other, and   *)
(* they may have been compacted or split.                                  *)
Filled(ns) ==
  LET place(k) == Cardinality({j \in 1 .. (k - 1) : ns[j] < ns[k]})
  IN FlattenSeq([k \in DOMAIN ns |-> NewTags(ns[k], "reg", place(k), 0)])
Init ==
  /\ \E ns \in UNION {[1 .. k -> Name] : k \in Sizes} :
       /\ IsInjective(ns)
       /\ disk \in Commits([p \in Pair |-> [Unused EXCEPT
                             !.log = IF p = First THEN Filled(ns) ELSE <<>>]], First, <<>>)
  /\ move = Absent /\ op = Absent
  /\ call = [op |-> "none"] /\ calls = 0

Next ==
  \/ \E n \in Name :
       \/ \E kind \in Kinds : Create(n, kind)
       \/ Write(n)
       \/ \E a \in Attr, x \in {New, NoValue} : SetAttr(n, a, x)
       \/ RemoveEntry(n)
       \/ \E m \in Name : Rename(n, m)
  \/ RenameDelete \/ Demove \/ PowerLoss

Spec == Init /\ [][Next]_vars

------------------------------------------------------------------------------
(* An entry as lookups by its name and then by its id show it.             *)
Entry(w) ==
  IF ~w.found THEN Absent
  ELSE [kind |-> w.kind, data |-> Get(w.pair, "struct", "", w.id),
        attrs |-> [a \in Attr |-> Get(w.pair, "attr", a, w.id)]]
(* The directory as lfs_dir_read shows it, id by id.                       *)
NamesIn(p) ==
  LET shown == [i \in 1 .. Count(disk[p].log) |-> Get(p, "name", "", i - 1)]
  IN SelectSeq(shown, LAMBDA n : n # NoValue)
Listing == FlattenSeq([k \in DOMAIN Chain(disk) |-> NamesIn(Chain(disk)[k])])

Store == INSTANCE EntryStore WITH
  entries <- [n \in Name |-> Of(Find(n), Entry)], listing <- Listing

(* Logs are of tags with ids of entries, chains end, and what is to be     *)
(* deleted is there.                                                       *)
TypeOK ==
  /\ \A p \in Pair : \A t \in Range(disk[p].log) :
       /\ t.type \in {"create", "delete", "name", "struct", "attr"}
       /\ t.id \in 0 .. Cardinality(Name)
  /\ disk[Last(Chain(disk))].tail = NoPair
  /\ move # Absent => move.id < Count(disk[move.pair].log)
  /\ op \in {Absent, move} /\ calls \in 0 .. MaxCalls

(* What littlefs promises of entries (module EntryStore): a lookup finds   *)
(* by name, and then by id, what the last call on that name has left, and  *)
(* a listing shows the names in order, each once, however the tags have    *)
(* been appended, moved, filtered by compactions and split between pairs.  *)
EntriesPromise == Store!Promise
==============================================================================
