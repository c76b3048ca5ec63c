---------------------------- MODULE DirTreeNames -----------------------------
(***************************************************************************)
(* DirTree implements Namespace: whatever commits, splits and power losses *)
(* happen in the middle of a call, the names show all of it or none.  And  *)
(* on that rests that an open directory, whatever is done to the card      *)
(* while it is read, stays readable and reads no entry twice.              *)
(***************************************************************************)
EXTENDS DirTreeProofs

------------------------------------------------------------------------------
(* The invariant of the names.  A call that has had its effect shows it;   *)
(* lfs_mkdir has not, and still knows where its entry goes.                *)
CallOK ==
  \/ op.at \in {"idle", "ready", "deorphan"} /\ call = NoCall
  \/ /\ op.at \in {"drop", "rename_delete"} /\ call # NoCall
     /\ Tree(disk, OnCard(disk)) = Names!Effect(call.found, call)
  \/ /\ op.at \in {"mkdir_link", "mkdir_entry"} /\ call # NoCall
     /\ call.op = "make" /\ call.name = op.name /\ call.node = op.dir
     /\ call.found = Tree(disk, OnCard(disk))
     /\ Place(disk, call.dir, op.cwd, op.id, op.name)
NamesInv == Inv /\ OrderOK(disk) /\ CallOK

(* A step of the names, or none.                                           *)
NamesStep == Names!Next \/ UNCHANGED Names!names
NamesKept == OrderOK(disk') /\ CallOK' /\ NamesStep

(* What the invariant says of the names.                                   *)
LEMMA NamesHave ==
  ASSUME NamesInv
  PROVE  /\ Inv /\ Sorted(disk) /\ Card(disk) /\ OrderOK(disk) /\ CallOK
         /\ CardOK(disk, OnCard(disk)) /\ Moves(OnCard(disk)) = Moves(lfs.gdisk)
         /\ Moves(lfs.gdisk) = {} => Tree(disk, OnCard(disk)) = All(disk)
         /\ op.at \in {"idle", "ready", "deorphan"} => call = NoCall
<1>1. Inv /\ OrderOK(disk) /\ CallOK
  BY DEF NamesInv
<1>2. CardOK(disk, OnCard(disk)) /\ Moves(OnCard(disk)) = Moves(lfs.gdisk)
  BY <1>1 DEF Inv, GlobalOK
<1>3. Card(disk)
  BY <1>2 DEF CardOK, Card
<1>4. Sorted(disk)
  BY <1>1, <1>3 DEF Sorted
<1>5. Moves(lfs.gdisk) = {} => Tree(disk, OnCard(disk)) = All(disk)
  BY <1>2, <1>3, NothingHidden
<1>6. op.at \in {"idle", "ready", "deorphan"} => call = NoCall
  BY <1>1 DEF CallOK
<1> QED BY <1>1, <1>2, <1>3, <1>4, <1>5, <1>6

(* The names after a step, by the card and the global state then.          *)
LEMMA TreeThen ==
  ASSUME Inv', Moves(lfs'.gdisk) = {}
  PROVE  Tree(disk', OnCard(disk')) = All(disk')
<1>1. CardOK(disk', OnCard(disk')) /\ Moves(OnCard(disk')) = {}
  BY DEF Inv, GlobalOK
<1>2. Card(disk')
  BY <1>1 DEF CardOK, Card
<1> QED BY <1>1, <1>2, NothingHidden

(* Steps that leave the card as it is, and those of calls that only read.  *)
LEMMA QuietNames ==
  ASSUME NamesInv, op.at \in {"idle", "ready", "deorphan"},
         op'.at \in {"idle", "ready", "deorphan"},
         Tree(disk', OnCard(disk')) = Tree(disk, OnCard(disk)), OrderOK(disk'),
         UNCHANGED <<call, result>> \/ (call' = NoCall /\ result' # "ok")
  PROVE  NamesKept
<1>1. call = NoCall /\ call' = NoCall
  BY NamesHave
<1>2. CallOK'
  BY <1>1 DEF CallOK
<1>3. NamesStep
  <2>1. CASE UNCHANGED <<call, result>>
    BY <2>1 DEF NamesStep, Names!names
  <2>2. CASE call' = NoCall /\ result' # "ok"
    <3>1. Names!Once(Tree(disk, OnCard(disk)), Tree(disk', OnCard(disk')))
      BY <1>1, <2>2 DEF Names!Once
    <3> QED BY <3>1 DEF NamesStep, Names!Next
  <2> QED BY <2>1, <2>2
<1> QED BY <1>2, <1>3 DEF NamesKept

(* Steps that commit nothing show the same names.                          *)
LEMMA StillNames ==
  ASSUME NamesInv, Deorphaned \/ Close \/ OpenDir \/ Refuse \/ ReadDir
  PROVE  NamesKept
<1>1. disk' = disk /\ OrderOK(disk) /\ call \in {NoCall, call}
  BY DEF NamesInv, Deorphaned, Close, OpenDir, Refuse, ReadDir
<1>2. Tree(disk', OnCard(disk')) = Tree(disk, OnCard(disk)) /\ OrderOK(disk')
  BY <1>1
<1>3. CASE Deorphaned
  BY <1>2, <1>3, QuietNames DEF Deorphaned, Deorphaning
<1>4. CASE Close
  BY <1>2, <1>4, QuietNames, SMTT(30) DEF Close
<1>5. CASE OpenDir
  BY <1>2, <1>5, QuietNames DEF OpenDir
<1>6. CASE Refuse
  BY <1>2, <1>6, QuietNames DEF Refuse, Return, Idle
<1>7. CASE ReadDir
  <2>1. op.at = "idle" /\ op' = Idle /\ call' = NoCall /\ result' # "ok"
    BY <1>7 DEF ReadDir, Return
  <2> QED BY <1>2, <2>1, QuietNames DEF Idle
<1> QED BY <1>3, <1>4, <1>5, <1>6, <1>7

(* A power loss.                                                           *)
LEMMA LostNames ==
  ASSUME NamesInv, PowerLoss
  PROVE  NamesKept
<1>1. disk' = disk /\ OrderOK(disk) /\ op' = Idle /\ call' = NoCall /\ result' = "lost"
  BY DEF NamesInv, PowerLoss, Return
<1>2. Tree(disk', OnCard(disk')) = Tree(disk, OnCard(disk)) /\ OrderOK(disk')
  BY <1>1
<1>3. CallOK'
  BY <1>1 DEF CallOK, Idle
<1>4. Names!Lost(Tree(disk, OnCard(disk)), Tree(disk', OnCard(disk')))
  BY <1>1, <1>2 DEF Names!Lost
<1> QED BY <1>2, <1>3, <1>4 DEF NamesKept, NamesStep, Names!Next

(* A commit that drops the orphan q, the tail of p, at the next mutating   *)
(* call or at the end of the call that made it one.                        *)
Dropping(p, q, o) ==
  /\ Held = {} /\ Known /\ Moves(lfs.gdisk) = {} /\ Moves(lfs.gstate) = {}
  /\ p \in Listed(disk) /\ ~disk[p].split /\ q = disk[p].tail /\ q \in Orphaned(disk)
  /\ o \in Drop(Now, p, q) /\ Apply(o, p, <<>>) /\ o.ok
LEMMA OrphanDrops ==
  ASSUME Sure, Inv, DropOrphan
  PROVE  \E p, q, o : /\ Dropping(p, q, o) /\ op.at \in {"idle", "deorphan"}
                      /\ op'.at = "deorphan" /\ UNCHANGED <<call, result>>
<1>1. CardOK(disk, OnCard(disk))
  BY DEF Inv
<1>2. /\ op.at \in {"idle", "deorphan"} /\ Held = {} /\ Known /\ Moves(lfs.gdisk) = {}
      /\ From \in Listed(disk) /\ lfs.gstate = {Orphans}
      /\ \A q : NameCount(disk, q) = 0 <=> ~HasParent(disk, lfs.gdisk, q)
  BY DeorphaningIs DEF DropOrphan
<1>3. PICK p \in Lost(From) :
         \E o \in Drop(Now, p, disk[p].tail) :
            /\ Apply(o, p, <<>>)
            /\ IF ~o.ok THEN Return("error")
               ELSE op' = [at |-> "deorphan", from |-> p]
                    /\ UNCHANGED <<call, result>>
  BY DEF DropOrphan
<1>4. PICK q : q = disk[p].tail
  OBVIOUS
<1>5. PICK o \in Drop(Now, p, q) :
            /\ Apply(o, p, <<>>)
            /\ IF ~o.ok THEN Return("error")
               ELSE op' = [at |-> "deorphan", from |-> p]
                    /\ UNCHANGED <<call, result>>
  BY <1>3, <1>4
<1>6. disk \in Disks /\ Threaded(disk) /\ Listed(disk) \in SUBSET Pair
  BY <1>1, CardIs
<1>7. p \in Listed(disk)
  <2>1. \A r \in Listed(disk) \cap Pair : Goes(disk, r, FALSE) => disk[r].tail \in Listed(disk)
    BY <1>6, ListCloses DEF Goes
  <2>2. Closure(disk, {From}, FALSE) \subseteq Listed(disk)
    <3>1. From \in Pair
      BY <1>2, <1>6
    <3> QED BY <1>2, <1>6, <2>1, <3>1, ClosureIsLeast
  <2> QED BY <2>2 DEF Lost, Scanned
<1>8. ~disk[p].split /\ q # NoPair /\ ~HasParent(disk, lfs.gdisk, q)
  BY <1>4 DEF Lost
<1>9. q \in Orphaned(disk)
  <2>1. q \in Heads(disk)
    BY <1>4, <1>7, <1>8 DEF Heads
  <2>2. q # Root
    BY <1>4, <1>6, <1>7 DEF Threaded, TailsOK
  <2> QED BY <1>2, <1>8, <2>1, <2>2 DEF Orphaned
<1>10. o.ok
  BY <1>2, <1>4, <1>5, <1>7, <1>8, <1>9, DropLands
<1>11. Moves(lfs.gstate) = {}
  BY <1>2 DEF Moves
<1>12. Dropping(p, q, o)
  BY <1>2, <1>4, <1>5, <1>7, <1>8, <1>9, <1>10, <1>11 DEF Dropping
<1>13. op'.at = "deorphan" /\ UNCHANGED <<call, result>>
  BY <1>5, <1>10
<1> QED BY <1>2, <1>12, <1>13

(* And at the end of lfs_remove and lfs_rename.                            *)
LEMMA RemovedDrops ==
  ASSUME Sure, Inv, DropRemoved
  PROVE  \E p, q, o : Dropping(p, q, o) /\ op.at = "drop" /\ op' = Idle /\ call' = NoCall /\ result' = "ok"
<1>1. CardOK(disk, OnCard(disk))
  BY DEF Inv
<1>2. op.at = "drop" /\ Held = {}
  BY DEF DropRemoved, Held
<1>3. /\ Known /\ Moves(lfs.gdisk) = {} /\ lfs.gstate = {} /\ Orphaned(disk) = {op.dir}
  BY <1>2 DEF Inv, OpOK
<1>4. disk \in Disks /\ Threaded(disk) /\ Heads(disk) \in SUBSET Listed(disk)
  BY <1>1, CardIs
<1>5. PICK q, p : q = op.dir /\ p = Pred(disk, q)
  OBVIOUS
<1>6. q \in Listed(disk) /\ q # Root /\ q \in Heads(disk) /\ q \in Orphaned(disk)
  BY <1>3, <1>4, <1>5 DEF Orphaned
<1>7. /\ p \in Listed(disk) /\ disk[p].tail = q
      /\ \A r \in Listed(disk) : disk[r].tail = q => r = p
  BY <1>4, <1>5, <1>6, HasPred
<1>8. ~disk[p].split
  <2>1. PICK r \in Listed(disk) : ~disk[r].split /\ disk[r].tail = q
    BY <1>6 DEF Heads
  <2> QED BY <1>7, <2>1
<1>9. PICK o \in Drop(Now, p, q) :
        Apply(o, p, <<>>) /\ Return(IF o.ok THEN "ok" ELSE "error")
  BY <1>5, <1>6 DEF DropRemoved
<1>10. o.ok
  BY <1>2, <1>3, <1>6, <1>7, <1>8, <1>9, DropLands
<1>11. Moves(lfs.gstate) = {}
  BY <1>3 DEF Moves
<1>12. Dropping(p, q, o)
  BY <1>2, <1>3, <1>6, <1>7, <1>8, <1>9, <1>10, <1>11 DEF Dropping
<1> QED BY <1>2, <1>9, <1>10, <1>12 DEF Return

(* A drop of the orphan leaves the names as they are.                      *)
LEMMA DropNow ==
  ASSUME Sure, NamesInv, Inv', NEW p, NEW q, NEW o, Dropping(p, q, o)
  PROVE  /\ Sorted(o.disk) /\ Moves(o.lfs.gdisk) = {}
         /\ OrderOK(disk') /\ Tree(disk', OnCard(disk')) = Tree(disk, OnCard(disk))
<1>1. /\ Inv /\ Sorted(disk) /\ CardOK(disk, OnCard(disk))
      /\ (Moves(lfs.gdisk) = {} => Tree(disk, OnCard(disk)) = All(disk))
  BY NamesHave
<1>2. Clean(Now) /\ Now.disk = disk
  BY <1>1, NowClean DEF Dropping
<1>3. Bare(disk, q) /\ q # NoPair
  BY <1>1, CardIs DEF CardOK, OrphansOK, Orphaned, Dropping
<1>4. o.lfs.gdisk = lfs.gstate
  BY <1>1, DropLands DEF Dropping
<1>5. PICK s : s = Now
  OBVIOUS
<1>6. /\ Clean(s) /\ Sorted(s.disk) /\ p \in Listed(s.disk) /\ q = s.disk[p].tail /\ q # NoPair
      /\ s.disk[q].ents = <<>> /\ (s.disk[p].split \/ ~s.disk[q].split) /\ o \in Drop(s, p, q)
  BY <1>1, <1>2, <1>3, <1>5 DEF Bare, Dropping
<1>7. Sorted(o.disk) /\ All(o.disk) = All(s.disk)
  BY ONLY Sure, <1>6, DropNames
<1>8. Moves(o.lfs.gdisk) = {} /\ disk' = o.disk /\ lfs' = o.lfs /\ Moves(lfs.gdisk) = {}
  BY <1>4 DEF Dropping, Apply
<1>9. Tree(disk', OnCard(disk')) = All(disk')
  BY <1>8, TreeThen
<1> QED BY <1>1, <1>2, <1>5, <1>7, <1>8, <1>9 DEF Sorted

(* A half orphan dropped by lfs_fs_deorphan had no entries.                *)
LEMMA DropOrphanNames ==
  ASSUME Sure, NamesInv, Inv', DropOrphan
  PROVE  NamesKept
<1>1. PICK p, q, o : /\ Dropping(p, q, o) /\ op.at \in {"idle", "deorphan"}
                     /\ op'.at = "deorphan" /\ UNCHANGED <<call, result>>
  BY NamesHave, OrphanDrops
<1>2. OrderOK(disk') /\ Tree(disk', OnCard(disk')) = Tree(disk, OnCard(disk))
  BY <1>1, DropNow
<1> QED BY <1>1, <1>2, QuietNames

(* A call that has had its effect ends, or goes on to drop a directory.    *)
LEMMA EndNames ==
  ASSUME NamesInv, op.at \in {"drop", "rename_delete"}, OrderOK(disk'),
         Tree(disk', OnCard(disk')) = Tree(disk, OnCard(disk)),
         \/ op' = Idle /\ call' = NoCall /\ result' = "ok"
         \/ op'.at = "drop" /\ UNCHANGED <<call, result>>
  PROVE  NamesKept
<1>1. call # NoCall /\ Tree(disk, OnCard(disk)) = Names!Effect(call.found, call)
  BY NamesHave DEF CallOK
<1>2. CASE op' = Idle /\ call' = NoCall /\ result' = "ok"
  <2>1. CallOK'
    BY <1>2 DEF CallOK, Idle
  <2>2. Names!Return(Tree(disk, OnCard(disk)), Tree(disk', OnCard(disk')))
    BY <1>1, <1>2 DEF Names!Return, Names!Moves
  <2> QED BY <2>1, <2>2 DEF NamesKept, NamesStep, Names!Next
<1>3. CASE op'.at = "drop" /\ UNCHANGED <<call, result>>
  <2>1. CallOK'
    <3>1. call' # NoCall /\ Tree(disk', OnCard(disk')) = Names!Effect(call'.found, call')
      BY <1>1, <1>3
    <3> QED BY <1>3, <3>1 DEF CallOK
  <2>2. UNCHANGED Names!names
    BY <1>3 DEF Names!names
  <2> QED BY <2>1, <2>2 DEF NamesKept, NamesStep
<1> QED BY <1>2, <1>3

(* Dropping the directory that remove or rename has emptied shows the same *)
(* names.                                                                  *)
LEMMA DropRemovedNames ==
  ASSUME Sure, NamesInv, Inv', DropRemoved
  PROVE  NamesKept
<1>1. PICK p, q, o : Dropping(p, q, o) /\ op.at = "drop" /\ op' = Idle /\ call' = NoCall /\ result' = "ok"
  BY NamesHave, RemovedDrops
<1>2. OrderOK(disk') /\ Tree(disk', OnCard(disk')) = Tree(disk, OnCard(disk))
  BY <1>1, DropNow
<1> QED BY <1>1, <1>2, EndNames

(* A commit that deletes entry i of p, after which the orphan bit may be   *)
(* taken out of what the file system knows of its state.                   *)
Deleting(s, p, i, o, k) ==
  /\ Clean(s) /\ s.disk = disk /\ s.ok = TRUE /\ s.told = {}
  /\ p \in Listed(disk) /\ i \in 1 .. Len(disk[p].ents) /\ o \in Delete(s, p, i)
  /\ o.ok /\ o.lfs.gdisk = s.lfs.gstate
  /\ k.disk = o.disk /\ k.told = o.told /\ k.held = o.held /\ k.lfs.gdisk = o.lfs.gdisk
Unflagged(o, k) == k = o \/ k = SetLfs(o, PrepOrphans(o.lfs, FALSE))
LEMMA DeletesFrom ==
  ASSUME Sure, Inv, Held = {}, Known, NEW l \in Globals, l.gdisk = lfs.gdisk, l.gdelta = {},
         NEW s, s = SetLfs(Now, l), NEW p \in Listed(disk), NEW i \in 1 .. Len(disk[p].ents),
         NEW o \in Delete(s, p, i), NEW k, Unflagged(o, k)
  PROVE  Deleting(s, p, i, o, k) /\ s.lfs = l
<1>1. Clean(s) /\ s.disk = disk /\ s.lfs = l /\ s.ok = TRUE /\ s.told = {}
  BY CleanNow
<1>2. Deleted(s, p, i, o)
  BY <1>1, DeleteIs
<1>3. o \in States /\ o.lfs \in Globals /\ o.ok /\ o.lfs.gdisk = s.lfs.gstate
  BY <1>2, CleanIs DEF Deleted
<1>4. k.disk = o.disk /\ k.told = o.told /\ k.held = o.held /\ k.lfs.gdisk = o.lfs.gdisk
  <2>1. CASE k = o
    BY <2>1
  <2>2. CASE k = SetLfs(o, PrepOrphans(o.lfs, FALSE))
    <3>1. PICK b : b = PrepOrphans(o.lfs, FALSE)
      OBVIOUS
    <3>2. b \in Globals /\ b.gdisk = o.lfs.gdisk
      BY <1>3, <3>1, PrepIs
    <3>3. o \in States /\ b \in Globals /\ k = SetLfs(o, b)
      BY <1>3, <2>2, <3>1, <3>2
    <3>4. k.disk = o.disk /\ k.lfs = b /\ k.held = o.held /\ k.told = o.told
      BY ONLY <3>3, WithLfs
    <3> QED BY <3>2, <3>4
  <2> QED BY <2>1, <2>2 DEF Unflagged
<1> QED BY <1>1, <1>3, <1>4 DEF Deleting

(* The entry that has been moved away is deleted: the names are what they  *)
(* were.                                                                   *)
LEMMA DeleteNow ==
  ASSUME Sure, NamesInv, Inv', NEW s, NEW p, NEW i, NEW o, NEW k, Deleting(s, p, i, o, k),
         Moves(lfs.gdisk) = {<<p, i>>}, Moves(s.lfs.gstate) = {}, disk' = k.disk, lfs' = k.lfs
  PROVE  OrderOK(disk') /\ Tree(disk', OnCard(disk')) = Tree(disk, OnCard(disk))
<1>1. /\ Inv /\ Sorted(disk) /\ Card(disk)
      /\ Moves(OnCard(disk)) = Moves(lfs.gdisk)
  BY NamesHave
<1>2. PICK h \in Heads(disk) : p \in Chain(disk, h)
  BY <1>1, ListedIsInChain DEF Deleting
<1>3. Has(disk, h, p, i)
  BY <1>2 DEF Has, Deleting
<1>4. Sorted(o.disk) /\ All(o.disk) = All(disk) \ {Triple(disk, h, p, i)}
  <2>1. /\ Clean(s) /\ s.ok = TRUE /\ s.told = {} /\ s.disk = disk
        /\ Sorted(s.disk) /\ Has(s.disk, h, p, i) /\ o \in Delete(s, p, i)
    BY <1>1, <1>3 DEF Deleting
  <2>2. Sorted(o.disk) /\ All(o.disk) = All(s.disk) \ {Triple(s.disk, h, p, i)}
    BY ONLY Sure, <2>1, DeleteNames
  <2> QED BY <2>1, <2>2
<1>5. Tree(disk, OnCard(disk)) = All(disk) \ {Triple(disk, h, p, i)}
  BY <1>1, <1>3, OneHidden
<1>6. disk' = o.disk /\ Moves(lfs'.gdisk) = {}
  BY DEF Deleting
<1> QED BY <1>4, <1>5, <1>6, TreeThen DEF Sorted

(* A state with no entry to be deleted.                                    *)
LEMMA NoMoveLeft ==
  ASSUME Inv, NEW l, l = PrepMove(lfs, {})
  PROVE  /\ l \in Globals /\ Moves(l.gstate) = {} /\ l.gdisk = lfs.gdisk /\ l.gdelta = {}
         /\ l.gstate = lfs.gstate \cap {Orphans}
<1>1. lfs \in Globals /\ lfs.gdelta = {} /\ {} \in SUBSET Token
  BY DEF Inv, GlobalOK
<1>2. /\ l \in Globals /\ l.gstate = (lfs.gstate \cap {Orphans}) \cup {}
      /\ l.gdisk = lfs.gdisk /\ l.gdelta = lfs.gdelta
  BY <1>1, PrepIs
<1> QED BY <1>1, <1>2 DEF Moves

(* The entry to be deleted is one.                                         *)
LEMMA MovedIs ==
  ASSUME Inv, NEW t \in Moves(lfs.gdisk)
  PROVE  /\ t[1] \in Listed(disk) /\ t[2] \in 1 .. Len(disk[t[1]].ents) /\ t = <<t[1], t[2]>>
         /\ Moves(lfs.gdisk) = {t}
<1>1. CardOK(disk, OnCard(disk)) /\ t \in Moves(OnCard(disk)) /\ Moves(lfs.gdisk) = Moves(OnCard(disk))
  BY DEF Inv, GlobalOK
<1>2. t \in Pair \X (1 .. (Full + 1))
  BY <1>1 DEF CardOK, Token, Moves
<1> QED BY <1>1, <1>2 DEF CardOK, MovesOK

(* Completing a pending move deletes an entry that was hidden already      *)
(* (lfs.cpp:4350-4380).                                                    *)
LEMMA DemoveNames ==
  ASSUME Sure, NamesInv, Inv', Demove
  PROVE  NamesKept
<1>1. Inv /\ op.at = "idle"
  BY NamesHave DEF Demove
<1>2. PICK t \in lfs.gdisk \ {Orphans} :
        \E o \in Delete([Now EXCEPT !.lfs = PrepMove(@, {})], t[1], t[2]) :
         /\ Apply(o, t[1], <<Del(t[2])>>)
         /\ IF ~o.ok THEN Return("error")
            ELSE /\ op' = IF Orphans \in o.lfs.gstate
                          THEN [at |-> "deorphan", from |-> Root]
                          ELSE [at |-> "ready"]
                 /\ UNCHANGED <<call, result>>
  BY DEF Demove
<1>3. PICK l, s : l = PrepMove(lfs, {}) /\ s = SetLfs(Now, l)
  OBVIOUS
<1>4. s = [Now EXCEPT !.lfs = PrepMove(@, {})]
  <2>1. Now.lfs = lfs
    BY DEF Now
  <2> QED BY <1>3, <2>1, Zenon DEF SetLfs
<1>5. PICK o \in Delete(s, t[1], t[2]) :
         /\ Apply(o, t[1], <<Del(t[2])>>)
         /\ IF ~o.ok THEN Return("error")
            ELSE /\ op' = IF Orphans \in o.lfs.gstate
                          THEN [at |-> "deorphan", from |-> Root]
                          ELSE [at |-> "ready"]
                 /\ UNCHANGED <<call, result>>
  BY <1>2, <1>4
<1>6. Known /\ Held = {} /\ t \in Moves(lfs.gdisk)
  BY <1>1 DEF Inv, OpOK, Held, Moves
<1>7. /\ t[1] \in Listed(disk) /\ t[2] \in 1 .. Len(disk[t[1]].ents)
      /\ Moves(lfs.gdisk) = {<<t[1], t[2]>>}
  BY <1>1, <1>6, MovedIs
<1>8. l \in Globals /\ Moves(l.gstate) = {} /\ l.gdisk = lfs.gdisk /\ l.gdelta = {}
  BY <1>1, <1>3, NoMoveLeft
<1>9. Deleting(s, t[1], t[2], o, o) /\ s.lfs = l
  <2>1. Inv /\ Held = {} /\ Known /\ Unflagged(o, o)
    BY <1>1, <1>6 DEF Unflagged
  <2> QED BY <1>3, <1>5, <1>7, <1>8, <2>1, DeletesFrom
<1>10. o.ok
  BY <1>9 DEF Deleting
<1>11. /\ disk' = o.disk /\ lfs' = o.lfs /\ UNCHANGED <<call, result>>
       /\ op' \in {[at |-> "deorphan", from |-> Root], [at |-> "ready"]}
  BY <1>5, <1>10 DEF Apply
<1>12. OrderOK(disk') /\ Tree(disk', OnCard(disk')) = Tree(disk, OnCard(disk))
  BY <1>7, <1>8, <1>9, <1>11, DeleteNow
<1>13. op'.at \in {"deorphan", "ready"}
  BY <1>11
<1> QED BY <1>1, <1>11, <1>12, <1>13, QuietNames

(* The commit that deletes the old entry of a rename between pairs.        *)
LEMMA RenameDeletes ==
  ASSUME Sure, Inv, RenameDelete
  PROVE  \E s, o, k :
           /\ Deleting(s, op.pair, op.id, o, k) /\ Moves(s.lfs.gstate) = {} /\ op.at = "rename_delete"
           /\ Moves(lfs.gdisk) = {<<op.pair, op.id>>} /\ Apply(k, op.pair, <<Del(op.id)>>)
           /\ \/ op' = Idle /\ call' = NoCall /\ result' = "ok"
              \/ op'.at = "drop" /\ UNCHANGED <<call, result>>
<1>1. CardOK(disk, OnCard(disk)) /\ op.at = "rename_delete"
  BY DEF RenameDelete, Inv
<1>2. PICK l, s : l = PrepMove(lfs, {}) /\ s = SetLfs(Now, l)
  OBVIOUS
<1>3. s = [Now EXCEPT !.lfs = PrepMove(@, {})]
  <2>1. Now.lfs = lfs
    BY DEF Now
  <2> QED BY <1>2, <2>1, Zenon DEF SetLfs
<1>4. PICK o \in Delete(s, op.pair, op.id) :
       IF o.ok /\ op.dir # NoPair
       THEN /\ Apply([o EXCEPT !.lfs = PrepOrphans(@, FALSE)], op.pair,
                     <<Del(op.id)>>)
            /\ op' = [at |-> "drop", dir |-> op.dir]
            /\ UNCHANGED <<call, result>>
       ELSE /\ Apply(o, op.pair, <<Del(op.id)>>)
            /\ Return(IF o.ok THEN "ok" ELSE "error")
  BY <1>3 DEF RenameDelete
<1>5. /\ Known /\ Moves(lfs.gdisk) = {<<op.pair, op.id>>} /\ Held = {}
  BY <1>1 DEF Inv, OpOK, Held
<1>6. op.pair \in Listed(disk) /\ op.id \in 1 .. Len(disk[op.pair].ents)
  BY <1>5, MovedIs
<1>7. l \in Globals /\ Moves(l.gstate) = {} /\ l.gdisk = lfs.gdisk /\ l.gdelta = {}
  BY <1>2, NoMoveLeft
<1>8. PICK b : b = SetLfs(o, PrepOrphans(o.lfs, FALSE))
  OBVIOUS
<1>9. b = [o EXCEPT !.lfs = PrepOrphans(@, FALSE)]
  BY <1>8, Zenon DEF SetLfs
<1>10. ASSUME NEW k, Unflagged(o, k) PROVE Deleting(s, op.pair, op.id, o, k) /\ s.lfs = l
  BY <1>2, <1>4, <1>5, <1>6, <1>7, <1>10, DeletesFrom
<1>11. o.ok /\ Moves(s.lfs.gstate) = {}
  BY <1>7, <1>10 DEF Deleting, Unflagged
<1>12. CASE op.dir # NoPair
  <2>1. Apply(b, op.pair, <<Del(op.id)>>) /\ op' = [at |-> "drop", dir |-> op.dir]
        /\ UNCHANGED <<call, result>>
    BY <1>4, <1>9, <1>11, <1>12
  <2>2. Deleting(s, op.pair, op.id, o, b)
    BY <1>8, <1>10 DEF Unflagged
  <2> QED BY <1>1, <1>5, <1>11, <2>1, <2>2
<1>13. CASE op.dir = NoPair
  <2>1. Apply(o, op.pair, <<Del(op.id)>>) /\ Return("ok")
    BY <1>4, <1>11, <1>13
  <2>2. Deleting(s, op.pair, op.id, o, o)
    BY <1>10 DEF Unflagged
  <2> QED BY <1>1, <1>5, <1>11, <2>1, <2>2 DEF Return
<1> QED BY <1>12, <1>13

(* Deleting the old entry of a rename between pairs deletes one that was   *)
(* hidden since the commit that made the new entry.                        *)
LEMMA RenameDeleteNames ==
  ASSUME Sure, NamesInv, Inv', RenameDelete
  PROVE  NamesKept
<1>1. PICK s, o, k :
        /\ Deleting(s, op.pair, op.id, o, k) /\ Moves(s.lfs.gstate) = {} /\ op.at = "rename_delete"
        /\ Moves(lfs.gdisk) = {<<op.pair, op.id>>} /\ Apply(k, op.pair, <<Del(op.id)>>)
        /\ \/ op' = Idle /\ call' = NoCall /\ result' = "ok"
           \/ op'.at = "drop" /\ UNCHANGED <<call, result>>
  BY NamesHave, RenameDeletes
<1>2. disk' = k.disk /\ lfs' = k.lfs
  BY <1>1 DEF Apply
<1>3. OrderOK(disk') /\ Tree(disk', OnCard(disk')) = Tree(disk, OnCard(disk))
  BY <1>1, <1>2, DeleteNow
<1> QED BY <1>1, <1>3, EndNames

------------------------------------------------------------------------------
(* The calls of Namespace.                                                 *)

(* The entry of a name, where there is one.                                *)
LEMMA AtIs ==
  ASSUME NEW d, Sorted(d), NEW h, NEW p, NEW i, Has(d, h, p, i)
  PROVE  /\ Names!At(All(d), h, d[p].ents[i].name) = {Triple(d, h, p, i)}
         /\ Triple(d, h, p, i) \in All(d)
<1>1. Triple(d, h, p, i) \in All(d)
  BY AllIs DEF Sorted, Lists
<1>2. ASSUME NEW e \in All(d), e[1] = h, e[2] = d[p].ents[i].name PROVE e = Triple(d, h, p, i)
  <2>1. Triple(d, h, p, i)[1] = h /\ Triple(d, h, p, i)[2] = d[p].ents[i].name
    BY DEF Triple
  <2> QED BY <1>1, <1>2, <2>1, OneName
<1>3. Triple(d, h, p, i)[1] = h /\ Triple(d, h, p, i)[2] = d[p].ents[i].name
  BY DEF Triple
<1> QED BY <1>1, <1>2, <1>3 DEF Names!At

(* No entry has a name that there is a place for.                          *)
LEMMA NoneAt ==
  ASSUME NEW d, Sorted(d), NEW h, NEW p, NEW i, NEW n \in Nat, Place(d, h, p, i, n)
  PROVE  Names!At(All(d), h, n) = {}
<1> SUFFICES ASSUME NEW e \in All(d), e[1] = h, e[2] = n PROVE FALSE
  BY DEF Names!At
<1>1. Card(d)
  BY DEF Sorted
<1>2. PICK k, q, j : Has(d, k, q, j) /\ e = Triple(d, k, q, j)
  BY <1>1, AllIs DEF Lists
<1>3. k = h /\ d[q].ents[j].name = n
  BY <1>2 DEF Triple
<1> QED BY <1>1, <1>2, <1>3, PlaceIsFree

(* What a call that makes an entry may do and does.                        *)
LEMMA MakeIs ==
  ASSUME NEW t, NEW c, c.op = "make"
  PROVE  /\ Names!Legal(t, c) <=> Names!At(t, c.dir, c.name) = {}
         /\ Names!Effect(t, c) = t \cup {<<c.dir, c.name, c.node>>}
BY DEF Names!Legal, Names!Effect

(* What a call that removes an entry may do and does.                      *)
LEMMA RemoveCall ==
  ASSUME NEW t, NEW c, c.op = "remove"
  PROVE  /\ Names!Legal(t, c) <=> \A e \in Names!At(t, c.dir, c.name) : Names!Removable(t, e)
         /\ Names!Effect(t, c) = t \ Names!At(t, c.dir, c.name)
BY DEF Names!Legal, Names!Effect

(* What a call that renames an entry may do and does.                      *)
LEMMA RenameCall ==
  ASSUME NEW t, NEW c, c.op = "rename"
  PROVE  /\ Names!Legal(t, c) <=>
              \A e \in Names!At(t, c.dir, c.name), prev \in Names!At(t, c.to, c.as) :
                e = prev \/ ((Names!IsDir(e) <=> Names!IsDir(prev)) /\ Names!Removable(t, prev))
         /\ Names!Effect(t, c) =
              (t \ (Names!At(t, c.dir, c.name) \cup Names!At(t, c.to, c.as)))
                \cup {<<c.to, c.as, e[3]>> : e \in Names!At(t, c.dir, c.name)}
BY DEF Names!Legal, Names!Effect

(* A sync of an open file writes its entry again.                          *)
LEMMA SyncFileNames ==
  ASSUME Sure, NamesInv, Inv', SyncFile
  PROVE  NamesKept
<1>1. /\ Inv /\ Sorted(disk) /\ Card(disk) /\ OrderOK(disk) /\ CardOK(disk, OnCard(disk))
      /\ (Moves(lfs.gdisk) = {} => Tree(disk, OnCard(disk)) = All(disk))
      /\ (op.at \in {"idle", "ready", "deorphan"} => call = NoCall)
  BY NamesHave
<1>2. op.at = "idle" /\ handle.kind = "reg" /\ handle.pair # NoPair /\ call = NoCall
  BY <1>1 DEF SyncFile
<1>3. PICK p : p = handle.pair
  OBVIOUS
<1>4. PICK o \in Put(Now, p, disk[p]) : Apply(o, p, <<>>) /\ Return(IF o.ok THEN "ok" ELSE "error")
  BY <1>3 DEF SyncFile
<1>5. /\ Moves(lfs.gdisk) = {} /\ Moves(lfs.gstate) = {} /\ Points(handle, disk) /\ p \in Listed(disk)
  BY <1>1, <1>2, <1>3 DEF Inv, HandleOK, Follows, GlobalOK, Points
<1>6. Known /\ Held = {}
  BY <1>1, <1>2 DEF Inv, OpOK, Held
<1>7. PICK s : s = Now
  OBVIOUS
<1>8. Clean(s) /\ s.disk = disk /\ s.lfs = lfs /\ s.ok = TRUE
  <2>1. Inv
    BY <1>1
  <2> QED BY <1>6, <1>7, <2>1, NowClean
<1>9. disk \in Disks /\ disk[p] \in Content /\ Short(disk) /\ p \in Pair
  BY <1>1, <1>5, CardIs
<1>10. PICK x, m, d : x = disk[p].ents /\ m = SetEnts(disk[p], x) /\ d = SetPair(disk, p, m)
  OBVIOUS
<1>11. m = disk[p] /\ d = disk
  BY <1>9, <1>10 DEF Content, SetEnts, SetPair, Disks
<1>12. Target(s, p, m, d)
  <2>1. x \in Seq(Entry) /\ Len(x) <= Full + 1
    BY <1>9, <1>10, ContentIs DEF Short
  <2>2. EditTo(s, p, x, m, d)
    BY <1>5, <1>8, <1>10, <2>1 DEF EditTo
  <2> QED BY <2>2, EditTarget
<1>13. Committed(s, p, disk, o)
  <2>1. o \in Put(s, p, m)
    BY <1>4, <1>7, <1>11
  <2> QED BY <1>11, <1>12, <2>1, PutCommits
<1>14. Sorted(o.disk) /\ All(o.disk) = All(disk)
  BY <1>1, <1>5, <1>13, CommitNames
<1>15. o.ok /\ o.lfs.gdisk = lfs.gstate
  BY <1>8, <1>13 DEF Committed
<1>16. /\ disk' = o.disk /\ lfs' = o.lfs /\ op' = Idle /\ call' = NoCall /\ result' = "ok"
  BY <1>4, <1>15 DEF Apply, Return
<1>17. Tree(disk', OnCard(disk')) = All(disk')
  BY <1>5, <1>15, <1>16, TreeThen
<1>18. PICK t : t = All(disk)
  OBVIOUS
<1>19. Tree(disk, OnCard(disk)) = t /\ Tree(disk', OnCard(disk')) = t
  BY <1>1, <1>5, <1>14, <1>16, <1>17, <1>18
<1>20. PICK e : e \in t
  <2>1. PICK h \in Heads(disk) : p \in Chain(disk, h)
    BY <1>1, <1>5, ListedIsInChain
  <2>2. Has(disk, h, p, handle.id)
    BY <1>3, <1>5, <2>1 DEF Has, Points
  <2> QED BY <1>1, <1>18, <2>2, AtIs
<1>21. e \in Pair \X Name \X (Pair \cup File) /\ t \in SUBSET (Pair \X Name \X (Pair \cup File))
  BY <1>1, <1>18, <1>20, AllType
<1>22. PICK c : c = [op |-> "rename", dir |-> e[1], name |-> e[2], to |-> e[1], as |-> e[2]]
  OBVIOUS
<1>23. c \in Names!Calls(t)
  BY <1>20, <1>21, <1>22 DEF Names!Calls
<1>24. Names!At(t, c.dir, c.name) = {e} /\ Names!At(t, c.to, c.as) = {e}
  BY <1>1, <1>18, <1>20, <1>22, OneName DEF Names!At
<1>25. Names!Legal(t, c) /\ Names!Effect(t, c) = t
  <2>1. e = <<e[1], e[2], e[3]>> /\ c.op = "rename" /\ c.to = e[1] /\ c.as = e[2]
    BY <1>21, <1>22
  <2>2. {<<c.to, c.as, f[3]>> : f \in {e}} = {e}
    BY <2>1
  <2>3. Names!Legal(t, c)
    BY <1>24, <2>1, RenameCall
  <2>4. Names!Effect(t, c) = (t \ ({e} \cup {e})) \cup {e}
    BY <1>24, <2>1, <2>2, RenameCall
  <2> QED BY <1>20, <2>3, <2>4
<1>26. Names!Once(t, t)
  BY <1>2, <1>16, <1>23, <1>25 DEF Names!Once
<1>27. NamesStep
  BY <1>19, <1>26 DEF NamesStep, Names!Next
<1>28. CallOK' /\ OrderOK(disk')
  BY <1>14, <1>16 DEF CallOK, Idle, Sorted
<1> QED BY <1>27, <1>28 DEF NamesKept

(* A commit that puts an entry in where it belongs: one name more.         *)
Adding(s, h, p, i, y, x, o) ==
  /\ Clean(s) /\ Sorted(s.disk) /\ y \in Entry /\ Place(s.disk, h, p, i, y.name)
  /\ x = InsertAt(s.disk[p].ents, i, y) /\ o \in Put(s, p, SetEnts(s.disk[p], x))

(* A commit that creates one entry at the place the lookup gave adds that  *)
(* name alone, in order, whether the pair splits or not.                   *)
LEMMA AddNames ==
  ASSUME Sure, NEW s, NEW h, NEW p, NEW i, NEW y, NEW x, NEW o, Adding(s, h, p, i, y, x, o)
  PROVE  /\ Sorted(o.disk) /\ All(o.disk) = All(s.disk) \cup {<<h, y.name, y.node>>}
         /\ o.ok = s.ok /\ o.lfs.gdisk = s.lfs.gstate /\ o \in States
<1> USE DEF Adding
<1>0. Card(s.disk) /\ OrderOK(s.disk)
  BY DEF Sorted
<1>1. /\ p \in Listed(s.disk) /\ p \in Pair /\ s.disk[p] \in Content
      /\ i \in 1 .. (Len(s.disk[p].ents) + 1)
  BY <1>0, CardHas, ChainCloses DEF Place
<1>2. s.disk[p].ents \in Seq(Entry) /\ Len(s.disk[p].ents) \in Nat /\ Len(s.disk[p].ents) <= Full
  BY <1>1, ContentIs DEF Clean, Filled
<1>3. HasMore(x, s.disk[p].ents, i, y)
  <2>1. PICK a : a = s.disk[p].ents
    OBVIOUS
  <2>2. a \in Seq(Entry) /\ i \in 1 .. (Len(a) + 1) /\ x = InsertAt(a, i, y)
    BY <1>1, <1>2, <2>1
  <2>3. HasMore(x, a, i, y)
    BY ONLY <2>2, y \in Entry, InsertIs
  <2> QED BY <2>1, <2>3
<1>4. x \in Seq(Entry) /\ Len(x) <= Full + 1
  BY <1>2, <1>3, DirTreeAssumption DEF HasMore
<1>5. PICK m, d : m = SetEnts(s.disk[p], x) /\ d = SetPair(s.disk, p, m)
  OBVIOUS
<1>6. Target(s, p, m, d) /\ d \in Disks /\ d[p].ents = x /\ Edited(s.disk, d, p)
  <2>1. EditTo(s, p, x, m, d)
    BY <1>1, <1>4, <1>5 DEF EditTo
  <2> QED BY <2>1, EditTarget
<1>7. Alters(s.disk, d, p)
  BY <1>0, <1>1, <1>6, EditAlters
<1>8. Sorted(d) /\ All(d) = All(s.disk) \cup {<<h, y.name, y.node>>}
  BY <1>0, <1>3, <1>6, <1>7, InsertSlots
<1>9. Committed(s, p, d, o)
  <2>1. o \in Put(s, p, m)
    BY <1>5
  <2> QED BY <1>6, <2>1, PutCommits
<1>10. Card(d) /\ OrderOK(d) /\ p \in Listed(d)
  BY <1>7, <1>8 DEF Alters, Sorted
<1>11. Sorted(o.disk) /\ All(o.disk) = All(d)
  BY <1>9, <1>10, CommitNames
<1> QED BY <1>8, <1>9, <1>11 DEF Committed

(* lfs_file_open makes a file.                                             *)
LEMMA CreateFileNames ==
  ASSUME Sure, NamesInv, Inv', CreateFile
  PROVE  NamesKept
<1>0. Inv /\ Sorted(disk) /\ (Moves(lfs.gdisk) = {} => Tree(disk, OnCard(disk)) = All(disk))
      /\ (op.at \in {"idle", "ready", "deorphan"} => call = NoCall)
  BY NamesHave
<1>1. Ready
  BY DEF CreateFile, Sure
<1>2. PICK h \in Dirs, n \in Name, f \in File, keep \in BOOLEAN :
       LET w == Lookup(disk, lfs.gdisk, h, n)
           m == disk[w.pair]
           mine == [NoHandle EXCEPT !.kind = "reg", !.pair = w.pair,
                                    !.id = w.id, !.node = f]
       IN /\ ~w.found
          /\ f \notin {e[3] : e \in Tree(disk, lfs.gdisk)}
          /\ keep => handle = NoHandle /\ "files" \in Uses
          /\ handle.node # f
          /\ \E o \in Put(Now, w.pair,
                [m EXCEPT !.ents = InsertAt(@, w.id,
                                            [name |-> n, node |-> f])]) :
               /\ Return(IF o.ok THEN "ok" ELSE "error")
               /\ IF keep /\ o.ok
                  THEN /\ disk' = o.disk /\ lfs' = o.lfs
                       /\ handle' = FixUp(mine, o, w.pair, <<>>)
                  ELSE Apply(o, w.pair, <<Create(w.id)>>)
  BY Zenon DEF CreateFile
<1>3. PICK w : w = Lookup(disk, lfs.gdisk, h, n)
  OBVIOUS
<1>4. PICK y : y = [name |-> n, node |-> f]
  OBVIOUS
<1>5. PICK x : x = InsertAt(disk[w.pair].ents, w.id, y)
  OBVIOUS
<1>6. /\ ~w.found /\ f \notin {e[3] : e \in Tree(disk, lfs.gdisk)}
      /\ \E o \in Put(Now, w.pair, [disk[w.pair] EXCEPT !.ents = InsertAt(@, w.id, y)]) :
           Return(IF o.ok THEN "ok" ELSE "error") /\ disk' = o.disk /\ lfs' = o.lfs
  BY <1>2, <1>3, <1>4, Zenon DEF Apply
<1>7. SetEnts(disk[w.pair], x) = [disk[w.pair] EXCEPT !.ents = InsertAt(@, w.id, y)]
  BY <1>5, Zenon DEF SetEnts
<1>8. PICK o \in Put(Now, w.pair, SetEnts(disk[w.pair], x)) :
        Return(IF o.ok THEN "ok" ELSE "error") /\ disk' = o.disk /\ lfs' = o.lfs
  BY <1>6, <1>7, Zenon
<1>9. /\ Known /\ Held = {} /\ Moves(lfs.gdisk) = {} /\ lfs.gstate = {} /\ lfs.gdisk \subseteq {Orphans}
  BY <1>0, <1>1, ReadyIs
<1>10. PICK s : s = Now
  OBVIOUS
<1>11. Clean(s) /\ s.disk = disk /\ s.lfs = lfs /\ s.ok = TRUE
  <2>1. Inv
    BY <1>0
  <2> QED BY <1>9, <1>10, <2>1, NowClean
<1>12. Place(disk, h, w.pair, w.id, n) /\ h \in Heads(disk)
  <2>1. h \in Heads(disk)
    BY <1>0, DirsIs
  <2> QED BY <1>0, <1>3, <1>6, <1>9, <2>1, LookupFinds
<1>13. y \in Entry /\ y.name = n /\ y.node = f
  BY <1>4 DEF Entry
<1>14. /\ Sorted(o.disk) /\ All(o.disk) = All(disk) \cup {<<h, n, f>>}
       /\ o.ok = TRUE /\ o.lfs.gdisk = {}
  <2>1. PICK p, i : p = w.pair /\ i = w.id
    OBVIOUS
  <2>2. /\ Clean(s) /\ y \in Entry /\ Sorted(s.disk) /\ Place(s.disk, h, p, i, y.name)
        /\ x = InsertAt(s.disk[p].ents, i, y) /\ o \in Put(s, p, SetEnts(s.disk[p], x))
    BY <1>0, <1>5, <1>8, <1>10, <1>11, <1>12, <1>13, <2>1
  <2>3. Adding(s, h, p, i, y, x, o)
    BY <2>2 DEF Adding
  <2> QED BY <1>9, <1>11, <1>13, <2>3, AddNames
<1>15. disk' = o.disk /\ lfs' = o.lfs /\ op' = Idle /\ call' = NoCall /\ result' = "ok"
  BY <1>8, <1>14 DEF Return
<1>16. Tree(disk', OnCard(disk')) = All(disk')
  BY <1>14, <1>15, TreeThen DEF Moves
<1>17. PICK t, u : t = Tree(disk, OnCard(disk)) /\ u = Tree(disk', OnCard(disk'))
  OBVIOUS
<1>18. t = All(disk) /\ u = t \cup {<<h, n, f>>} /\ t = Tree(disk, lfs.gdisk)
  BY <1>0, <1>9, <1>14, <1>15, <1>16, <1>17 DEF Known
<1>19. PICK c : c = [op |-> "make", dir |-> h, name |-> n, node |-> f]
  OBVIOUS
<1>20. c \in Names!Calls(t)
  <2>1. f \notin Names!Nodes(t)
    BY <1>6, <1>18 DEF Names!Nodes
  <2>2. f # Root /\ h \in Pair
    BY <1>0, <1>12, CardHas, DirTreeAssumption DEF Sorted
  <2> QED BY <1>19, <2>1, <2>2 DEF Names!Calls
<1>21. Names!Legal(t, c) /\ u = Names!Effect(t, c)
  <2>1. n \in Nat
    BY DirTreeAssumption
  <2>2. Names!At(t, c.dir, c.name) = {}
    BY <1>0, <1>12, <1>18, <1>19, <2>1, NoneAt
  <2> QED BY <1>18, <1>19, <2>2, MakeIs
<1>22. call = NoCall
  BY <1>0, <1>1 DEF Ready
<1>23. Names!Once(t, u)
  BY <1>15, <1>20, <1>21, <1>22 DEF Names!Once
<1>24. NamesStep
  BY <1>17, <1>23 DEF NamesStep, Names!Next
<1>25. CallOK' /\ OrderOK(disk')
  BY <1>14, <1>15 DEF CallOK, Idle, Sorted
<1> QED BY <1>24, <1>25 DEF NamesKept

(* A directory of one pair without entries has nothing under it.           *)
LEMMA NothingUnder ==
  ASSUME NEW d, Card(d), NEW q, d[q].ents = <<>>, ~d[q].split
  PROVE  Names!Under(All(d), q) = {}
<1> SUFFICES ASSUME NEW e \in All(d), e[1] = q PROVE FALSE
  BY DEF Names!Under
<1>1. PICK h, p, i : Has(d, h, p, i) /\ e = Triple(d, h, p, i)
  BY AllIs DEF Lists
<1>2. h = q /\ q \in Listed(d) /\ p \in Chain(d, q) /\ i \in 1 .. Len(d[p].ents)
  BY <1>1, HasIs DEF Triple
<1>3. p = q
  BY <1>2, ChainFrom
<1> QED BY <1>2, <1>3

(* A call without what it found is one of the calls.                       *)
LEMMA MakeBegins ==
  ASSUME NEW t, NEW h, NEW n, NEW x, NEW c,
         c = [op |-> "make", dir |-> h, name |-> n, node |-> x, found |-> t]
  PROVE  /\ [f \in DOMAIN c \ {"found"} |-> c[f]] = [op |-> "make", dir |-> h, name |-> n, node |-> x]
         /\ c.found = t /\ c.op = "make" /\ c.dir = h /\ c.name = n /\ c.node = x
OBVIOUS

(* The call that remove records.                                           *)
LEMMA RemoveBegins ==
  ASSUME NEW t, NEW h, NEW n, NEW c, c = [op |-> "remove", dir |-> h, name |-> n, found |-> t]
  PROVE  /\ [f \in DOMAIN c \ {"found"} |-> c[f]] = [op |-> "remove", dir |-> h, name |-> n]
         /\ c.found = t /\ c.op = "remove" /\ c.dir = h /\ c.name = n
OBVIOUS

(* The call that rename records.                                           *)
LEMMA RenameBegins ==
  ASSUME NEW t, NEW h, NEW n, NEW k, NEW a, NEW c,
         c = [op |-> "rename", dir |-> h, name |-> n, to |-> k, as |-> a, found |-> t]
  PROVE  /\ [f \in DOMAIN c \ {"found"} |-> c[f]] =
              [op |-> "rename", dir |-> h, name |-> n, to |-> k, as |-> a]
         /\ c.found = t /\ c.op = "rename" /\ c.dir = h /\ c.name = n /\ c.to = k /\ c.as = a
OBVIOUS

(* A call that is under way is a call.                                     *)
LEMMA SomeCall ==
  ASSUME NEW t \in SUBSET (Pair \X Name \X (Pair \cup File)), NEW h \in Pair, NEW n \in Name
  PROVE  /\ \A x \in Pair : [op |-> "make", dir |-> h, name |-> n, node |-> x, found |-> t] # NoCall
         /\ [op |-> "remove", dir |-> h, name |-> n, found |-> t] # NoCall
         /\ \A k \in Pair, a \in Name :
              [op |-> "rename", dir |-> h, name |-> n, to |-> k, as |-> a, found |-> t] # NoCall
<1>1. ASSUME NEW x \in Pair
      PROVE  [op |-> "make", dir |-> h, name |-> n, node |-> x, found |-> t] # NoCall
  BY NoCallAssumption
<1>2. [op |-> "remove", dir |-> h, name |-> n, found |-> t] # NoCall
  BY NoCallAssumption
<1>3. ASSUME NEW k \in Pair, NEW a \in Name
      PROVE  [op |-> "rename", dir |-> h, name |-> n, to |-> k, as |-> a, found |-> t] # NoCall
  BY NoCallAssumption
<1> QED BY <1>1, <1>2, <1>3

(* The names when a call that takes several commits begins, and has had    *)
(* its effect or not.                                                      *)
LEMMA BeginNames ==
  ASSUME NEW t, NEW u, t = Tree(disk, OnCard(disk)), u = Tree(disk', OnCard(disk')),
         call = NoCall, call' # NoCall, result' = result,
         [f \in DOMAIN call' \ {"found"} |-> call'[f]] \in Names!Calls(t),
         call'.found = t, Names!Legal(t, call'), u = t \/ u = Names!Effect(t, call')
  PROVE  NamesStep
<1>1. Names!Begin(t, u)
  BY DEF Names!Begin, Names!Moves
<1> QED BY <1>1 DEF NamesStep, Names!Next

(* The names when a call has been made, all at once.                       *)
LEMMA OnceNames ==
  ASSUME NEW t, NEW u, t = Tree(disk, OnCard(disk)), u = Tree(disk', OnCard(disk')),
         call = NoCall, call' = NoCall, result' = "ok",
         NEW c \in Names!Calls(t), Names!Legal(t, c), u = Names!Effect(t, c)
  PROVE  NamesStep
<1>1. Names!Once(t, u)
  BY DEF Names!Once
<1> QED BY <1>1 DEF NamesStep, Names!Next

(* The commit of lfs_remove: it deletes the entry that it has looked up.   *)
Removing(h, n, w, s, o, k) ==
  /\ Ready /\ h \in Dirs /\ n \in Name /\ w = Lookup(disk, lfs.gdisk, h, n)
  /\ w.found /\ (w.node \in Pair => Empty(w.node)) /\ Removes(w.pair, w.id)
  /\ Deleting(s, w.pair, w.id, o, k) /\ Moves(s.lfs.gstate) = {} /\ Apply(k, w.pair, <<Del(w.id)>>)
  /\ IF w.node \in Pair
     THEN /\ op' = [at |-> "drop", dir |-> w.node]
          /\ Running([op |-> "remove", dir |-> h, name |-> n, found |-> Tree(disk, lfs.gdisk)])
     ELSE Return("ok")
LEMMA RemoveDeletes ==
  ASSUME Sure, Inv, RemoveEntry
  PROVE  \E h, n, w, s, o, k : Removing(h, n, w, s, o, k)
<1>1. Ready
  BY DEF RemoveEntry
<1>2. PICK h \in Dirs, n \in Name :
       LET w == Lookup(disk, lfs.gdisk, h, n)
           isDir == w.node \in Pair
       IN /\ w.found /\ (isDir => Empty(w.node))
          /\ Removes(w.pair, w.id)
          /\ \E o \in Delete([Now EXCEPT !.lfs =
                              IF isDir THEN PrepOrphans(@, TRUE) ELSE @],
                            w.pair, w.id) :
               IF o.ok /\ isDir
               THEN /\ Apply([o EXCEPT !.lfs = PrepOrphans(@, FALSE)],
                             w.pair, <<Del(w.id)>>)
                    /\ op' = [at |-> "drop", dir |-> w.node]
                    /\ Running([op |-> "remove", dir |-> h, name |-> n,
                                found |-> Tree(disk, lfs.gdisk)])
               ELSE /\ Apply(o, w.pair, <<Del(w.id)>>)
                    /\ Return(IF o.ok THEN "ok" ELSE "error")
  BY Zenon DEF RemoveEntry
<1>3. PICK w : w = Lookup(disk, lfs.gdisk, h, n)
  OBVIOUS
<1>4. PICK p, i, x : p = w.pair /\ i = w.id /\ x = w.node
  OBVIOUS
<1>5. /\ w.found /\ (x \in Pair => Empty(x)) /\ Removes(p, i)
      /\ \E o \in Delete([Now EXCEPT !.lfs = IF x \in Pair THEN PrepOrphans(@, TRUE) ELSE @], p, i) :
               IF o.ok /\ x \in Pair
               THEN /\ Apply([o EXCEPT !.lfs = PrepOrphans(@, FALSE)], p, <<Del(i)>>)
                    /\ op' = [at |-> "drop", dir |-> x]
                    /\ Running([op |-> "remove", dir |-> h, name |-> n,
                                found |-> Tree(disk, lfs.gdisk)])
               ELSE /\ Apply(o, p, <<Del(i)>>)
                    /\ Return(IF o.ok THEN "ok" ELSE "error")
  BY <1>2, <1>3, <1>4
<1>6. PICK o :
        /\ o \in Delete([Now EXCEPT !.lfs = IF x \in Pair THEN PrepOrphans(@, TRUE) ELSE @], p, i)
        /\ IF o.ok /\ x \in Pair
           THEN /\ Apply([o EXCEPT !.lfs = PrepOrphans(@, FALSE)], p, <<Del(i)>>)
                /\ op' = [at |-> "drop", dir |-> x]
                /\ Running([op |-> "remove", dir |-> h, name |-> n,
                            found |-> Tree(disk, lfs.gdisk)])
           ELSE /\ Apply(o, p, <<Del(i)>>)
                /\ Return(IF o.ok THEN "ok" ELSE "error")
  BY <1>5
<1>7. /\ Known /\ Held = {} /\ lfs.gstate = {}
  BY <1>1, ReadyIs
<1>8. p \in Listed(disk) /\ i \in 1 .. Len(disk[p].ents)
  <2>1. Found(w)
    BY <1>1, <1>3, FoundIs
  <2> QED BY <1>4, <1>5, <2>1 DEF Found
<1>9. PICK l : l = IF x \in Pair THEN PrepOrphans(lfs, TRUE) ELSE lfs
  OBVIOUS
<1>10. l \in Globals /\ Moves(l.gstate) = {} /\ l.gdisk = lfs.gdisk /\ l.gdelta = {}
  <2>1. lfs \in Globals /\ lfs.gdelta = {} /\ {} \in SUBSET Token
    BY DEF Inv, GlobalOK
  <2>2. /\ PrepOrphans(lfs, TRUE) \in Globals /\ PrepOrphans(lfs, TRUE).gstate = lfs.gstate \cup {Orphans}
        /\ PrepOrphans(lfs, TRUE).gdisk = lfs.gdisk /\ PrepOrphans(lfs, TRUE).gdelta = lfs.gdelta
    BY <2>1, PrepIs
  <2> QED BY <1>7, <1>9, <2>1, <2>2 DEF Moves
<1>11. PICK s : s = SetLfs(Now, l)
  OBVIOUS
<1>12. s = [Now EXCEPT !.lfs = IF x \in Pair THEN PrepOrphans(@, TRUE) ELSE @]
  <2>1. Now.lfs = lfs
    BY DEF Now
  <2> QED BY <1>9, <1>11, <2>1, Zenon DEF SetLfs
<1>13. o \in Delete(s, p, i)
  BY <1>6, <1>12
<1>14. ASSUME NEW k, Unflagged(o, k) PROVE Deleting(s, p, i, o, k) /\ s.lfs = l
  BY <1>7, <1>8, <1>10, <1>11, <1>13, <1>14, DeletesFrom
<1>15. o.ok /\ Moves(s.lfs.gstate) = {}
  BY <1>10, <1>14 DEF Deleting, Unflagged
<1>16. CASE x \in Pair
  <2>1. PICK k : k = SetLfs(o, PrepOrphans(o.lfs, FALSE))
    OBVIOUS
  <2>2. k = [o EXCEPT !.lfs = PrepOrphans(@, FALSE)]
    BY <2>1, Zenon DEF SetLfs
  <2>3. /\ Apply(k, p, <<Del(i)>>) /\ op' = [at |-> "drop", dir |-> x]
        /\ Running([op |-> "remove", dir |-> h, name |-> n, found |-> Tree(disk, lfs.gdisk)])
    BY <1>6, <1>15, <1>16, <2>2
  <2>4. Deleting(s, p, i, o, k)
    BY <1>14, <2>1 DEF Unflagged
  <2>5. Removing(h, n, w, s, o, k)
    BY <1>1, <1>3, <1>4, <1>5, <1>15, <1>16, <2>3, <2>4 DEF Removing
  <2> QED BY <2>5
<1>17. CASE x \notin Pair
  <2>1. Apply(o, p, <<Del(i)>>) /\ Return("ok")
    BY <1>6, <1>15, <1>17
  <2>2. Deleting(s, p, i, o, o)
    BY <1>14 DEF Unflagged
  <2>3. Removing(h, n, w, s, o, o)
    BY <1>1, <1>3, <1>4, <1>5, <1>15, <1>17, <2>1, <2>2 DEF Removing
  <2> QED BY <2>3
<1> QED BY <1>16, <1>17

(* lfs_remove.                                                             *)
LEMMA RemoveEntryNames ==
  ASSUME Sure, NamesInv, Inv', RemoveEntry
  PROVE  NamesKept
<1>0. Inv /\ Sorted(disk) /\ Card(disk) /\ (Moves(lfs.gdisk) = {} => Tree(disk, OnCard(disk)) = All(disk))
      /\ (op.at \in {"idle", "ready", "deorphan"} => call = NoCall)
  BY NamesHave
<1>1. PICK h, n, w, s, o, k : Removing(h, n, w, s, o, k)
  BY <1>0, RemoveDeletes
<1>2. PICK p, i, x : p = w.pair /\ i = w.id /\ x = w.node
  OBVIOUS
<1>3. /\ Ready /\ h \in Dirs /\ n \in Name /\ w = Lookup(disk, lfs.gdisk, h, n) /\ w.found
      /\ x \in Pair => Empty(x)
      /\ Deleting(s, p, i, o, k) /\ Moves(s.lfs.gstate) = {} /\ Apply(k, p, <<Del(i)>>)
      /\ x \in Pair => /\ op' = [at |-> "drop", dir |-> x]
                       /\ Running([op |-> "remove", dir |-> h, name |-> n, found |-> Tree(disk, lfs.gdisk)])
      /\ x \notin Pair => Return("ok")
  BY <1>1, <1>2 DEF Removing
<1>4. /\ Known /\ Moves(lfs.gdisk) = {} /\ lfs.gdisk \subseteq {Orphans} /\ call = NoCall
  BY <1>0, <1>3, ReadyIs DEF Ready
<1>5. h \in Heads(disk) /\ h \in Pair
  BY <1>0, <1>3, DirsIs, CardHas
<1>6. Has(disk, h, p, i) /\ disk[p].ents[i].name = n /\ x = disk[p].ents[i].node
  BY <1>0, <1>2, <1>3, <1>4, <1>5, LookupFinds
<1>7. Sorted(o.disk) /\ All(o.disk) = All(disk) \ {Triple(disk, h, p, i)}
  <2>1. /\ Clean(s) /\ s.ok = TRUE /\ s.told = {} /\ s.disk = disk
        /\ Sorted(s.disk) /\ Has(s.disk, h, p, i) /\ o \in Delete(s, p, i)
    BY <1>0, <1>3, <1>6 DEF Deleting
  <2>2. Sorted(o.disk) /\ All(o.disk) = All(s.disk) \ {Triple(s.disk, h, p, i)}
    BY ONLY Sure, <2>1, DeleteNames
  <2> QED BY <2>1, <2>2
<1>8. disk' = o.disk /\ Moves(lfs'.gdisk) = {}
  BY <1>3 DEF Deleting, Apply
<1>9. PICK t, e : t = All(disk) /\ e = Triple(disk, h, p, i)
  OBVIOUS
<1>10. /\ t = Tree(disk, OnCard(disk)) /\ t = Tree(disk, lfs.gdisk)
       /\ t \in SUBSET (Pair \X Name \X (Pair \cup File))
  BY <1>0, <1>4, <1>9, AllType DEF Known
<1>11. Names!At(t, h, n) = {e} /\ e \in t /\ e[1] = h /\ e[2] = n /\ e[3] = x
  <2>1. Names!At(t, h, n) = {e} /\ e \in t
    BY <1>0, <1>6, <1>9, AtIs
  <2> QED BY <1>6, <1>9, <2>1 DEF Triple
<1>12. \A y \in Names!At(t, h, n) : Names!Removable(t, y)
  <2>1. Names!Removable(t, e)
    <3>1. x \in Pair => Names!Under(t, x) = {}
      BY <1>0, <1>3, <1>9, NothingUnder DEF Empty
    <3> QED BY <1>11, <3>1 DEF Names!Removable, Names!IsDir
  <2> QED BY <1>11, <2>1
<1>13. [op |-> "remove", dir |-> h, name |-> n] \in Names!Calls(t)
  BY <1>11 DEF Names!Calls
<1>14. OrderOK(disk') /\ Tree(disk', OnCard(disk')) = t \ {e}
  BY <1>7, <1>8, <1>9, TreeThen DEF Sorted
<1>15. CASE x \notin Pair
  <2>1. op' = Idle /\ call' = NoCall /\ result' = "ok"
    BY <1>3, <1>15 DEF Return
  <2>2. PICK c : c = [op |-> "remove", dir |-> h, name |-> n]
    OBVIOUS
  <2>3. Names!Legal(t, c) /\ Names!Effect(t, c) = t \ {e}
    BY <1>11, <1>12, <2>2, RemoveCall
  <2>4. NamesStep
    BY <1>4, <1>10, <1>13, <1>14, <2>1, <2>2, <2>3, OnceNames
  <2>5. CallOK'
    BY <2>1 DEF CallOK, Idle
  <2> QED BY <1>14, <2>4, <2>5 DEF NamesKept
<1>16. CASE x \in Pair
  <2>1. PICK c : c = [op |-> "remove", dir |-> h, name |-> n, found |-> t]
    OBVIOUS
  <2>2. op' = [at |-> "drop", dir |-> x] /\ call' = c /\ result' = result
    BY <1>3, <1>10, <1>16, <2>1 DEF Running
  <2>3. /\ [f \in DOMAIN c \ {"found"} |-> c[f]] = [op |-> "remove", dir |-> h, name |-> n]
        /\ c.found = t /\ c.op = "remove" /\ c.dir = h /\ c.name = n
    BY <2>1, RemoveBegins
  <2>4. c # NoCall
    BY <1>3, <1>5, <1>10, <2>1, SomeCall
  <2>5. Names!Legal(t, c) /\ Names!Effect(t, c) = t \ {e}
    BY <1>11, <1>12, <2>3, RemoveCall
  <2>6. NamesStep
    <3>1. PICK u : u = t \ {e}
      OBVIOUS
    <3>2. t = Tree(disk, OnCard(disk)) /\ u = Tree(disk', OnCard(disk'))
      BY <1>10, <1>14, <3>1
    <3>3. call = NoCall /\ call' # NoCall /\ result' = result
      BY <1>4, <2>2, <2>4
    <3>4. call'.found = t /\ Names!Legal(t, call') /\ u = Names!Effect(t, call')
      BY <2>2, <2>3, <2>5, <3>1
    <3>5. [f \in DOMAIN call' \ {"found"} |-> call'[f]] \in Names!Calls(t)
      BY <1>13, <2>2, <2>3
    <3> QED BY ONLY <3>2, <3>3, <3>4, <3>5, BeginNames
  <2>7. CallOK'
    <3>1. Tree(disk', OnCard(disk')) = Names!Effect(call'.found, call')
      BY <1>14, <2>2, <2>3, <2>5
    <3> QED BY <2>2, <2>4, <3>1 DEF CallOK
  <2> QED BY <1>14, <2>6, <2>7 DEF NamesKept
<1> QED BY <1>15, <1>16

(* A directory that an entry names is on the list.                         *)
LEMMA NamedIsHead ==
  ASSUME NEW d, NEW g, CardOK(d, g), NEW e \in All(d), e[3] \in Pair
  PROVE  e[3] \in Heads(d) /\ e[3] # Root
<1>0. Card(d) /\ d \in Disks /\ Short(d)
  BY CardIs DEF CardOK, Card
<1>1. PICK h, p, i : Has(d, h, p, i) /\ e = Triple(d, h, p, i)
  BY <1>0, AllIs DEF Lists
<1>2. p \in Listed(d) /\ i \in 1 .. Len(d[p].ents) /\ e[3] = d[p].ents[i].node
  BY <1>0, <1>1, HasIs DEF Triple
<1>3. <<p, i>> \in Namers(d, e[3])
  BY <1>0, <1>2, NamerIs
<1>4. NameCount(d, e[3]) # 0
  BY <1>3, NoNames
<1> QED BY <1>4 DEF CardOK, NamesOK

(* A pair that is not on the list is no part of the names.                 *)
LEMMA OffList ==
  ASSUME NEW d, Card(d), NEW e, Card(e), NEW q \in Pair \ Listed(d),
         \A r \in Pair \ {q} : e[r] = d[r]
  PROVE  /\ All(e) = All(d) /\ SameSlots(d, e) /\ Listed(e) = Listed(d) /\ Heads(e) = Heads(d)
         /\ OrderOK(d) => Sorted(e)
         /\ \A h, p, i, n : Place(d, h, p, i, n) => Place(e, h, p, i, n)
<1>0. d \in Disks /\ e \in Disks /\ Threaded(d) /\ Threaded(e) /\ Listed(d) \in SUBSET Pair
  BY CardHas
<1>1. \A r \in Listed(d) : e[r] = d[r]
  BY <1>0
<1>2. Listed(e) = Listed(d) /\ Heads(e) = Heads(d)
  BY <1>0, <1>1, SameThread DEF Threaded
<1>3. \A r \in Listed(d) : Chain(e, r) = Chain(d, r)
  BY <1>1, <1>2, SameChains
<1>4. SameSlots(d, e)
  BY <1>1, <1>2, <1>3 DEF SameSlots
<1>5. \A h, p, i, n : Place(d, h, p, i, n) => h \in Heads(e) /\ p \in Listed(e)
  <2>1. \A h \in Heads(d) : Chain(d, h) \subseteq Listed(d)
    BY CardHas, ChainCloses
  <2> QED BY <1>2, <2>1 DEF Place
<1> QED BY <1>2, <1>4, <1>5, SlotsKept

(* The first commit of lfs_mkdir writes a pair off the list, and nothing   *)
(* else.                                                                   *)
Making(h, n, q, w, o) ==
  /\ Ready /\ h \in Heads(disk) /\ h \in Pair /\ n \in Name /\ q \in Pair \ Listed(disk)
  /\ Place(disk, h, w.pair, w.id, n)
  /\ o.told = {q} /\ o.held = {q} /\ o.disk[q].ents = <<>> /\ o.disk[q].split = FALSE
  /\ (\A r \in Pair \ {q} : o.disk[r] = disk[r]) /\ o.lfs = Settled(lfs) /\ Apply(o, q, <<>>)
  /\ op'.at \in {"mkdir_link", "mkdir_entry"} /\ op'.dir = q /\ op'.cwd = w.pair
  /\ op'.id = w.id /\ op'.name = n
  /\ Running([op |-> "make", dir |-> h, name |-> n, node |-> q, found |-> Tree(disk, lfs.gdisk)])
LEMMA MkdirMakes ==
  ASSUME Sure, NamesInv, Mkdir
  PROVE  \E h, n, q, w, o : Making(h, n, q, w, o)
<1>0. Inv /\ Sorted(disk) /\ Card(disk) /\ CardOK(disk, OnCard(disk))
  BY NamesHave
<1>1. Ready
  BY DEF Mkdir
<1>2. PICK h \in Dirs, n \in Name, q \in Free(Now) :
       LET w == Lookup(disk, lfs.gdisk, h, n)
           last == LastOf(disk, w.pair)
       IN /\ ~w.found
          /\ \E o \in Put([Now EXCEPT !.held = {q}], q, NewPair(disk, last)) :
               /\ Apply(o, q, <<>>)
               /\ IF ~o.ok THEN Return("error")
                  ELSE /\ op' = [at |-> IF disk[w.pair].split
                                        THEN "mkdir_link" ELSE "mkdir_entry",
                                 dir |-> q, cwd |-> w.pair, id |-> w.id,
                                 name |-> n, last |-> last,
                                 split |-> disk[w.pair].split]
                       /\ Running([op |-> "make", dir |-> h, name |-> n,
                                   node |-> q,
                                   found |-> Tree(disk, lfs.gdisk)])
  BY Zenon DEF Mkdir
<1>3. PICK w : w = Lookup(disk, lfs.gdisk, h, n)
  OBVIOUS
<1>4. PICK last : last = LastOf(disk, w.pair)
  OBVIOUS
<1>5. PICK s, m : s = SetHeld(Now, {q}) /\ m = SetTail(Blank, disk[last].tail)
  OBVIOUS
<1>6. s = [Now EXCEPT !.held = {q}] /\ m = NewPair(disk, last)
  BY <1>5, Zenon DEF SetHeld, SetTail, NewPair
<1>7. ~w.found /\ \E o \in Put(s, q, m) :
        /\ Apply(o, q, <<>>)
        /\ o.ok => /\ op' = [at |-> IF disk[w.pair].split
                                    THEN "mkdir_link" ELSE "mkdir_entry",
                             dir |-> q, cwd |-> w.pair, id |-> w.id,
                             name |-> n, last |-> last,
                             split |-> disk[w.pair].split]
                   /\ Running([op |-> "make", dir |-> h, name |-> n, node |-> q,
                               found |-> Tree(disk, lfs.gdisk)])
  BY <1>2, <1>3, <1>4, <1>6
<1>8. PICK o \in Put(s, q, m) :
        /\ Apply(o, q, <<>>)
        /\ o.ok => /\ op' = [at |-> IF disk[w.pair].split
                                    THEN "mkdir_link" ELSE "mkdir_entry",
                             dir |-> q, cwd |-> w.pair, id |-> w.id,
                             name |-> n, last |-> last,
                             split |-> disk[w.pair].split]
                   /\ Running([op |-> "make", dir |-> h, name |-> n, node |-> q,
                               found |-> Tree(disk, lfs.gdisk)])
  BY <1>7
<1>9. /\ Known /\ Held = {} /\ lfs.gstate = {} /\ lfs.gdisk \subseteq {Orphans}
  BY <1>0, <1>1, ReadyIs
<1>10. /\ Now \in States /\ Now.disk = disk /\ Now.lfs = lfs /\ Now.held = {} /\ Now.ok = TRUE /\ Now.told = {}
  BY <1>0, <1>9, NowClean
<1>11. q \in Pair \ Listed(disk)
  BY <1>10 DEF Free
<1>12. h \in Heads(disk) /\ h \in Pair /\ Place(disk, h, w.pair, w.id, n)
  <2>1. h \in Heads(disk) /\ h \in Pair
    BY <1>0, DirsIs, CardHas
  <2> QED BY <1>0, <1>3, <1>7, <1>9, <2>1, LookupFinds
<1>13. last \in Listed(disk)
  <2>1. w.pair \in Listed(disk)
    BY <1>0, <1>12, CardHas, ChainCloses DEF Place
  <2> QED BY <1>0, <1>4, <2>1, ChainEnds, CardHas
<1>14. /\ s \in States /\ s.disk = disk /\ s.lfs = lfs /\ s.held = {q} /\ s.ok = TRUE /\ s.told = {}
  BY <1>5, <1>10, <1>11, WithHeld
<1>15. m \in Content /\ m.ents = <<>> /\ m.split = FALSE
  <2>1. Blank \in Content /\ Blank.ents = <<>> /\ Blank.split = FALSE
    BY DEF Blank, Content
  <2>2. disk[last].tail \in Pair \cup {NoPair}
    BY <1>0, <1>13, CardHas, DiskType
  <2> QED BY <1>5, <2>1, <2>2, WithTail
<1>16. /\ o.lfs = Settled(lfs) /\ o.ok /\ o.told = {q} /\ o.held = {q}
       /\ Whole(disk, o.disk, q, m, Pending(lfs))
  <2>1. q \notin Free(s)
    BY <1>14 DEF Free
  <2>2. Len(m.ents) = 0 /\ ~(Len(m.ents) > Capacity)
    BY <1>15, DirTreeAssumption
  <2>3. q \in Pair
    BY <1>11
  <2>4. q \in Free(s) => Len(m.ents) = 0
    BY <2>1
  <2>5. o \in Put(s, q, m)
    OBVIOUS
  <2>6. /\ o \in States /\ o.lfs = Settled(s.lfs) /\ o.held = s.held
         /\ o.ok = s.ok /\ o.told = s.told \cup {q}
         /\ \/ /\ Len(m.ents) <= Full
               /\ Whole(s.disk, o.disk, q, m, Pending(s.lfs))
            \/ \E r \in Free(s) :
                 /\ Len(m.ents) > Capacity
                 /\ Halves(s.disk, o.disk, q, r, m, Pending(s.lfs))
    BY ONLY Sure, <1>14, <1>15, <2>3, <2>4, <2>5, PutIs
  <2> QED BY <1>14, <2>2, <2>6
<1>17. /\ op'.at \in {"mkdir_link", "mkdir_entry"} /\ op'.dir = q /\ op'.cwd = w.pair
       /\ op'.id = w.id /\ op'.name = n
  <2>1. op' = [at |-> IF disk[w.pair].split THEN "mkdir_link" ELSE "mkdir_entry",
               dir |-> q, cwd |-> w.pair, id |-> w.id, name |-> n, last |-> last,
               split |-> disk[w.pair].split]
    BY <1>8, <1>16
  <2> QED BY <2>1
<1>18. /\ o.disk[q].ents = <<>> /\ o.disk[q].split = FALSE
       /\ \A r \in Pair \ {q} : o.disk[r] = disk[r]
  BY <1>15, <1>16 DEF Whole
<1>19. Making(h, n, q, w, o)
  BY <1>1, <1>8, <1>11, <1>12, <1>16, <1>17, <1>18 DEF Making
<1> QED BY <1>19

(* The first commit of lfs_mkdir: the names are not changed yet.           *)
LEMMA MkdirNames ==
  ASSUME Sure, NamesInv, Inv', Mkdir
  PROVE  NamesKept
<1>0. /\ Inv /\ Sorted(disk) /\ Card(disk) /\ (Moves(lfs.gdisk) = {} => Tree(disk, OnCard(disk)) = All(disk))
      /\ (op.at \in {"idle", "ready", "deorphan"} => call = NoCall) /\ CardOK(disk, OnCard(disk))
  BY NamesHave
<1>1. PICK h, n, q, w, o : Making(h, n, q, w, o)
  BY MkdirMakes
<1>2. /\ Ready /\ h \in Heads(disk) /\ h \in Pair /\ n \in Name /\ q \in Pair \ Listed(disk)
      /\ Place(disk, h, w.pair, w.id, n) /\ \A r \in Pair \ {q} : o.disk[r] = disk[r]
  BY <1>1 DEF Making
<1>3. call = NoCall /\ Known /\ Moves(lfs.gdisk) = {} /\ lfs.gstate = {}
  BY <1>0, <1>2, ReadyIs DEF Ready
<1>4. PICK c, t : c = [op |-> "make", dir |-> h, name |-> n, node |-> q, found |-> t]
                   /\ t = Tree(disk, lfs.gdisk)
  OBVIOUS
<1>5. /\ disk' = o.disk /\ lfs' = Settled(lfs) /\ call' = c /\ result' = result
      /\ op'.at \in {"mkdir_link", "mkdir_entry"} /\ op'.dir = q /\ op'.cwd = w.pair
      /\ op'.id = w.id /\ op'.name = n
  BY <1>1, <1>4 DEF Making, Apply, Running
<1>6. Card(o.disk) /\ Tree(disk', OnCard(disk')) = All(o.disk)
  <2>1. Moves(lfs'.gdisk) = {}
    <3>1. lfs'.gdisk = lfs.gstate
      BY <1>0, <1>5, GlobalsIs DEF Inv, GlobalOK
    <3> QED BY <1>3, <3>1 DEF Moves
  <2>2. Card(o.disk)
    BY <1>5 DEF Inv, CardOK, Card
  <2> QED BY <1>5, <2>1, <2>2, TreeThen
<1>7. /\ All(o.disk) = All(disk) /\ OrderOK(o.disk) /\ Place(o.disk, h, w.pair, w.id, n)
  BY <1>0, <1>2, <1>6, OffList DEF Sorted
<1>8. /\ t = All(disk) /\ t = Tree(disk, OnCard(disk)) /\ t = Tree(disk', OnCard(disk'))
      /\ t \in SUBSET (Pair \X Name \X (Pair \cup File))
  BY <1>0, <1>3, <1>4, <1>6, <1>7, AllType DEF Known
<1>9. /\ [f \in DOMAIN c \ {"found"} |-> c[f]] = [op |-> "make", dir |-> h, name |-> n, node |-> q]
      /\ c.found = t /\ c.op = "make" /\ c.dir = h /\ c.name = n /\ c.node = q
  BY <1>4, MakeBegins
<1>10. [op |-> "make", dir |-> h, name |-> n, node |-> q] \in Names!Calls(t)
  <2>1. q \notin Names!Nodes(t)
    <3>1. \A e \in t : e[3] # q
      BY <1>0, <1>2, <1>8, NamedIsHead, CardHas
    <3> QED BY <3>1 DEF Names!Nodes
  <2>2. q # Root
    BY <1>0, <1>2, CardHas
  <2> QED BY <1>2, <2>1, <2>2 DEF Names!Calls
<1>11. Names!Legal(t, c)
  <2>1. n \in Nat
    BY <1>2, DirTreeAssumption
  <2>2. Names!At(t, c.dir, c.name) = {}
    BY <1>0, <1>2, <1>8, <1>9, <2>1, NoneAt
  <2> QED BY <1>9, <2>2, MakeIs
<1>12. c # NoCall
  BY <1>2, <1>4, <1>8, SomeCall
<1>13. NamesStep
  BY <1>3, <1>5, <1>8, <1>9, <1>10, <1>11, <1>12, BeginNames
<1>14. CallOK'
  BY <1>5, <1>7, <1>8, <1>9, <1>12 DEF CallOK
<1> QED BY <1>5, <1>7, <1>13, <1>14 DEF NamesKept

(* The new pair is linked: no entry names it, and the names are the same.  *)
LEMMA LinkedSlots ==
  ASSUME Card(disk), NEW p, NEW q, NEW m, NEW d, Linked(disk, p, q, m, d),
         p \in Listed(disk), ~disk[p].split, q \in Pair \ Listed(disk), Bare(disk, q),
         ~m.split, m.ents = disk[p].ents
  PROVE  Appended(disk, d, p, q) /\ SameSlots(disk, d)
<1>1. /\ Card(d) /\ Listed(d) = Listed(disk) \cup {q} /\ Heads(d) = Heads(disk) \cup {q}
      /\ d[p] = m /\ (\A r \in Pair \ {p} : d[r] = disk[r]) /\ q # p
  BY DEF Linked, Card
<1>2. \A r \in Listed(disk) \ {p} : d[r] = disk[r]
  BY <1>1, CardHas
<1>3. d[q] = disk[q] /\ d[q].ents = <<>> /\ ~d[q].split /\ ~d[p].split
  BY <1>1 DEF Bare
<1>4. \A r \in Listed(disk) : d[r].ents = disk[r].ents
  BY <1>1, <1>2
<1>5. Appended(disk, d, p, q)
  BY <1>1, <1>2, <1>3, <1>4 DEF Appended
<1> QED BY <1>5, AppendedSlots

(* Putting the new directory onto the list shows no name yet               *)
(* (lfs.cpp:2370-2384).                                                    *)
LEMMA MkdirLinkNames ==
  ASSUME Sure, NamesInv, Inv', MkdirLink
  PROVE  NamesKept
<1>0. /\ Inv /\ Sorted(disk) /\ Card(disk) /\ (Moves(lfs.gdisk) = {} => Tree(disk, OnCard(disk)) = All(disk))
      /\ CallOK /\ op.at = "mkdir_link"
  BY NamesHave DEF MkdirLink
<1>1. PICK s, p, q, m, d, o : LinkCommit(s, p, q, m, d, o)
  BY <1>0, MkdirLinks
<1>2. /\ op \in Settling /\ p = op.last /\ q = op.dir /\ Moves(lfs.gdisk) = {}
      /\ q \notin Listed(disk) /\ Bare(disk, q) /\ p \in Listed(disk) /\ ~disk[p].split
      /\ op.cwd \in Listed(disk) /\ disk[op.cwd].split
  BY <1>0, <1>1 DEF Inv, OpOK, LinkCommit, Moves
<1>3. q \in Pair \ Listed(disk)
  BY <1>2 DEF Settling
<1>4. /\ Linked(disk, p, q, m, d) /\ Committed(s, p, d, o) /\ m.ents = disk[p].ents
      /\ s.lfs.gstate = {Orphans} /\ m.split = FALSE
  BY <1>1 DEF LinkCommit
<1>5. Card(d) /\ SameSlots(disk, d) /\ p \in Listed(d) /\ Heads(disk) \subseteq Heads(d) /\ op.cwd \in Listed(d)
  <2>1. SameSlots(disk, d)
    BY <1>0, <1>2, <1>3, <1>4, LinkedSlots
  <2> QED BY <1>2, <1>4, <2>1 DEF SameSlots, Linked
<1>6. PICK h, r, i, n : h = call.dir /\ r = op.cwd /\ i = op.id /\ n = op.name
  OBVIOUS
<1>7. Place(disk, h, r, i, n) /\ r # p
  BY <1>0, <1>2, <1>6 DEF CallOK
<1>8. /\ All(d) = All(disk) /\ Sorted(d) /\ Place(d, h, r, i, n)
  <2>1. h \in Heads(d) /\ r \in Listed(d)
    BY <1>5, <1>6, <1>7 DEF Place
  <2> QED BY <1>0, <1>5, <1>7, <2>1, SlotsKept DEF Sorted
<1>9. /\ Sorted(o.disk) /\ All(o.disk) = All(d) /\ Place(o.disk, h, r, i, n)
  BY <1>4, <1>5, <1>7, <1>8, CommitNames, CommitSlots DEF Sorted
<1>10. /\ disk' = o.disk /\ lfs'.gdisk = {Orphans} /\ UNCHANGED <<call, result>>
       /\ op'.at = "mkdir_entry" /\ op'.dir = op.dir /\ op'.cwd = op.cwd /\ op'.id = op.id
       /\ op'.name = op.name
  <2>1. o \in States /\ o.lfs \in Globals /\ o.lfs.gdisk = {Orphans}
    BY <1>4, CommittedClean, CleanIs DEF Committed
  <2>2. PICK b, k : b = PrepOrphans(o.lfs, FALSE) /\ k = SetLfs(o, b)
    OBVIOUS
  <2>3. b \in Globals /\ b.gdisk = o.lfs.gdisk
    BY <2>1, <2>2, PrepIs
  <2>4. o \in States /\ b \in Globals /\ k = SetLfs(o, b)
    BY <2>1, <2>2, <2>3
  <2>5. k.disk = o.disk /\ k.lfs = b
    BY ONLY <2>4, WithLfs
  <2>6. k = [o EXCEPT !.lfs = PrepOrphans(@, FALSE)]
    BY <2>2, Zenon DEF SetLfs
  <2>7. Apply(k, p, <<>>) /\ op' = [op EXCEPT !.at = "mkdir_entry"] /\ UNCHANGED <<call, result>>
    BY <1>1, <2>6 DEF LinkCommit
  <2> QED BY <1>2, <2>1, <2>3, <2>5, <2>7 DEF Apply, Settling
<1>11. Tree(disk', OnCard(disk')) = All(disk')
  BY <1>10, TreeThen DEF Moves
<1>12. Tree(disk', OnCard(disk')) = Tree(disk, OnCard(disk))
  BY <1>0, <1>2, <1>8, <1>9, <1>10, <1>11
<1>13. NamesStep
  BY <1>10, <1>12 DEF NamesStep, Names!names
<1>14. CallOK'
  <2>1. /\ call # NoCall /\ call.op = "make" /\ call.name = op.name /\ call.node = op.dir
        /\ call.found = Tree(disk, OnCard(disk))
    BY <1>0 DEF CallOK
  <2>2. Place(disk', call'.dir, op'.cwd, op'.id, op'.name)
    BY <1>6, <1>9, <1>10
  <2> QED BY <1>10, <1>12, <2>1, <2>2 DEF CallOK
<1> QED BY <1>9, <1>10, <1>13, <1>14 DEF NamesKept, Sorted

(* The commit that writes the entry of a new directory: one name more.     *)
Entering(s, p, q, i, y, x, m, d, o, h) ==
  /\ EntryCommit(s, p, q, i, y, x, m, d, o) /\ Sorted(disk) /\ op.split \in BOOLEAN
  /\ Place(disk, h, p, i, y.name)

(* With a parent of one pair, the list goes on with the new directory in   *)
(* the commit that names it: as if it did so first.                        *)
EntryLinks(p, i, y, c, d) ==
  /\ SameSlots(disk, c) /\ Alters(c, d, p) /\ HasMore(d[p].ents, c[p].ents, i, y)
  /\ p \in Listed(c) /\ c[p].ents = disk[p].ents /\ Listed(disk) \subseteq Listed(c)
  /\ Heads(disk) \subseteq Heads(c) /\ \A r \in Listed(disk) \ {p} : d[r] = disk[r]
LEMMA EntryLinked ==
  ASSUME NEW s, NEW p, NEW q, NEW i, NEW y, NEW x, NEW m, NEW d, NEW o, NEW h,
         Entering(s, p, q, i, y, x, m, d, o, h), ~op.split
  PROVE  \E c : EntryLinks(p, i, y, c, d)
<1> USE DEF Entering
<1>0. Card(disk) /\ OrderOK(disk) /\ disk \in Disks /\ p \in Listed(disk) /\ p \in Pair /\ disk[p] \in Content
  <2>1. Card(disk) /\ OrderOK(disk)
    BY DEF Sorted
  <2>2. p \in Listed(disk)
    BY <2>1, CardHas, ChainCloses DEF Place
  <2> QED BY <2>1, <2>2, CardHas
<1>1. /\ s.disk = disk /\ y \in Entry /\ x = InsertAt(disk[p].ents, i, y)
      /\ HasMore(x, disk[p].ents, i, y) /\ o \in Put(s, p, m)
  BY DEF EntryCommit
<1>2. m.ents = x /\ m.split = FALSE /\ Linking(disk, p, q, m, d) /\ Linked(disk, p, q, m, d) /\ Committed(s, p, d, o)
  BY DEF EntryCommit
<1>3. ~disk[p].split /\ q \in Pair \ Listed(disk) /\ Bare(disk, q) /\ m.delta = disk[p].delta /\ m.tail = q
  BY <1>2 DEF Linking
<1>4. PICK n, c : n = SetTail(disk[p], q) /\ c = SetPair(disk, p, n)
  OBVIOUS
<1>5. n \in Content /\ n.ents = disk[p].ents /\ n.tail = q /\ n.split = FALSE /\ n.delta = disk[p].delta
  <2>1. disk[p].split = FALSE
    BY <1>0, <1>3, DiskType
  <2>2. n \in Content /\ n.ents = disk[p].ents /\ n.tail = q /\ n.split = disk[p].split /\ n.delta = disk[p].delta
    BY <1>0, <1>3, <1>4, WithTail
  <2> QED BY <2>1, <2>2
<1>6. Linking(disk, p, q, n, c)
  BY <1>2, <1>4, <1>5 DEF Linking
<1>7. Linked(disk, p, q, n, c)
  BY <1>6, LinkedIs
<1>8. SameSlots(disk, c)
  BY <1>0, <1>3, <1>5, <1>7, LinkedSlots
<1>9. /\ Card(c) /\ Listed(c) = Listed(disk) \cup {q} /\ Heads(c) = Heads(disk) \cup {q}
      /\ c[p] = n /\ (\A r \in Pair \ {p} : c[r] = disk[r])
  BY <1>7 DEF Linked, Card
<1>10. /\ Card(d) /\ Listed(d) = Listed(disk) \cup {q} /\ Heads(d) = Heads(disk) \cup {q}
      /\ d[p] = m /\ (\A r \in Pair \ {p} : d[r] = disk[r])
  BY <1>2 DEF Linked, Card
<1>11. Alters(c, d, p)
  <2>1. \A r \in Listed(c) \ {p} : d[r] = c[r]
    BY <1>9, <1>10, CardHas
  <2>2. \A r \in Listed(c) : d[r].split = c[r].split /\ d[r].tail = c[r].tail
    BY <1>2, <1>3, <1>5, <1>9, <1>10, <2>1
  <2>3. \A r \in Listed(c) : Chain(d, r) = Chain(c, r)
    BY <1>9, <1>10, <2>2, SameChains
  <2> QED BY <1>0, <1>9, <1>10, <2>1, <2>3 DEF Alters
<1>12. HasMore(d[p].ents, c[p].ents, i, y)
  BY <1>1, <1>2, <1>5, <1>9, <1>10
<1>13. \A r \in Listed(disk) \ {p} : d[r] = disk[r]
  BY <1>0, <1>10, CardHas
<1> QED BY <1>0, <1>5, <1>8, <1>9, <1>11, <1>12, <1>13 DEF EntryLinks

(* The entry that mkdir creates is its one change of the names.            *)
LEMMA EntryNames ==
  ASSUME Sure, NEW s, NEW p, NEW q, NEW i, NEW y, NEW x, NEW m, NEW d, NEW o, NEW h,
         Entering(s, p, q, i, y, x, m, d, o, h)
  PROVE  Sorted(o.disk) /\ All(o.disk) = All(disk) \cup {<<h, y.name, y.node>>}
<1> USE DEF Entering
<1>0. Card(disk) /\ OrderOK(disk) /\ disk \in Disks /\ p \in Listed(disk) /\ p \in Pair /\ disk[p] \in Content
  <2>1. Card(disk) /\ OrderOK(disk)
    BY DEF Sorted
  <2>2. p \in Listed(disk)
    BY <2>1, CardHas, ChainCloses DEF Place
  <2> QED BY <2>1, <2>2, CardHas
<1>1. /\ s.disk = disk /\ y \in Entry /\ x = InsertAt(disk[p].ents, i, y)
      /\ HasMore(x, disk[p].ents, i, y) /\ o \in Put(s, p, m)
  BY DEF EntryCommit
<1>2. CASE op.split
  <2>1. Clean(s) /\ m = SetEnts(disk[p], x)
    BY <1>2 DEF EntryCommit
  <2>2. Adding(s, h, p, i, y, x, o)
    BY <1>1, <2>1 DEF Adding
  <2> QED BY <1>1, <2>2, AddNames
<1>3. CASE ~op.split
  <2>1. Committed(s, p, d, o)
    BY <1>3 DEF EntryCommit
  <2>2. PICK c : EntryLinks(p, i, y, c, d)
    BY <1>3, EntryLinked
  <2>3. /\ SameSlots(disk, c) /\ Alters(c, d, p) /\ HasMore(d[p].ents, c[p].ents, i, y)
        /\ p \in Listed(c) /\ Heads(disk) \subseteq Heads(c)
    BY <2>2 DEF EntryLinks
  <2>4. All(c) = All(disk) /\ Sorted(c) /\ Place(c, h, p, i, y.name)
    <3>1. h \in Heads(c) /\ p \in Listed(c)
      BY <2>3 DEF Place
    <3>2. /\ All(c) = All(disk) /\ (OrderOK(disk) => Sorted(c))
          /\ \A k \in Heads(c), r \in Listed(c) : \A j, a : Place(disk, k, r, j, a) => Place(c, k, r, j, a)
      BY <1>0, <2>3, SlotsKept
    <3> QED BY <1>0, <3>1, <3>2
  <2>5. Sorted(d) /\ All(d) = All(c) \cup {<<h, y.name, y.node>>}
    <3>1. Alters(c, d, p) /\ OrderOK(c) /\ y \in Entry /\ HasMore(d[p].ents, c[p].ents, i, y)
          /\ Place(c, h, p, i, y.name)
      BY <1>1, <2>3, <2>4 DEF Sorted
    <3> QED BY ONLY <3>1, InsertSlots
  <2>6. Sorted(o.disk) /\ All(o.disk) = All(d)
    <3>1. Card(d) /\ p \in Listed(d) /\ OrderOK(d)
      BY <2>3, <2>5, AltersHas DEF Sorted
    <3> QED BY <2>1, <3>1, CommitNames
  <2> QED BY <2>4, <2>5, <2>6
<1> QED BY <1>2, <1>3

(* The commit that ends a lfs_mkdir is the one that makes the name.        *)
LEMMA MkdirEntryNames ==
  ASSUME Sure, NamesInv, Inv', MkdirEntry
  PROVE  NamesKept
<1>0. /\ Inv /\ Sorted(disk) /\ Card(disk) /\ (Moves(lfs.gdisk) = {} => Tree(disk, OnCard(disk)) = All(disk))
      /\ CallOK /\ op.at = "mkdir_entry"
  BY NamesHave DEF MkdirEntry
<1>1. PICK s, p, q, i, y, x, m, d, o : EntryCommit(s, p, q, i, y, x, m, d, o)
  BY <1>0, MkdirEnters
<1>2. op \in Settling /\ Moves(lfs.gdisk) = {} /\ lfs.gstate = {}
  BY <1>0 DEF Inv, OpOK, Moves
<1>3. op.split \in BOOLEAN
  BY <1>2 DEF Settling
<1>4. /\ p = op.cwd /\ i = op.id /\ y.name = op.name /\ y.node = op.dir
      /\ s.lfs = lfs /\ s.ok = TRUE
  BY <1>1 DEF EntryCommit
<1>5. PICK h : h = call.dir
  OBVIOUS
<1>6. /\ call # NoCall /\ call.op = "make" /\ call.name = op.name /\ call.node = op.dir
      /\ call.found = Tree(disk, OnCard(disk)) /\ Place(disk, h, p, i, y.name)
  BY <1>0, <1>4, <1>5 DEF CallOK
<1>7. Sorted(o.disk) /\ All(o.disk) = All(disk) \cup {<<h, y.name, y.node>>}
  <2>1. Entering(s, p, q, i, y, x, m, d, o, h)
    BY <1>0, <1>1, <1>3, <1>6 DEF Entering
  <2> QED BY <2>1, EntryNames
<1>8. o.ok = TRUE /\ o.lfs.gdisk = {}
  <2>1. CASE op.split
    <3>1. Clean(s) /\ m = SetEnts(disk[p], x)
      BY <1>1, <2>1 DEF EntryCommit
    <3>2. Adding(s, h, p, i, y, x, o)
      BY <1>0, <1>1, <1>6, <3>1 DEF Adding, EntryCommit
    <3> QED BY <1>2, <1>4, <3>2, AddNames
  <2>2. CASE ~op.split
    <3>1. Committed(s, p, d, o)
      BY <1>1, <2>2 DEF EntryCommit
    <3> QED BY <1>2, <1>4, <3>1 DEF Committed
  <2> QED BY <1>3, <2>1, <2>2
<1>9. disk' = o.disk /\ lfs' = o.lfs /\ op' = Idle /\ call' = NoCall /\ result' = "ok"
  BY <1>1, <1>8 DEF EntryCommit, Apply, Return
<1>10. Tree(disk', OnCard(disk')) = All(disk')
  BY <1>8, <1>9, TreeThen DEF Moves
<1>11. PICK t, u : t = Tree(disk, OnCard(disk)) /\ u = Tree(disk', OnCard(disk'))
  OBVIOUS
<1>12. t = call.found /\ u = t \cup {<<h, y.name, y.node>>}
  BY <1>0, <1>2, <1>6, <1>7, <1>9, <1>10, <1>11
<1>13. u = Names!Effect(call.found, call)
  BY <1>4, <1>5, <1>6, <1>12, MakeIs
<1>14. Names!Return(t, u)
  BY <1>6, <1>9, <1>12, <1>13 DEF Names!Return, Names!Moves
<1>15. NamesStep
  BY <1>11, <1>14 DEF NamesStep, Names!Next
<1>16. CallOK' /\ OrderOK(disk')
  BY <1>7, <1>9 DEF CallOK, Idle, Sorted
<1> QED BY <1>15, <1>16 DEF NamesKept

(* The card with other entries in one pair, and with others again.         *)
LEMMA WithAlters ==
  ASSUME CardOK(disk, OnCard(disk)), Card(disk), NEW p, NEW x, Fitting(p, x)
  PROVE  Alters(disk, With(p, x), p) /\ With(p, x)[p].ents = x
<1>1. p \in Listed(disk) /\ x \in Seq(Entry) /\ p \in Pair /\ disk[p] \in Content /\ disk \in Disks
  BY CardHas DEF Fitting
<1>2. PICK m, d : m = SetEnts(disk[p], x) /\ d = SetPair(disk, p, m)
  OBVIOUS
<1>3. m \in Content /\ m.ents = x /\ m.tail = disk[p].tail /\ m.split = disk[p].split /\ m.delta = disk[p].delta
  BY <1>1, <1>2, WithEnts
<1>4. d \in Disks /\ d[p] = m /\ \A r \in Pair \ {p} : d[r] = disk[r]
  BY <1>1, <1>2, <1>3, WithPair
<1>5. Edited(disk, d, p)
  BY <1>3, <1>4 DEF Edited
<1>6. Alters(disk, d, p)
  BY <1>1, <1>4, <1>5, EditAlters
<1> QED BY <1>2, <1>3, <1>4, <1>6 DEF With

(* Two lists of entries for one pair give cards that differ in that pair.  *)
LEMMA WithBoth ==
  ASSUME CardOK(disk, OnCard(disk)), Card(disk), NEW p, NEW a, NEW b, Fitting(p, a), Fitting(p, b)
  PROVE  /\ Alters(With(p, a), With(p, b), p) /\ With(p, a)[p].ents = a /\ With(p, b)[p].ents = b
<1>1. PICK d, e : d = With(p, a) /\ e = With(p, b)
  OBVIOUS
<1>2. Alters(disk, d, p) /\ d[p].ents = a
  BY <1>1, WithAlters
<1>3. Alters(disk, e, p) /\ e[p].ents = b
  BY <1>1, WithAlters
<1>4. Alters(d, e, p)
  BY <1>2, <1>3 DEF Alters
<1> QED BY <1>1, <1>2, <1>3, <1>4

(* The entry w in h, named n, is to be named a in k, at the place v.       *)
Moving(w, v, y, p, h, n, k, a, K, D, X, old) ==
  /\ Edits(w, v, y, p, K, D, X, old) /\ CardOK(disk, OnCard(disk)) /\ Sorted(disk)
  /\ v.found \in BOOLEAN /\ a \in Nat /\ y.name = a /\ y.node = w.node
  /\ Has(disk, h, w.pair, w.id) /\ Triple(disk, h, w.pair, w.id) = <<h, n, w.node>>
  /\ v.found => Has(disk, k, p, v.id) /\ disk[p].ents[v.id].name = a
  /\ ~v.found => Place(disk, k, p, v.id, a)

(* First the entry of that name goes, if there is one.                     *)
LEMMA KeptNames ==
  ASSUME NEW w, NEW v, NEW y, NEW p, NEW h, NEW n, NEW k, NEW a, NEW K, NEW D, NEW X, NEW old,
         Moving(w, v, y, p, h, n, k, a, K, D, X, old), NEW c, c = With(p, K)
  PROVE  /\ Sorted(c) /\ Place(c, k, p, v.id, a)
         /\ All(c) = All(disk) \ Names!At(All(disk), k, a)
<1>1. Sorted(disk) /\ Card(disk) /\ OrderOK(disk) /\ CardOK(disk, OnCard(disk)) /\ a \in Nat
  BY DEF Moving, Sorted
<1>2. CASE v.found
  <2>1. Fitting(p, K) /\ HasLess(K, disk[p].ents, v.id)
    BY <1>2 DEF Moving, Edits
  <2>2. Alters(disk, c, p) /\ c[p].ents = K
    BY <1>1, <2>1, WithAlters
  <2>3. Has(disk, k, p, v.id) /\ disk[p].ents[v.id].name = a
    BY <1>2 DEF Moving
  <2>4. PICK i : i = v.id
    OBVIOUS
  <2>5. HasLess(c[p].ents, disk[p].ents, i) /\ Has(disk, k, p, i) /\ disk[p].ents[i].name = a
    BY <2>1, <2>2, <2>3, <2>4
  <2>6. /\ Sorted(c) /\ All(c) = All(disk) \ {Triple(disk, k, p, i)}
        /\ Place(c, k, p, i, disk[p].ents[i].name)
    BY ONLY <1>1, <2>2, <2>5, RemoveSlots
  <2>7. Names!At(All(disk), k, disk[p].ents[i].name) = {Triple(disk, k, p, i)}
    BY <1>1, <2>5, AtIs
  <2> QED BY <2>4, <2>5, <2>6, <2>7
<1>3. CASE ~v.found
  <2>1. Place(disk, k, p, v.id, a) /\ c = disk
    BY <1>3 DEF Moving, Edits
  <2>2. Names!At(All(disk), k, a) = {}
    BY <1>1, <2>1, NoneAt
  <2> QED BY <1>1, <2>1, <2>2
<1> QED BY <1>2, <1>3

(* Then the new one is there.                                              *)
LEMMA AddedNames ==
  ASSUME NEW w, NEW v, NEW y, NEW p, NEW h, NEW n, NEW k, NEW a, NEW K, NEW D, NEW X, NEW old,
         Moving(w, v, y, p, h, n, k, a, K, D, X, old), NEW d, d = With(p, D)
  PROVE  /\ Sorted(d)
         /\ All(d) = (All(disk) \ Names!At(All(disk), k, a)) \cup {<<k, a, w.node>>}
<1>1. Card(disk) /\ CardOK(disk, OnCard(disk))
  BY DEF Moving, Sorted
<1>2. PICK c, i : c = With(p, K) /\ i = v.id
  OBVIOUS
<1>3. /\ Sorted(c) /\ Place(c, k, p, i, a) /\ All(c) = All(disk) \ Names!At(All(disk), k, a)
  BY <1>2, KeptNames
<1>4. Fitting(p, K) /\ Fitting(p, D) /\ HasMore(D, K, i, y) /\ y \in Entry
  BY <1>2 DEF Moving, Edits
<1>5. Alters(c, d, p) /\ c[p].ents = K /\ d[p].ents = D
  BY <1>1, <1>2, <1>4, WithBoth
<1>6. y.name = a /\ y.node = w.node
  BY DEF Moving
<1>7. /\ Alters(c, d, p) /\ OrderOK(c) /\ y \in Entry
      /\ HasMore(d[p].ents, c[p].ents, i, y) /\ Place(c, k, p, i, y.name)
  BY <1>3, <1>4, <1>5, <1>6 DEF Sorted
<1>8. Sorted(d) /\ All(d) = All(c) \cup {<<k, y.name, y.node>>}
  BY ONLY <1>7, InsertSlots
<1> QED BY <1>3, <1>6, <1>8

(* Last, the old one goes if it is in the same pair, and stays if not.     *)
LEMMA MovedNames ==
  ASSUME NEW w, NEW v, NEW y, NEW p, NEW h, NEW n, NEW k, NEW a, NEW K, NEW D, NEW X, NEW old,
         Moving(w, v, y, p, h, n, k, a, K, D, X, old), NEW d, d = With(p, D), NEW e, e = With(p, X)
  PROVE  /\ Sorted(e)
         /\ w.pair = p => All(e) = All(d) \ {<<h, n, w.node>>}
         /\ w.pair # p => /\ All(e) = All(d) /\ Has(e, h, w.pair, w.id)
                          /\ Triple(e, h, w.pair, w.id) = <<h, n, w.node>>
<1>1. Card(disk) /\ CardOK(disk, OnCard(disk))
  BY DEF Moving, Sorted
<1>2. Sorted(d)
  BY AddedNames
<1>3. Fitting(p, D) /\ Fitting(p, X)
  BY DEF Moving, Edits
<1>4. Alters(disk, d, p) /\ d[p].ents = D
  BY <1>1, <1>3, WithAlters
<1>5. Has(disk, h, w.pair, w.id) /\ Triple(disk, h, w.pair, w.id) = <<h, n, w.node>>
  BY DEF Moving
<1>6. CASE w.pair = p
  <2>1. old \in 1 .. Len(D) /\ D[old] = disk[p].ents[w.id] /\ HasLess(X, D, old)
    BY <1>6 DEF Moving, Edits
  <2>2. Has(d, h, p, old)
    BY <1>4, <1>5, <1>6, <2>1, AltersHas DEF Has
  <2>3. Triple(d, h, p, old) = <<h, n, w.node>>
    BY <1>4, <1>5, <1>6, <2>1 DEF Triple
  <2>4. Alters(d, e, p) /\ e[p].ents = X
    BY <1>1, <1>3, WithBoth
  <2>5. Alters(d, e, p) /\ OrderOK(d) /\ Has(d, h, p, old) /\ HasLess(e[p].ents, d[p].ents, old)
    BY <1>2, <1>4, <2>1, <2>2, <2>4 DEF Sorted
  <2>6. Sorted(e) /\ All(e) = All(d) \ {Triple(d, h, p, old)}
    BY ONLY <2>5, RemoveSlots
  <2> QED BY <1>6, <2>3, <2>6
<1>7. CASE w.pair # p
  <2>1. e = d
    BY <1>7 DEF Moving, Edits
  <2>2. PICK q, j : q = w.pair /\ j = w.id
    OBVIOUS
  <2>3. Has(d, h, q, j) /\ Triple(d, h, q, j) = Triple(disk, h, q, j)
    BY <1>4, <1>5, <1>7, <2>2, AltersHas
  <2> QED BY <1>2, <1>5, <1>7, <2>1, <2>2, <2>3
<1> QED BY <1>6, <1>7

(* What lfs_rename has found, as names.                                    *)
RenameMeans(w, v, h, n, k, a, t, x) ==
  /\ h \in Pair /\ k \in Pair /\ t = All(disk) /\ x = <<h, n, w.node>>
  /\ Names!At(t, h, n) = {x} /\ x \in t
  /\ v.found => Names!At(t, k, a) = {<<k, a, v.node>>}
  /\ ~v.found => Names!At(t, k, a) = {}
  /\ <<k, a, w.node>> # x

(* What the commit of lfs_rename writes, and that it is committed.         *)
RenameWrites(w, v, s, y, h, n, k, a, K, D, X, old, o) ==
  /\ Moving(w, v, y, v.pair, h, n, k, a, K, D, X, old) /\ w.found
  /\ v.found => w.pair # v.pair \/ w.id # v.id
  /\ disk[v.pair].split => v.id \in 1 .. Len(disk[v.pair].ents)
  /\ s.told = {} /\ Committed(s, v.pair, With(v.pair, X), o)
LEMMA RenameMoves ==
  ASSUME Sure, NamesInv, Ready, NEW w, NEW v, NEW h, NEW n, NEW k, NEW a, NEW l, NEW o,
         RenameCommit(w, v, h, n, k, a, l, o)
  PROVE  \E s, y, K, D, X, old : RenameWrites(w, v, s, y, h, n, k, a, K, D, X, old, o)
<1>0. Inv /\ Sorted(disk) /\ Card(disk) /\ OrderOK(disk) /\ CardOK(disk, OnCard(disk))
  BY NamesHave
<1>1. /\ h \in Dirs /\ k \in Dirs /\ n \in Name /\ a \in Name /\ w.found
      /\ w = Lookup(disk, lfs.gdisk, h, n) /\ v = Lookup(disk, lfs.gdisk, k, a)
      /\ v.found => w.pair # v.pair \/ w.id # v.id
      /\ RenameOf(w, v, l) /\ o \in Put(SetLfs(Now, l), v.pair, Renamed(disk, w, v, a))
  BY DEF RenameCommit
<1>2. Known /\ Held = {} /\ lfs.gdisk \subseteq {Orphans}
  BY <1>0, ReadyIs
<1>3. h \in Heads(disk) /\ k \in Heads(disk)
  BY <1>0, <1>1, DirsIs, CardHas
<1>4. Has(disk, h, w.pair, w.id) /\ disk[w.pair].ents[w.id].name = n /\ w.node = disk[w.pair].ents[w.id].node
  BY <1>0, <1>1, <1>2, <1>3, LookupFinds
<1>5. /\ v.found \in BOOLEAN
      /\ v.found => /\ Has(disk, k, v.pair, v.id) /\ disk[v.pair].ents[v.id].name = a
                    /\ v.node = disk[v.pair].ents[v.id].node
      /\ ~v.found => /\ Place(disk, k, v.pair, v.id, a)
                     /\ disk[v.pair].split => v.id \in 1 .. Len(disk[v.pair].ents)
  BY <1>0, <1>1, <1>2, <1>3, LookupFinds
<1>6. a \in Nat
  BY <1>1, DirTreeAssumption
<1>7. Triple(disk, h, w.pair, w.id) = <<h, n, w.node>>
  BY <1>4 DEF Triple
<1>8. PICK y, p : y = [name |-> a, node |-> w.node] /\ p = v.pair
  OBVIOUS
<1>9. Renaming(w, v, y)
  <2>1. w.node \in Pair \cup File
    BY <1>0, <1>4, HasIs
  <2>2. y \in Entry /\ y.node = w.node
    BY <1>1, <1>8, <2>1 DEF Entry
  <2>3. CardOK(disk, OnCard(disk)) /\ Found(w) /\ Found(v)
    BY <1>1 DEF RenameOf, RenameFrom
  <2> QED BY <1>1, <2>2, <2>3 DEF Renaming
<1>10. PICK K, D, X, old :
         Edits(w, v, y, p, K, D, X, old) /\ Renamed(disk, w, v, a) = SetEnts(disk[p], X)
  <2>1. Renaming(w, v, y) /\ y = [name |-> a, node |-> w.node] /\ p = v.pair
    BY <1>8, <1>9
  <2> QED BY ONLY <2>1, RenameEdits
<1>11. Moving(w, v, y, p, h, n, k, a, K, D, X, old)
  <2>1. /\ v.found => Has(disk, k, p, v.id) /\ disk[p].ents[v.id].name = a
        /\ ~v.found => Place(disk, k, p, v.id, a)
    BY <1>5, <1>8
  <2>2. y.name = a /\ y.node = w.node
    BY <1>8
  <2> QED BY <1>0, <1>4, <1>5, <1>6, <1>7, <1>10, <2>1, <2>2 DEF Moving
<1>12. PICK e, s, m : e = With(p, X) /\ s = SetLfs(Now, l) /\ m = SetEnts(disk[p], X)
  OBVIOUS
<1>13. Clean(s) /\ s.disk = disk /\ s.told = {}
  <2>1. Inv /\ Held = {} /\ Known /\ l \in Globals /\ l.gdisk = lfs.gdisk /\ l.gdelta = {}
        /\ s = SetLfs(Now, l)
    BY <1>0, <1>1, <1>2, <1>12 DEF RenameOf
  <2> QED BY ONLY <2>1, CleanNow
<1>14. Committed(s, p, e, o)
  <2>1. Fitting(p, X)
    BY <1>10 DEF Edits
  <2>2. EditTo(s, p, X, m, e)
    BY <1>12, <1>13, <2>1 DEF EditTo, Fitting, With
  <2>3. Target(s, p, m, e)
    BY <2>2, EditTarget
  <2>4. o \in Put(s, p, m)
    BY <1>1, <1>8, <1>10, <1>12
  <2> QED BY <2>3, <2>4, PutCommits
<1>15. disk[p].split => v.id \in 1 .. Len(disk[p].ents)
  BY <1>5, <1>8 DEF Has
<1>16. RenameWrites(w, v, s, y, h, n, k, a, K, D, X, old, o)
  BY <1>1, <1>8, <1>11, <1>12, <1>13, <1>14, <1>15 DEF RenameWrites
<1> QED BY <1>16

(* The commit of lfs_rename has its whole effect, whether the old entry is *)
(* gone with it or hidden by the global state.                             *)
LEMMA RenameCard ==
  ASSUME Sure, NamesInv, Ready, NEW w, NEW v, NEW h, NEW n, NEW k, NEW a, NEW l, NEW o,
         RenameCommit(w, v, h, n, k, a, l, o), NEW t, t = All(disk), NEW x, x = <<h, n, w.node>>
  PROVE  /\ Sorted(o.disk) /\ RenameMeans(w, v, h, n, k, a, t, x)
         /\ Tree(o.disk, OnCard(o.disk)) = ((t \ Names!At(t, k, a)) \cup {<<k, a, w.node>>}) \ {x}
<1>1. Inv /\ Sorted(disk) /\ Card(disk) /\ CardOK(disk, OnCard(disk))
  BY NamesHave
<1>2. /\ h \in Pair /\ k \in Pair /\ w.found
      /\ w = Lookup(disk, lfs.gdisk, h, n) /\ v = Lookup(disk, lfs.gdisk, k, a)
  BY <1>1, DirsIs, CardHas DEF RenameCommit
<1>3. RenameLeft(w, v, l, o)
  BY <1>1, RenameLeaves
<1>4. PICK s, y, K, D, X, old : RenameWrites(w, v, s, y, h, n, k, a, K, D, X, old, o)
  BY RenameMoves
<1>5. PICK p : p = v.pair
  OBVIOUS
<1>6. /\ Moving(w, v, y, p, h, n, k, a, K, D, X, old) /\ Committed(s, p, With(p, X), o)
      /\ v.found => w.pair # v.pair \/ w.id # v.id
  BY <1>4, <1>5 DEF RenameWrites
<1>7. /\ v.found \in BOOLEAN /\ a \in Nat
      /\ Has(disk, h, w.pair, w.id) /\ Triple(disk, h, w.pair, w.id) = x
      /\ v.found => /\ Has(disk, k, p, v.id) /\ disk[p].ents[v.id].name = a
                    /\ v.node = disk[p].ents[v.id].node
      /\ ~v.found => Place(disk, k, p, v.id, a)
  BY <1>6 DEF Moving, Edits
<1>8. Names!At(t, h, n) = {x} /\ x \in t
  <2>1. disk[w.pair].ents[w.id].name = n
    BY <1>7 DEF Triple
  <2> QED BY <1>1, <1>7, <2>1, AtIs
<1>9. v.found => Names!At(t, k, a) = {<<k, a, v.node>>}
  <2> SUFFICES ASSUME v.found PROVE Names!At(t, k, a) = {<<k, a, v.node>>}
    OBVIOUS
  <2>1. PICK j : j = v.id
    OBVIOUS
  <2>2. Has(disk, k, p, j) /\ disk[p].ents[j].name = a /\ v.node = disk[p].ents[j].node
    BY <1>7, <2>1
  <2>3. Names!At(All(disk), k, disk[p].ents[j].name) = {Triple(disk, k, p, j)}
    BY <1>1, <2>2, AtIs
  <2> QED BY <2>2, <2>3 DEF Triple
<1>10. ~v.found => Names!At(t, k, a) = {}
  BY <1>1, <1>7, NoneAt
<1>11. <<k, a, w.node>> # x
  <2>1. h = k /\ n = a => w = v
    BY <1>2
  <2> QED BY <1>2, <1>6, <2>1
<1>12. RenameMeans(w, v, h, n, k, a, t, x)
  BY <1>2, <1>8, <1>9, <1>10, <1>11 DEF RenameMeans
<1>13. PICK d, e : d = With(p, D) /\ e = With(p, X)
  OBVIOUS
<1>14. /\ Sorted(d)
       /\ All(d) = (t \ Names!At(t, k, a)) \cup {<<k, a, w.node>>}
  BY <1>6, <1>13, AddedNames
<1>15. /\ Sorted(e)
       /\ w.pair = p => All(e) = All(d) \ {x}
       /\ w.pair # p => All(e) = All(d) /\ Has(e, h, w.pair, w.id) /\ Triple(e, h, w.pair, w.id) = x
  BY <1>6, <1>13, MovedNames
<1>16. Committed(s, p, e, o) /\ p \in Listed(e)
  <2>1. Fitting(p, X)
    BY <1>6 DEF Moving, Edits
  <2> QED BY <1>1, <1>6, <1>13, <2>1, WithIs
<1>17. Sorted(o.disk) /\ All(o.disk) = All(e)
  <2>1. Card(e) /\ p \in Listed(e) /\ OrderOK(e) /\ Committed(s, p, e, o)
    BY <1>15, <1>16 DEF Sorted
  <2> QED BY ONLY <2>1, CommitNames
<1>18. Tree(o.disk, OnCard(o.disk)) = All(d) \ {x}
  <2>1. PICK g : g = OnCard(o.disk)
    OBVIOUS
  <2>2. Moves(g) = IF w.pair # v.pair THEN {Moved(w)} ELSE {}
    BY <1>3, <2>1 DEF RenameLeft
  <2>3. CASE w.pair = p
    <3>1. Tree(o.disk, g) = All(o.disk)
      BY <1>5, <1>17, <2>2, <2>3, NothingHidden DEF Sorted
    <3> QED BY <1>15, <1>17, <2>1, <2>3, <3>1
  <2>4. CASE w.pair # p
    <3>1. PICK q, j : q = w.pair /\ j = w.id
      OBVIOUS
    <3>2. Has(e, h, q, j) /\ Triple(e, h, q, j) = x /\ q # p
      BY <1>15, <2>4, <3>1
    <3>3. Has(o.disk, h, q, j) /\ Triple(o.disk, h, q, j) = Triple(e, h, q, j)
      <4>1. Card(e) /\ p \in Listed(e) /\ OrderOK(e) /\ Committed(s, p, e, o)
        BY <1>15, <1>16 DEF Sorted
      <4> QED BY ONLY <3>2, <4>1, CommitSlots
    <3>4. Moves(g) = {<<q, j>>}
      BY <1>5, <2>2, <2>4, <3>1 DEF Moved
    <3>5. Tree(o.disk, g) = All(o.disk) \ {Triple(o.disk, h, q, j)}
      BY <1>17, <3>3, <3>4, OneHidden
    <3> QED BY <1>15, <1>17, <2>1, <2>4, <3>2, <3>3, <3>5
  <2> QED BY <2>3, <2>4
<1> QED BY <1>12, <1>14, <1>17, <1>18

(* That is what Namespace allows a rename.                                 *)
LEMMA RenameAllowed ==
  ASSUME NEW w, NEW v, NEW h, NEW n, NEW k, NEW a, NEW t, NEW x,
         RenameMeans(w, v, h, n, k, a, t, x), v.found \in BOOLEAN,
         v.found => /\ w.node \in Pair <=> v.node \in Pair
                    /\ v.node \in Pair => Names!Under(t, v.node) = {},
         NEW c, c.op = "rename", c.dir = h, c.name = n, c.to = k, c.as = a
  PROVE  /\ Names!Legal(t, c)
         /\ Names!Effect(t, c) = ((t \ Names!At(t, k, a)) \cup {<<k, a, w.node>>}) \ {x}
<1>1. /\ x = <<h, n, w.node>> /\ Names!At(t, h, n) = {x} /\ x \in t
      /\ v.found => Names!At(t, k, a) = {<<k, a, v.node>>}
      /\ ~v.found => Names!At(t, k, a) = {}
      /\ <<k, a, w.node>> # x
  BY DEF RenameMeans
<1>2. Names!Legal(t, c)
  <2>1. ASSUME NEW e \in Names!At(t, h, n), NEW prev \in Names!At(t, k, a)
        PROVE  (Names!IsDir(e) <=> Names!IsDir(prev)) /\ Names!Removable(t, prev)
    <3>1. v.found /\ e = x /\ prev = <<k, a, v.node>>
      BY <1>1, <2>1
    <3>2. e[3] = w.node /\ prev[3] = v.node
      BY <1>1, <3>1
    <3> QED BY <3>1, <3>2 DEF Names!IsDir, Names!Removable
  <2> QED BY <2>1, RenameCall
<1>3. Names!Effect(t, c) = (t \ ({x} \cup Names!At(t, k, a))) \cup {<<k, a, w.node>>}
  <2>1. {<<k, a, e[3]>> : e \in {x}} = {<<k, a, w.node>>}
    BY <1>1
  <2>2. Names!Effect(t, c) = (t \ (Names!At(t, h, n) \cup Names!At(t, k, a)))
                               \cup {<<k, a, e[3]>> : e \in Names!At(t, h, n)}
    BY RenameCall
  <2> QED BY <1>1, <2>1, <2>2
<1> QED BY <1>1, <1>2, <1>3

(* lfs_rename.                                                             *)
LEMMA RenameNames ==
  ASSUME Sure, NamesInv, Inv', Rename
  PROVE  NamesKept
<1>0. Inv /\ Sorted(disk) /\ Card(disk) /\ (Moves(lfs.gdisk) = {} => Tree(disk, OnCard(disk)) = All(disk))
      /\ (op.at \in {"idle", "ready", "deorphan"} => call = NoCall)
  BY NamesHave
<1>1. Ready /\ call = NoCall
  BY <1>0 DEF Rename, Ready
<1>2. PICK w, v, h, n, k, a, l, o : RenameCommit(w, v, h, n, k, a, l, o)
  BY <1>0, RenameTakes
<1>3. PICK t, x, z : t = All(disk) /\ x = <<h, n, w.node>> /\ z = <<k, a, w.node>>
  OBVIOUS
<1>4. PICK u : u = ((t \ Names!At(t, k, a)) \cup {z}) \ {x}
  OBVIOUS
<1>5. /\ Sorted(o.disk) /\ RenameMeans(w, v, h, n, k, a, t, x)
      /\ Tree(o.disk, OnCard(o.disk)) = u
  BY <1>1, <1>2, <1>3, <1>4, RenameCard
<1>6. Known /\ Held = {} /\ Moves(lfs.gdisk) = {}
  BY <1>0, <1>1, ReadyIs
<1>7. /\ t = Tree(disk, OnCard(disk)) /\ t = Tree(disk, lfs.gdisk)
      /\ t \in SUBSET (Pair \X Name \X (Pair \cup File))
  BY <1>0, <1>3, <1>6, AllType DEF Known
<1>8. /\ h \in Pair /\ k \in Pair /\ n \in Name /\ a \in Name /\ x \in t /\ x[1] = h /\ x[2] = n
      /\ v.found \in BOOLEAN
  <2>1. v.found \in BOOLEAN
    BY <1>2 DEF RenameCommit, RenameOf, RenameFrom, Found
  <2> QED BY <1>2, <1>3, <1>5, <2>1 DEF RenameCommit, RenameMeans
<1>9. v.found => /\ w.node \in Pair <=> v.node \in Pair
                 /\ v.node \in Pair => Names!Under(t, v.node) = {}
  <2> SUFFICES ASSUME v.found
               PROVE  /\ w.node \in Pair <=> v.node \in Pair
                      /\ v.node \in Pair => Names!Under(t, v.node) = {}
    OBVIOUS
  <2>1. (w.node \in Pair <=> v.node \in Pair) /\ (v.node \in Pair => Empty(v.node))
    BY <1>2 DEF RenameCommit
  <2> QED BY <1>0, <1>3, <2>1, NothingUnder DEF Empty
<1>10. [op |-> "rename", dir |-> h, name |-> n, to |-> k, as |-> a] \in Names!Calls(t)
  BY <1>8 DEF Names!Calls
<1>11. o.ok /\ o \in States /\ o.lfs \in Globals
  <2>1. RenameLeft(w, v, l, o)
    BY <1>0, <1>1, <1>2, RenameLeaves
  <2> QED BY <2>1, StateIs DEF RenameLeft
<1>12. OrderOK(o.disk)
  BY <1>5 DEF Sorted
<1>13. CASE w.pair = v.pair /\ ~(v.found /\ v.node \in Pair)
  <2>1. disk' = o.disk /\ op' = Idle /\ call' = NoCall /\ result' = "ok"
    BY <1>2, <1>11, <1>13 DEF RenameCommit, Apply, Return
  <2>2. PICK c : c = [op |-> "rename", dir |-> h, name |-> n, to |-> k, as |-> a]
    OBVIOUS
  <2>3. c.op = "rename" /\ c.dir = h /\ c.name = n /\ c.to = k /\ c.as = a
    BY <2>2
  <2>4. Names!Legal(t, c) /\ Names!Effect(t, c) = u
    BY <1>3, <1>4, <1>5, <1>8, <1>9, <2>3, RenameAllowed
  <2>5. NamesStep
    BY <1>1, <1>5, <1>7, <1>10, <2>1, <2>2, <2>4, OnceNames
  <2>6. CallOK' /\ OrderOK(disk')
    BY <1>12, <2>1 DEF CallOK, Idle
  <2> QED BY <2>5, <2>6 DEF NamesKept
<1>14. CASE w.pair # v.pair \/ (v.found /\ v.node \in Pair)
  <2>1. PICK c : c = [op |-> "rename", dir |-> h, name |-> n, to |-> k, as |-> a, found |-> t]
    OBVIOUS
  <2>2. SetLfs(o, PrepOrphans(o.lfs, FALSE)).disk = o.disk
    <3>1. PICK b, s : b = PrepOrphans(o.lfs, FALSE) /\ s = SetLfs(o, b)
      OBVIOUS
    <3>2. b \in Globals
      BY <1>11, <3>1, PrepIs
    <3>3. o \in States /\ b \in Globals /\ s = SetLfs(o, b)
      BY <1>11, <3>1, <3>2
    <3>4. s.disk = o.disk
      BY ONLY <3>3, WithLfs
    <3> QED BY <3>1, <3>4
  <2>3. /\ disk' = o.disk /\ op'.at \in {"drop", "rename_delete"} /\ call' = c /\ result' = result
    <3>1. PICK f, b, r : /\ b = SetLfs(o, PrepOrphans(o.lfs, FALSE))
                         /\ f = IF w.pair # v.pair THEN o ELSE b
                         /\ r = RenameAttrs(w, v)
      OBVIOUS
    <3>2. /\ Apply(f, v.pair, r) /\ Running(c)
          /\ op' = IF w.pair # v.pair
               THEN [at |-> "rename_delete", pair |-> w.pair, id |-> w.id,
                     dir |-> IF v.found /\ v.node \in Pair THEN v.node ELSE NoPair]
               ELSE [at |-> "drop", dir |-> v.node]
      BY <1>2, <1>7, <1>11, <1>14, <2>1, <3>1 DEF RenameCommit
    <3>3. op'.at \in {"drop", "rename_delete"}
      <4>1. CASE w.pair # v.pair
        BY <3>2, <4>1
      <4>2. CASE w.pair = v.pair
        BY <3>2, <4>2
      <4> QED BY <4>1, <4>2
    <3>4. f.disk = o.disk
      BY <2>2, <3>1
    <3> QED BY <3>2, <3>3, <3>4 DEF Apply, Running
  <2>4. /\ [f \in DOMAIN c \ {"found"} |-> c[f]] =
             [op |-> "rename", dir |-> h, name |-> n, to |-> k, as |-> a]
        /\ c.found = t /\ c.op = "rename" /\ c.dir = h /\ c.name = n /\ c.to = k /\ c.as = a
    BY <2>1, RenameBegins
  <2>5. c # NoCall
    BY <1>7, <1>8, <2>1, SomeCall
  <2>6. Names!Legal(t, c) /\ Names!Effect(t, c) = u
    BY <1>3, <1>4, <1>5, <1>8, <1>9, <2>4, RenameAllowed
  <2>7. Tree(disk', OnCard(disk')) = u
    BY <1>5, <2>3
  <2>8. NamesStep
    BY <1>1, <1>7, <1>10, <2>3, <2>4, <2>5, <2>6, <2>7, BeginNames
  <2>9. CallOK'
    <3>1. Tree(disk', OnCard(disk')) = Names!Effect(call'.found, call')
      BY <2>3, <2>4, <2>6, <2>7
    <3> QED BY <2>3, <2>5, <3>1 DEF CallOK
  <2> QED BY <1>12, <2>3, <2>8, <2>9 DEF NamesKept
<1> QED BY <1>13, <1>14

------------------------------------------------------------------------------
(* The theorem.                                                            *)

(* Every step keeps the invariant, and is one that Namespace allows.       *)
LEMMA NextNames ==
  ASSUME Sure, NamesInv, Inv', Next
  PROVE  NamesKept
<1>1. CASE Demove
  BY <1>1, DemoveNames
<1>2. CASE DropOrphan
  BY <1>2, DropOrphanNames
<1>3. CASE Deorphaned \/ Close \/ OpenDir \/ Refuse \/ ReadDir
  BY <1>3, StillNames
<1>4. CASE Mkdir
  BY <1>4, MkdirNames
<1>5. CASE MkdirLink
  BY <1>5, MkdirLinkNames
<1>6. CASE MkdirEntry
  BY <1>6, MkdirEntryNames
<1>7. CASE CreateFile
  BY <1>7, CreateFileNames
<1>8. CASE SyncFile
  BY <1>8, SyncFileNames
<1>9. CASE RemoveEntry
  BY <1>9, RemoveEntryNames
<1>10. CASE DropRemoved
  BY <1>10, DropRemovedNames
<1>11. CASE Rename
  BY <1>11, RenameNames
<1>12. CASE RenameDelete
  BY <1>12, RenameDeleteNames
<1>13. CASE PowerLoss
  BY <1>13, LostNames
<1> QED
  BY <1>1, <1>2, <1>3, <1>4, <1>5, <1>6, <1>7, <1>8, <1>9, <1>10, <1>11, <1>12, <1>13 DEF Next

(* A step that changes nothing changes no names.                           *)
LEMMA StutterNames ==
  ASSUME NamesInv, UNCHANGED vars
  PROVE  NamesKept
<1>1. disk' = disk /\ op' = op /\ call' = call /\ result' = result
  BY DEF vars
<1>2. OrderOK(disk') /\ CallOK'
  BY <1>1 DEF NamesInv, CallOK
<1>3. UNCHANGED Names!names
  BY <1>1 DEF Names!names
<1> QED BY <1>2, <1>3 DEF NamesKept, NamesStep

(* A formatted card holds no name.                                         *)
LEMMA InitNames ==
  ASSUME Init
  PROVE  OrderOK(disk) /\ CallOK /\ Names!Init
<1>1. Inv /\ disk = [p \in Pair |-> Blank] /\ lfs.gdisk = {} /\ op = Idle /\ call = NoCall /\ result = "none"
  BY InitInv DEF Init
<1>2. Card(disk) /\ OnCard(disk) = {}
  <2>1. CardOK(disk, OnCard(disk)) /\ OpOK
    BY <1>1 DEF Inv
  <2>2. OnCard(disk) = lfs.gdisk
    BY <1>1, <2>1 DEF OpOK, Idle, Known
  <2>3. disk \in Disks /\ Threaded(disk)
    BY <2>1, CardIs
  <2> QED BY <1>1, <2>2, <2>3 DEF Card
<1>3. \A p \in Listed(disk) : disk[p].ents = <<>> /\ Len(disk[p].ents) = 0
  <2>1. Blank.ents = <<>> /\ Len(<<>>) = 0
    BY DEF Blank
  <2> QED BY <1>1, <1>2, <2>1, CardHas
<1>4. OrderOK(disk)
  BY <1>3 DEF OrderOK
<1>5. All(disk) = {}
  <2>1. \A x : ~Lists(disk, x)
    BY <1>2, <1>3, HasIs DEF Lists
  <2> QED BY <1>2, <2>1, AllIs
<1>6. CallOK
  BY <1>1 DEF CallOK, Idle
<1> QED BY <1>1, <1>2, <1>4, <1>5, <1>6 DEF Names!Init, All

(* What the proof rests on holds of every state: the invariant, and names  *)
(* in order, and the running call with none of its effect or all.          *)
THEOREM NamesInvariance ==
  ASSUME Sure
  PROVE  Spec => []NamesInv
<1>1. Init => NamesInv
  BY InitInv, InitNames DEF NamesInv
<1>2. NamesInv /\ [Next]_vars => NamesInv'
  <2> SUFFICES ASSUME NamesInv, [Next]_vars PROVE NamesInv'
    OBVIOUS
  <2>1. Inv'
    BY NextInv DEF NamesInv
  <2>2. NamesKept
    BY <2>1, NextNames, StutterNames
  <2> QED BY <2>1, <2>2 DEF NamesInv, NamesKept
<1> QED BY <1>1, <1>2, PTL DEF Spec

(* Calls are atomic (lfs_mkdir, lfs_remove, lfs_rename, with what          *)
(* lfs_fs_forceconsistency does after a power loss): the steps of every    *)
(* one of them, power lost between any two or not, take the names from     *)
(* what they were to what the call makes of them at one moment, which a    *)
(* call that reports success has passed and one that reports an error has  *)
(* not.                                                                    *)
THEOREM CallsAreAtomic ==
  ASSUME Sure
  PROVE  Spec => NamesPromise
<1>1. Init => Names!Init
  BY InitNames
<1>2. NamesInv /\ [Next]_vars => [Names!Next]_Names!names
  <2> SUFFICES ASSUME NamesInv, [Next]_vars PROVE [Names!Next]_Names!names
    OBVIOUS
  <2>1. Inv'
    BY NextInv DEF NamesInv
  <2>2. NamesKept
    BY <2>1, NextNames, StutterNames
  <2> QED BY <2>2 DEF NamesKept, NamesStep
<1> QED BY <1>1, <1>2, NamesInvariance, PTL DEF Spec, NamesPromise, Names!Promise

------------------------------------------------------------------------------
(* Where an open directory has got to.                                     *)

(* Entry i of p, or the end of p, is a place in the directory at h.  An    *)
(* entry of the directory has been read there, or is still to be read.     *)
At(d, h, p, i) == h \in Heads(d) /\ p \in Chain(d, h) /\ i \in 1 .. (Len(d[p].ents) + 1)
Read(d, h, p, i, t) ==
  \E r, k : Has(d, h, r, k) /\ Before(d, r, k, p, i) /\ t = Triple(d, h, r, k)
Unread(d, h, p, i, t) ==
  \E r, k : Has(d, h, r, k) /\ ~Before(d, r, k, p, i) /\ t = Triple(d, h, r, k)

(* A reader at entry i of p, with e for d, goes on at entry j of q: but    *)
(* for the entries N, whatever it has read there it had, and whatever is   *)
(* still to be read was.                                                   *)
Keeps(d, p, i, e, q, j, N) ==
  \A h : At(d, h, p, i) =>
    /\ At(e, h, q, j)
    /\ \A t : Read(e, h, q, j, t) => t \in N \/ Read(d, h, p, i, t)
    /\ \A t : Unread(e, h, q, j, t) => t \in N \/ Unread(d, h, p, i, t)

(* Every entry is new, or comes of one on the same side of the place.      *)
Comes(d, h, p, i, e, q, j, r, k) ==
  \E s, m : /\ Has(d, h, s, m) /\ Triple(d, h, s, m) = Triple(e, h, r, k)
            /\ Before(e, r, k, q, j) <=> Before(d, s, m, p, i)

(* If no entry changes sides, the place is kept.                           *)
LEMMA KeepsIf ==
  ASSUME NEW d, NEW p, NEW i, NEW e, NEW q, NEW j, NEW N,
         \A h : At(d, h, p, i) =>
           /\ At(e, h, q, j)
           /\ \A r, k : Has(e, h, r, k) => Triple(e, h, r, k) \in N \/ Comes(d, h, p, i, e, q, j, r, k)
  PROVE  Keeps(d, p, i, e, q, j, N)
<1> SUFFICES ASSUME NEW h, At(d, h, p, i)
             PROVE  /\ At(e, h, q, j)
                    /\ \A t : Read(e, h, q, j, t) => t \in N \/ Read(d, h, p, i, t)
                    /\ \A t : Unread(e, h, q, j, t) => t \in N \/ Unread(d, h, p, i, t)
  BY DEF Keeps
<1>1. ASSUME NEW t, Read(e, h, q, j, t), t \notin N PROVE Read(d, h, p, i, t)
  <2>1. PICK r, k : Has(e, h, r, k) /\ Before(e, r, k, q, j) /\ t = Triple(e, h, r, k)
    BY <1>1 DEF Read
  <2>2. Comes(d, h, p, i, e, q, j, r, k)
    BY <1>1, <2>1
  <2> QED BY <2>1, <2>2 DEF Comes, Read
<1>2. ASSUME NEW t, Unread(e, h, q, j, t), t \notin N PROVE Unread(d, h, p, i, t)
  <2>1. PICK r, k : Has(e, h, r, k) /\ ~Before(e, r, k, q, j) /\ t = Triple(e, h, r, k)
    BY <1>2 DEF Unread
  <2>2. Comes(d, h, p, i, e, q, j, r, k)
    BY <1>2, <2>1
  <2> QED BY <2>1, <2>2 DEF Comes, Unread
<1> QED BY <1>1, <1>2

(* One change after another.                                               *)
LEMMA KeepsThen ==
  ASSUME NEW d, NEW p, NEW i, NEW e, NEW q, NEW j, NEW u, NEW r, NEW k, NEW N, NEW M, NEW L,
         Keeps(d, p, i, e, q, j, N), Keeps(e, q, j, u, r, k, M), N \cup M \subseteq L
  PROVE  Keeps(d, p, i, u, r, k, L)
BY DEF Keeps

(* A place stays one.                                                      *)
LEMMA KeepsSame ==
  ASSUME NEW d, NEW p, NEW i
  PROVE  Keeps(d, p, i, d, p, i, {})
BY DEF Keeps

(* The parts of a place, and their types.                                  *)
LEMMA AtParts ==
  ASSUME NEW d, Card(d), NEW h, NEW p, NEW i, At(d, h, p, i)
  PROVE  /\ h \in Heads(d) /\ h \in Listed(d) /\ p \in Chain(d, h) /\ p \in Listed(d)
         /\ i \in 1 .. (Len(d[p].ents) + 1) /\ Len(d[p].ents) \in Nat /\ p \in Pair
<1>1. h \in Heads(d) /\ p \in Chain(d, h) /\ i \in 1 .. (Len(d[p].ents) + 1)
  BY DEF At
<1>2. h \in Listed(d) /\ p \in Listed(d)
  BY <1>1, CardHas, ChainCloses
<1> QED BY <1>1, <1>2, CardHas

(* Every place of the list is in a directory.                              *)
LEMMA PlaceIsAt ==
  ASSUME NEW d, Card(d), NEW p \in Listed(d), NEW i \in 1 .. (Len(d[p].ents) + 1)
  PROVE  \E h : At(d, h, p, i)
BY ListedIsInChain DEF At

(* No entry has been read and is still to be read.                         *)
LEMMA OneSide ==
  ASSUME NEW d, Sorted(d), NEW h, NEW p, NEW i, NEW t, Read(d, h, p, i, t)
  PROVE  ~Unread(d, h, p, i, t)
BY OneTriple DEF Read, Unread

(* Every entry of the directory has been read or is still to be.           *)
LEMMA EitherSide ==
  ASSUME NEW d, Card(d), NEW h, NEW p, NEW i, NEW t
  PROVE  /\ Lists(d, t) /\ t[1] = h => Read(d, h, p, i, t) \/ Unread(d, h, p, i, t)
         /\ Read(d, h, p, i, t) \/ Unread(d, h, p, i, t) => t \in All(d)
<1>1. ASSUME Lists(d, t), t[1] = h PROVE Read(d, h, p, i, t) \/ Unread(d, h, p, i, t)
  <2>1. PICK k, r, j : Has(d, k, r, j) /\ t = Triple(d, k, r, j)
    BY <1>1 DEF Lists
  <2>2. k = h
    BY <1>1, <2>1 DEF Triple
  <2> QED BY <2>1, <2>2 DEF Read, Unread
<1>2. ASSUME Read(d, h, p, i, t) \/ Unread(d, h, p, i, t) PROVE t \in All(d)
  BY <1>2, AllIs DEF Read, Unread, Lists
<1> QED BY <1>1, <1>2

(* The end of a pair, and the beginning of the next.                       *)
LEMMA CrossKeeps ==
  ASSUME NEW d, Card(d), NEW p \in Listed(d), d[p].split
  PROVE  Keeps(d, p, Len(d[p].ents) + 1, d, d[p].tail, 1, {})
<1> DEFINE n == Len(d[p].ents) + 1
           q == d[p].tail
<1>1. /\ q \in Listed(d) /\ Chain(d, p) = {p} \cup Chain(d, q) /\ p \notin Chain(d, q)
      /\ q \in Chain(d, q) /\ q \in Chain(d, p) /\ p # q /\ Len(d[p].ents) \in Nat /\ Len(d[q].ents) \in Nat
  BY CardHas, ChainCloses, ChainFrom, ChainEndsOnce
<1> HIDE DEF n, q
<1>2. ASSUME NEW h, At(d, h, p, n)
      PROVE  At(d, h, q, 1) /\ \A r, k : Has(d, h, r, k) => (Before(d, r, k, q, 1) <=> Before(d, r, k, p, n))
  <2>1. h \in Listed(d) /\ p \in Chain(d, h) /\ h \in Heads(d)
    BY <1>2, AtParts
  <2>2. q \in Chain(d, h)
    BY <2>1, ChainCloses DEF q
  <2>3. At(d, h, q, 1)
    BY <1>1, <2>1, <2>2 DEF At
  <2>4. ASSUME NEW r, NEW k, Has(d, h, r, k) PROVE Before(d, r, k, q, 1) <=> Before(d, r, k, p, n)
    <3>1. r \in Chain(d, h) /\ r \in Listed(d) /\ k \in 1 .. Len(d[r].ents) /\ Len(d[r].ents) \in Nat
      BY <2>4, HasIs, CardHas
    <3>2. CASE r = p
      <4>1. Before(d, r, k, q, 1)
        BY <1>1, <3>2 DEF Before
      <4>2. Before(d, r, k, p, n)
        BY <3>1, <3>2 DEF Before, n
      <4> QED BY <4>1, <4>2
    <3>3. CASE r = q
      <4>1. ~Before(d, r, k, q, 1)
        BY <3>1, <3>3 DEF Before
      <4>2. ~Before(d, r, k, p, n)
        BY <1>1, <3>3 DEF Before
      <4> QED BY <4>1, <4>2
    <3>4. CASE r # p /\ r # q
      <4>1. ASSUME p \in Chain(d, r) PROVE q \in Chain(d, r)
        BY <3>1, <4>1, ChainCloses DEF q
      <4>2. ASSUME q \in Chain(d, r) PROVE p \in Chain(d, r)
        <5>1. p \in Chain(d, r) \/ r \in Chain(d, p)
          BY <2>1, <3>1, ChainTotal
        <5>2. ASSUME r \in Chain(d, p) PROVE FALSE
          <6>1. r \in Chain(d, q)
            BY <1>1, <3>4, <5>2
          <6> QED BY <1>1, <3>4, <4>2, <6>1, ChainOrder
        <5> QED BY <5>1, <5>2
      <4> QED BY <3>4, <4>1, <4>2 DEF Before
    <3> QED BY <3>2, <3>3, <3>4
  <2> QED BY <2>3, <2>4
<1>3. \A h : At(d, h, p, n) =>
        /\ At(d, h, q, 1)
        /\ \A r, k : Has(d, h, r, k) => Triple(d, h, r, k) \in {} \/ Comes(d, h, p, n, d, q, 1, r, k)
  BY <1>2 DEF Comes
<1>4. Keeps(d, p, n, d, q, 1, {})
  BY <1>3, KeepsIf
<1> QED BY <1>4 DEF n, q

(* A change of the list that moves no entry.                               *)
LEMMA SlotKeeps ==
  ASSUME NEW d, Card(d), NEW e, SameSlots(d, e), NEW p \in Listed(d) \cap Listed(e), NEW i,
         \A h \in Heads(d) : p \in Chain(d, h) => h \in Heads(e)
  PROVE  Keeps(d, p, i, e, p, i, {})
<1>1. /\ Card(e) /\ e[p].ents = d[p].ents
      /\ \A x, y \in Listed(d) \cap Listed(e) : y \in Chain(e, x) <=> y \in Chain(d, x)
  BY DEF SameSlots
<1>2. /\ \A h, r, k : Has(d, h, r, k) <=> Has(e, h, r, k)
      /\ \A h, r, k : Has(d, h, r, k) => Triple(e, h, r, k) = Triple(d, h, r, k)
  BY SlotsKept
<1>3. ASSUME NEW h, At(d, h, p, i)
      PROVE  At(e, h, p, i) /\ \A r, k : Has(e, h, r, k) => Comes(d, h, p, i, e, p, i, r, k)
  <2>1. h \in Heads(d) /\ h \in Listed(d) /\ p \in Chain(d, h) /\ i \in 1 .. (Len(d[p].ents) + 1)
    BY <1>3, AtParts
  <2>2. h \in Heads(e) /\ h \in Listed(e)
    BY <1>1, <2>1, CardHas
  <2>3. At(e, h, p, i)
    BY <1>1, <2>1, <2>2 DEF At
  <2>4. ASSUME NEW r, NEW k, Has(e, h, r, k) PROVE Comes(d, h, p, i, e, p, i, r, k)
    <3>1. Has(d, h, r, k) /\ Triple(d, h, r, k) = Triple(e, h, r, k)
      BY <1>2, <2>4
    <3>2. r \in Listed(d) /\ r \in Listed(e)
      BY <1>1, <2>4, <3>1, HasIs
    <3>3. Before(e, r, k, p, i) <=> Before(d, r, k, p, i)
      BY <1>1, <3>2 DEF Before
    <3> QED BY <3>1, <3>3 DEF Comes
  <2> QED BY <2>3, <2>4
<1> QED BY <1>3, KeepsIf

(* Entry m of p is new, or comes of one that a reader at k finds on the    *)
(* side where a reader at j finds it.                                      *)
Descends(d, e, p, N, r, k, j, m) ==
  \/ \A h \in Heads(d) : p \in Chain(d, h) => Triple(e, h, p, m) \in N
  \/ \E s \in 1 .. Len(d[p].ents) : e[p].ents[m] = d[p].ents[s] /\ (r = p => (m < j <=> s < k))

(* Other entries in a pair.                                                *)
LEMMA AltersKeeps ==
  ASSUME NEW d, NEW e, NEW p, Alters(d, e, p), NEW N,
         NEW r \in Listed(d), NEW k \in 1 .. (Len(d[r].ents) + 1), NEW j \in 1 .. (Len(e[r].ents) + 1),
         r # p => j = k, \A m \in 1 .. Len(e[p].ents) : Descends(d, e, p, N, r, k, j, m)
  PROVE  Keeps(d, r, k, e, r, j, N)
<1>1. /\ Card(d) /\ Card(e) /\ Heads(e) = Heads(d) /\ Listed(e) = Listed(d) /\ p \in Listed(d)
      /\ \A x \in Listed(d) : Chain(e, x) = Chain(d, x)
      /\ \A x \in Listed(d) \ {p} : e[x].ents = d[x].ents
  BY DEF Alters
<1>2. ASSUME NEW h, At(d, h, r, k)
      PROVE  /\ At(e, h, r, j)
             /\ \A x, i : Has(e, h, x, i) => Triple(e, h, x, i) \in N \/ Comes(d, h, r, k, e, r, j, x, i)
  <2>1. h \in Heads(d) /\ h \in Listed(d) /\ r \in Chain(d, h)
    BY <1>1, <1>2, AtParts
  <2>2. At(e, h, r, j)
    BY <1>1, <2>1 DEF At
  <2>3. ASSUME NEW x, NEW i, Has(e, h, x, i), Triple(e, h, x, i) \notin N
        PROVE  Comes(d, h, r, k, e, r, j, x, i)
    <3>1. x \in Chain(e, h) /\ x \in Listed(e) /\ i \in 1 .. Len(e[x].ents)
      BY <1>1, <2>3, HasIs
    <3>2. x \in Chain(d, h) /\ x \in Listed(d) /\ Chain(e, x) = Chain(d, x)
      BY <1>1, <2>1, <3>1
    <3>3. CASE x # p
      <4>1. Has(d, h, x, i) /\ Triple(d, h, x, i) = Triple(e, h, x, i)
        BY <1>1, <2>1, <3>1, <3>2, <3>3 DEF Has, Triple
      <4>2. Before(e, x, i, r, j) <=> Before(d, x, i, r, k)
        BY <3>2, <3>3 DEF Before
      <4> QED BY <4>1, <4>2 DEF Comes
    <3>4. CASE x = p
      <4>1. Descends(d, e, p, N, r, k, j, i)
        BY <3>1, <3>4
      <4>2. ~(\A g \in Heads(d) : p \in Chain(d, g) => Triple(e, g, p, i) \in N)
        BY <2>1, <2>3, <3>2, <3>4
      <4>3. PICK s \in 1 .. Len(d[p].ents) : e[p].ents[i] = d[p].ents[s] /\ (r = p => (i < j <=> s < k))
        BY <4>1, <4>2 DEF Descends
      <4>4. Has(d, h, p, s) /\ Triple(d, h, p, s) = Triple(e, h, x, i)
        BY <2>1, <3>2, <3>4, <4>3 DEF Has, Triple
      <4>5. Before(e, x, i, r, j) <=> Before(d, p, s, r, k)
        BY <3>2, <3>4, <4>3 DEF Before
      <4> QED BY <4>4, <4>5 DEF Comes
    <3> QED BY <3>3, <3>4
  <2> QED BY <2>2, <2>3
<1> QED BY <1>2, KeepsIf

(* An entry more: a reader that is at its place, or behind it, is behind   *)
(* it.                                                                     *)
LEMMA MoreKeeps ==
  ASSUME NEW d, NEW e, NEW p, Alters(d, e, p), NEW i \in 1 .. (Len(d[p].ents) + 1), NEW y,
         HasMore(e[p].ents, d[p].ents, i, y), NEW g \in Heads(d), p \in Chain(d, g),
         NEW r \in Listed(d), NEW k \in 1 .. (Len(d[r].ents) + 1),
         NEW j, j = IF r = p /\ k >= i THEN k + 1 ELSE k
  PROVE  Keeps(d, r, k, e, r, j, {<<g, y.name, y.node>>})
<1>1. /\ Card(d) /\ p \in Listed(d) /\ Len(d[p].ents) \in Nat /\ Len(d[r].ents) \in Nat
      /\ (r # p => e[r].ents = d[r].ents) /\ Len(e[p].ents) = Len(d[p].ents) + 1
  BY CardHas DEF Alters, HasMore
<1>2. j \in 1 .. (Len(e[r].ents) + 1)
  BY <1>1, SMTT(30)
<1>3. ASSUME NEW m \in 1 .. Len(e[p].ents) PROVE Descends(d, e, p, {<<g, y.name, y.node>>}, r, k, j, m)
  <2>0. m \in 1 .. (Len(d[p].ents) + 1)
    BY <1>1
  <2>1. CASE m = i
    <3>1. e[p].ents[m] = y
      BY <2>0, <2>1, <1>1 DEF HasMore
    <3>2. \A h \in Heads(d) : p \in Chain(d, h) => h = g
      BY <1>1, ChainsApart
    <3> QED BY <3>1, <3>2 DEF Descends, Triple
  <2>2. CASE m < i
    <3>1. e[p].ents[m] = d[p].ents[m] /\ m \in 1 .. Len(d[p].ents)
      BY <2>0, <2>2, <1>1 DEF HasMore
    <3>2. r = p => (m < j <=> m < k)
      BY <1>1, <2>0, <2>2
    <3> QED BY <3>1, <3>2 DEF Descends
  <2>3. CASE m > i
    <3>1. e[p].ents[m] = d[p].ents[m - 1] /\ m - 1 \in 1 .. Len(d[p].ents)
      BY <2>0, <2>3, <1>1 DEF HasMore
    <3>2. r = p => (m < j <=> m - 1 < k)
      BY <1>1, <2>0, <2>3
    <3> QED BY <3>1, <3>2 DEF Descends
  <2> QED BY <2>0, <2>1, <2>2, <2>3
<1> QED BY <1>1, <1>2, <1>3, AltersKeeps

(* An entry less.                                                          *)
LEMMA LessKeeps ==
  ASSUME NEW d, NEW e, NEW p, Alters(d, e, p), NEW i \in 1 .. Len(d[p].ents),
         HasLess(e[p].ents, d[p].ents, i),
         NEW r \in Listed(d), NEW k \in 1 .. (Len(d[r].ents) + 1),
         NEW j, j = IF r = p /\ k > i THEN k - 1 ELSE k
  PROVE  Keeps(d, r, k, e, r, j, {})
<1>1. /\ Card(d) /\ p \in Listed(d) /\ Len(d[p].ents) \in Nat /\ Len(d[r].ents) \in Nat
      /\ (r # p => e[r].ents = d[r].ents) /\ Len(e[p].ents) = Len(d[p].ents) - 1
  BY CardHas DEF Alters, HasLess
<1>2. j \in 1 .. (Len(e[r].ents) + 1)
  <2>1. CASE r = p
    BY <1>1, <2>1
  <2>2. CASE r # p
    BY <1>1, <2>2
  <2> QED BY <2>1, <2>2
<1>3. ASSUME NEW m \in 1 .. Len(e[p].ents) PROVE Descends(d, e, p, {}, r, k, j, m)
  <2>0. m \in 1 .. (Len(d[p].ents) - 1)
    BY <1>1
  <2>1. CASE m < i
    <3>1. e[p].ents[m] = d[p].ents[m] /\ m \in 1 .. Len(d[p].ents)
      BY <2>0, <2>1, <1>1 DEF HasLess
    <3>2. r = p => (m < j <=> m < k)
      BY <1>1, <2>0, <2>1
    <3> QED BY <3>1, <3>2 DEF Descends
  <2>2. CASE m >= i
    <3>1. e[p].ents[m] = d[p].ents[m + 1] /\ m + 1 \in 1 .. Len(d[p].ents)
      BY <2>0, <2>2, <1>1 DEF HasLess
    <3>2. r = p => (m < j <=> m + 1 < k)
      BY <1>1, <2>0, <2>2
    <3> QED BY <3>1, <3>2 DEF Descends
  <2> QED BY <2>0, <2>1, <2>2
<1> QED BY <1>1, <1>2, <1>3, AltersKeeps

(* An entry in place of another.                                           *)
HasInstead(s, t, i, y) ==
  /\ Len(s) = Len(t) /\ s[i] = y /\ \A m \in (1 .. Len(t)) \ {i} : s[m] = t[m]
LEMMA InsteadKeeps ==
  ASSUME NEW d, NEW e, NEW p, Alters(d, e, p), NEW i \in 1 .. Len(d[p].ents), NEW y, NEW N,
         HasInstead(e[p].ents, d[p].ents, i, y),
         y = d[p].ents[i] \/ \A h \in Heads(d) : p \in Chain(d, h) => <<h, y.name, y.node>> \in N,
         NEW r \in Listed(d), NEW k \in 1 .. (Len(d[r].ents) + 1)
  PROVE  Keeps(d, r, k, e, r, k, N)
<1>1. (r # p => e[r].ents = d[r].ents) /\ Len(e[p].ents) = Len(d[p].ents)
  BY DEF Alters, HasInstead
<1>2. k \in 1 .. (Len(e[r].ents) + 1)
  BY <1>1
<1>3. ASSUME NEW m \in 1 .. Len(e[p].ents) PROVE Descends(d, e, p, N, r, k, k, m)
  <2>1. CASE m = i
    BY <2>1 DEF Descends, HasInstead, Triple
  <2>2. CASE m # i
    BY <2>2, <1>1 DEF Descends, HasInstead
  <2> QED BY <2>1, <2>2
<1> QED BY <1>2, <1>3, AltersKeeps

(* A pair is split: a reader in its upper half goes on in the new pair.    *)
LEMMA SplitKeeps ==
  ASSUME NEW d, NEW e, NEW p, NEW q, Extended(d, e, p, q), Heads(e) = Heads(d),
         NEW l \in 0 .. Len(d[p].ents), Halved(e[p].ents, e[q].ents, d[p].ents, l),
         \A r \in Listed(d) \ {p} : e[r].ents = d[r].ents,
         NEW r \in Listed(d), NEW k \in 1 .. (Len(d[r].ents) + 1),
         NEW t, NEW j, IF r = p /\ k > l THEN t = q /\ j = k - l ELSE t = r /\ j = k
  PROVE  Keeps(d, r, k, e, t, j, {})
<1> DEFINE pair(x, i) == IF x = q THEN p ELSE x
           id(x, i)   == IF x = q THEN i + l ELSE i
<1>0. /\ Card(d) /\ Card(e) /\ q \notin Listed(d) /\ Listed(e) = Listed(d) \cup {q}
      /\ q \in Listed(e) /\ p \in Listed(d) /\ p # q
      /\ Len(d[p].ents) \in Nat /\ Len(d[r].ents) \in Nat /\ l \in Nat /\ l <= Len(d[p].ents)
  BY CardHas DEF Extended
<1>1. /\ \A x \in Listed(d) : Chain(e, x) = Chain(d, x) \cup (IF p \in Chain(d, x) THEN {q} ELSE {})
      /\ Chain(e, q) = {q} \cup (Chain(d, p) \ {p})
      /\ \A x \in Listed(d) : q \notin Chain(d, x) /\ Chain(d, x) \subseteq Listed(d) /\ x \in Chain(d, x)
  BY <1>0, ExtendedChains, ChainCloses
<1>2. /\ Len(e[p].ents) = l /\ Len(e[q].ents) = Len(d[p].ents) - l
      /\ \A m \in 1 .. l : e[p].ents[m] = d[p].ents[m]
      /\ \A m \in 1 .. (Len(d[p].ents) - l) : e[q].ents[m] = d[p].ents[m + l]
  <2>1. \A m \in 1 .. (Len(d[p].ents) - l) : m + l = l + m
    BY <1>0
  <2> QED BY <2>1 DEF Halved
<1>3. ASSUME NEW h, At(d, h, r, k)
      PROVE  At(e, h, t, j) /\ \A x, i : Has(e, h, x, i) => Comes(d, h, r, k, e, t, j, x, i)
  <2>1. h \in Heads(d) /\ h \in Heads(e) /\ h \in Listed(d) /\ r \in Chain(d, h)
    BY <1>0, <1>3, AtParts
  <2>2. At(e, h, t, j)
    <3>1. CASE r = p /\ k > l
      <4>1. q \in Chain(e, h)
        BY <1>1, <2>1, <3>1
      <4>2. j \in 1 .. (Len(e[q].ents) + 1)
        BY <1>0, <1>2, <3>1
      <4> QED BY <2>1, <3>1, <4>1, <4>2 DEF At
    <3>2. CASE r = p /\ ~(k > l)
      <4>1. p \in Chain(e, h)
        BY <1>1, <2>1, <3>2
      <4>2. j \in 1 .. (Len(e[p].ents) + 1)
        BY <1>0, <1>2, <3>2
      <4> QED BY <2>1, <3>2, <4>1, <4>2 DEF At
    <3>3. CASE r # p
      <4>1. r \in Chain(e, h) /\ e[r].ents = d[r].ents
        BY <1>1, <2>1, <3>3
      <4> QED BY <2>1, <3>3, <4>1 DEF At
    <3> QED BY <3>1, <3>2, <3>3
  <2>3. ASSUME NEW x, NEW i, Has(e, h, x, i) PROVE Comes(d, h, r, k, e, t, j, x, i)
    <3>1. x \in Chain(e, h) /\ x \in Listed(e) /\ i \in 1 .. Len(e[x].ents)
      BY <1>0, <2>3, HasIs
    <3>2. /\ pair(x, i) \in Chain(d, h) /\ id(x, i) \in 1 .. Len(d[pair(x, i)].ents)
          /\ d[pair(x, i)].ents[id(x, i)] = e[x].ents[i]
      <4>1. CASE x = q
        <5>1. p \in Chain(d, h)
          BY <1>1, <2>1, <3>1, <4>1
        <5>2. i \in 1 .. (Len(d[p].ents) - l)
          BY <1>2, <3>1, <4>1
        <5>3. i + l \in 1 .. Len(d[p].ents) /\ e[q].ents[i] = d[p].ents[i + l]
          BY <1>0, <1>2, <5>2
        <5> QED BY <4>1, <5>1, <5>3
      <4>2. CASE x # q /\ x = p
        <5>1. p \in Chain(d, h)
          BY <1>1, <2>1, <3>1, <4>2
        <5>2. i \in 1 .. Len(d[p].ents) /\ e[p].ents[i] = d[p].ents[i]
          BY <1>0, <1>2, <3>1, <4>2
        <5> QED BY <4>2, <5>1, <5>2
      <4>3. CASE x # q /\ x # p
        <5>1. x \in Chain(d, h)
          BY <1>1, <2>1, <3>1, <4>3
        <5>2. e[x].ents = d[x].ents
          BY <1>1, <2>1, <4>3, <5>1
        <5> QED BY <3>1, <4>3, <5>1, <5>2
      <4> QED BY <4>1, <4>2, <4>3
    <3>3. Has(d, h, pair(x, i), id(x, i)) /\ Triple(d, h, pair(x, i), id(x, i)) = Triple(e, h, x, i)
      <4> HIDE DEF pair, id
      <4> QED BY <2>1, <3>2 DEF Has, Triple
    <3>4. Before(e, x, i, t, j) <=> Before(d, pair(x, i), id(x, i), r, k)
      <4>0. i \in Nat /\ k \in Nat /\ (x = p => i <= l) /\ x \in Listed(d) \cup {q}
        <5>1. Len(e[x].ents) \in Nat
          BY <1>0, <3>1, CardHas
        <5> QED BY <1>0, <1>2, <3>1, <5>1
      <4>1. CASE r = p /\ k > l
        <5>1. CASE x = q
          <6>1. i < k - l <=> i + l < k
            BY <1>0, <4>0
          <6> QED BY <4>1, <5>1, <6>1 DEF Before
        <5>2. CASE x = p
          <6>1. q \in Chain(e, p)
            BY <1>0, <1>1
          <6>2. i < k
            BY <1>0, <4>0, <4>1, <5>2
          <6> QED BY <1>0, <4>1, <5>2, <6>1, <6>2 DEF Before
        <5>3. CASE x # p /\ x # q
          <6>1. q \in Chain(e, x) <=> p \in Chain(d, x)
            BY <1>1, <4>0, <5>3
          <6> QED BY <4>1, <5>3, <6>1 DEF Before
        <5> QED BY <5>1, <5>2, <5>3
      <4>2. CASE r = p /\ ~(k > l)
        <5>1. CASE x = q
          <6>1. p \notin Chain(e, q) /\ ~(i + l < k)
            BY <1>0, <1>1, <4>0, <4>2
          <6> QED BY <1>0, <4>2, <5>1, <6>1 DEF Before
        <5>2. CASE x # q
          <6>1. x # p => (p \in Chain(e, x) <=> p \in Chain(d, x))
            BY <1>0, <1>1, <4>0, <5>2
          <6> QED BY <4>2, <5>2, <6>1 DEF Before
        <5> QED BY <5>1, <5>2
      <4>3. CASE r # p
        <5>1. r # q /\ t = r /\ j = k
          BY <1>0, <4>3
        <5>2. CASE x = q
          <6>1. r \in Chain(e, q) <=> r \in Chain(d, p)
            BY <1>0, <1>1, <4>3, <5>1
          <6> QED BY <4>3, <5>1, <5>2, <6>1 DEF Before
        <5>3. CASE x # q
          <6>1. r \in Chain(e, x) <=> r \in Chain(d, x)
            BY <1>1, <4>0, <5>1, <5>3
          <6> QED BY <5>1, <5>3, <6>1 DEF Before
        <5> QED BY <5>2, <5>3
      <4> QED BY <4>1, <4>2, <4>3
    <3> HIDE DEF pair, id
    <3> QED BY <3>3, <3>4 DEF Comes
  <2> QED BY <2>2, <2>3
<1> QED BY <1>3, KeepsIf

------------------------------------------------------------------------------
(* What a commit does to an open directory's handle.                       *)

(* The copy that the handle has of its pair is what is on the card.        *)
Fresh(h, d) ==
  h.count = Len(d[h.pair].ents) /\ h.tail = d[h.pair].tail /\ h.split = d[h.pair].split
Stands(h, d) == h.pair \in Listed(d) /\ h.id \in 1 .. (Len(d[h.pair].ents) + 1)
SameStory(n, h) == LikeHand(n, h) /\ n.head = h.head /\ n.seen = h.seen /\ n.due = h.due

(* What a commit does to a handle is no part of its story.                 *)
LEMMA StoryKept ==
  ASSUME NEW h, Hand(h), NEW d, NEW p, NEW a
  PROVE  /\ SameStory(Copy(h, d, p), h) /\ SameStory(Crossed(h, d), h)
         /\ SameStory(Shift(h, a), h)
<1>1. ASSUME NEW x, NEW n, n \in {SetAt(h, x), SetId(h, x), SetCount(h, x), SetNext(h, x), SetGoes(h, x)}
      PROVE  SameStory(n, h)
  <2>1. LikeHand(n, h)
    BY <1>1, WithAt, WithId, WithCount, WithNext, WithGoes
  <2>2. n.head = h.head /\ n.seen = h.seen /\ n.due = h.due
    BY <1>1 DEF SetAt, SetId, SetCount, SetNext, SetGoes, Hand
  <2> QED BY <2>1, <2>2 DEF SameStory
<1>2. ASSUME NEW g, Hand(g), NEW e, NEW q, NEW n, n = Copy(g, e, q) PROVE SameStory(n, g) /\ Hand(n)
  <2>1. PICK b : b = SetCount(g, Len(e[q].ents))
    OBVIOUS
  <2>2. PICK c : c = SetNext(b, e[q].tail)
    OBVIOUS
  <2>3. n = SetGoes(c, e[q].split)
    BY <1>2, <2>1, <2>2, Zenon DEF Copy, SetCount, SetNext, SetGoes
  <2>4. LikeHand(b, g) /\ Hand(b)
    BY <1>2, <2>1, WithCount DEF LikeHand
  <2>5. LikeHand(c, b) /\ Hand(c)
    BY <2>2, <2>4, WithNext DEF LikeHand
  <2>6. LikeHand(n, c) /\ Hand(n)
    BY <2>3, <2>5, WithGoes DEF LikeHand
  <2>7. b.head = g.head /\ b.seen = g.seen /\ b.due = g.due
    BY <1>2, <2>1 DEF SetCount, Hand
  <2>8. c.head = b.head /\ c.seen = b.seen /\ c.due = b.due
    BY <2>2, <2>4 DEF SetNext, Hand
  <2>9. n.head = c.head /\ n.seen = c.seen /\ n.due = c.due
    BY <2>3, <2>5 DEF SetGoes, Hand
  <2> QED BY <2>4, <2>5, <2>6, <2>7, <2>8, <2>9 DEF LikeHand, SameStory
<1>3. SameStory(h, h)
  BY DEF SameStory, LikeHand
<1>4. SameStory(Crossed(h, d), h)
  <2>1. PICK b : b = SetAt(h, h.tail)
    OBVIOUS
  <2>2. PICK c : c = SetId(b, h.id - h.count)
    OBVIOUS
  <2>3. PICK n : n = Copy(c, d, h.tail)
    OBVIOUS
  <2>4. Crossed(h, d) \in {h, n}
    <3>1. c = [h EXCEPT !.pair = h.tail, !.id = @ - h.count]
      BY <2>1, <2>2, Zenon DEF SetAt, SetId
    <3> QED BY <2>3, <3>1, Zenon DEF Crossed
  <2>5. LikeHand(b, h) /\ Hand(b)
    BY <2>1, WithAt DEF LikeHand
  <2>6. b.head = h.head /\ b.seen = h.seen /\ b.due = h.due
    BY <2>1 DEF SetAt, Hand
  <2>7. LikeHand(c, b) /\ Hand(c)
    BY <2>2, <2>5, WithId DEF LikeHand
  <2>8. c.head = b.head /\ c.seen = b.seen /\ c.due = b.due
    BY <2>2, <2>5 DEF SetId, Hand
  <2>9. SameStory(n, c)
    BY <1>2, <2>3, <2>7
  <2>10. SameStory(n, h)
    BY <2>5, <2>6, <2>7, <2>8, <2>9 DEF LikeHand, SameStory
  <2> QED BY <1>3, <2>4, <2>10
<1>5. SameStory(Shift(h, a), h)
  <2>1. Shift(h, a) \in {h, SetAt(h, NoPair), SetId(h, h.id - 1), SetId(h, h.id + 1)}
    BY Zenon DEF Shift, SetAt, SetId
  <2> QED BY <1>1, <1>3, <2>1
<1> QED BY <1>2, <1>4, <1>5

(* A handle at the end of a pair that its directory goes on from is at the *)
(* beginning of the next; any other stays.                                 *)
LEMMA CrossedReads ==
  ASSUME NEW d, Card(d), NEW h, Hand(h), Stands(h, d), Fresh(h, d), NEW n, n = Crossed(h, d)
  PROVE  /\ SameStory(n, h) /\ Hand(n) /\ Stands(n, d) /\ Fresh(n, d)
         /\ Keeps(d, h.pair, h.id, d, n.pair, n.id, {})
         /\ \/ n = h /\ ~(h.id = Len(d[h.pair].ents) + 1 /\ d[h.pair].split)
            \/ /\ h.id = Len(d[h.pair].ents) + 1 /\ d[h.pair].split
               /\ n.pair = d[h.pair].tail /\ n.id = 1
<1>0. /\ h.pair \in Listed(d) /\ h.id \in 1 .. (Len(d[h.pair].ents) + 1) /\ Len(d[h.pair].ents) \in Nat
      /\ h.count = Len(d[h.pair].ents) /\ h.tail = d[h.pair].tail /\ h.split = d[h.pair].split
  BY CardHas DEF Stands, Fresh
<1>1. SameStory(n, h) /\ Hand(n)
  BY StoryKept DEF SameStory, LikeHand
<1>2. CASE h.id = Len(d[h.pair].ents) + 1 /\ d[h.pair].split
  <2>0. h.id > h.count /\ h.split
    BY <1>0, <1>2
  <2>1. /\ n.pair = h.tail /\ n.id = h.id - h.count /\ n.count = Len(d[h.tail].ents)
        /\ n.tail = d[h.tail].tail /\ n.split = d[h.tail].split
    BY <2>0, CrossedIs
  <2>2. n.pair = d[h.pair].tail /\ n.id = 1
    BY <1>0, <1>2, <2>1
  <2>3. n.pair \in Listed(d) /\ Len(d[n.pair].ents) \in Nat
    BY <1>0, <1>2, <2>2, CardHas, ChainCloses
  <2>4. Stands(n, d) /\ Fresh(n, d)
    BY <2>1, <2>2, <2>3 DEF Stands, Fresh
  <2>5. Keeps(d, h.pair, h.id, d, n.pair, n.id, {})
    BY <1>0, <1>2, <2>2, CrossKeeps
  <2> QED BY <1>1, <1>2, <2>2, <2>4, <2>5
<1>3. CASE ~(h.id = Len(d[h.pair].ents) + 1 /\ d[h.pair].split)
  <2>1. ~(h.id > h.count /\ h.split)
    BY <1>0, <1>3
  <2>2. n = h
    BY <2>1, CrossedIs
  <2> QED BY <1>1, <1>3, <2>2, KeepsSame
<1> QED BY <1>2, <1>3

(* A reader of another pair than the one a commit is to.                   *)
LEMMA SpreadElse ==
  ASSUME NEW d, NEW e, NEW p, NEW F, Card(d), Card(e), p \in Listed(d), Heads(e) = Heads(d),
         Spread(d, e, p, F), NEW r \in Listed(d), NEW i \in 1 .. (Len(d[r].ents) + 1)
  PROVE  /\ r \in Listed(e)
         /\ r # p \/ e[p].ents = d[p].ents => Keeps(d, r, i, e, r, i, {})
<1>1. CASE Listed(e) = Listed(d) /\ e[p].ents = d[p].ents /\ e[p].tail = d[p].tail /\ e[p].split = d[p].split
  <2>1. \A x \in Listed(d) : e[x].ents = d[x].ents /\ e[x].tail = d[x].tail /\ e[x].split = d[x].split
    BY <1>1 DEF Spread
  <2>2. \A x \in Listed(d) : Chain(e, x) = Chain(d, x)
    BY <1>1, <2>1, SameChains
  <2>3. SameSlots(d, e)
    BY <1>1, <2>1, <2>2 DEF SameSlots
  <2> QED BY <1>1, <2>3, SlotKeeps
<1>2. CASE \E q \in F :
          /\ q \in Pair \ Listed(d) /\ Listed(e) = Listed(d) \cup {q}
          /\ Halved(e[p].ents, e[q].ents, d[p].ents, Len(d[p].ents) \div 2)
          /\ e[p].tail = q /\ e[p].split = TRUE
          /\ e[q].tail = d[p].tail /\ e[q].split = d[p].split
          /\ Len(d[p].ents) > Capacity
  <2>1. PICK q \in F :
          /\ q \in Pair \ Listed(d) /\ Listed(e) = Listed(d) \cup {q}
          /\ Halved(e[p].ents, e[q].ents, d[p].ents, Len(d[p].ents) \div 2)
          /\ e[p].tail = q /\ e[p].split = TRUE
          /\ e[q].tail = d[p].tail /\ e[q].split = d[p].split
          /\ Len(d[p].ents) > Capacity
    BY <1>2
  <2>2. \A x \in Listed(d) \ {p} : e[x] = d[x]
    BY DEF Spread
  <2>3. Extended(d, e, p, q)
    BY <2>1, <2>2 DEF Extended
  <2>4. PICK l : l = Len(d[p].ents) \div 2
    OBVIOUS
  <2>5. l \in 0 .. Len(d[p].ents)
    BY <2>4, CardHas, HalfIs
  <2>6. Halved(e[p].ents, e[q].ents, d[p].ents, l)
    BY <2>1, <2>4
  <2>7. ASSUME r # p PROVE Keeps(d, r, i, e, r, i, {})
    BY <2>2, <2>3, <2>5, <2>6, <2>7, SplitKeeps
  <2>8. e[p].ents # d[p].ents
    <3>1. Len(d[p].ents) \in Nat /\ Len(e[p].ents) = Len(d[p].ents) \div 2 /\ Len(d[p].ents) >= 1
      BY <2>1, CardHas, DirTreeAssumption DEF Halved
    <3>2. ASSUME NEW n \in Nat, n >= 1 PROVE n \div 2 # n
      BY <3>2
    <3>3. Len(e[p].ents) # Len(d[p].ents)
      BY <3>1, <3>2
    <3> QED BY <3>3
  <2> QED BY <2>1, <2>7, <2>8
<1> QED BY <1>1, <1>2 DEF Spread

(* Where a reader at entry i of p may be after a commit to p: in p, in the *)
(* new pair, or past the end in a later pair.                              *)
Onward(d, p, i, r, j) ==
  \/ r = p \/ r \notin Listed(d)
  \/ /\ i = Len(d[p].ents) + 1 /\ d[p].split /\ j = 1
     /\ LET t == d[p].tail IN r = t \/ (d[t].ents = <<>> /\ d[t].split /\ r = d[t].tail)

(* A reader of the pair that a commit is to.                               *)
LEMMA SpreadReads ==
  ASSUME NEW d, NEW e, NEW p, NEW F, Card(d), Card(e), p \in Listed(d), Heads(e) = Heads(d),
         Spread(d, e, p, F), NEW g, Hand(g), g.pair = p, g.id \in 1 .. (Len(d[p].ents) + 1),
         NEW n, n = Crossed(Crossed(Copy(g, e, p), e), e)
  PROVE  /\ SameStory(n, g) /\ Stands(n, e) /\ Fresh(n, e)
         /\ Keeps(d, p, g.id, e, n.pair, n.id, {}) /\ Onward(d, p, g.id, n.pair, n.id)
<1>0. Len(d[p].ents) \in Nat /\ Len(e[p].ents) \in Nat /\ p \in Listed(e)
  BY CardHas DEF Spread
<1>1. PICK c : c = Copy(g, e, p)
  OBVIOUS
<1>2. /\ Hand(c) /\ SameStory(c, g) /\ c.pair = p /\ c.id = g.id
      /\ c.count = Len(e[p].ents) /\ c.tail = e[p].tail /\ c.split = e[p].split
  <2>1. SameStory(c, g)
    BY <1>1, StoryKept
  <2>2. /\ c.pair = g.pair /\ c.id = g.id
        /\ c.count = Len(e[p].ents) /\ c.tail = e[p].tail /\ c.split = e[p].split
    BY <1>1, CopyIs
  <2> QED BY <2>1, <2>2 DEF SameStory, LikeHand
<1>3. PICK b : b = Crossed(c, e)
  OBVIOUS
<1>4. n = Crossed(b, e)
  BY <1>1, <1>3
<1>5. CASE Listed(e) = Listed(d) /\ e[p].ents = d[p].ents /\ e[p].tail = d[p].tail /\ e[p].split = d[p].split
  <2>1. Keeps(d, p, g.id, e, p, g.id, {})
    BY <1>5, SpreadElse
  <2>2. Stands(c, e) /\ Fresh(c, e)
    BY <1>0, <1>2, <1>5 DEF Stands, Fresh
  <2>3. /\ SameStory(b, c) /\ Hand(b) /\ Stands(b, e) /\ Fresh(b, e)
        /\ Keeps(e, p, g.id, e, b.pair, b.id, {})
        /\ \/ b = c /\ ~(g.id = Len(e[p].ents) + 1 /\ e[p].split)
           \/ g.id = Len(e[p].ents) + 1 /\ e[p].split /\ b.pair = e[p].tail /\ b.id = 1
    BY <1>2, <1>3, <2>2, CrossedReads
  <2>4. /\ SameStory(n, b) /\ Stands(n, e) /\ Fresh(n, e)
        /\ Keeps(e, b.pair, b.id, e, n.pair, n.id, {})
        /\ \/ n = b /\ ~(b.id = Len(e[b.pair].ents) + 1 /\ e[b.pair].split)
           \/ /\ b.id = Len(e[b.pair].ents) + 1 /\ e[b.pair].split
              /\ n.pair = e[b.pair].tail /\ n.id = 1
    BY <1>4, <2>3, CrossedReads
  <2>5. Keeps(d, p, g.id, e, n.pair, n.id, {})
    <3>1. Keeps(d, p, g.id, e, b.pair, b.id, {})
      BY <2>1, <2>3, KeepsThen
    <3> QED BY <2>4, <3>1, KeepsThen
  <2>6. Onward(d, p, g.id, n.pair, n.id)
    <3>1. CASE b = c
      BY <1>2, <2>3, <2>4, <3>1 DEF Onward
    <3>2. CASE g.id = Len(e[p].ents) + 1 /\ e[p].split /\ b.pair = e[p].tail /\ b.id = 1
      <4>1. b.pair \in Listed(e) /\ Len(e[b.pair].ents) \in Nat /\ e[b.pair].ents \in Seq(Entry)
        BY <2>3, CardHas, DiskType, ContentIs DEF Stands, Card
      <4>2. CASE n = b
        BY <1>5, <3>2, <4>2 DEF Onward
      <4>3. CASE n.pair = e[b.pair].tail /\ n.id = 1 /\ e[b.pair].split /\ b.id = Len(e[b.pair].ents) + 1
        <5>1. e[b.pair].ents = <<>>
          BY <3>2, <4>1, <4>3
        <5>2. p # b.pair
          BY <1>0, <3>2, CardHas, ChainEndsOnce, ChainCloses
        <5>3. e[b.pair] = d[b.pair]
          BY <1>5, <4>1, <5>2 DEF Spread
        <5> QED BY <1>5, <3>2, <4>3, <5>1, <5>3 DEF Onward
      <4> QED BY <2>4, <4>2, <4>3
    <3> QED BY <2>3, <3>1, <3>2
  <2> QED BY <1>2, <2>3, <2>4, <2>5, <2>6 DEF SameStory, LikeHand
<1>6. CASE \E q \in F :
          /\ q \in Pair \ Listed(d) /\ Listed(e) = Listed(d) \cup {q}
          /\ Halved(e[p].ents, e[q].ents, d[p].ents, Len(d[p].ents) \div 2)
          /\ e[p].tail = q /\ e[p].split = TRUE
          /\ e[q].tail = d[p].tail /\ e[q].split = d[p].split
          /\ Len(d[p].ents) > Capacity
  <2>1. PICK q \in F :
          /\ q \in Pair \ Listed(d) /\ Listed(e) = Listed(d) \cup {q}
          /\ Halved(e[p].ents, e[q].ents, d[p].ents, Len(d[p].ents) \div 2)
          /\ e[p].tail = q /\ e[p].split = TRUE
          /\ e[q].tail = d[p].tail /\ e[q].split = d[p].split
    BY <1>6
  <2>2. \A x \in Listed(d) \ {p} : e[x] = d[x]
    BY DEF Spread
  <2>3. Extended(d, e, p, q)
    BY <2>1, <2>2 DEF Extended
  <2>4. PICK l : l = Len(d[p].ents) \div 2
    OBVIOUS
  <2>5. l \in 0 .. Len(d[p].ents)
    BY <2>4, CardHas, HalfIs
  <2>6. Halved(e[p].ents, e[q].ents, d[p].ents, l)
    BY <2>1, <2>4
  <2>7. Len(e[p].ents) = l /\ Len(e[q].ents) = Len(d[p].ents) - l
    BY <2>6 DEF Halved
  <2>8. CASE g.id > l
    <3>1. c.id > c.count /\ c.split
      BY <1>2, <2>1, <2>7, <2>8
    <3>2. /\ SameStory(b, c) /\ Hand(b) /\ b.pair = q /\ b.id = g.id - l /\ b.count = Len(e[q].ents)
          /\ b.tail = e[q].tail /\ b.split = e[q].split
      <4>1. SameStory(b, c)
        BY <1>2, <1>3, StoryKept
      <4>2. /\ b.pair = c.tail /\ b.id = c.id - c.count /\ b.count = Len(e[c.tail].ents)
            /\ b.tail = e[c.tail].tail /\ b.split = e[c.tail].split
        BY <1>2, <1>3, <3>1, CrossedIs
      <4>3. c.tail = q
        BY <1>2, <2>1
      <4>4. c.id - c.count = g.id - l
        BY <1>2, <2>7
      <4>5. Hand(b)
        BY <4>1 DEF SameStory, LikeHand
      <4> QED BY <4>1, <4>2, <4>3, <4>4, <4>5
    <3>3. Keeps(d, p, g.id, e, q, g.id - l, {})
      BY <2>2, <2>3, <2>5, <2>6, <2>8, SplitKeeps
    <3>4. Stands(b, e) /\ Fresh(b, e)
      <4>1. q \in Listed(e) /\ g.id - l \in 1 .. (Len(e[q].ents) + 1)
        BY <1>0, <2>1, <2>5, <2>7, <2>8
      <4> QED BY <3>2, <4>1 DEF Stands, Fresh
    <3>5. /\ SameStory(n, b) /\ Stands(n, e) /\ Fresh(n, e)
          /\ Keeps(e, q, g.id - l, e, n.pair, n.id, {})
          /\ \/ n = b
             \/ g.id - l = Len(e[q].ents) + 1 /\ e[q].split /\ n.pair = e[q].tail /\ n.id = 1
      BY <1>4, <3>2, <3>4, CrossedReads
    <3>6. Onward(d, p, g.id, n.pair, n.id)
      <4>1. CASE n = b
        BY <2>1, <3>2, <4>1 DEF Onward
      <4>2. CASE g.id - l = Len(e[q].ents) + 1 /\ e[q].split /\ n.pair = e[q].tail /\ n.id = 1
        <5>1. g.id = Len(d[p].ents) + 1
          BY <1>0, <2>5, <2>7, <4>2
        <5> QED BY <2>1, <4>2, <5>1 DEF Onward
      <4> QED BY <3>5, <4>1, <4>2
    <3>7. Keeps(d, p, g.id, e, n.pair, n.id, {})
      BY <3>3, <3>5, KeepsThen
    <3> QED BY <1>2, <3>2, <3>5, <3>6, <3>7 DEF SameStory, LikeHand
  <2>9. CASE ~(g.id > l)
    <3>1. Stands(c, e) /\ Fresh(c, e) /\ ~(c.id > c.count)
      <4>1. g.id \in 1 .. (Len(e[p].ents) + 1) /\ ~(g.id > Len(e[p].ents))
        BY <1>0, <2>5, <2>7, <2>9
      <4> QED BY <1>0, <1>2, <4>1 DEF Stands, Fresh
    <3>2. b = c
      BY <1>2, <1>3, <3>1, CrossedIs
    <3>3. n = c
      BY <1>3, <1>4, <3>2
    <3>4. Keeps(d, p, g.id, e, p, g.id, {})
      BY <2>2, <2>3, <2>5, <2>6, <2>9, SplitKeeps
    <3> QED BY <1>2, <3>1, <3>3, <3>4 DEF Onward
  <2> QED BY <2>8, <2>9
<1> QED BY <1>5, <1>6 DEF Spread

(* A handle that a call to lfs_dir_commit has not told of is as it was;    *)
(* one of a pair it has told of is brought up to date.                     *)
LEMMA FixUpIs ==
  ASSUME NEW h, NEW o, NEW p, NEW attrs, NEW m, m = IF h.pair = p THEN Shifted(h, attrs) ELSE h,
         NEW n, n = FixUp(h, o, p, attrs)
  PROVE  /\ h.pair \notin o.told => n = h
         /\ h.pair \in o.told /\ m.pair # NoPair =>
              n = Crossed(Crossed(Copy(m, o.disk, h.pair), o.disk), o.disk)
BY Zenon DEF FixUp

(* A handle that has nothing to read, of a pair that may be anything by    *)
(* now.                                                                    *)
Blind(h) == h.id = 1 /\ h.count = 0 /\ ~h.split

(* From h, with d, to n, with e: it reads on where it was, or is off the   *)
(* list, with nothing left to read.                                        *)
Guided(h, n, d, e, N) ==
  /\ SameStory(n, h) /\ Stands(n, e) /\ Fresh(n, e)
  /\ Keeps(d, h.pair, h.id, e, n.pair, n.id, N)
Beached(h, n, d, e) ==
  /\ SameStory(n, h) /\ Blind(n) /\ n.pair \in Pair \ Listed(e)
  /\ \A g, t : At(d, g, h.pair, h.id) => ~Unread(d, g, h.pair, h.id, t)

(* A place on the list stays one.                                          *)
LEMMA StandsOn ==
  ASSUME NEW d, Card(d), NEW h, Stands(h, d), NEW e, Card(e), NEW n, NEW N,
         Keeps(d, h.pair, h.id, e, n.pair, n.id, N)
  PROVE  Stands(n, e)
<1>1. PICK g : At(d, g, h.pair, h.id)
  BY PlaceIsAt DEF Stands
<1>2. At(e, g, n.pair, n.id)
  BY <1>1 DEF Keeps
<1> QED BY <1>2, AtParts DEF Stands

(* A commit that leaves p as in u, or splits it.                           *)
LEMMA EditReads ==
  ASSUME NEW d, Card(d), NEW u, Card(u), NEW o, Card(o.disk), NEW p \in Listed(u), NEW F,
         Heads(o.disk) = Heads(u), Spread(u, o.disk, p, F), p \in o.told,
         NEW h, Hand(h), Stands(h, d), NEW attrs, NEW N,
         h.pair = p \/ (h.pair \notin o.told /\ Fresh(h, d) /\ u[h.pair] = d[h.pair]),
         NEW m, m = IF h.pair = p THEN Shifted(h, attrs) ELSE h,
         SameStory(m, h), m.pair = h.pair, Keeps(d, h.pair, h.id, u, m.pair, m.id, N),
         NEW n, n = FixUp(h, o, p, attrs)
  PROVE  /\ Guided(h, n, d, o.disk, N)
         /\ h.pair # p => n = h
         /\ h.pair = p => Onward(u, p, m.id, n.pair, n.id)
<1>1. Stands(m, u) /\ Hand(m)
  BY StandsOn DEF SameStory, LikeHand
<1>2. CASE h.pair = p
  <2>1. p # NoPair /\ m.id \in 1 .. (Len(u[p].ents) + 1)
    BY <1>1, <1>2, CardHas, DirTreeAssumption DEF Stands
  <2>2. n = Crossed(Crossed(Copy(m, o.disk, p), o.disk), o.disk)
    BY <1>2, <2>1, FixUpIs
  <2>3. /\ SameStory(n, m) /\ Stands(n, o.disk) /\ Fresh(n, o.disk)
        /\ Keeps(u, p, m.id, o.disk, n.pair, n.id, {}) /\ Onward(u, p, m.id, n.pair, n.id)
    BY <1>1, <1>2, <2>1, <2>2, SpreadReads
  <2>4. Keeps(d, h.pair, h.id, o.disk, n.pair, n.id, N)
    BY <1>2, <2>3, KeepsThen
  <2> QED BY <1>2, <2>3, <2>4 DEF Guided, SameStory, LikeHand
<1>3. CASE h.pair # p
  <2>1. n = h /\ m = h
    BY <1>3, FixUpIs
  <2>2. h.pair \in Listed(u) \ {p} /\ h.id \in 1 .. (Len(u[h.pair].ents) + 1)
    BY <1>1, <1>3, <2>1 DEF Stands
  <2>3. Keeps(u, h.pair, h.id, o.disk, h.pair, h.id, {}) /\ h.pair \in Listed(o.disk)
    BY <1>3, <2>2, SpreadElse
  <2>4. Keeps(d, h.pair, h.id, o.disk, n.pair, n.id, N)
    BY <2>1, <2>3, KeepsThen
  <2>5. o.disk[h.pair] = d[h.pair]
    BY <1>3, <2>2 DEF Spread
  <2>6. Fresh(n, o.disk) /\ Stands(n, o.disk)
    BY <1>3, <2>1, <2>3, <2>5 DEF Fresh, Stands
  <2> QED BY <1>3, <2>1, <2>4, <2>6 DEF Guided
<1> QED BY <1>2, <1>3

(* The handle of a directory that does not read entry i of p next, after   *)
(* that entry has been deleted.                                            *)
LEMMA DelShifts ==
  ASSUME NEW h, Hand(h), NEW i, h.id # i, NEW m, m = Shifted(h, <<Del(i)>>)
  PROVE  SameStory(m, h) /\ m.pair = h.pair /\ m.id = IF h.id > i THEN h.id - 1 ELSE h.id
<1>1. m = Shift(h, Del(i))
  <2>1. Len(<<Del(i)>>) = 1 /\ <<Del(i)>>[1] = Del(i)
    OBVIOUS
  <2> QED BY <2>1, ShiftedIs
<1>2. Del(i).op = "delete" /\ Del(i).id = i
  BY DEF Del
<1> QED BY <1>1, <1>2, ShiftIs, StoryKept

(* An entry is deleted.                                                    *)
LEMMA DeleteReads ==
  ASSUME Sure, NEW s, Clean(s), s.ok = TRUE, s.told = {}, Card(s.disk), NEW p \in Listed(s.disk),
         NEW i \in 1 .. Len(s.disk[p].ents), NEW o \in Delete(s, p, i),
         NEW h, Hand(h), Stands(h, s.disk), h.pair \notin o.told => Fresh(h, s.disk),
         ~(h.pair = p /\ h.id = i), NEW n, n = FixUp(h, o, p, <<Del(i)>>)
  PROVE  Guided(h, n, s.disk, o.disk, {}) \/ Beached(h, n, s.disk, o.disk)
<1>1. PICK d : /\ Lessened(s, p, i, d)
               /\ Committed(s, p, d, o) \/ \E u, r : DroppedFirst(s, p, d, u, r, o)
  BY DeleteSteps
<1>2. /\ Alters(s.disk, d, p) /\ HasLess(d[p].ents, s.disk[p].ents, i) /\ Card(d)
      /\ Listed(d) = Listed(s.disk) /\ p \in Pair /\ Listed(s.disk) \in SUBSET Pair
      /\ d[p].split = s.disk[p].split /\ d[p].tail = s.disk[p].tail
      /\ (\A b \in Pair \ {p} : d[b] = s.disk[b])
  BY <1>1, CardHas DEF Lessened, Alters, Edited
<1>3. PICK m : m = IF h.pair = p THEN Shifted(h, <<Del(i)>>) ELSE h
  OBVIOUS
<1>4. /\ SameStory(m, h) /\ Hand(m) /\ m.pair = h.pair
      /\ m.id = IF h.pair = p /\ h.id > i THEN h.id - 1 ELSE h.id
  <2>1. SameStory(h, h)
    BY DEF SameStory, LikeHand
  <2> QED BY <1>3, <2>1, DelShifts DEF SameStory, LikeHand
<1>5. Keeps(s.disk, h.pair, h.id, d, m.pair, m.id, {})
  <2>1. h.pair \in Listed(s.disk) /\ h.id \in 1 .. (Len(s.disk[h.pair].ents) + 1)
    BY DEF Stands
  <2>2. Keeps(s.disk, h.pair, h.id, d, h.pair, m.id, {})
    BY <1>2, <1>4, <2>1, LessKeeps
  <2> QED BY <1>4, <2>2
<1>6. CASE Committed(s, p, d, o)
  <2>1. Card(o.disk) /\ Heads(o.disk) = Heads(d) /\ Spread(d, o.disk, p, Free(s)) /\ o.told = {p}
    BY <1>6, CommittedClean, CleanCard DEF Committed, Alike
  <2>2. h.pair = p \/ (h.pair \notin o.told /\ Fresh(h, s.disk) /\ d[h.pair] = s.disk[h.pair])
    BY <1>2, <2>1 DEF Stands
  <2>3. p \in Listed(d) /\ p \in o.told
    BY <1>2, <2>1
  <2>4. PICK attrs : attrs = <<Del(i)>>
    OBVIOUS
  <2>5. /\ Card(s.disk) /\ Card(d) /\ Hand(h) /\ Stands(h, s.disk) /\ n = FixUp(h, o, p, attrs)
        /\ m = (IF h.pair = p THEN Shifted(h, attrs) ELSE h) /\ SameStory(m, h) /\ m.pair = h.pair
    BY <1>2, <1>3, <1>4, <2>4
  <2>6. Guided(h, n, s.disk, o.disk, {})
    BY ONLY <1>5, <2>1, <2>2, <2>3, <2>5, EditReads
  <2> QED BY <2>6
<1>7. CASE \E u, r : DroppedFirst(s, p, d, u, r, o)
  <2>1. PICK u, r : DroppedFirst(s, p, d, u, r, o)
    BY <1>7
  <2>2. /\ Gone(d, u, r, p) /\ d[p].ents = <<>> /\ d[r].tail = p /\ d[r].split /\ Card(u)
        /\ (\A b \in Pair \ {r} : u[b] = s.disk[b]) /\ r \in Listed(d) /\ r # p
        /\ Listed(u) = Listed(d) \ {p} /\ Heads(u) = Heads(d)
        /\ Card(o.disk) /\ Heads(o.disk) = Heads(u) /\ Spread(u, o.disk, r, Free(s))
        /\ o.disk[p].ents = <<>> /\ o.disk[p].tail = s.disk[p].tail /\ o.disk[p].split = s.disk[p].split
        /\ p \notin Listed(o.disk) /\ o.told = {r, p}
    BY <2>1 DEF DroppedFirst, Gone
  <2>3. ASSUME NEW b \in Listed(u), NEW k PROVE Keeps(d, b, k, u, b, k, {})
    <3>1. SameSlots(d, u) /\ b \in Listed(d) \cap Listed(u)
      BY <2>2, <2>3, GoneSlots
    <3> QED BY <1>2, <2>2, <3>1, SlotKeeps
  <2>4. CASE h.pair # p
    <3>1. h.pair \in Listed(u) /\ m = h
      BY <1>2, <1>3, <2>2, <2>4 DEF Stands
    <3>2. Keeps(s.disk, h.pair, h.id, u, h.pair, h.id, {})
      <4>1. Keeps(s.disk, h.pair, h.id, d, h.pair, h.id, {}) /\ Keeps(d, h.pair, h.id, u, h.pair, h.id, {})
        BY <1>5, <2>3, <3>1
      <4> QED BY <4>1, KeepsThen
    <3>3. h.pair = r \/ (h.pair \notin o.told /\ Fresh(h, s.disk) /\ u[h.pair] = s.disk[h.pair])
      BY <1>2, <2>2, <2>4 DEF Stands
    <3>4. n = FixUp(h, o, r, <<>>)
      <4>1. Shifted(h, <<>>) = h
        BY ShiftedIs
      <4> QED BY <2>4, <4>1 DEF FixUp
    <3>5. h = IF h.pair = r THEN Shifted(h, <<>>) ELSE h
      <4>1. Shifted(h, <<>>) = h
        BY ShiftedIs
      <4> QED BY <4>1
    <3>6. r \in Listed(u) /\ r \in o.told
      BY <2>2
    <3>7. SameStory(h, h)
      BY DEF SameStory, LikeHand
    <3>8. Card(s.disk) /\ Hand(h) /\ Stands(h, s.disk)
      OBVIOUS
    <3>9. Card(u) /\ Card(o.disk) /\ Heads(o.disk) = Heads(u) /\ Spread(u, o.disk, r, Free(s))
      BY <2>2
    <3>10. Guided(h, n, s.disk, o.disk, {})
      BY ONLY <3>2, <3>3, <3>4, <3>5, <3>6, <3>7, <3>8, <3>9, EditReads, ZenonT(60)
    <3> QED BY <3>10
  <2>5. CASE h.pair = p
    <3>1. Len(s.disk[p].ents) \in Nat /\ Len(d[p].ents) = Len(s.disk[p].ents) - 1 /\ Len(d[p].ents) = 0
      BY <1>2, <2>2, CardHas DEF HasLess
    <3>2. i = 1 /\ h.id = 2 /\ m.id = 1 /\ p # NoPair
      BY <1>2, <1>4, <2>5, <3>1, DirTreeAssumption, SMTT(30) DEF Stands
    <3>3. PICK c : c = Copy(m, o.disk, p)
      OBVIOUS
    <3>4. /\ SameStory(c, h) /\ Hand(c) /\ c.pair = p /\ c.id = 1 /\ c.count = 0
          /\ c.tail = s.disk[p].tail /\ c.split = s.disk[p].split
      <4>1. SameStory(c, m)
        BY <1>4, <3>3, StoryKept
      <4>2. /\ c.pair = m.pair /\ c.id = m.id /\ c.count = Len(o.disk[p].ents)
            /\ c.tail = o.disk[p].tail /\ c.split = o.disk[p].split
        BY <1>4, <3>3, CopyIs
      <4>3. Len(o.disk[p].ents) = 0
        BY <2>2
      <4> QED BY <1>4, <2>2, <2>5, <3>2, <4>1, <4>2, <4>3 DEF SameStory, LikeHand
    <3>5. n = Crossed(Crossed(c, o.disk), o.disk)
      <4>1. p \in o.told /\ m.pair = p
        BY <1>4, <2>2, <2>5
      <4> QED BY <1>3, <2>5, <3>2, <3>3, <4>1, FixUpIs
    <3>6. CASE s.disk[p].split
      <4>1. PICK b : b = Crossed(c, o.disk)
        OBVIOUS
      <4>2. PICK t : t = s.disk[p].tail
        OBVIOUS
      <4>3. t \in Listed(d) /\ t # p /\ t # r /\ t \in Listed(u)
        <5>1. t \in Listed(d) /\ t \in Chain(d, p) /\ p \notin Chain(d, t) /\ t \in Chain(d, t)
          BY <1>2, <3>6, <4>2, CardHas, ChainCloses, ChainEndsOnce
        <5>2. r \notin Chain(d, p)
          BY <1>2, <2>2, ChainEndsOnce
        <5> QED BY <2>2, <5>1, <5>2
      <4>4. Keeps(s.disk, h.pair, h.id, o.disk, t, 1, {}) /\ t \in Listed(o.disk)
        <5>1. Keeps(d, p, 1, d, t, 1, {})
          <6>1. ASSUME NEW k, k = 0 PROVE k + 1 = 1
            BY <6>1
          <6>2. Len(d[p].ents) + 1 = 1
            BY <3>1, <6>1, Zenon
          <6>3. d[p].tail = t
            BY <1>2, <4>2
          <6>4. d[p].split
            BY <1>2, <3>6, Zenon
          <6> QED BY <1>2, <6>2, <6>3, <6>4, CrossKeeps
        <5>2. Keeps(d, t, 1, u, t, 1, {})
          BY <2>3, <4>3
        <5>3. Keeps(u, t, 1, o.disk, t, 1, {}) /\ t \in Listed(o.disk)
          <6>1. 1 \in 1 .. (Len(u[t].ents) + 1) /\ r \in Listed(u)
            BY <2>2, <4>3, CardHas
          <6> QED BY <2>2, <4>3, <6>1, SpreadElse
        <5>4. Keeps(s.disk, h.pair, h.id, d, p, 1, {})
          BY <1>4, <1>5, <2>5, <3>2
        <5>5. Keeps(s.disk, h.pair, h.id, d, t, 1, {})
          BY <5>1, <5>4, KeepsThen
        <5>6. Keeps(s.disk, h.pair, h.id, u, t, 1, {})
          BY <5>2, <5>5, KeepsThen
        <5> QED BY <5>3, <5>6, KeepsThen
      <4>5. /\ SameStory(b, c) /\ Hand(b) /\ b.pair = t /\ b.id = 1
            /\ b.count = Len(o.disk[t].ents) /\ b.tail = o.disk[t].tail /\ b.split = o.disk[t].split
        <5>1. c.id > c.count /\ c.split
          BY <3>4, <3>6
        <5>2. /\ b.pair = c.tail /\ b.id = c.id - c.count /\ b.count = Len(o.disk[c.tail].ents)
              /\ b.tail = o.disk[c.tail].tail /\ b.split = o.disk[c.tail].split
          BY <3>4, <4>1, <5>1, CrossedIs
        <5>3. SameStory(b, c)
          BY <3>4, <4>1, StoryKept
        <5> QED BY <3>4, <4>2, <5>2, <5>3 DEF SameStory, LikeHand
      <4>6. Stands(b, o.disk) /\ Fresh(b, o.disk)
        <5>1. 1 \in 1 .. (Len(o.disk[t].ents) + 1)
          BY <2>2, <4>4, CardHas
        <5> QED BY <4>4, <4>5, <5>1 DEF Stands, Fresh
      <4>7. /\ SameStory(n, b) /\ Stands(n, o.disk) /\ Fresh(n, o.disk)
            /\ Keeps(o.disk, t, 1, o.disk, n.pair, n.id, {})
        BY <2>2, <3>5, <4>1, <4>5, <4>6, CrossedReads
      <4>8. Keeps(s.disk, h.pair, h.id, o.disk, n.pair, n.id, {})
        BY <4>4, <4>7, KeepsThen
      <4> QED BY <3>4, <4>5, <4>7, <4>8 DEF Guided, SameStory, LikeHand
    <3>7. CASE ~s.disk[p].split
      <4>1. n = c
        BY <3>4, <3>5, <3>7, CrossedIs
      <4>2. ASSUME NEW g, NEW t, At(s.disk, g, h.pair, h.id) PROVE ~Unread(s.disk, g, h.pair, h.id, t)
        <5>1. SUFFICES ASSUME NEW x, NEW k, Has(s.disk, g, x, k) PROVE Before(s.disk, x, k, h.pair, h.id)
          BY DEF Unread
        <5>2. x \in Chain(s.disk, g) /\ k \in 1 .. Len(s.disk[x].ents) /\ g \in Listed(s.disk) /\ x \in Listed(s.disk)
          BY <5>1, HasIs
        <5>3. CASE x = p
          BY <2>5, <3>1, <3>2, <5>2, <5>3 DEF Before
        <5>4. CASE x # p
          <6>1. p \in Chain(s.disk, g)
            BY <2>5, <4>2 DEF At
          <6>2. x \notin Chain(s.disk, p)
            BY <3>7, <5>4, ChainFrom
          <6>3. p \in Chain(s.disk, x)
            BY <5>2, <6>1, <6>2, ChainTotal
          <6> QED BY <2>5, <5>4, <6>3 DEF Before
        <5> QED BY <5>3, <5>4
      <4> QED BY <1>2, <2>2, <3>4, <3>7, <4>1, <4>2 DEF Beached, Blind
    <3> QED BY <3>6, <3>7
  <2> QED BY <2>4, <2>5
<1> QED BY <1>1, <1>6, <1>7

(* A directory that is empty is dropped: a reader of it has nothing left.  *)
LEMMA DropReads ==
  ASSUME Sure, NEW s, Clean(s), s.told = {}, Card(s.disk), NEW p \in Listed(s.disk), ~s.disk[p].split,
         NEW q, q = s.disk[p].tail, q # NoPair, Bare(s.disk, q), NEW o \in Drop(s, p, q),
         NEW h, Hand(h), Stands(h, s.disk), h.pair \notin o.told => Fresh(h, s.disk),
         NEW n, n = FixUp(h, o, p, <<>>)
  PROVE  o.told = {p} /\ (Guided(h, n, s.disk, o.disk, {}) \/ Beached(h, n, s.disk, o.disk))
<1>1. PICK u \in Disks : Committed(s, p, u, o) /\ Dropped(s.disk, u, p, q)
  BY DropIs
<1>2. /\ Gone(s.disk, u, p, q) /\ Card(u) /\ p \in Listed(u) /\ Listed(u) = Listed(s.disk) \ {q}
      /\ Heads(u) = Heads(s.disk) \ {q} /\ q # p /\ q \in Listed(s.disk) /\ q \in Pair
      /\ (\A b \in Pair \ {p} : u[b] = s.disk[b]) /\ Listed(s.disk) \in SUBSET Pair
  <2>1. Gone(s.disk, u, p, q)
    BY <1>1, DroppedGone DEF Bare
  <2> QED BY <1>1, <2>1, CardHas DEF Gone, Dropped
<1>3. /\ Card(o.disk) /\ Heads(o.disk) = Heads(u) /\ Spread(u, o.disk, p, Free(s)) /\ o.told = {p}
      /\ q \notin Listed(o.disk)
  <2>1. Card(o.disk) /\ Heads(o.disk) = Heads(u) /\ Spread(u, o.disk, p, Free(s)) /\ o.told = {p}
    BY <1>1, CommittedClean, CleanCard DEF Committed, Alike
  <2>2. q \notin Free(s) /\ q \notin Listed(u)
    BY <1>2 DEF Free
  <2> QED BY <2>1, <2>2 DEF Spread
<1>4. Shifted(h, <<>>) = h /\ SameStory(h, h)
  BY ShiftedIs DEF SameStory, LikeHand
<1>5. CASE h.pair = q
  <2>1. n = h
    BY <1>2, <1>3, <1>5, FixUpIs
  <2>2. Blind(h)
    <3>1. Len(s.disk[q].ents) = 0 /\ Fresh(h, s.disk)
      BY <1>2, <1>3, <1>5 DEF Bare
    <3> QED BY <1>5, <3>1 DEF Blind, Stands, Fresh, Bare
  <2>3. ASSUME NEW g, NEW t, At(s.disk, g, h.pair, h.id) PROVE ~Unread(s.disk, g, h.pair, h.id, t)
    <3>1. SUFFICES ASSUME NEW x, NEW k, Has(s.disk, g, x, k) PROVE FALSE
      BY DEF Unread
    <3>2. g = q
      <4>1. q \in Heads(s.disk) /\ q \in Chain(s.disk, q)
        BY <1>2, ChainCloses DEF Heads
      <4> QED BY <1>5, <2>3, <4>1, ChainsApart DEF At
    <3>3. x = q
      <4>1. x \in Chain(s.disk, q)
        BY <3>1, <3>2, HasIs
      <4> QED BY <1>2, <4>1, ChainFrom DEF Bare
    <3> QED BY <3>1, <3>3 DEF Has, Bare
  <2> QED BY <1>2, <1>3, <1>4, <1>5, <2>1, <2>2, <2>3 DEF Beached
<1>6. CASE h.pair # q
  <2>1. h.pair \in Listed(s.disk) \cap Listed(u)
    BY <1>2, <1>6 DEF Stands
  <2>2. ASSUME NEW g \in Heads(s.disk), h.pair \in Chain(s.disk, g) PROVE g \in Heads(u)
    <3>1. Chain(s.disk, q) = {q}
      BY <1>2, ChainFrom DEF Bare
    <3> QED BY <1>2, <1>6, <2>2, <3>1
  <2>3. Keeps(s.disk, h.pair, h.id, u, h.pair, h.id, {})
    BY <1>2, <2>1, <2>2, GoneSlots, SlotKeeps
  <2>4. PICK attrs : attrs = <<>>
    OBVIOUS
  <2>5. h.pair = p \/ (h.pair \notin o.told /\ Fresh(h, s.disk) /\ u[h.pair] = s.disk[h.pair])
    BY <1>2, <1>3, <2>1
  <2>6. /\ Card(s.disk) /\ Hand(h) /\ Stands(h, s.disk) /\ n = FixUp(h, o, p, attrs) /\ p \in o.told
        /\ h = (IF h.pair = p THEN Shifted(h, attrs) ELSE h)
    BY <1>3, <1>4, <2>4
  <2>7. Guided(h, n, s.disk, o.disk, {})
    BY ONLY <1>2, <1>3, <1>4, <2>3, <2>5, <2>6, EditReads
  <2> QED BY <1>3, <2>7
<1> QED BY <1>5, <1>6

------------------------------------------------------------------------------
(* The invariant of an open directory, and what a commit does to it.       *)

(* An entry as lfs_dir_read returns it, in the directory at g.             *)
Listing(g, x) == <<g, x[1], x[2]>>

(* A handle that is open for reading can be read from.                     *)
ReaderOK(h, d) ==
  Hand(h) /\ ((Stands(h, d) /\ Fresh(h, d)) \/ (Blind(h) /\ h.pair \in Pair))

(* A directory that has not gone astray has every entry it must still      *)
(* return before it, and every one it has returned behind it.              *)
StoryOK(h, d) ==
  \/ Blind(h) /\ h.pair \in Pair \ Listed(d) /\ h.due = {}
  \/ /\ At(d, h.head, h.pair, h.id) /\ Fresh(h, d)
     /\ \A x \in h.due : x = <<x[1], x[2]>> /\ Unread(d, h.head, h.pair, h.id, Listing(h.head, x))
     /\ \A x \in h.seen : x = <<x[1], x[2]>> /\ Read(d, h.head, h.pair, h.id, Listing(h.head, x))

(* While a directory is open, no entry is left to be deleted but by a      *)
(* rename under way, and then not the one that is read next.               *)
Dirlike(h) == h.kind \in {"dir", "astray"}
WatchOK ==
  /\ op.at # "rename_delete" => Moves(lfs.gdisk) = {}
  /\ op.at = "rename_delete" => ~(handle.pair = op.pair /\ handle.id = op.id)
HandleReads ==
  /\ ReaderOK(handle, disk)
  /\ handle.kind = "dir" => StoryOK(handle, disk)
ReadInv == Dirlike(handle) => HandleReads /\ WatchOK

(* What is remembered of an open directory when it has changed.            *)
StillIn(h, o) == {<<e.name, e.node>> : e \in Inside(o.disk, o.lfs.gdisk, h.head)}
Recalls(n, h, o) ==
  /\ h.kind = "dir" /\ n.seen = h.seen \cap StillIn(h, o) /\ n.due = h.due \cap StillIn(h, o)
  /\ (Ahead(h) \ Listed(disk)) \cap (Listed(o.disk) \cup o.held) = {}
LEMMA Remembered ==
  ASSUME NEW h, Hand(h), Dirlike(h), NEW o, NEW n, n = Remember(h, o)
  PROVE  /\ Hand(n) /\ Dirlike(n) /\ n.pair = h.pair /\ n.id = h.id /\ n.count = h.count
         /\ n.tail = h.tail /\ n.split = h.split /\ n.head = h.head
         /\ n.kind = "dir" => Recalls(n, h, o)
<1>1. CASE h.kind # "dir"
  <2>1. n = h
    BY <1>1, Zenon DEF Remember
  <2> QED BY <1>1, <2>1
<1>2. CASE h.kind = "dir"
  <2> DEFINE R == (Ahead(h) \ Listed(disk)) \cap (Listed(o.disk) \cup o.held)
             K == IF R = {} THEN h.kind ELSE "astray"
  <2>1. PICK a : a = SetSeen(h, h.seen \cap StillIn(h, o))
    OBVIOUS
  <2>2. PICK b : b = SetDue(a, h.due \cap StillIn(h, o))
    OBVIOUS
  <2>3. PICK k : k = K
    OBVIOUS
  <2>4. n = SetKind(b, k)
    <3>1. n = [h EXCEPT !.seen = h.seen \cap StillIn(h, o), !.due = h.due \cap StillIn(h, o), !.kind = k]
      BY <1>2, <2>3, Zenon DEF Remember, StillIn
    <3> QED BY <2>1, <2>2, <3>1, Zenon DEF SetSeen, SetDue, SetKind
  <2>5. /\ Hand(a) /\ a.pair = h.pair /\ a.id = h.id /\ a.count = h.count /\ a.tail = h.tail
        /\ a.split = h.split /\ a.head = h.head /\ a.seen = h.seen \cap StillIn(h, o)
    BY <2>1 DEF SetSeen, Hand
  <2>6. /\ Hand(b) /\ b.pair = a.pair /\ b.id = a.id /\ b.count = a.count /\ b.tail = a.tail
        /\ b.split = a.split /\ b.head = a.head /\ b.seen = a.seen /\ b.due = h.due \cap StillIn(h, o)
    BY <2>2, <2>5 DEF SetDue, Hand
  <2>7. /\ Hand(n) /\ n.pair = b.pair /\ n.id = b.id /\ n.count = b.count /\ n.tail = b.tail
        /\ n.split = b.split /\ n.head = b.head /\ n.seen = b.seen /\ n.due = b.due /\ n.kind = k
    BY <2>4, <2>6 DEF SetKind, Hand
  <2>8. k \in {"dir", "astray"} /\ (k = "dir" => R = {})
    BY <1>2, <2>3
  <2> HIDE DEF K, R
  <2>9. Dirlike(n)
    BY <2>7, <2>8 DEF Dirlike
  <2>10. n.kind = "dir" => R = {}
    BY <2>7, <2>8
  <2> QED BY <1>2, <2>5, <2>6, <2>7, <2>9, <2>10 DEF R, Recalls
<1> QED BY <1>1, <1>2

(* What is read at h, in d, is read at n, in e.                            *)
LEMMA StoryGoesOn ==
  ASSUME NEW d, Sorted(d), NEW e, Card(e), NEW h, StoryOK(h, d), h.pair \in Listed(d),
         NEW n, NEW N, N \cap All(d) = {}, Fresh(n, e), n.head = h.head,
         Keeps(d, h.pair, h.id, e, n.pair, n.id, N),
         \A x \in n.due : x \in h.due /\ Lists(e, Listing(h.head, x)),
         \A x \in n.seen : x \in h.seen /\ Lists(e, Listing(h.head, x))
  PROVE  StoryOK(n, e)
<1>1. /\ At(d, h.head, h.pair, h.id)
      /\ \A x \in h.due : x = <<x[1], x[2]>> /\ Unread(d, h.head, h.pair, h.id, Listing(h.head, x))
      /\ \A x \in h.seen : x = <<x[1], x[2]>> /\ Read(d, h.head, h.pair, h.id, Listing(h.head, x))
  BY DEF StoryOK
<1>2. Card(d)
  BY DEF Sorted
<1>3. /\ At(e, n.head, n.pair, n.id)
      /\ \A t : Read(e, n.head, n.pair, n.id, t) => t \in N \/ Read(d, h.head, h.pair, h.id, t)
      /\ \A t : Unread(e, n.head, n.pair, n.id, t) => t \in N \/ Unread(d, h.head, h.pair, h.id, t)
  BY <1>1 DEF Keeps
<1>4. ASSUME NEW x, NEW t, t = Listing(h.head, x), Lists(e, t)
      PROVE  Read(e, n.head, n.pair, n.id, t) \/ Unread(e, n.head, n.pair, n.id, t)
  <2>1. t[1] = n.head
    BY <1>4 DEF Listing
  <2> QED BY <1>4, <2>1, EitherSide
<1>5. ASSUME NEW x \in n.due
      PROVE  x = <<x[1], x[2]>> /\ Unread(e, n.head, n.pair, n.id, Listing(n.head, x))
  <2>0. PICK t : t = Listing(h.head, x)
    OBVIOUS
  <2>1. x = <<x[1], x[2]>> /\ Unread(d, h.head, h.pair, h.id, t) /\ Lists(e, t)
    BY <1>1, <1>5, <2>0
  <2>2. ~Read(d, h.head, h.pair, h.id, t) /\ t \notin N
    BY <1>2, <2>1, OneSide, EitherSide
  <2> QED BY <1>3, <1>4, <2>0, <2>1, <2>2
<1>6. ASSUME NEW x \in n.seen
      PROVE  x = <<x[1], x[2]>> /\ Read(e, n.head, n.pair, n.id, Listing(n.head, x))
  <2>0. PICK t : t = Listing(h.head, x)
    OBVIOUS
  <2>1. x = <<x[1], x[2]>> /\ Read(d, h.head, h.pair, h.id, t) /\ Lists(e, t)
    BY <1>1, <1>6, <2>0
  <2>2. ~Unread(d, h.head, h.pair, h.id, t) /\ t \notin N
    BY <1>2, <2>1, OneSide, EitherSide
  <2> QED BY <1>3, <1>4, <2>0, <2>1, <2>2
<1> QED BY <1>3, <1>5, <1>6 DEF StoryOK

(* What lfs_dir_read can return of the directory at a head is listed there.*)
LEMMA StillListed ==
  ASSUME NEW o, Card(o.disk), NEW h, h.head \in Heads(o.disk), NEW x \in StillIn(h, o)
  PROVE  x = <<x[1], x[2]>> /\ Lists(o.disk, Listing(h.head, x))
<1>1. PICK e \in Inside(o.disk, o.lfs.gdisk, h.head) : x = <<e.name, e.node>>
  BY DEF StillIn
<1>2. PICK p \in Chain(o.disk, h.head) : e \in Shown(o.disk, o.lfs.gdisk, p)
  BY <1>1 DEF Inside
<1>3. h.head \in Listed(o.disk) /\ p \in Listed(o.disk)
  BY <1>2, CardHas, ChainCloses
<1>4. PICK i \in DOMAIN o.disk[p].ents : e = o.disk[p].ents[i]
  BY <1>2 DEF Shown, Visible
<1>5. i \in 1 .. Len(o.disk[p].ents)
  BY <1>3, <1>4, CardHas
<1>6. Has(o.disk, h.head, p, i)
  BY <1>2, <1>5 DEF Has
<1>7. Listing(h.head, x) = Triple(o.disk, h.head, p, i)
  BY <1>1, <1>4 DEF Listing, Triple
<1> QED BY <1>1, <1>6, <1>7 DEF Lists

(* A commit takes the handle of an open directory from m to n: it leaves   *)
(* one that has nothing to read, and is off the list, as it is.            *)
Steers(o, m, n, N) ==
  /\ N \cap All(disk) = {}
  /\ Stands(m, disk) /\ (m.pair \notin o.told => Fresh(m, disk)) =>
       Guided(m, n, disk, o.disk, N) \/ Beached(m, n, disk, o.disk)
  /\ Blind(m) /\ m.pair \in o.told \ Listed(disk) =>
       SameStory(n, m) /\ Blind(n) /\ n.pair = m.pair /\ m.pair \in o.held

(* A commit keeps the invariant of an open directory.                      *)
LEMMA AppliedReads ==
  ASSUME Sorted(disk), Dirlike(handle), HandleReads, NEW o, Card(o.disk), NEW p, NEW attrs,
         NEW m, m = Remember(handle, o), NEW n, n = FixUp(m, o, p, attrs),
         NEW N, Steers(o, m, n, N)
  PROVE  ReaderOK(n, o.disk) /\ (n.kind = "dir" => StoryOK(n, o.disk))
<1>1. /\ Hand(m) /\ Dirlike(m) /\ m.pair = handle.pair /\ m.id = handle.id /\ m.count = handle.count
      /\ m.tail = handle.tail /\ m.split = handle.split /\ m.head = handle.head
      /\ m.kind = "dir" =>
           /\ handle.kind = "dir" /\ m.seen = handle.seen \cap StillIn(handle, o)
           /\ m.due = handle.due \cap StillIn(handle, o)
           /\ (Ahead(handle) \ Listed(disk)) \cap (Listed(o.disk) \cup o.held) = {}
  <2>1. Hand(handle)
    BY DEF HandleReads, ReaderOK
  <2>2. /\ Hand(m) /\ Dirlike(m) /\ m.pair = handle.pair /\ m.id = handle.id /\ m.count = handle.count
        /\ m.tail = handle.tail /\ m.split = handle.split /\ m.head = handle.head
        /\ m.kind = "dir" => Recalls(m, handle, o)
    BY <2>1, Remembered
  <2> QED BY <2>2 DEF Recalls
<1>2. ReaderOK(handle, disk) /\ (handle.kind = "dir" => StoryOK(handle, disk)) /\ Card(disk)
  BY DEF HandleReads, Sorted
<1>3. ASSUME StoryOK(handle, disk), ~Blind(handle) \/ handle.pair \in Listed(disk)
      PROVE  /\ At(disk, handle.head, handle.pair, handle.id) /\ Fresh(handle, disk)
             /\ \A x \in handle.due : Unread(disk, handle.head, handle.pair, handle.id, Listing(handle.head, x))
             /\ handle.pair \in Listed(disk)
  <2>1. /\ At(disk, handle.head, handle.pair, handle.id) /\ Fresh(handle, disk)
        /\ \A x \in handle.due : Unread(disk, handle.head, handle.pair, handle.id, Listing(handle.head, x))
    BY <1>3 DEF StoryOK
  <2> QED BY <1>2, <2>1, AtParts
<1>4. CASE Stands(m, disk) /\ (m.pair \notin o.told => Fresh(m, disk))
  <2>1. CASE Guided(m, n, disk, o.disk, N)
    <3>1. /\ SameStory(n, m) /\ Stands(n, o.disk) /\ Fresh(n, o.disk)
          /\ Keeps(disk, handle.pair, handle.id, o.disk, n.pair, n.id, N)
      BY <1>1, <2>1 DEF Guided
    <3>2. Hand(n) /\ n.kind = m.kind /\ n.head = handle.head /\ n.due = m.due /\ n.seen = m.seen
      BY <1>1, <3>1 DEF SameStory, LikeHand
    <3>3. ReaderOK(n, o.disk)
      BY <3>1, <3>2 DEF ReaderOK
    <3>4. ASSUME n.kind = "dir" PROVE StoryOK(n, o.disk)
      <4>1. /\ handle.kind = "dir" /\ n.seen = handle.seen \cap StillIn(handle, o)
            /\ n.due = handle.due \cap StillIn(handle, o)
        BY <1>1, <3>2, <3>4
      <4>2. StoryOK(handle, disk) /\ handle.pair \in Listed(disk)
        BY <1>1, <1>2, <1>4, <4>1 DEF Stands
      <4>3. At(disk, handle.head, handle.pair, handle.id)
        BY <1>3, <4>2
      <4>4. handle.head \in Heads(o.disk)
        BY <3>1, <4>3 DEF Keeps, At
      <4>5. \A x \in StillIn(handle, o) : Lists(o.disk, Listing(handle.head, x))
        BY <4>4, StillListed
      <4>6. N \cap All(disk) = {}
        BY DEF Steers
      <4>7. /\ \A x \in n.due : x \in handle.due /\ Lists(o.disk, Listing(handle.head, x))
            /\ \A x \in n.seen : x \in handle.seen /\ Lists(o.disk, Listing(handle.head, x))
        BY <4>1, <4>5
      <4> QED BY <3>1, <3>2, <4>2, <4>6, <4>7, StoryGoesOn
    <3> QED BY <3>3, <3>4
  <2>2. CASE Beached(m, n, disk, o.disk)
    <3>1. /\ SameStory(n, m) /\ Blind(n) /\ n.pair \in Pair \ Listed(o.disk)
          /\ \A g, t : At(disk, g, handle.pair, handle.id) => ~Unread(disk, g, handle.pair, handle.id, t)
      BY <1>1, <2>2 DEF Beached
    <3>2. Hand(n) /\ n.kind = m.kind /\ n.due = m.due
      BY <3>1 DEF SameStory, LikeHand
    <3>3. ASSUME n.kind = "dir" PROVE n.due = {}
      <4>1. handle.kind = "dir" /\ n.due \subseteq handle.due
        BY <1>1, <3>2, <3>3
      <4>2. handle.pair \in Listed(disk)
        BY <1>1, <1>4 DEF Stands
      <4>3. handle.due = {}
        BY <1>2, <1>3, <3>1, <4>1, <4>2
      <4> QED BY <4>1, <4>3
    <3> QED BY <3>1, <3>2, <3>3 DEF ReaderOK, StoryOK
  <2> QED BY <1>4, <2>1, <2>2 DEF Steers
<1>5. CASE ~Stands(m, disk)
  <2>1. Blind(handle) /\ Blind(m) /\ m.pair \in Pair /\ handle.pair \in Pair
    <3>1. ~Stands(handle, disk)
      BY <1>1, <1>5 DEF Stands
    <3> QED BY <1>1, <1>2, <3>1 DEF ReaderOK, Blind
  <2>2. m.pair \notin Listed(disk)
    <3>1. ASSUME m.pair \in Listed(disk) PROVE FALSE
      <4>1. m.id = 1 /\ Len(disk[m.pair].ents) \in Nat
        BY <1>2, <2>1, <3>1, CardHas DEF Blind
      <4> QED BY <1>5, <3>1, <4>1 DEF Stands
    <3> QED BY <3>1
  <2>3. m.pair \in Ahead(handle) \ Listed(disk)
    BY <1>1, <2>1, <2>2, DirTreeAssumption DEF Ahead
  <2>4. CASE m.pair \in o.told
    <3>1. SameStory(n, m) /\ Blind(n) /\ n.pair = m.pair /\ m.pair \in o.held
      BY <2>1, <2>2, <2>4 DEF Steers
    <3>2. Hand(n) /\ n.kind = m.kind
      BY <3>1 DEF SameStory, LikeHand
    <3>3. n.kind # "dir"
      BY <1>1, <2>3, <3>1, <3>2
    <3> QED BY <2>1, <3>1, <3>2, <3>3 DEF ReaderOK
  <2>5. CASE m.pair \notin o.told
    <3>1. n = m
      BY <2>5, FixUpIs
    <3>2. ASSUME m.kind = "dir" PROVE m.pair \in Pair \ Listed(o.disk) /\ m.due = {}
      <4>1. handle.kind = "dir" /\ m.due \subseteq handle.due /\ m.pair \notin Listed(o.disk)
        BY <1>1, <2>3, <3>2
      <4>2. handle.due = {}
        <5>1. StoryOK(handle, disk) /\ ~At(disk, handle.head, handle.pair, handle.id)
          BY <1>1, <1>2, <2>2, <4>1, AtParts
        <5> QED BY <5>1 DEF StoryOK
      <4> QED BY <2>1, <4>1, <4>2
    <3> QED BY <1>1, <2>1, <3>1, <3>2 DEF ReaderOK, StoryOK
  <2> QED BY <2>4, <2>5
<1>6. CASE Stands(m, disk) /\ m.pair \notin o.told /\ ~Fresh(m, disk)
  <2>1. n = m
    BY <1>6, FixUpIs
  <2>2. ~Fresh(handle, disk) /\ handle.pair \in Listed(disk)
    BY <1>1, <1>6 DEF Fresh, Stands
  <2>3. Blind(m) /\ m.pair \in Pair
    BY <1>1, <1>2, <2>2 DEF ReaderOK, Blind
  <2>4. m.kind # "dir"
    BY <1>1, <1>2, <1>3, <2>2
  <2> QED BY <1>1, <2>1, <2>3, <2>4 DEF ReaderOK
<1> QED BY <1>4, <1>5, <1>6

------------------------------------------------------------------------------
(* Where lfs_dir_read reads.                                               *)

(* With no entry hidden, an id stands for the entry it counts to.          *)
LEMMA NoneSkipped ==
  ASSUME Moves(lfs.gdisk) = {}, NEW h, h.id \in Nat
  PROVE  /\ Behind(h) = h.id
         /\ (h.count = Len(disk[h.pair].ents) /\ h.count \in Nat) \/ ~(h.id <= h.count) =>
              Skipped(h) = h
<1>1. {t \in lfs.gdisk \ {Orphans} : t[1] = h.pair /\ t[2] <= h.id} = {}
  BY DEF Moves
<1>2. Behind(h) = h.id
  <2>1. Behind(h) = h.id + Cardinality({})
    BY <1>1, Zenon DEF Behind
  <2> QED BY <2>1, FS_EmptySet
<1>3. ASSUME (h.count = Len(disk[h.pair].ents) /\ h.count \in Nat) \/ ~(h.id <= h.count)
      PROVE  Skipped(h) = h
  <2>1. ~(h.id <= h.count /\ Behind(h) > Len(disk[h.pair].ents))
    <3>1. CASE h.count = Len(disk[h.pair].ents) /\ h.count \in Nat
      BY <1>2, <3>1
    <3> QED BY <1>3, <3>1
  <2> QED BY <2>1, Zenon DEF Skipped
<1> QED BY <1>2, <1>3

(* A handle at the end of a pair that its directory goes on from.          *)
Crosses(h, d) == h.id = Len(d[h.pair].ents) + 1 /\ d[h.pair].split

(* A read goes on past the ends of pairs until there is an entry, or the   *)
(* directory ends.                                                         *)
LEMMA SoughtReads ==
  ASSUME Card(disk), Moves(lfs.gdisk) = {}, NEW h, Hand(h), Stands(h, disk), Fresh(h, disk),
         NEW n, n = Sought(h)
  PROVE  /\ SameStory(n, h) /\ Hand(n) /\ Stands(n, disk) /\ Fresh(n, disk) /\ ~Crosses(n, disk)
         /\ Keeps(disk, h.pair, h.id, disk, n.pair, n.id, {})
<1>1. PICK g : Seeks(g, h) /\ n = g[Count]
  BY SoughtSteps
<1> DEFINE OK(b) == /\ SameStory(b, h) /\ Hand(b) /\ Stands(b, disk) /\ Fresh(b, disk)
                    /\ Keeps(disk, h.pair, h.id, disk, b.pair, b.id, {})
           Left(b, k) == Crosses(b, disk) => Cardinality(Chain(disk, b.pair)) + k <= Count
           T == {k \in 0 .. Count : OK(g[k]) /\ Left(g[k], k)}
<1>2. ASSUME NEW b, OK(b), NEW c, c = Crossed(b, disk)
      PROVE  /\ OK(c)
             /\ \/ c = b /\ ~Crosses(b, disk)
                \/ Crosses(b, disk) /\ c.pair = disk[b.pair].tail /\ c.id = 1
  <2>1. /\ SameStory(c, b) /\ Hand(c) /\ Stands(c, disk) /\ Fresh(c, disk)
        /\ Keeps(disk, b.pair, b.id, disk, c.pair, c.id, {})
        /\ \/ c = b /\ ~(b.id = Len(disk[b.pair].ents) + 1 /\ disk[b.pair].split)
           \/ /\ b.id = Len(disk[b.pair].ents) + 1 /\ disk[b.pair].split
              /\ c.pair = disk[b.pair].tail /\ c.id = 1
    BY <1>2, CrossedReads
  <2>2. Keeps(disk, h.pair, h.id, disk, c.pair, c.id, {})
    BY <1>2, <2>1, KeepsThen
  <2>3. SameStory(c, h)
    BY <1>2, <2>1 DEF SameStory, LikeHand
  <2> QED BY <2>1, <2>2, <2>3 DEF Crosses
<1>3. OK(h)
  BY KeepsSame DEF SameStory, LikeHand
<1>4. ASSUME NEW b, OK(b) PROVE Skipped(b) = b
  <2>1. b.count = Len(disk[b.pair].ents) /\ b.id \in Nat /\ b.count \in Nat
    BY <1>4, CardHas DEF Fresh, Stands
  <2> QED BY <2>1, NoneSkipped
<1>5. ASSUME NEW b, OK(b) PROVE b.pair \in Listed(disk)
  BY <1>5 DEF Stands
<1> HIDE DEF OK
<1>6. Count \in Nat
  BY PairsAreFinite
<1>7. 0 \in T
  <2>1. OK(g[0])
    BY <1>1, <1>2, <1>3 DEF Seeks
  <2>2. Cardinality(Chain(disk, g[0].pair)) \in 1 .. Count
    BY <1>5, <2>1, ChainsAreFinite
  <2> QED BY <1>6, <2>1, <2>2
<1>8. ASSUME NEW k \in 1 .. Count, k - 1 \in T PROVE k \in T
  <2>1. PICK b : b = g[k - 1]
    OBVIOUS
  <2>2. PICK c : c = g[k]
    OBVIOUS
  <2>3. OK(b) /\ Left(b, k - 1) /\ c = Crossed(b, disk)
    BY <1>1, <1>4, <1>8, <2>1, <2>2 DEF Seeks
  <2>4. /\ OK(c)
        /\ \/ c = b /\ ~Crosses(b, disk)
           \/ Crosses(b, disk) /\ c.pair = disk[b.pair].tail /\ c.id = 1
    BY <1>2, <2>3
  <2>5. CASE Crosses(b, disk) /\ c.pair = disk[b.pair].tail
    <3>1. b.pair \in Listed(disk) /\ c.pair \in Listed(disk) /\ disk[b.pair].split
      BY <1>5, <2>3, <2>4, <2>5 DEF Crosses
    <3>2. /\ Chain(disk, b.pair) = {b.pair} \cup Chain(disk, c.pair)
          /\ b.pair \notin Chain(disk, c.pair)
      BY <2>5, <3>1, ChainFrom, ChainEndsOnce
    <3>3. IsFiniteSet(Chain(disk, c.pair)) /\ Cardinality(Chain(disk, c.pair)) \in 1 .. Count
      BY <3>1, ChainsAreFinite
    <3>4. Cardinality(Chain(disk, c.pair) \cup {b.pair}) = Cardinality(Chain(disk, c.pair)) + 1
      BY <3>2, <3>3, FS_AddElement
    <3>5. Chain(disk, b.pair) = Chain(disk, c.pair) \cup {b.pair}
      BY <3>2
    <3>6. Cardinality(Chain(disk, b.pair)) = Cardinality(Chain(disk, c.pair)) + 1
      BY <3>4, <3>5
    <3>7. Cardinality(Chain(disk, b.pair)) + (k - 1) <= Count
      BY <2>3, <2>5
    <3>8. Cardinality(Chain(disk, c.pair)) + k <= Count
      BY <1>6, <3>3, <3>6, <3>7
    <3> QED BY <1>6, <2>2, <2>4, <3>8
  <2>6. CASE c = b /\ ~Crosses(b, disk)
    <3>1. Left(c, k)
      BY <2>6
    <3> QED BY <1>6, <2>2, <2>4, <3>1
  <2> QED BY <2>4, <2>5, <2>6
<1>9. T = 0 .. Count
  <2>1. T \in SUBSET (0 .. Count)
    OBVIOUS
  <2> HIDE DEF T
  <2> QED BY <1>6, <1>7, <1>8, <2>1, UpTo
<1>10. OK(n) /\ Left(n, Count)
  BY <1>1, <1>6, <1>9
<1>11. Cardinality(Chain(disk, n.pair)) \in 1 .. Count
  BY <1>5, <1>10, ChainsAreFinite
<1>12. ~Crosses(n, disk)
  BY <1>6, <1>10, <1>11
<1> QED BY <1>10, <1>12 DEF OK

(* A handle with nothing to read stays where it is.                        *)
LEMMA SoughtBlind ==
  ASSUME Moves(lfs.gdisk) = {}, NEW h, Hand(h), Blind(h)
  PROVE  Sought(h) = h
<1>1. PICK g : Seeks(g, h) /\ Sought(h) = g[Count]
  BY SoughtSteps
<1>2. PICK c : c = Crossed(h, disk)
  OBVIOUS
<1>3. c = h
  BY <1>2, CrossedIs DEF Blind
<1>4. Skipped(h) = h
  BY NoneSkipped DEF Blind
<1> DEFINE T == {k \in 0 .. Count : g[k] = h}
<1>5. Count \in Nat
  BY PairsAreFinite
<1>6. 0 \in T
  BY <1>1, <1>2, <1>3, <1>5 DEF Seeks
<1>7. ASSUME NEW k \in 1 .. Count, k - 1 \in T PROVE k \in T
  <2>1. g[k] = Crossed(Skipped(g[k - 1]), disk)
    BY <1>1 DEF Seeks
  <2>2. g[k - 1] = h
    BY <1>7
  <2>3. g[k] = h
    BY <1>2, <1>3, <1>4, <2>1, <2>2
  <2> QED BY <1>5, <2>3
<1>8. T = 0 .. Count
  <2>1. T \in SUBSET (0 .. Count)
    OBVIOUS
  <2> HIDE DEF T
  <2> QED BY <1>5, <1>6, <1>7, <2>1, UpTo
<1> QED BY <1>1, <1>5, <1>8

(* A read stops at the first entry that it comes to.                       *)
LEMMA SoughtTwice ==
  ASSUME Card(disk), Moves(lfs.gdisk) = {}, NEW h, Hand(h), Stands(h, disk), Fresh(h, disk),
         NEW c, c = Crossed(h, disk), NEW b, b = Crossed(c, disk), ~Crosses(b, disk)
  PROVE  Sought(h) = b
<1>1. PICK g : Seeks(g, h) /\ Sought(h) = g[Count]
  BY SoughtSteps
<1>2. Hand(c) /\ Stands(c, disk) /\ Fresh(c, disk)
  BY CrossedReads
<1>3. Hand(b) /\ Stands(b, disk) /\ Fresh(b, disk)
  BY <1>2, CrossedReads
<1>4. ASSUME NEW r, Stands(r, disk), Fresh(r, disk) PROVE Skipped(r) = r
  <2>1. r.count = Len(disk[r.pair].ents) /\ r.id \in Nat /\ r.count \in Nat
    BY <1>4, CardHas DEF Fresh, Stands
  <2> QED BY <2>1, NoneSkipped
<1>5. Crossed(b, disk) = b
  <2>1. PICK n : n = Crossed(b, disk)
    OBVIOUS
  <2>2. n = b
    BY <1>3, <2>1, CrossedReads DEF Crosses
  <2> QED BY <2>1, <2>2
<1> DEFINE T == {k \in 0 .. Count : k = 0 \/ g[k] = b}
<1>6. Count \in Nat /\ Count >= 1
  <2>1. Root \in Listed(disk)
    BY CardHas
  <2> QED BY <2>1, ChainsAreFinite, PairsAreFinite
<1>7. 0 \in T
  BY <1>6
<1>8. ASSUME NEW k \in 1 .. Count, k - 1 \in T PROVE k \in T
  <2>1. g[k] = Crossed(Skipped(g[k - 1]), disk)
    BY <1>1 DEF Seeks
  <2>2. CASE k - 1 = 0
    <3>1. g[k - 1] = c
      BY <1>1, <2>2 DEF Seeks
    <3>2. g[k] = b
      BY <1>2, <1>4, <2>1, <3>1
    <3> QED BY <1>6, <3>2
  <2>3. CASE g[k - 1] = b
    <3>1. g[k] = b
      BY <1>3, <1>4, <1>5, <2>1, <2>3
    <3> QED BY <1>6, <3>1
  <2> QED BY <1>8, <2>2, <2>3
<1>9. T = 0 .. Count
  <2>1. T \in SUBSET (0 .. Count)
    OBVIOUS
  <2> HIDE DEF T
  <2> QED BY <1>6, <1>7, <1>8, <2>1, UpTo
<1> QED BY <1>1, <1>6, <1>9

(* An entry that may be removed is not the one that a directory reads      *)
(* next.                                                                   *)
LEMMA RemovesIs ==
  ASSUME "next" \notin Uses, Card(disk), Moves(lfs.gdisk) = {}, Dirlike(handle), HandleReads,
         NEW p, NEW i, Removes(p, i)
  PROVE  /\ ~(Sought(handle).pair = p /\ Sought(handle).id = i)
         /\ p \in Listed(disk) /\ i \in 1 .. Len(disk[p].ents) => ~(handle.pair = p /\ handle.id = i)
<1>1. PICK h : h = handle
  OBVIOUS
<1>2. ~(Sought(h).pair = p /\ Sought(h).id = i)
  <2>1. handle.kind \notin {"none", "reg"}
    BY DEF Dirlike
  <2> QED BY <1>1, <2>1 DEF Removes
<1>3. Hand(h) /\ ((Stands(h, disk) /\ Fresh(h, disk)) \/ Blind(h))
  BY <1>1 DEF HandleReads, ReaderOK
<1>4. ASSUME p \in Listed(disk), i \in 1 .. Len(disk[p].ents), h.pair = p, h.id = i
      PROVE  Sought(h) = h
  <2>1. CASE Blind(h)
    BY <1>3, <2>1, SoughtBlind
  <2>2. CASE Stands(h, disk) /\ Fresh(h, disk)
    <3>1. ~Crosses(h, disk)
      <4>1. Len(disk[p].ents) \in Nat
        BY <1>4, CardHas
      <4> QED BY <1>4, <4>1 DEF Crosses
    <3>2. PICK c : c = Crossed(h, disk)
      OBVIOUS
    <3>3. c = h
      BY <1>3, <2>2, <3>1, <3>2, CrossedReads DEF Crosses
    <3> QED BY <1>3, <2>2, <3>1, <3>2, <3>3, SoughtTwice
  <2> QED BY <1>3, <2>1, <2>2
<1> QED BY <1>1, <1>2, <1>4

(* Nothing is left to be read at the end of a directory.                   *)
LEMMA EndReads ==
  ASSUME NEW d, Card(d), NEW h, NEW p, NEW i, At(d, h, p, i), i = Len(d[p].ents) + 1, ~d[p].split, NEW t
  PROVE  ~Unread(d, h, p, i, t)
<1>1. SUFFICES ASSUME NEW x, NEW k, Has(d, h, x, k) PROVE Before(d, x, k, p, i)
  BY DEF Unread
<1>2. /\ x \in Chain(d, h) /\ k \in 1 .. Len(d[x].ents) /\ h \in Listed(d) /\ x \in Listed(d)
      /\ p \in Chain(d, h) /\ p \in Listed(d) /\ Len(d[x].ents) \in Nat
  BY <1>1, HasIs, AtParts, CardHas
<1>3. CASE x = p
  BY <1>2, <1>3 DEF Before
<1>4. CASE x # p
  <2>1. x \notin Chain(d, p)
    BY <1>2, <1>4, ChainFrom
  <2>2. p \in Chain(d, x)
    BY <1>2, <2>1, ChainTotal
  <2> QED BY <1>4, <2>2 DEF Before
<1> QED BY <1>3, <1>4

(* A reader goes on behind an entry.                                       *)
LEMMA NextReads ==
  ASSUME NEW d, Sorted(d), NEW h, NEW p, NEW i, At(d, h, p, i), i \in 1 .. Len(d[p].ents),
         NEW x, x = Triple(d, h, p, i), NEW t
  PROVE  /\ At(d, h, p, i + 1) /\ Lists(d, x) /\ Unread(d, h, p, i, x)
         /\ Read(d, h, p, i + 1, t) <=> Read(d, h, p, i, t) \/ t = x
         /\ Unread(d, h, p, i + 1, t) <=> Unread(d, h, p, i, t) /\ t # x
<1>1. /\ Card(d) /\ h \in Heads(d) /\ p \in Chain(d, h) /\ p \in Listed(d)
      /\ Len(d[p].ents) \in Nat /\ i \in Nat
  BY AtParts DEF Sorted
<1>2. At(d, h, p, i + 1) /\ Has(d, h, p, i)
  BY <1>1 DEF At, Has
<1>3. ~Before(d, p, i, p, i) /\ Before(d, p, i, p, i + 1)
  BY <1>1 DEF Before
<1>4. ASSUME NEW r, NEW k, Has(d, h, r, k)
      PROVE  Before(d, r, k, p, i + 1) <=> Before(d, r, k, p, i) \/ (r = p /\ k = i)
  <2>1. k \in Nat
    BY <1>1, <1>4, HasIs
  <2>2. k < i + 1 <=> k < i \/ k = i
    BY <1>1, <2>1
  <2> QED BY <2>2 DEF Before
<1>5. ASSUME NEW r, NEW k, Has(d, h, r, k) PROVE Triple(d, h, r, k) = x <=> r = p /\ k = i
  BY <1>2, <1>5, OneTriple
<1>6. Lists(d, x) /\ Unread(d, h, p, i, x)
  BY <1>2, <1>3 DEF Lists, Unread
<1>7. Read(d, h, p, i + 1, t) => Read(d, h, p, i, t) \/ t = x
  BY <1>4, <1>5 DEF Read
<1>8. Read(d, h, p, i, t) \/ t = x => Read(d, h, p, i + 1, t)
  BY <1>2, <1>3, <1>4 DEF Read
<1>9. Unread(d, h, p, i + 1, t) => Unread(d, h, p, i, t) /\ t # x
  BY <1>4, <1>5 DEF Unread
<1>10. Unread(d, h, p, i, t) /\ t # x => Unread(d, h, p, i + 1, t)
  BY <1>4, <1>5 DEF Unread
<1> QED BY <1>2, <1>6, <1>7, <1>8, <1>9, <1>10

(* Going on past the ends of pairs keeps the invariant.                    *)
LEMMA SoughtOK ==
  ASSUME Sorted(disk), Moves(lfs.gdisk) = {}, NEW h, ReaderOK(h, disk),
         h.kind = "dir" => StoryOK(h, disk), NEW s, s = Sought(h)
  PROVE  /\ SameStory(s, h) /\ Hand(s) /\ ReaderOK(s, disk) /\ (s.kind = "dir" => StoryOK(s, disk))
         /\ (s.id > s.count => ~s.split)
         /\ Blind(s) \/ (Stands(s, disk) /\ Fresh(s, disk))
<1>1. Hand(h) /\ ((Stands(h, disk) /\ Fresh(h, disk)) \/ (Blind(h) /\ h.pair \in Pair)) /\ Card(disk)
  BY DEF ReaderOK, Sorted
<1>2. CASE Blind(h)
  <2>1. s = h
    BY <1>1, <1>2, SoughtBlind
  <2>2. SameStory(s, h)
    BY <1>1, <2>1 DEF SameStory, LikeHand
  <2> QED BY <1>1, <1>2, <2>1, <2>2 DEF Blind
<1>3. CASE Stands(h, disk) /\ Fresh(h, disk)
  <2>1. /\ SameStory(s, h) /\ Hand(s) /\ Stands(s, disk) /\ Fresh(s, disk) /\ ~Crosses(s, disk)
        /\ Keeps(disk, h.pair, h.id, disk, s.pair, s.id, {})
    BY <1>1, <1>3, SoughtReads
  <2>2. s.kind = h.kind /\ s.head = h.head /\ s.due = h.due /\ s.seen = h.seen
    BY <2>1 DEF SameStory, LikeHand
  <2>3. s.id > s.count => ~s.split
    <3>1. s.id \in 1 .. (Len(disk[s.pair].ents) + 1) /\ Len(disk[s.pair].ents) \in Nat
      BY <1>1, <2>1, CardHas DEF Stands
    <3> QED BY <2>1, <3>1 DEF Fresh, Crosses
  <2>4. ASSUME h.kind = "dir" PROVE StoryOK(s, disk)
    <3>1. StoryOK(h, disk) /\ h.pair \in Listed(disk)
      BY <1>3, <2>4 DEF Stands
    <3>2. ASSUME NEW x, x \in h.due \/ x \in h.seen PROVE Lists(disk, Listing(h.head, x))
      <4>0. PICK t : t = Listing(h.head, x)
        OBVIOUS
      <4>1. Unread(disk, h.head, h.pair, h.id, t) \/ Read(disk, h.head, h.pair, h.id, t)
        BY <3>1, <3>2, <4>0 DEF StoryOK
      <4>2. Lists(disk, t)
        BY <4>1 DEF Read, Unread, Lists
      <4> QED BY <4>0, <4>2
    <3>3. /\ \A x \in s.due : x \in h.due /\ Lists(disk, Listing(h.head, x))
          /\ \A x \in s.seen : x \in h.seen /\ Lists(disk, Listing(h.head, x))
      BY <2>2, <3>2
    <3>4. {} \cap All(disk) = {}
      OBVIOUS
    <3> QED BY <1>1, <2>1, <2>2, <3>1, <3>3, <3>4, StoryGoesOn
  <2> QED BY <2>1, <2>2, <2>3, <2>4 DEF ReaderOK
<1> QED BY <1>1, <1>2, <1>3

(* The handle s, gone past an entry that lfs_dir_read returns as r.        *)
Passed(n, s, r) ==
  /\ Hand(n) /\ n.kind = s.kind /\ n.pair = s.pair /\ n.id = s.id + 1 /\ n.count = s.count
  /\ n.tail = s.tail /\ n.split = s.split /\ n.head = s.head /\ n.seen = s.seen \cup {r}
  /\ n.due = s.due \ {r}
LEMMA PassedIs ==
  ASSUME NEW s, Hand(s), NEW r, NEW n, n = [s EXCEPT !.id = @ + 1, !.seen = @ \cup {r}, !.due = @ \ {r}]
  PROVE  Passed(n, s, r)
<1>1. PICK i, S, D : i = s.id + 1 /\ S = s.seen \cup {r} /\ D = s.due \ {r}
  OBVIOUS
<1>2. PICK a : a = SetId(s, i)
  OBVIOUS
<1>3. PICK b : b = SetSeen(a, S)
  OBVIOUS
<1>4. n = SetDue(b, D)
  BY <1>1, <1>2, <1>3, Zenon DEF SetId, SetSeen, SetDue
<1>5. /\ Hand(a) /\ a.kind = s.kind /\ a.pair = s.pair /\ a.id = i /\ a.count = s.count
      /\ a.tail = s.tail /\ a.split = s.split /\ a.head = s.head /\ a.seen = s.seen /\ a.due = s.due
  BY ONLY Hand(s), <1>2 DEF SetId, Hand
<1>6. /\ Hand(b) /\ b.kind = a.kind /\ b.pair = a.pair /\ b.id = a.id /\ b.count = a.count
      /\ b.tail = a.tail /\ b.split = a.split /\ b.head = a.head /\ b.seen = S /\ b.due = a.due
  BY ONLY <1>3, <1>5 DEF SetSeen, Hand
<1>7. /\ Hand(n) /\ n.kind = b.kind /\ n.pair = b.pair /\ n.id = b.id /\ n.count = b.count
      /\ n.tail = b.tail /\ n.split = b.split /\ n.head = b.head /\ n.seen = b.seen /\ n.due = D
  BY ONLY <1>4, <1>6 DEF SetDue, Hand
<1> QED BY ONLY <1>1, <1>5, <1>6, <1>7 DEF Passed

(* A directory at an entry goes past it when it returns it, and has not    *)
(* returned it before.                                                     *)
LEMMA ReadNext ==
  ASSUME Sorted(disk), NEW s, Hand(s), Stands(s, disk), Fresh(s, disk), s.id <= s.count,
         s.kind = "dir" => StoryOK(s, disk), NEW e, e = disk[s.pair].ents[s.id],
         NEW r, r = <<e.name, e.node>>, NEW n, Passed(n, s, r)
  PROVE  /\ ReaderOK(n, disk) /\ n.kind = s.kind
         /\ n.kind = "dir" => StoryOK(n, disk) /\ n.seen # s.seen
<1>0. Card(disk)
  BY DEF Sorted
<1>1. /\ Hand(n) /\ n.kind = s.kind /\ n.pair = s.pair /\ n.id = s.id + 1 /\ n.count = s.count
      /\ n.tail = s.tail /\ n.split = s.split /\ n.head = s.head /\ n.seen = s.seen \cup {r}
      /\ n.due = s.due \ {r}
  BY DEF Passed
<1>2. s.pair \in Listed(disk) /\ Len(disk[s.pair].ents) \in Nat /\ s.id \in 1 .. Len(disk[s.pair].ents)
  BY <1>0, CardHas DEF Stands, Fresh
<1>3. Stands(n, disk) /\ Fresh(n, disk)
  <2>1. s.id + 1 \in 1 .. (Len(disk[s.pair].ents) + 1)
    BY <1>2
  <2>2. n.count = Len(disk[n.pair].ents) /\ n.tail = disk[n.pair].tail /\ n.split = disk[n.pair].split
    BY ONLY <1>1, Fresh(s, disk) DEF Fresh
  <2> QED BY ONLY <1>1, <1>2, <2>1, <2>2 DEF Stands, Fresh
<1>4. ASSUME n.kind = "dir" PROVE StoryOK(n, disk) /\ n.seen # s.seen
  <2> DEFINE h == s.head  p == s.pair  i == s.id
  <2>1. /\ At(disk, h, p, i)
        /\ \A x \in s.due : x = <<x[1], x[2]>> /\ Unread(disk, h, p, i, Listing(h, x))
        /\ \A x \in s.seen : x = <<x[1], x[2]>> /\ Read(disk, h, p, i, Listing(h, x))
    BY <1>1, <1>2, <1>4 DEF StoryOK
  <2>2. PICK t : t = Triple(disk, h, p, i)
    OBVIOUS
  <2>3. t = Listing(h, r) /\ r = <<r[1], r[2]>>
    BY <2>2 DEF Triple, Listing
  <2>4. /\ At(disk, h, p, i + 1) /\ Lists(disk, t) /\ Unread(disk, h, p, i, t)
        /\ \A u : Read(disk, h, p, i + 1, u) <=> Read(disk, h, p, i, u) \/ u = t
        /\ \A u : Unread(disk, h, p, i + 1, u) <=> Unread(disk, h, p, i, u) /\ u # t
    BY <1>2, <2>1, <2>2, NextReads
  <2>5. r \notin s.seen
    BY <2>1, <2>3, <2>4, OneSide
  <2>6. ASSUME NEW x \in n.due
        PROVE  x = <<x[1], x[2]>> /\ Unread(disk, h, p, i + 1, Listing(h, x))
    <3>1. x \in s.due /\ x # r /\ x = <<x[1], x[2]>>
      BY <1>1, <2>1, <2>6
    <3>2. Listing(h, x) # t
      BY <2>3, <3>1 DEF Listing
    <3> QED BY <2>1, <2>4, <3>1, <3>2
  <2>7. ASSUME NEW x \in n.seen
        PROVE  x = <<x[1], x[2]>> /\ Read(disk, h, p, i + 1, Listing(h, x))
    BY <1>1, <2>1, <2>3, <2>4, <2>7
  <2> QED BY <1>1, <1>3, <2>4, <2>5, <2>6, <2>7 DEF StoryOK
<1> QED BY <1>1, <1>3, <1>4 DEF ReaderOK

(* At its end a directory has returned all it had to.                      *)
LEMMA ReadAll ==
  ASSUME Card(disk), NEW s, s.id > s.count, s.id > s.count => ~s.split,
         Blind(s) \/ (Stands(s, disk) /\ Fresh(s, disk)), StoryOK(s, disk)
  PROVE  s.due = {}
<1>1. CASE Blind(s) /\ s.pair \in Pair \ Listed(disk) /\ s.due = {}
  BY <1>1
<1>2. CASE /\ At(disk, s.head, s.pair, s.id) /\ Fresh(s, disk)
           /\ \A x \in s.due : x = <<x[1], x[2]>> /\ Unread(disk, s.head, s.pair, s.id, Listing(s.head, x))
  <2>1. s.id = Len(disk[s.pair].ents) + 1 /\ ~disk[s.pair].split
    <3>1. s.id \in 1 .. (Len(disk[s.pair].ents) + 1) /\ Len(disk[s.pair].ents) \in Nat
      BY <1>2, AtParts
    <3> QED BY <1>2, <3>1 DEF Fresh
  <2>2. \A t : ~Unread(disk, s.head, s.pair, s.id, t)
    BY <1>2, <2>1, EndReads
  <2> QED BY <1>2, <2>2
<1> QED BY <1>1, <1>2 DEF StoryOK

(* A read of a directory says that it is at its end only when nothing is   *)
(* due, returns no entry twice, and never finds its pair dropped.          *)
ReadsWell ==
  /\ result' # "unreadable"
  /\ handle.kind = "dir" /\ result' = "end" => handle.due = {}
  /\ handle.kind = "dir" /\ result' = "read" => handle'.seen # handle.seen
LEMMA ReadDirReads ==
  ASSUME Sorted(disk), ReadInv, ReadDir
  PROVE  ReadInv' /\ ReadsWell
<1>1. /\ op.at = "idle" /\ Dirlike(handle) /\ UNCHANGED <<disk, lfs>> /\ op' = Idle
      /\ Card(disk) /\ NoPair \notin Pair
  BY DirTreeAssumption DEF ReadDir, Dirlike, Return, Sorted
<1>2. HandleReads /\ Moves(lfs.gdisk) = {}
  BY <1>1 DEF ReadInv, WatchOK
<1>3. PICK s : s = Sought(handle)
  OBVIOUS
<1>4. /\ SameStory(s, handle) /\ Hand(s) /\ ReaderOK(s, disk) /\ (s.kind = "dir" => StoryOK(s, disk))
      /\ (s.id > s.count => ~s.split)
      /\ Blind(s) \/ (Stands(s, disk) /\ Fresh(s, disk))
  BY <1>2, <1>3, SoughtOK DEF HandleReads
<1>5. s.kind = handle.kind /\ s.seen = handle.seen /\ s.due = handle.due
  BY <1>4 DEF SameStory, LikeHand
<1>6. \/ s.id > s.count /\ handle' = s /\ result' = "end"
      \/ s.id <= s.count /\ s.pair = NoPair
      \/ /\ s.id <= s.count /\ s.pair # NoPair /\ result' = "read"
         /\ LET e == disk[s.pair].ents[Behind(s)]
                r == <<e.name, e.node>>
            IN handle' = [s EXCEPT !.id = @ + 1, !.seen = @ \cup {r}, !.due = @ \ {r}]
  BY <1>3, Zenon DEF ReadDir, Return
<1>7. ASSUME ReaderOK(handle', disk), handle'.kind = handle.kind,
             handle'.kind = "dir" => StoryOK(handle', disk)
      PROVE  ReadInv'
  BY <1>1, <1>2, <1>7 DEF ReadInv, HandleReads, WatchOK, Idle, Dirlike
<1>8. CASE s.id > s.count /\ handle' = s /\ result' = "end"
  <2>1. handle.kind = "dir" => handle.due = {}
    BY <1>1, <1>4, <1>5, <1>8, ReadAll
  <2> QED BY <1>4, <1>5, <1>7, <1>8, <2>1 DEF ReadsWell
<1>9. ASSUME s.id <= s.count PROVE s.pair \in Pair /\ Stands(s, disk) /\ Fresh(s, disk) /\ Behind(s) = s.id
  <2>1. Stands(s, disk) /\ Fresh(s, disk)
    BY <1>4, <1>9 DEF Blind
  <2>2. s.pair \in Pair /\ s.id \in Nat
    BY <1>1, <2>1, CardHas DEF Stands
  <2> QED BY <1>2, <2>1, <2>2, NoneSkipped
<1>10. CASE s.id <= s.count /\ s.pair = NoPair
  BY <1>1, <1>9, <1>10
<1>11. CASE /\ s.id <= s.count /\ s.pair # NoPair /\ result' = "read"
            /\ LET e == disk[s.pair].ents[Behind(s)]
                   r == <<e.name, e.node>>
               IN handle' = [s EXCEPT !.id = @ + 1, !.seen = @ \cup {r}, !.due = @ \ {r}]
  <2>1. PICK e, r : e = disk[s.pair].ents[s.id] /\ r = <<e.name, e.node>>
    OBVIOUS
  <2>2. handle' = [s EXCEPT !.id = @ + 1, !.seen = @ \cup {r}, !.due = @ \ {r}]
    BY <1>9, <1>11, <2>1
  <2>3. PICK n : n = handle'
    OBVIOUS
  <2>4. /\ ReaderOK(n, disk) /\ n.kind = s.kind
        /\ n.kind = "dir" => StoryOK(n, disk) /\ n.seen # s.seen
    <3>1. Passed(n, s, r)
      <4>1. n = [s EXCEPT !.id = @ + 1, !.seen = @ \cup {r}, !.due = @ \ {r}]
        BY ONLY <2>2, <2>3
      <4>2. Hand(s)
        BY <1>4
      <4> QED BY ONLY <4>1, <4>2, PassedIs
    <3>2. s.id <= s.count /\ Stands(s, disk) /\ Fresh(s, disk)
      BY <1>9, <1>11
    <3>3. Hand(s) /\ (s.kind = "dir" => StoryOK(s, disk))
      BY <1>4
    <3>4. e = disk[s.pair].ents[s.id] /\ r = <<e.name, e.node>>
      BY <2>1
    <3> QED BY ONLY Sorted(disk), <3>1, <3>2, <3>3, <3>4, ReadNext, ZenonT(60)
  <2>5. ReadInv'
    BY <1>5, <1>7, <2>3, <2>4
  <2> QED BY <1>5, <1>11, <2>3, <2>4, <2>5 DEF ReadsWell
<1> QED BY <1>6, <1>8, <1>10, <1>11

------------------------------------------------------------------------------
(* What each commit does to an open directory.                             *)

(* A handle that is where the open one is; a commit that is right for all  *)
(* of them, whatever they remember.                                        *)
SamePlace(m) ==
  /\ Hand(m) /\ m.pair = handle.pair /\ m.id = handle.id /\ m.count = handle.count
  /\ m.tail = handle.tail /\ m.split = handle.split
Steering(o, p, attrs, N) == \A m, n : SamePlace(m) /\ n = FixUp(m, o, p, attrs) => Steers(o, m, n, N)

(* A commit to pairs of the list has nothing to say to a handle off it.    *)
LEMMA SteersIf ==
  ASSUME NEW o, o.told \subseteq Listed(disk), NEW N, N \cap All(disk) = {}, NEW p, NEW attrs,
         \A m, n : /\ SamePlace(m) /\ Stands(m, disk) /\ (m.pair \notin o.told => Fresh(m, disk))
                   /\ n = FixUp(m, o, p, attrs)
                   => Guided(m, n, disk, o.disk, N) \/ Beached(m, n, disk, o.disk)
  PROVE  Steering(o, p, attrs, N)
<1>1. ASSUME NEW m, NEW n, SamePlace(m), n = FixUp(m, o, p, attrs) PROVE Steers(o, m, n, N)
  <2>1. ~(m.pair \in o.told \ Listed(disk))
    OBVIOUS
  <2>2. Stands(m, disk) /\ (m.pair \notin o.told => Fresh(m, disk)) =>
          Guided(m, n, disk, o.disk, N) \/ Beached(m, n, disk, o.disk)
    BY <1>1
  <2> QED BY ONLY N \cap All(disk) = {}, <2>1, <2>2 DEF Steers
<1> QED BY <1>1 DEF Steering

(* Only the card and who was told of it matter, not the global state.      *)
LEMMA SteeringSame ==
  ASSUME NEW o, NEW k, k.disk = o.disk, k.told = o.told, k.held = o.held, NEW p, NEW attrs, NEW N,
         Steering(o, p, attrs, N)
  PROVE  Steering(k, p, attrs, N)
<1>1. ASSUME NEW m, NEW n, SamePlace(m), n = FixUp(m, k, p, attrs) PROVE Steers(k, m, n, N)
  <2>1. n = FixUp(m, o, p, attrs)
    BY <1>1, SameFixUp
  <2>2. Steers(o, m, n, N)
    BY <1>1, <2>1 DEF Steering
  <2> QED BY ONLY <2>2, k.disk = o.disk, k.told = o.told, k.held = o.held DEF Steers
<1> QED BY <1>1 DEF Steering

(* A call that has applied such a commit keeps the invariant.              *)
LEMMA CommitReads ==
  ASSUME Inv, Sorted(disk), ReadInv, NEW o, Card(o.disk), NEW p, NEW attrs, Len(attrs) \in Nat,
         Apply(o, p, attrs), NEW N, Dirlike(handle) => Steering(o, p, attrs, N),
         Dirlike(handle) /\ op'.at # "rename_delete" => Moves(o.lfs.gdisk) = {},
         Dirlike(handle) /\ op'.at = "rename_delete" => ~(handle'.pair = op'.pair /\ handle'.id = op'.id)
  PROVE  ReadInv'
<1>0. PICK m, n : m = Remember(handle, o) /\ n = FixUp(m, o, p, attrs)
  OBVIOUS
<1>1. Hand(handle) /\ handle.kind \in Kinds
  BY DEF Inv, HandleOK, Follows
<1>2. handle' = n /\ disk' = o.disk /\ lfs' = o.lfs
  BY <1>0 DEF Apply
<1>3. CASE ~Dirlike(handle)
  <2>1. m = handle
    BY <1>0, <1>3, Zenon DEF Remember, Dirlike
  <2>2. LikeHand(n, handle)
    BY <1>0, <1>1, <2>1, FixUpKind
  <2>3. n.kind = handle.kind
    BY <2>2 DEF LikeHand
  <2> QED BY <1>2, <1>3, <2>3 DEF ReadInv, Dirlike
<1>4. CASE Dirlike(handle)
  <2>1. HandleReads /\ WatchOK
    BY <1>4 DEF ReadInv
  <2>2. SamePlace(m)
    <3>1. /\ Hand(m) /\ m.pair = handle.pair /\ m.id = handle.id /\ m.count = handle.count
          /\ m.tail = handle.tail /\ m.split = handle.split
      BY <1>0, <1>1, <1>4, Remembered
    <3> QED BY <3>1 DEF SamePlace
  <2>3. Steers(o, m, n, N)
    BY <1>0, <1>4, <2>2 DEF Steering
  <2>4. ReaderOK(n, o.disk) /\ (n.kind = "dir" => StoryOK(n, o.disk))
    BY ONLY Sorted(disk), Card(o.disk), <1>0, <1>4, <2>1, <2>3, AppliedReads
  <2>5. HandleReads'
    BY <1>2, <2>4 DEF HandleReads
  <2>6. WatchOK'
    BY <1>2, <1>4 DEF WatchOK
  <2> QED BY <2>5, <2>6 DEF ReadInv
<1> QED BY <1>3, <1>4

(* Dropping an orphan leaves an open directory readable: the orphan itself *)
(* has nothing to read.                                                    *)
LEMMA DroppingReads ==
  ASSUME Sure, NamesInv, Inv', ReadInv, NEW p, NEW q, NEW o, Dropping(p, q, o),
         op'.at # "rename_delete"
  PROVE  ReadInv'
<1>1. Inv /\ Sorted(disk) /\ Card(disk) /\ CardOK(disk, OnCard(disk))
  BY NamesHave
<1>2. Clean(Now) /\ Now.disk = disk /\ Now.told = {}
  BY <1>1, NowClean DEF Dropping
<1>3. Bare(disk, q) /\ q # NoPair
  BY <1>1, CardIs DEF CardOK, OrphansOK, Orphaned, Dropping
<1>4. PICK s : s = Now
  OBVIOUS
<1>5. /\ Clean(s) /\ s.told = {} /\ Card(s.disk) /\ p \in Listed(s.disk) /\ ~s.disk[p].split
      /\ q = s.disk[p].tail /\ q # NoPair /\ Bare(s.disk, q) /\ o \in Drop(s, p, q) /\ s.disk = disk
  BY <1>1, <1>2, <1>3, <1>4 DEF Dropping
<1>6. o.told = {p}
  <2>1. PICK d \in Disks : Committed(s, p, d, o) /\ Dropped(s.disk, d, p, q)
    BY ONLY Sure, <1>5, DropIs
  <2> QED BY <1>5, <2>1 DEF Committed
<1>7. Card(o.disk) /\ Moves(o.lfs.gdisk) = {}
  BY DropNow DEF Sorted
<1>8. Apply(o, p, <<>>) /\ p \in Listed(disk)
  BY DEF Dropping
<1>9. PICK attrs : attrs = <<>>
  OBVIOUS
<1>10. Steering(o, p, attrs, {})
  <2>1. o.told \subseteq Listed(disk) /\ {} \cap All(disk) = {}
    BY <1>6, <1>8
  <2>2. ASSUME NEW m, NEW n, SamePlace(m), Stands(m, disk), m.pair \notin o.told => Fresh(m, disk),
               n = FixUp(m, o, p, attrs)
        PROVE  Guided(m, n, disk, o.disk, {}) \/ Beached(m, n, disk, o.disk)
    <3>1. /\ Hand(m) /\ Stands(m, s.disk) /\ (m.pair \notin o.told => Fresh(m, s.disk))
          /\ n = FixUp(m, o, p, <<>>)
      BY <1>5, <1>9, <2>2 DEF SamePlace
    <3>2. Guided(m, n, s.disk, o.disk, {}) \/ Beached(m, n, s.disk, o.disk)
      BY ONLY Sure, <1>5, <3>1, DropReads
    <3> QED BY <1>5, <3>2
  <2> QED BY <2>1, <2>2, SteersIf
<1>11. Len(attrs) \in Nat /\ Apply(o, p, attrs)
  BY <1>8, <1>9
<1>12. Dirlike(handle) => Steering(o, p, attrs, {})
  BY <1>10
<1> QED BY <1>1, <1>7, <1>11, <1>12, CommitReads

(* A deletion leaves an open directory readable, unless it is the entry    *)
(* that the directory reads next.                                          *)
LEMMA DeletingReads ==
  ASSUME Sure, NamesInv, ReadInv, NEW s, NEW p, NEW i, NEW o, NEW k, Deleting(s, p, i, o, k),
         Apply(k, p, <<Del(i)>>), Moves(s.lfs.gstate) = {},
         Dirlike(handle) => ~(handle.pair = p /\ handle.id = i), op'.at # "rename_delete"
  PROVE  ReadInv'
<1>1. Inv /\ Sorted(disk) /\ Card(disk)
  BY NamesHave
<1>2. /\ Clean(s) /\ s.ok = TRUE /\ s.told = {} /\ Card(s.disk) /\ p \in Listed(s.disk)
      /\ i \in 1 .. Len(s.disk[p].ents) /\ o \in Delete(s, p, i) /\ s.disk = disk
  BY <1>1 DEF Deleting
<1>3. /\ k.disk = o.disk /\ k.told = o.told /\ k.held = o.held
      /\ Moves(k.lfs.gdisk) = {}
  BY DEF Deleting
<1>4. Card(o.disk) /\ o.told \subseteq Listed(disk)
  <2>1. PICK d : /\ Lessened(s, p, i, d)
                 /\ Committed(s, p, d, o) \/ \E u, r : DroppedFirst(s, p, d, u, r, o)
    BY ONLY Sure, <1>2, DeleteSteps
  <2>2. CASE Committed(s, p, d, o)
    <3>1. Card(o.disk)
      BY <2>2, CommittedClean, CleanCard
    <3>2. o.told = {p}
      BY <1>2, <2>2 DEF Committed
    <3> QED BY <1>2, <3>1, <3>2
  <2>3. CASE \E u, r : DroppedFirst(s, p, d, u, r, o)
    <3>1. PICK u, r : DroppedFirst(s, p, d, u, r, o)
      BY <2>3
    <3>2. Card(o.disk) /\ o.told = {r, p} /\ r \in Listed(d)
      BY <3>1 DEF DroppedFirst, Gone
    <3>3. Listed(d) = Listed(s.disk)
      BY <2>1 DEF Lessened, Alters
    <3> QED BY <1>2, <3>2, <3>3
  <2> QED BY <2>1, <2>2, <2>3
<1>5. PICK attrs : attrs = <<Del(i)>>
  OBVIOUS
<1>6. Dirlike(handle) => Steering(o, p, attrs, {})
  <2>0. SUFFICES ASSUME Dirlike(handle) PROVE Steering(o, p, attrs, {})
    OBVIOUS
  <2>1. o.told \subseteq Listed(disk) /\ {} \cap All(disk) = {}
    BY <1>4
  <2>2. ASSUME NEW m, NEW n, SamePlace(m), Stands(m, disk), m.pair \notin o.told => Fresh(m, disk),
               n = FixUp(m, o, p, attrs)
        PROVE  Guided(m, n, disk, o.disk, {}) \/ Beached(m, n, disk, o.disk)
    <3>1. /\ Hand(m) /\ Stands(m, s.disk) /\ (m.pair \notin o.told => Fresh(m, s.disk))
          /\ n = FixUp(m, o, p, <<Del(i)>>) /\ ~(m.pair = p /\ m.id = i)
      BY <1>2, <1>5, <2>0, <2>2 DEF SamePlace
    <3>2. Guided(m, n, s.disk, o.disk, {}) \/ Beached(m, n, s.disk, o.disk)
      BY ONLY Sure, <1>2, <3>1, DeleteReads
    <3> QED BY <1>2, <3>2
  <2> QED BY <2>1, <2>2, SteersIf
<1>7. Dirlike(handle) => Steering(k, p, attrs, {})
  BY <1>3, <1>6, SteeringSame
<1>8. Len(attrs) \in Nat /\ Apply(k, p, attrs) /\ Card(k.disk)
  BY <1>3, <1>4, <1>5
<1> QED BY <1>1, <1>3, <1>7, <1>8, CommitReads

(* The second commit of lfs_rename.                                        *)
LEMMA RenameDeleteReads ==
  ASSUME Sure, NamesInv, ReadInv, RenameDelete
  PROVE  ReadInv'
<1>1. Inv
  BY NamesHave
<1>2. PICK s, o, k :
        /\ Deleting(s, op.pair, op.id, o, k) /\ Moves(s.lfs.gstate) = {} /\ op.at = "rename_delete"
        /\ Apply(k, op.pair, <<Del(op.id)>>) /\ (op' = Idle \/ op'.at = "drop")
  BY <1>1, RenameDeletes
<1>3. Dirlike(handle) => ~(handle.pair = op.pair /\ handle.id = op.id)
  BY <1>2 DEF ReadInv, WatchOK
<1>4. op'.at # "rename_delete"
  BY <1>2 DEF Idle
<1> QED BY <1>2, <1>3, <1>4, DeletingReads

(* lfs_remove.                                                             *)
LEMMA RemoveEntryReads ==
  ASSUME Sure, "next" \notin Uses, NamesInv, ReadInv, RemoveEntry
  PROVE  ReadInv'
<1>1. Inv /\ Card(disk)
  BY NamesHave
<1>2. PICK h, n, w, s, o, k : Removing(h, n, w, s, o, k)
  BY <1>1, RemoveDeletes
<1>3. PICK p, i : p = w.pair /\ i = w.id
  OBVIOUS
<1>4. /\ Ready /\ Removes(p, i) /\ Deleting(s, p, i, o, k) /\ Moves(s.lfs.gstate) = {}
      /\ Apply(k, p, <<Del(i)>>)
  BY <1>2, <1>3 DEF Removing
<1>5. op'.at # "rename_delete"
  BY <1>2 DEF Removing, Return, Idle
<1>6. Moves(lfs.gdisk) = {}
  BY <1>1, <1>4, ReadyIs
<1>7. p \in Listed(disk) /\ i \in 1 .. Len(disk[p].ents)
  BY <1>4 DEF Deleting
<1>8. Dirlike(handle) => ~(handle.pair = p /\ handle.id = i)
  BY <1>1, <1>4, <1>6, <1>7, RemovesIs DEF ReadInv
<1> QED BY <1>4, <1>5, <1>8, DeletingReads

(* The directory of an orphan.                                             *)
LEMMA OrphanReads ==
  ASSUME Sure, NamesInv, Inv', ReadInv, DropOrphan \/ DropRemoved
  PROVE  ReadInv'
<1>1. Inv
  BY NamesHave
<1>2. PICK p, q, o : Dropping(p, q, o) /\ op'.at # "rename_delete"
  BY <1>1, OrphanDrops, RemovedDrops DEF Idle
<1> QED BY <1>2, DroppingReads

(* Where no directory is open, none is opened by a commit.                 *)
LEMMA NoReader ==
  ASSUME Inv, ~Dirlike(handle), NEW o, NEW p, NEW attrs, Len(attrs) \in Nat, Apply(o, p, attrs)
  PROVE  ReadInv'
<1>0. PICK m, n : m = Remember(handle, o) /\ n = FixUp(m, o, p, attrs)
  OBVIOUS
<1>1. Hand(handle)
  BY DEF Inv, HandleOK, Follows
<1>2. handle' = n
  BY <1>0 DEF Apply
<1>3. m = handle
  BY <1>0, Zenon DEF Remember, Dirlike
<1>4. LikeHand(n, handle)
  BY <1>0, <1>1, <1>3, FixUpKind
<1>5. n.kind = handle.kind
  BY <1>4 DEF LikeHand
<1> QED BY <1>2, <1>5 DEF ReadInv, Dirlike

(* A step that leaves the card and the handle alone.                       *)
LEMMA StillReads ==
  ASSUME ReadInv, op.at # "rename_delete", op'.at # "rename_delete", UNCHANGED <<disk, handle>>,
         lfs'.gdisk = lfs.gdisk
  PROVE  ReadInv'
<1>1. Dirlike(handle) => HandleReads /\ Moves(lfs.gdisk) = {}
  BY DEF ReadInv, WatchOK
<1>2. handle' = handle /\ disk' = disk
  OBVIOUS
<1>3. Dirlike(handle) => HandleReads'
  BY <1>1, <1>2 DEF HandleReads
<1>4. Dirlike(handle) => WatchOK'
  BY <1>1 DEF WatchOK
<1> QED BY <1>2, <1>3, <1>4 DEF ReadInv

(* Deleting the entry that has been moved: no directory is open then.      *)
LEMMA DemoveReads ==
  ASSUME NamesInv, ReadInv, Demove
  PROVE  ReadInv'
<1>1. Inv /\ op.at = "idle" /\ HasMove(lfs.gdisk)
  BY NamesHave DEF Demove
<1>2. ~Dirlike(handle)
  BY <1>1 DEF ReadInv, WatchOK, HasMove, Moves
<1>3. PICK t, o : Apply(o, t[1], <<Del(t[2])>>)
  BY DEF Demove
<1>4. PICK p, attrs : p = t[1] /\ attrs = <<Del(t[2])>>
  OBVIOUS
<1>5. Len(attrs) \in Nat /\ Apply(o, p, attrs)
  BY <1>3, <1>4
<1> QED BY <1>1, <1>2, <1>5, NoReader

(* lfs_file_sync.                                                          *)
LEMMA SyncFileReads ==
  ASSUME NamesInv, SyncFile
  PROVE  ReadInv'
<1>1. Inv /\ ~Dirlike(handle)
  BY NamesHave DEF SyncFile, Dirlike
<1>2. PICK o, p : Apply(o, p, <<>>)
  BY DEF SyncFile
<1>3. PICK attrs : attrs = <<>>
  OBVIOUS
<1>4. Len(attrs) \in Nat /\ Apply(o, p, attrs)
  BY <1>2, <1>3
<1> QED BY <1>1, <1>4, NoReader

(* The steps that commit nothing.                                          *)
LEMMA QuietReads ==
  ASSUME NamesInv, ReadInv, Deorphaned \/ Refuse \/ Close \/ PowerLoss
  PROVE  ReadInv'
<1>1. CASE Close \/ PowerLoss
  BY <1>1, FollowsNone DEF Close, PowerLoss, ReadInv, Dirlike
<1>2. CASE Refuse
  <2>1. op.at # "rename_delete" /\ op'.at # "rename_delete" /\ UNCHANGED <<disk, handle, lfs>>
    BY <1>2 DEF Refuse, Return, Idle
  <2> QED BY <2>1, StillReads
<1>3. CASE Deorphaned
  <2>1. op.at # "rename_delete" /\ op'.at # "rename_delete" /\ UNCHANGED <<disk, handle>>
    BY <1>3 DEF Deorphaned, Deorphaning
  <2>2. lfs \in Globals /\ lfs' = PrepOrphans(lfs, FALSE)
    BY <1>3, NamesHave DEF Deorphaned, Inv, GlobalOK
  <2>3. lfs'.gdisk = lfs.gdisk
    BY <2>2, PrepIs, {} \in SUBSET Token
  <2> QED BY <2>1, <2>3, StillReads
<1> QED BY <1>1, <1>2, <1>3

(* What is listed in a directory is unread at its beginning.               *)
LEMMA NoneRead ==
  ASSUME NEW d, Card(d), NEW h \in Heads(d), NEW t, Lists(d, t), t[1] = h
  PROVE  At(d, h, h, 1) /\ Unread(d, h, h, 1, t)
<1>1. h \in Listed(d) /\ h \in Chain(d, h) /\ Len(d[h].ents) \in Nat
  BY CardHas, ChainCloses
<1>2. At(d, h, h, 1)
  BY <1>1 DEF At
<1>3. ASSUME Read(d, h, h, 1, t) PROVE FALSE
  <2>1. PICK r, k : Has(d, h, r, k) /\ Before(d, r, k, h, 1)
    BY <1>3 DEF Read
  <2>2. k \in 1 .. Len(d[r].ents) /\ r \in Chain(d, h) /\ r \in Listed(d) /\ Len(d[r].ents) \in Nat
    BY <2>1, HasIs, CardHas
  <2>3. r # h /\ h \in Chain(d, r)
    BY <2>1, <2>2 DEF Before
  <2> QED BY <1>1, <2>2, <2>3, ChainOrder
<1> QED BY <1>2, <1>3, EitherSide

(* lfs_dir_open.                                                           *)
LEMMA OpenDirReads ==
  ASSUME "early" \notin Uses, NamesInv, OpenDir
  PROVE  ReadInv'
<1>1. Inv /\ Card(disk)
  BY NamesHave, SMTT(30)
<1>2. PICK h \in Dirs :
        handle' = Copy([NoHandle EXCEPT
         !.kind = "dir", !.pair = h, !.head = h, !.id = 1,
         !.due = {<<e.name, e.node>> : e \in Inside(disk, lfs.gdisk, h)}],
         disk, h)
  BY DEF OpenDir
<1>3. PICK g : g = [NoHandle EXCEPT
         !.kind = "dir", !.pair = h, !.head = h, !.id = 1,
         !.due = {<<e.name, e.node>> : e \in Inside(disk, lfs.gdisk, h)}]
  OBVIOUS
<1>4. /\ Hand(g) /\ g.kind = "dir" /\ g.pair = h /\ g.head = h /\ g.id = 1 /\ g.seen = {}
      /\ g.due = {<<e.name, e.node>> : e \in Inside(disk, lfs.gdisk, h)}
  BY <1>3 DEF NoHandle, Hand
<1>5. PICK n : n = Copy(g, disk, h)
  OBVIOUS
<1>6. /\ Hand(n) /\ n.kind = "dir" /\ n.pair = h /\ n.id = 1 /\ n.head = h /\ n.seen = {} /\ n.due = g.due
      /\ Fresh(n, disk)
  <2>1. SameStory(n, g)
    BY <1>4, <1>5, StoryKept
  <2>2. /\ LikeHand(n, g) /\ n.pair = g.pair /\ n.id = g.id
        /\ n.count = Len(disk[h].ents) /\ n.tail = disk[h].tail /\ n.split = disk[h].split
    BY <1>4, <1>5, CopyIs
  <2> QED BY <1>4, <2>1, <2>2 DEF LikeHand, SameStory, Fresh
<1>7. h \in Heads(disk) /\ h \in Listed(disk) /\ h \in Chain(disk, h) /\ Len(disk[h].ents) \in Nat
  BY <1>1, DirsIs, CardHas, ChainCloses
<1>8. Now.disk = disk /\ Now.lfs = lfs
  BY DEF Now
<1>9. \A x \in n.due : x = <<x[1], x[2]>> /\ Unread(disk, h, h, 1, Listing(h, x))
  <2>1. ASSUME NEW x \in n.due PROVE x = <<x[1], x[2]>> /\ Unread(disk, h, h, 1, Listing(h, x))
    <3>1. x \in StillIn(n, Now)
      BY <1>4, <1>6, <1>8, <2>1, Zenon DEF StillIn
    <3>2. x = <<x[1], x[2]>> /\ Lists(disk, Listing(h, x))
      BY <1>1, <1>6, <1>7, <1>8, <3>1, StillListed
    <3>3. Listing(h, x)[1] = h
      BY DEF Listing
    <3> QED BY <1>1, <1>7, <3>2, <3>3, NoneRead
  <2> QED BY <2>1
<1>10. At(disk, h, h, 1) /\ Stands(n, disk)
  BY <1>6, <1>7 DEF At, Stands
<1>11. handle' = n /\ disk' = disk /\ lfs' = lfs /\ op' = op /\ op.at = "idle" /\ Moves(lfs.gdisk) = {}
  BY <1>2, <1>3, <1>5, Zenon DEF OpenDir, HasMove, Moves
<1>12. ReaderOK(n, disk) /\ StoryOK(n, disk)
  BY <1>6, <1>9, <1>10 DEF ReaderOK, StoryOK
<1>13. HandleReads'
  BY <1>11, <1>12 DEF HandleReads
<1>14. WatchOK'
  BY <1>11 DEF WatchOK
<1> QED BY <1>13, <1>14 DEF ReadInv

(* A commit that edits one pair of the list: what it does to a handle is   *)
(* what the edit does, and what the attributes do if it is in that pair.   *)
Editing(u, p, attrs, N) ==
  /\ Card(u) /\ p \in Listed(disk) /\ p \in Listed(u) /\ N \cap All(disk) = {}
  /\ \A r \in Listed(disk) \ {p} : u[r] = disk[r]
  /\ \A m, x : /\ SamePlace(m) /\ Stands(m, disk)
               /\ x = IF m.pair = p THEN Shifted(m, attrs) ELSE m
               => /\ SameStory(x, m) /\ x.pair = m.pair
                  /\ Keeps(disk, m.pair, m.id, u, x.pair, x.id, N)
LEMMA EditSteers ==
  ASSUME Card(disk), NEW u, NEW p, NEW attrs, NEW N, Editing(u, p, attrs, N),
         NEW s, s.told = {}, NEW o, Committed(s, p, u, o)
  PROVE  Steering(o, p, attrs, N) /\ Card(o.disk)
<1>1. /\ Card(o.disk) /\ Heads(o.disk) = Heads(u) /\ Spread(u, o.disk, p, Free(s)) /\ o.told = {p}
  BY CommittedClean, CleanCard DEF Committed, Alike
<1>2. o.told \subseteq Listed(disk) /\ N \cap All(disk) = {}
  BY <1>1 DEF Editing
<1>3. ASSUME NEW m, NEW n, SamePlace(m), Stands(m, disk), m.pair \notin o.told => Fresh(m, disk),
             n = FixUp(m, o, p, attrs)
      PROVE  Guided(m, n, disk, o.disk, N) \/ Beached(m, n, disk, o.disk)
  <2>1. PICK x : x = IF m.pair = p THEN Shifted(m, attrs) ELSE m
    OBVIOUS
  <2>2. SameStory(x, m) /\ x.pair = m.pair /\ Keeps(disk, m.pair, m.id, u, x.pair, x.id, N)
    BY <1>3, <2>1 DEF Editing
  <2>3. m.pair = p \/ (m.pair \notin o.told /\ Fresh(m, disk) /\ u[m.pair] = disk[m.pair])
    BY <1>1, <1>3 DEF Editing, Stands
  <2>4. Card(u) /\ p \in Listed(u) /\ p \in o.told /\ Hand(m)
    BY <1>1, <1>3 DEF Editing, SamePlace
  <2> QED BY ONLY Card(disk), <1>1, <1>3, <2>1, <2>2, <2>3, <2>4, EditReads
<1> QED BY <1>1, <1>2, <1>3, SteersIf

(* An entry is created: the ids behind it go up by one.                    *)
LEMMA CreateShifts ==
  ASSUME NEW h, Hand(h), NEW i, NEW m, m = Shifted(h, <<Create(i)>>)
  PROVE  SameStory(m, h) /\ m.pair = h.pair /\ m.id = IF h.id >= i THEN h.id + 1 ELSE h.id
<1>1. m = Shift(h, Create(i))
  <2>1. PICK attrs : attrs = <<Create(i)>>
    OBVIOUS
  <2>2. Len(attrs) = 1 /\ attrs[1] = Create(i)
    BY <2>1
  <2> QED BY <2>1, <2>2, ShiftedIs
<1>2. Create(i).op = "create" /\ Create(i).id = i
  BY DEF Create
<1> QED BY <1>1, <1>2, ShiftIs, StoryKept

(* The name of a place that is free is new.                                *)
LEMMA NewName ==
  ASSUME NEW d, Card(d), NEW h, NEW p, NEW i, NEW n \in Nat, Place(d, h, p, i, n), NEW x
  PROVE  {<<h, n, x>>} \cap All(d) = {}
<1>1. ASSUME <<h, n, x>> \in All(d) PROVE FALSE
  <2>1. PICK k, q, j : Has(d, k, q, j) /\ <<h, n, x>> = Triple(d, k, q, j)
    BY <1>1, AllIs DEF Lists
  <2>2. d[q].ents[j].name = n /\ Has(d, h, q, j)
    BY <2>1 DEF Triple
  <2> QED BY <2>2, PlaceIsFree
<1> QED BY <1>1

(* Inserting one entry where it belongs.                                   *)
LEMMA InsertEdits ==
  ASSUME Card(disk), NEW c, NEW u, NEW p, NEW h, NEW i, NEW y, y.name \in Nat,
         Place(disk, h, p, i, y.name), EntryLinks(p, i, y, c, u)
  PROVE  Editing(u, p, <<Create(i)>>, {<<h, y.name, y.node>>})
<1>0. PICK attrs, N : attrs = <<Create(i)>> /\ N = {<<h, y.name, y.node>>}
  OBVIOUS
<1>1. /\ SameSlots(disk, c) /\ Alters(c, u, p) /\ HasMore(u[p].ents, c[p].ents, i, y)
      /\ p \in Listed(c) /\ Listed(disk) \subseteq Listed(c)
      /\ Heads(disk) \subseteq Heads(c) /\ \A r \in Listed(disk) \ {p} : u[r] = disk[r]
  BY DEF EntryLinks
<1>2. h \in Heads(disk) /\ h \in Heads(c) /\ p \in Chain(disk, h) /\ p \in Listed(disk)
  BY <1>1, CardHas, ChainCloses DEF Place
<1>3. Card(u) /\ p \in Listed(disk) /\ p \in Listed(u) /\ N \cap All(disk) = {}
  BY <1>0, <1>1, <1>2, AltersHas, NewName
<1>4. h \in Heads(c) /\ p \in Chain(c, h) /\ i \in 1 .. (Len(c[p].ents) + 1)
  <2>1. Place(c, h, p, i, y.name)
    BY <1>1, <1>2, SlotsKept
  <2> QED BY <2>1 DEF Place
<1>5. ASSUME NEW m, NEW x, SamePlace(m), Stands(m, disk),
             x = IF m.pair = p THEN Shifted(m, attrs) ELSE m
      PROVE  /\ SameStory(x, m) /\ x.pair = m.pair
             /\ Keeps(disk, m.pair, m.id, u, x.pair, x.id, N)
  <2>1. Hand(m) /\ m.pair \in Listed(disk) /\ m.id \in 1 .. (Len(disk[m.pair].ents) + 1)
    BY <1>5 DEF SamePlace, Stands
  <2>2. /\ SameStory(x, m) /\ x.pair = m.pair
        /\ x.id = IF m.pair = p /\ m.id >= i THEN m.id + 1 ELSE m.id
    <3>1. CASE m.pair = p
      BY <1>0, <1>5, <2>1, <3>1, CreateShifts
    <3>2. CASE m.pair # p
      BY <1>5, <2>1, <3>2 DEF SameStory, LikeHand
    <3> QED BY <3>1, <3>2
  <2>3. PICK r, k, j : r = m.pair /\ k = m.id /\ j = x.id
    OBVIOUS
  <2>4. Keeps(disk, r, k, c, r, k, {})
    BY <1>1, <2>1, <2>3, SlotKeeps
  <2>5. /\ r \in Listed(c) /\ k \in 1 .. (Len(c[r].ents) + 1)
        /\ j = IF r = p /\ k >= i THEN k + 1 ELSE k
    BY <1>1, <2>1, <2>2, <2>3 DEF SameSlots
  <2>6. Keeps(c, r, k, u, r, j, {<<h, y.name, y.node>>})
    BY ONLY <1>1, <1>4, <2>5, MoreKeeps
  <2>7. Keeps(disk, r, k, u, r, j, N)
    BY <1>0, <2>4, <2>6, KeepsThen
  <2> QED BY <2>2, <2>3, <2>7
<1>6. Editing(u, p, attrs, N)
  BY <1>1, <1>3, <1>5 DEF Editing
<1> QED BY <1>0, <1>6

(* The list goes on with a new directory: nothing is read another way.     *)
LEMMA LinkEdits ==
  ASSUME Card(disk), NEW p, NEW q, NEW m, NEW d, Linked(disk, p, q, m, d),
         p \in Listed(disk), ~disk[p].split, q \in Pair \ Listed(disk), Bare(disk, q),
         ~m.split, m.ents = disk[p].ents
  PROVE  Editing(d, p, <<>>, {})
<1>0. PICK attrs : attrs = <<>>
  OBVIOUS
<1>1. SameSlots(disk, d)
  BY LinkedSlots
<1>2. /\ Card(d) /\ Listed(d) = Listed(disk) \cup {q} /\ Heads(d) = Heads(disk) \cup {q}
      /\ \A r \in Listed(disk) \ {p} : d[r] = disk[r]
  BY CardHas DEF Linked, Card
<1>3. ASSUME NEW g, NEW x, SamePlace(g), Stands(g, disk),
             x = IF g.pair = p THEN Shifted(g, attrs) ELSE g
      PROVE  /\ SameStory(x, g) /\ x.pair = g.pair
             /\ Keeps(disk, g.pair, g.id, d, x.pair, x.id, {})
  <2>1. Len(attrs) = 0
    BY <1>0
  <2>2. x = g
    BY <1>3, <2>1, ShiftedIs
  <2>3. SameStory(g, g)
    BY <1>3 DEF SameStory, LikeHand, SamePlace
  <2>4. g.pair \in Listed(disk) \cap Listed(d)
    BY <1>2, <1>3 DEF Stands
  <2>5. Keeps(disk, g.pair, g.id, d, g.pair, g.id, {})
    BY <1>1, <1>2, <2>4, SlotKeeps
  <2> QED BY <2>2, <2>3, <2>5
<1>4. Editing(d, p, attrs, {})
  BY <1>2, <1>3 DEF Editing
<1> QED BY <1>0, <1>4

(* Putting the new directory onto the list.                                *)
LEMMA MkdirLinkReads ==
  ASSUME Sure, NamesInv, ReadInv, MkdirLink
  PROVE  ReadInv'
<1>0. Inv /\ Sorted(disk) /\ Card(disk) /\ op.at = "mkdir_link"
  BY NamesHave DEF MkdirLink
<1>1. PICK s, p, q, m, d, o : LinkCommit(s, p, q, m, d, o)
  BY <1>0, MkdirLinks
<1>2. /\ op \in Settling /\ p = op.last /\ q = op.dir
      /\ q \notin Listed(disk) /\ Bare(disk, q) /\ p \in Listed(disk) /\ ~disk[p].split
  BY <1>0, <1>1 DEF Inv, OpOK, LinkCommit
<1>3. q \in Pair \ Listed(disk)
  BY <1>2 DEF Settling
<1>4. /\ Linked(disk, p, q, m, d) /\ Committed(s, p, d, o) /\ m.ents = disk[p].ents
      /\ s.lfs.gstate = {Orphans} /\ m.split = FALSE /\ s.told = {}
  BY <1>1 DEF LinkCommit
<1>5. PICK attrs : attrs = <<>>
  OBVIOUS
<1>6. Editing(d, p, attrs, {})
  BY <1>0, <1>2, <1>3, <1>4, <1>5, LinkEdits
<1>7. Steering(o, p, attrs, {}) /\ Card(o.disk)
  <2>1. Card(disk) /\ Committed(s, p, d, o) /\ s.told = {}
    BY <1>0, <1>4
  <2> QED BY ONLY <2>1, <1>6, EditSteers
<1>8. PICK b, k : b = PrepOrphans(o.lfs, FALSE) /\ k = SetLfs(o, b)
  OBVIOUS
<1>9. o \in States /\ o.lfs \in Globals /\ o.lfs.gdisk = {Orphans}
  BY <1>4, CommittedClean, CleanIs DEF Committed
<1>10. b \in Globals /\ b.gdisk = {Orphans}
  <2>1. {} \in SUBSET Token
    OBVIOUS
  <2> QED BY <1>8, <1>9, <2>1, PrepIs
<1>11. k.disk = o.disk /\ k.told = o.told /\ k.held = o.held /\ k.lfs = b
  <2>1. o \in States /\ b \in Globals /\ k = SetLfs(o, b)
    BY <1>8, <1>9, <1>10
  <2> QED BY ONLY <2>1, WithLfs
<1>12. k = [o EXCEPT !.lfs = PrepOrphans(@, FALSE)]
  BY <1>8, Zenon DEF SetLfs
<1>13. Apply(k, p, attrs) /\ Len(attrs) \in Nat
  BY <1>1, <1>5, <1>12 DEF LinkCommit
<1>14. op'.at # "rename_delete"
  BY <1>1, <1>2 DEF LinkCommit, Settling
<1>15. Dirlike(handle) => Steering(k, p, attrs, {})
  BY <1>7, <1>11, SteeringSame
<1>16. Moves(k.lfs.gdisk) = {}
  BY <1>10, <1>11 DEF Moves
<1>17. Card(k.disk)
  BY <1>7, <1>11
<1> QED BY ONLY <1>0, ReadInv, <1>13, <1>14, <1>15, <1>16, <1>17, CommitReads

(* A commit that creates one entry.                                        *)
LEMMA AddReads ==
  ASSUME Sure, NamesInv, ReadInv, NEW s, NEW h, NEW p, NEW i, NEW y, NEW x, NEW o,
         Adding(s, h, p, i, y, x, o), s.disk = disk, s.told = {}, Moves(s.lfs.gstate) = {},
         Apply(o, p, <<Create(i)>>), op'.at # "rename_delete"
  PROVE  ReadInv'
<1> USE DEF Adding
<1>0. Card(disk) /\ OrderOK(disk) /\ Inv /\ Sorted(disk)
  BY NamesHave DEF Sorted
<1>1. /\ p \in Listed(disk) /\ p \in Pair /\ disk[p] \in Content
      /\ i \in 1 .. (Len(disk[p].ents) + 1)
  BY <1>0, CardHas, ChainCloses DEF Place
<1>2. disk[p].ents \in Seq(Entry) /\ Len(disk[p].ents) \in Nat /\ Len(disk[p].ents) <= Full
  BY <1>1, ContentIs DEF Clean, Filled
<1>3. HasMore(x, disk[p].ents, i, y)
  <2>1. PICK a : a = disk[p].ents
    OBVIOUS
  <2>2. a \in Seq(Entry) /\ i \in 1 .. (Len(a) + 1) /\ x = InsertAt(a, i, y)
    BY <1>1, <1>2, <2>1
  <2>3. HasMore(x, a, i, y)
    BY ONLY <2>2, y \in Entry, InsertIs
  <2> QED BY <2>1, <2>3
<1>4. x \in Seq(Entry) /\ Len(x) <= Full + 1
  BY <1>2, <1>3, DirTreeAssumption DEF HasMore
<1>5. PICK m, d : m = SetEnts(disk[p], x) /\ d = SetPair(disk, p, m)
  OBVIOUS
<1>6. Target(s, p, m, d) /\ d \in Disks /\ d[p].ents = x /\ Edited(disk, d, p)
  <2>1. EditTo(s, p, x, m, d)
    BY <1>1, <1>4, <1>5 DEF EditTo
  <2> QED BY <2>1, EditTarget
<1>7. Alters(disk, d, p) /\ \A r \in Listed(disk) \ {p} : d[r] = disk[r]
  <2>1. Alters(disk, d, p)
    BY <1>0, <1>1, <1>6, EditAlters
  <2> QED BY <1>0, <1>6, <2>1, CardHas DEF Edited
<1>8. Committed(s, p, d, o)
  BY <1>5, <1>6, PutCommits
<1>9. y.name \in Nat
  BY DirTreeAssumption DEF Entry
<1>10. PICK attrs, N : attrs = <<Create(i)>> /\ N = {<<h, y.name, y.node>>}
  OBVIOUS
<1>11. Editing(d, p, attrs, N)
  <2>1. SameSlots(disk, disk)
    BY <1>0 DEF SameSlots
  <2>2. EntryLinks(p, i, y, disk, d)
    BY <1>1, <1>3, <1>6, <1>7, <2>1 DEF EntryLinks
  <2> QED BY <1>0, <1>9, <1>10, <2>2, InsertEdits
<1>12. Steering(o, p, attrs, N) /\ Card(o.disk)
  BY ONLY <1>0, <1>8, <1>11, s.told = {}, EditSteers
<1>13. Moves(o.lfs.gdisk) = {}
  BY <1>8 DEF Committed
<1>14. Apply(o, p, attrs) /\ Len(attrs) \in Nat
  BY <1>10
<1>15. Dirlike(handle) => Steering(o, p, attrs, N)
  BY <1>12
<1> QED BY ONLY <1>0, ReadInv, <1>12, <1>13, <1>14, <1>15, op'.at # "rename_delete", CommitReads

(* The commit that ends a lfs_mkdir.                                       *)
LEMMA MkdirEntryReads ==
  ASSUME Sure, NamesInv, ReadInv, MkdirEntry
  PROVE  ReadInv'
<1>0. Inv /\ Sorted(disk) /\ Card(disk) /\ CallOK /\ op.at = "mkdir_entry"
  BY NamesHave DEF MkdirEntry
<1>1. PICK s, p, q, i, y, x, m, d, o : EntryCommit(s, p, q, i, y, x, m, d, o)
  BY <1>0, MkdirEnters
<1>2. op.split \in BOOLEAN /\ lfs.gstate = {}
  BY <1>0 DEF Inv, OpOK, Settling
<1>3. /\ p = op.cwd /\ i = op.id /\ y.name = op.name /\ y \in Entry
      /\ s.disk = disk /\ s.lfs = lfs /\ s.told = {} /\ Apply(o, p, <<Create(i)>>)
      /\ x = InsertAt(disk[p].ents, i, y) /\ o \in Put(s, p, m)
  BY <1>1 DEF EntryCommit
<1>4. PICK h : h = call.dir
  OBVIOUS
<1>5. Place(disk, h, p, i, y.name) /\ y.name \in Nat
  BY <1>0, <1>3, <1>4, DirTreeAssumption DEF CallOK, Entry
<1>6. Entering(s, p, q, i, y, x, m, d, o, h)
  BY <1>0, <1>1, <1>2, <1>5 DEF Entering
<1>7. op'.at # "rename_delete" /\ Moves(s.lfs.gstate) = {}
  BY <1>1, <1>2, <1>3 DEF EntryCommit, Return, Idle, Moves
<1>8. CASE op.split
  <2>1. Clean(s) /\ m = SetEnts(disk[p], x)
    BY <1>1, <1>8 DEF EntryCommit
  <2>2. Adding(s, h, p, i, y, x, o)
    BY <1>0, <1>3, <1>5, <2>1 DEF Adding
  <2>3. s.disk = disk /\ s.told = {} /\ Apply(o, p, <<Create(i)>>)
    BY <1>3
  <2> QED BY ONLY Sure, NamesInv, ReadInv, <1>7, <2>2, <2>3, AddReads
<1>9. CASE ~op.split
  <2>1. Committed(s, p, d, o)
    BY <1>1, <1>9 DEF EntryCommit
  <2>2. PICK c : EntryLinks(p, i, y, c, d)
    BY <1>6, <1>9, EntryLinked
  <2>3. PICK attrs, N : attrs = <<Create(i)>> /\ N = {<<h, y.name, y.node>>}
    OBVIOUS
  <2>4. Editing(d, p, attrs, N)
    BY <1>0, <1>5, <2>2, <2>3, InsertEdits
  <2>5. Steering(o, p, attrs, N) /\ Card(o.disk)
    <3>1. Card(disk) /\ s.told = {}
      BY <1>0, <1>3
    <3> QED BY ONLY <2>1, <2>4, <3>1, EditSteers
  <2>6. Moves(o.lfs.gdisk) = {}
    BY <1>7, <2>1 DEF Committed
  <2>7. Apply(o, p, attrs) /\ Len(attrs) \in Nat
    BY <1>3, <2>3
  <2>8. Dirlike(handle) => Steering(o, p, attrs, N)
    BY <2>5
  <2> QED BY ONLY <1>0, ReadInv, <1>7, <2>5, <2>6, <2>7, <2>8, CommitReads
<1> QED BY <1>2, <1>8, <1>9

(* lfs_file_open makes a file.  If the file is kept open, its handle is    *)
(* the one on the list, and no directory is open.                          *)
LEMMA CreateFileReads ==
  ASSUME Sure, NamesInv, ReadInv, CreateFile
  PROVE  ReadInv'
<1>0. Inv /\ Sorted(disk) /\ Card(disk)
  BY NamesHave
<1>1. Ready
  BY DEF CreateFile, Sure
<1>2. PICK h \in Dirs, n \in Name, f \in File, keep \in BOOLEAN :
       LET w == Lookup(disk, lfs.gdisk, h, n)
           m == disk[w.pair]
           mine == [NoHandle EXCEPT !.kind = "reg", !.pair = w.pair,
                                    !.id = w.id, !.node = f]
       IN /\ ~w.found
          /\ f \notin {e[3] : e \in Tree(disk, lfs.gdisk)}
          /\ keep => handle = NoHandle /\ "files" \in Uses
          /\ handle.node # f
          /\ \E o \in Put(Now, w.pair,
                [m EXCEPT !.ents = InsertAt(@, w.id,
                                            [name |-> n, node |-> f])]) :
               /\ Return(IF o.ok THEN "ok" ELSE "error")
               /\ IF keep /\ o.ok
                  THEN /\ disk' = o.disk /\ lfs' = o.lfs
                       /\ handle' = FixUp(mine, o, w.pair, <<>>)
                  ELSE Apply(o, w.pair, <<Create(w.id)>>)
  BY Zenon DEF CreateFile
<1>3. PICK w : w = Lookup(disk, lfs.gdisk, h, n)
  OBVIOUS
<1>4. PICK p, i, y : p = w.pair /\ i = w.id /\ y = [name |-> n, node |-> f]
  OBVIOUS
<1>5. PICK x : x = InsertAt(disk[p].ents, i, y)
  OBVIOUS
<1>6. PICK g : g = [NoHandle EXCEPT !.kind = "reg", !.pair = p, !.id = i, !.node = f]
  OBVIOUS
<1>7. ~w.found /\ \E o \in Put(Now, p, [disk[p] EXCEPT !.ents = InsertAt(@, i, y)]) :
        /\ Return(IF o.ok THEN "ok" ELSE "error")
        /\ handle' = FixUp(g, o, p, <<>>) \/ Apply(o, p, <<Create(i)>>)
  BY <1>2, <1>3, <1>4, <1>6, Zenon
<1>8. SetEnts(disk[p], x) = [disk[p] EXCEPT !.ents = InsertAt(@, i, y)]
  BY <1>5, Zenon DEF SetEnts
<1>9. PICK o \in Put(Now, p, SetEnts(disk[p], x)) :
        /\ Return(IF o.ok THEN "ok" ELSE "error")
        /\ handle' = FixUp(g, o, p, <<>>) \/ Apply(o, p, <<Create(i)>>)
  BY <1>7, <1>8, Zenon
<1>10. CASE handle' = FixUp(g, o, p, <<>>)
  <2>1. Hand(g) /\ g.kind = "reg"
    BY <1>6 DEF NoHandle, Hand
  <2>2. PICK attrs : attrs = <<>>
    OBVIOUS
  <2>3. Len(attrs) \in Nat /\ handle' = FixUp(g, o, p, attrs)
    BY <1>10, <2>2
  <2>4. LikeHand(handle', g)
    BY <2>1, <2>3, FixUpKind
  <2> QED BY <2>1, <2>4 DEF LikeHand, ReadInv, Dirlike
<1>11. CASE Apply(o, p, <<Create(i)>>)
  <2>1. /\ Known /\ Held = {} /\ Moves(lfs.gdisk) = {} /\ lfs.gstate = {} /\ lfs.gdisk \subseteq {Orphans}
    BY <1>0, <1>1, ReadyIs
  <2>2. PICK s : s = Now
    OBVIOUS
  <2>3. Clean(s) /\ s.disk = disk /\ s.lfs = lfs /\ s.told = {}
    BY <1>0, <2>1, <2>2, NowClean
  <2>4. Place(disk, h, p, i, n)
    <3>1. h \in Heads(disk)
      BY <1>0, DirsIs
    <3> QED BY <1>0, <1>3, <1>4, <1>7, <2>1, <3>1, LookupFinds
  <2>5. y \in Entry /\ y.name = n
    BY <1>4 DEF Entry
  <2>6. Adding(s, h, p, i, y, x, o)
    BY <1>0, <1>5, <1>9, <2>2, <2>3, <2>4, <2>5 DEF Adding
  <2>7. Moves(s.lfs.gstate) = {} /\ op'.at # "rename_delete"
    BY <1>9, <2>1, <2>3 DEF Moves, Return, Idle
  <2> QED BY ONLY Sure, NamesInv, ReadInv, <1>11, <2>3, <2>6, <2>7, AddReads
<1> QED BY <1>9, <1>10, <1>11

(* The first commit of lfs_mkdir: a handle that still points at the pair,  *)
(* which was dropped before, finds it empty.                               *)
LEMMA MakingSteers ==
  ASSUME Card(disk), NEW q \in Pair \ Listed(disk), NEW o, Card(o.disk), o.told = {q}, o.held = {q},
         o.disk[q].ents = <<>>, o.disk[q].split = FALSE, \A r \in Pair \ {q} : o.disk[r] = disk[r],
         NEW attrs, attrs = <<>>
  PROVE  Steering(o, q, attrs, {})
<1>1. SameSlots(disk, o.disk) /\ Listed(o.disk) = Listed(disk) /\ Heads(o.disk) = Heads(disk)
  BY OffList
<1>2. ASSUME NEW m, NEW n, SamePlace(m), n = FixUp(m, o, q, attrs)
      PROVE  Steers(o, m, n, {})
  <2>1. Hand(m) /\ {} \cap All(disk) = {}
    BY <1>2 DEF SamePlace
  <2>2. ASSUME Stands(m, disk), m.pair \notin o.told => Fresh(m, disk)
        PROVE  Guided(m, n, disk, o.disk, {})
    <3>1. m.pair \in Listed(disk) /\ m.pair \in Pair /\ m.pair # q
      BY <2>2, CardHas DEF Stands
    <3>2. o.disk[m.pair] = disk[m.pair] /\ Fresh(m, disk)
      BY <2>2, <3>1
    <3>3. n = m
      BY <1>2, <3>1, FixUpIs
    <3>4. SameStory(m, m)
      BY <2>1 DEF SameStory, LikeHand
    <3>5. Stands(m, o.disk) /\ Fresh(m, o.disk)
      BY <1>1, <2>2, <3>2 DEF Stands, Fresh
    <3>6. Keeps(disk, m.pair, m.id, o.disk, m.pair, m.id, {})
      BY <1>1, <3>1, SlotKeeps
    <3> QED BY <3>3, <3>4, <3>5, <3>6 DEF Guided
  <2>3. ASSUME Blind(m), m.pair \in o.told \ Listed(disk)
        PROVE  SameStory(n, m) /\ Blind(n) /\ n.pair = m.pair /\ m.pair \in o.held
    <3>1. m.pair = q /\ q # NoPair /\ q \in o.told /\ q \in o.held
      BY <2>3, DirTreeAssumption
    <3>2. Len(attrs) = 0
      OBVIOUS
    <3>3. Shifted(m, attrs) = m
      BY <3>2, ShiftedIs
    <3>4. PICK c, b : c = Copy(m, o.disk, q) /\ b = Crossed(c, o.disk)
      OBVIOUS
    <3>5. n = Crossed(b, o.disk)
      BY <1>2, <3>1, <3>3, <3>4, FixUpIs
    <3>6. /\ SameStory(c, m) /\ Hand(c) /\ c.pair = q /\ c.id = 1 /\ c.count = 0 /\ c.split = FALSE
      <4>1. SameStory(c, m)
        BY <2>1, <3>4, StoryKept
      <4>2. LikeHand(c, m) /\ c.pair = m.pair /\ c.id = m.id
            /\ c.count = Len(o.disk[q].ents) /\ c.split = o.disk[q].split
        BY <2>1, <3>4, CopyIs
      <4> QED BY <2>3, <3>1, <4>1, <4>2 DEF LikeHand, Blind
    <3>7. b = c
      BY <3>4, <3>6, CrossedIs
    <3>8. n = c
      BY <3>5, <3>6, <3>7, CrossedIs
    <3> QED BY <3>1, <3>6, <3>8 DEF Blind
  <2> QED BY <2>1, <2>2, <2>3 DEF Steers
<1> QED BY <1>2 DEF Steering

(* lfs_mkdir up to its first commit.                                       *)
LEMMA MkdirReads ==
  ASSUME Sure, NamesInv, Inv', ReadInv, Mkdir
  PROVE  ReadInv'
<1>0. Inv /\ Sorted(disk) /\ Card(disk)
  BY NamesHave
<1>1. PICK h, n, q, w, o : Making(h, n, q, w, o)
  BY MkdirMakes
<1>2. /\ Ready /\ q \in Pair \ Listed(disk) /\ o.told = {q} /\ o.held = {q}
      /\ o.disk[q].ents = <<>> /\ o.disk[q].split = FALSE
      /\ (\A r \in Pair \ {q} : o.disk[r] = disk[r]) /\ o.lfs = Settled(lfs) /\ Apply(o, q, <<>>)
  BY <1>1 DEF Making
<1>3. Card(o.disk)
  BY <1>2 DEF Inv, CardOK, Card, Apply
<1>4. PICK attrs : attrs = <<>>
  OBVIOUS
<1>5. Steering(o, q, attrs, {})
  BY <1>0, <1>2, <1>3, <1>4, MakingSteers
<1>6. op'.at # "rename_delete"
  BY <1>1 DEF Making
<1>7. Moves(o.lfs.gdisk) = {}
  <2>1. lfs \in Globals /\ lfs.gstate = {}
    BY <1>0, <1>2, ReadyIs DEF Inv, GlobalOK
  <2> QED BY <1>2, <2>1, GlobalsIs DEF Moves
<1>8. Len(attrs) \in Nat /\ Apply(o, q, attrs)
  BY <1>2, <1>4
<1>9. Dirlike(handle) => Steering(o, q, attrs, {})
  BY <1>5
<1> QED BY ONLY <1>0, ReadInv, <1>3, <1>6, <1>7, <1>8, <1>9, CommitReads
(* The shifts of a rename: one entry may go and one comes, and then the    *)
(* old one may go.                                                         *)
LEMMA RenameShifts ==
  ASSUME NEW w, NEW v, v.found \in BOOLEAN, v.id \in Nat, w.id \in Nat, NEW h, Hand(h), h.id \in Nat,
         v.found => h.id # v.id, w.pair = v.pair => h.id # w.id,
         NEW old, old = (IF ~v.found /\ v.id <= w.id THEN w.id + 1 ELSE w.id),
         NEW attrs, attrs = RenameAttrs(w, v), NEW x, x = Shifted(h, attrs),
         NEW j, j = (IF ~v.found /\ h.id >= v.id THEN h.id + 1 ELSE h.id)
  PROVE  /\ Len(attrs) \in Nat /\ SameStory(x, h) /\ x.pair = h.pair
         /\ x.id = IF w.pair = v.pair /\ j > old THEN j - 1 ELSE j
<1>1. PICK a, b, c, S : a = Del(v.id) /\ b = Create(v.id) /\ c = Del(old) /\ S = {a, b, c}
  OBVIOUS
<1>2. /\ a.op = "delete" /\ a.id = v.id /\ b.op = "create" /\ b.id = v.id /\ c.op = "delete" /\ c.id = old
  BY <1>1 DEF Del, Create
<1>3. attrs = (IF v.found THEN <<a>> ELSE <<>>) \o <<b>> \o (IF w.pair # v.pair THEN <<>> ELSE <<c>>)
  BY <1>1 DEF RenameAttrs
<1>4. ASSUME v.found
      PROVE  /\ Hand(Shift(h, a)) /\ SameStory(Shift(Shift(h, a), b), h)
             /\ Shift(Shift(h, a), b).pair = h.pair /\ Shift(Shift(h, a), b).id = j
  <2>1. PICK g, f : g = Shift(h, a) /\ f = Shift(g, b)
    OBVIOUS
  <2>2. /\ SameStory(g, h) /\ Hand(g) /\ g.pair = h.pair
        /\ g.id = IF h.id > v.id THEN h.id - 1 ELSE h.id
    <3>1. ~(a.op = "delete" /\ h.id = a.id)
      BY <1>2, <1>4
    <3>2. /\ g.pair = h.pair /\ LikeHand(g, h)
          /\ g.id = IF a.op = "delete" /\ h.id > a.id THEN h.id - 1
                    ELSE IF a.op = "create" /\ h.id >= a.id THEN h.id + 1 ELSE h.id
      BY <2>1, <3>1, ShiftIs
    <3> QED BY <1>2, <2>1, <3>2, StoryKept DEF LikeHand
  <2>3. /\ SameStory(f, g) /\ f.pair = g.pair
        /\ f.id = IF g.id >= v.id THEN g.id + 1 ELSE g.id
    <3>1. b.op # "delete"
      BY <1>2
    <3>2. /\ f.pair = g.pair
          /\ f.id = IF b.op = "delete" /\ g.id > b.id THEN g.id - 1
                    ELSE IF b.op = "create" /\ g.id >= b.id THEN g.id + 1 ELSE g.id
      BY <2>1, <2>2, <3>1, ShiftIs
    <3> QED BY <1>2, <2>1, <2>2, <3>2, StoryKept
  <2>4. f.id = h.id
    BY <1>4, <2>2, <2>3
  <2> QED BY <1>4, <2>1, <2>2, <2>3, <2>4 DEF SameStory, LikeHand
<1>5. ASSUME ~v.found
      PROVE  SameStory(Shift(h, b), h) /\ Shift(h, b).pair = h.pair /\ Shift(h, b).id = j
  <2>1. PICK f : f = Shift(h, b)
    OBVIOUS
  <2>2. /\ f.pair = h.pair
        /\ f.id = IF b.op = "delete" /\ h.id > b.id THEN h.id - 1
                  ELSE IF b.op = "create" /\ h.id >= b.id THEN h.id + 1 ELSE h.id
    BY <1>2, <2>1, ShiftIs
  <2> QED BY <1>2, <1>5, <2>1, <2>2, StoryKept
<1>6. PICK f : f = IF v.found THEN Shift(Shift(h, a), b) ELSE Shift(h, b)
  OBVIOUS
<1>7. SameStory(f, h) /\ Hand(f) /\ f.pair = h.pair /\ f.id = j
  BY <1>4, <1>5, <1>6 DEF SameStory, LikeHand
<1>8. /\ Len(attrs) \in Nat
      /\ x = IF w.pair # v.pair THEN f ELSE Shift(f, c)
  <2>1. a \in S /\ b \in S /\ c \in S
    BY <1>1
  <2>2. CASE ~v.found /\ w.pair # v.pair
    <3>1. Len(attrs) = 1 /\ attrs[1] = b
      BY <1>3, <2>1, <2>2, AttrsAre
    <3> QED BY <1>6, <2>2, <3>1, ShiftedIs
  <2>3. CASE v.found /\ w.pair # v.pair
    <3>1. Len(attrs) = 2 /\ attrs[1] = a /\ attrs[2] = b
      BY <1>3, <2>1, <2>3, AttrsAre
    <3> QED BY <1>6, <2>3, <3>1, ShiftedIs
  <2>4. CASE ~v.found /\ w.pair = v.pair
    <3>1. Len(attrs) = 2 /\ attrs[1] = b /\ attrs[2] = c
      BY <1>3, <2>1, <2>4, AttrsAre
    <3> QED BY <1>6, <2>4, <3>1, ShiftedIs
  <2>5. CASE v.found /\ w.pair = v.pair
    <3>1. attrs = <<a>> \o <<b>> \o <<c>>
      BY <1>3, <2>5
    <3>2. Len(attrs) = 3 /\ attrs[1] = a /\ attrs[2] = b /\ attrs[3] = c
      <4>1. /\ Len(<<a>> \o <<b>> \o <<c>>) = 3 /\ (<<a>> \o <<b>> \o <<c>>)[1] = a
            /\ (<<a>> \o <<b>> \o <<c>>)[2] = b /\ (<<a>> \o <<b>> \o <<c>>)[3] = c
        BY <2>1, AttrsAre
      <4> QED BY <3>1, <4>1, Zenon
    <3> QED BY <1>6, <2>5, <3>2, ShiftedIs
  <2> QED BY <2>2, <2>3, <2>4, <2>5
<1>9. CASE w.pair # v.pair
  BY <1>7, <1>8, <1>9
<1>10. CASE w.pair = v.pair
  <2>1. j # old
    BY <1>10
  <2>2. x = Shift(f, c)
    BY <1>8, <1>10
  <2>3. ~(c.op = "delete" /\ f.id = c.id)
    BY <1>2, <1>7, <2>1
  <2>4. /\ x.pair = f.pair
        /\ x.id = IF c.op = "delete" /\ f.id > c.id THEN f.id - 1
                  ELSE IF c.op = "create" /\ f.id >= c.id THEN f.id + 1 ELSE f.id
    BY <1>7, <2>2, <2>3, ShiftIs
  <2>5. SameStory(x, f)
    BY <1>7, <2>2, StoryKept
  <2> QED BY <1>2, <1>7, <1>8, <1>10, <2>4, <2>5 DEF SameStory, LikeHand
<1> QED BY <1>9, <1>10
(* One entry taken out and one put in at its place.                        *)
LEMMA ReplaceIs ==
  ASSUME NEW A, NEW K, NEW D, Len(A) \in Nat, NEW i \in 1 .. Len(A), NEW y, HasLess(K, A, i), HasMore(D, K, i, y)
  PROVE  HasInstead(D, A, i, y)
<1>1. PICK l : l = Len(A)
  OBVIOUS
<1>2. l \in Nat /\ i \in 1 .. l /\ Len(K) = l - 1 /\ Len(D) = l
  BY <1>1 DEF HasLess, HasMore
<1>3. /\ \A j \in 1 .. (l - 1) : K[j] = IF j < i THEN A[j] ELSE A[j + 1]
      /\ \A j \in 1 .. l : D[j] = IF j < i THEN K[j] ELSE IF j = i THEN y ELSE K[j - 1]
  <2>1. (l - 1) + 1 = l
    BY <1>2
  <2> QED BY <1>1, <1>2, <2>1 DEF HasLess, HasMore
<1>4. ASSUME NEW m \in (1 .. l) \ {i} PROVE D[m] = A[m]
  <2>1. CASE m < i
    <3>1. m \in 1 .. (l - 1)
      BY <1>2, <1>4, <2>1
    <3> QED BY <1>3, <2>1, <3>1
  <2>2. CASE ~(m < i)
    <3>1. m - 1 \in 1 .. (l - 1) /\ ~(m - 1 < i) /\ (m - 1) + 1 = m
      BY <1>2, <1>4, <2>2
    <3>2. D[m] = K[m - 1]
      BY <1>3, <1>4, <2>2
    <3>3. K[m - 1] = A[(m - 1) + 1]
      BY <1>3, <3>1
    <3> QED BY <3>1, <3>2, <3>3
  <2> QED BY <2>1, <2>2
<1>5. D[i] = y
  BY <1>2, <1>3
<1> QED BY <1>1, <1>2, <1>4, <1>5 DEF HasInstead

(* The first part of a rename: the new entry is there.  It has not been    *)
(* listed, or it is the one that was.                                      *)
PutsIn(d, p, v, N) ==
  /\ N \cap All(disk) = {}
  /\ \A r \in Listed(disk) : \A i \in 1 .. (Len(disk[r].ents) + 1) :
       Keeps(disk, r, i, d, r, IF ~v.found /\ r = p /\ i >= v.id THEN i + 1 ELSE i, N)
LEMMA PutKeeps ==
  ASSUME NEW w, NEW v, NEW y, NEW p, NEW h, NEW n, NEW k, NEW a, NEW K, NEW D, NEW X, NEW old,
         Moving(w, v, y, p, h, n, k, a, K, D, X, old), NEW d, d = With(p, D)
  PROVE  \E N : PutsIn(d, p, v, N)
<1>1. Card(disk) /\ CardOK(disk, OnCard(disk)) /\ Sorted(disk) /\ a \in Nat /\ v.found \in BOOLEAN
      /\ y.name = a /\ y.node = w.node
  BY DEF Moving, Sorted
<1>2. Fitting(p, D) /\ p \in Listed(disk) /\ HasMore(D, K, v.id, y) /\ y \in Entry
  BY DEF Moving, Edits, Fitting
<1>3. Alters(disk, d, p) /\ d[p].ents = D
  BY <1>1, <1>2, WithAlters
<1>4. PICK s : s = v.id
  OBVIOUS
<1>5. CASE ~v.found
  <2>1. K = disk[p].ents /\ Place(disk, k, p, s, a)
    BY <1>4, <1>5 DEF Moving, Edits
  <2>2. PICK N : N = {<<k, y.name, y.node>>}
    OBVIOUS
  <2>3. N \cap All(disk) = {}
    BY <1>1, <2>1, <2>2, NewName
  <2>4. /\ s \in 1 .. (Len(disk[p].ents) + 1) /\ HasMore(d[p].ents, disk[p].ents, s, y)
        /\ k \in Heads(disk) /\ p \in Chain(disk, k)
    BY <1>2, <1>3, <1>4, <2>1 DEF Place
  <2>5. ASSUME NEW r \in Listed(disk), NEW i \in 1 .. (Len(disk[r].ents) + 1),
               NEW j, j = IF r = p /\ i >= s THEN i + 1 ELSE i
        PROVE  Keeps(disk, r, i, d, r, j, N)
    <3>1. Keeps(disk, r, i, d, r, j, {<<k, y.name, y.node>>})
      BY ONLY <1>3, <2>4, <2>5, MoreKeeps
    <3> QED BY <2>2, <3>1
  <2> QED BY <1>4, <1>5, <2>3, <2>5 DEF PutsIn
<1>6. CASE v.found
  <2>1. /\ s \in 1 .. Len(disk[p].ents) /\ HasLess(K, disk[p].ents, s)
        /\ Has(disk, k, p, s) /\ disk[p].ents[s].name = a
    BY <1>4, <1>6 DEF Moving, Edits
  <2>2. PICK x : x = disk[p].ents[s]
    OBVIOUS
  <2>3. PICK N : N = IF y = x THEN {} ELSE {<<k, y.name, y.node>>}
    OBVIOUS
  <2>4. HasInstead(d[p].ents, disk[p].ents, s, y)
    <3>1. PICK A : A = disk[p].ents
      OBVIOUS
    <3>2. Len(A) \in Nat /\ s \in 1 .. Len(A) /\ HasLess(K, A, s) /\ HasMore(D, K, s, y)
      BY <1>1, <1>2, <1>4, <2>1, <3>1, CardHas
    <3>3. HasInstead(D, A, s, y)
      BY ONLY <3>2, ReplaceIs
    <3> QED BY <1>3, <3>1, <3>3
  <2>5. x \in Entry /\ x.name = a
    <3>1. disk[p].ents \in Seq(Entry)
      BY <1>1, <1>2, CardHas
    <3> QED BY <2>1, <2>2, <3>1
  <2>6. N \cap All(disk) = {}
    <3>1. CASE y = x
      BY <2>3, <3>1
    <3>2. CASE y # x
      <4>1. x.node # w.node
        BY <1>1, <1>2, <2>5, <3>2 DEF Entry
      <4>2. Triple(disk, k, p, s) = <<k, a, x.node>>
        BY <2>2, <2>5 DEF Triple
      <4>3. Names!At(All(disk), k, a) = {<<k, a, x.node>>}
        <5>1. Names!At(All(disk), k, disk[p].ents[s].name) = {Triple(disk, k, p, s)}
          BY <1>1, <2>1, AtIs
        <5> QED BY <2>1, <4>2, <5>1
      <4>4. <<k, a, w.node>> \notin All(disk)
        <5>1. ASSUME <<k, a, w.node>> \in All(disk) PROVE <<k, a, w.node>> \in Names!At(All(disk), k, a)
          BY <5>1 DEF Names!At
        <5> QED BY <4>1, <4>3, <5>1
      <4> QED BY <1>1, <2>3, <3>2, <4>4
    <3> QED BY <3>1, <3>2
  <2>7. y = x \/ \A g \in Heads(disk) : p \in Chain(disk, g) => <<g, y.name, y.node>> \in N
    <3>1. \A g \in Heads(disk) : p \in Chain(disk, g) => g = k
      BY <1>1, <2>1, ChainsApart DEF Has
    <3> QED BY <2>3, <3>1
  <2>8. ASSUME NEW r \in Listed(disk), NEW i \in 1 .. (Len(disk[r].ents) + 1)
        PROVE  Keeps(disk, r, i, d, r, i, N)
    <3>1. s \in 1 .. Len(disk[p].ents) /\ (y = disk[p].ents[s] \/ \A g \in Heads(disk) : p \in Chain(disk, g) => <<g, y.name, y.node>> \in N)
      BY <2>1, <2>2, <2>7
    <3> QED BY ONLY <1>3, <2>4, <2>8, <3>1, InsteadKeeps
  <2> QED BY <1>6, <2>6, <2>8 DEF PutsIn
<1> QED BY <1>1, <1>5, <1>6
(* The commit of a rename, as the edit of one pair.  A handle that stood   *)
(* behind the last entry of the pair is the only one that may leave it.    *)
RenameKeeps(e, w, v, attrs, N) ==
  /\ Editing(e, v.pair, attrs, N)
  /\ Listed(e) = Listed(disk) /\ e[v.pair].tail = disk[v.pair].tail /\ e[v.pair].split = disk[v.pair].split
  /\ w.pair # v.pair => \A m : /\ SamePlace(m) /\ Stands(m, disk) /\ m.pair = v.pair
                               /\ v.id \in 1 .. Len(disk[v.pair].ents)
                               /\ Shifted(m, attrs).id = Len(e[v.pair].ents) + 1
                               => m.id = Len(disk[v.pair].ents) + 1
LEMMA RenameReadsOn ==
  ASSUME NEW w, NEW v, NEW s, NEW y, NEW h, NEW n, NEW k, NEW a, NEW K, NEW D, NEW X, NEW old, NEW o,
         RenameWrites(w, v, s, y, h, n, k, a, K, D, X, old, o),
         v.found => ~(handle.pair = v.pair /\ handle.id = v.id), ~(handle.pair = w.pair /\ handle.id = w.id),
         NEW attrs, attrs = RenameAttrs(w, v), NEW e, e = With(v.pair, X)
  PROVE  \E N : RenameKeeps(e, w, v, attrs, N)
<1>1. PICK p, d : p = v.pair /\ d = With(p, D)
  OBVIOUS
<1>2. Moving(w, v, y, p, h, n, k, a, K, D, X, old) /\ e = With(p, X)
  BY <1>1 DEF RenameWrites
<1>3. /\ Card(disk) /\ CardOK(disk, OnCard(disk)) /\ v.found \in BOOLEAN
      /\ Fitting(p, D) /\ Fitting(p, X) /\ p \in Listed(disk)
      /\ w.pair = p => old \in 1 .. Len(D) /\ HasLess(X, D, old)
      /\ w.pair # p => X = D
      /\ old = IF ~v.found /\ v.id <= w.id THEN w.id + 1 ELSE w.id
      /\ v.id \in 1 .. (Len(K) + 1) /\ HasMore(D, K, v.id, y)
      /\ (v.found => HasLess(K, disk[p].ents, v.id)) /\ (~v.found => K = disk[p].ents)
      /\ w.id \in 1 .. Len(disk[w.pair].ents) /\ w.pair \in Listed(disk)
  <2>1. Sorted(disk) /\ Has(disk, h, w.pair, w.id)
    BY <1>2 DEF Moving
  <2>2. w.pair \in Listed(disk) /\ w.id \in 1 .. Len(disk[w.pair].ents)
    BY <2>1, HasIs DEF Sorted
  <2> QED BY <1>2, <2>1, <2>2 DEF Moving, Edits, Sorted, Fitting
<1>4. Len(disk[p].ents) \in Nat /\ p \in Pair /\ disk[p] \in Content
  BY <1>3, CardHas
<1>5. v.id \in Nat /\ w.id \in Nat /\ Len(D) = Len(disk[p].ents) + (IF v.found THEN 0 ELSE 1)
  <2>1. Len(D) = Len(K) + 1 /\ (v.found => Len(K) = Len(disk[p].ents) - 1)
    BY <1>3 DEF HasMore, HasLess
  <2>2. Len(D) = Len(disk[p].ents) + (IF v.found THEN 0 ELSE 1)
    <3>1. PICK b, l, x, z : b = v.found /\ l = Len(disk[p].ents) /\ x = Len(K) /\ z = Len(D)
      OBVIOUS
    <3>2. b \in BOOLEAN /\ l \in Nat /\ z = x + 1 /\ (b => x = l - 1) /\ (~b => x = l)
      BY <1>3, <1>4, <2>1, <3>1
    <3>3. z = l + (IF b THEN 0 ELSE 1)
      BY ONLY <3>2
    <3> QED BY <3>1, <3>3
  <2>3. w.id \in Nat /\ Len(K) \in Nat
    <3>1. Len(disk[w.pair].ents) \in Nat
      BY <1>3, CardHas
    <3>2. v.found => Len(disk[p].ents) >= 1
      <4>1. v.found => v.id \in 1 .. Len(disk[p].ents)
        BY <1>2 DEF Moving, Edits
      <4> QED BY <1>4, <4>1
    <3> QED BY <1>3, <1>4, <2>1, <3>1, <3>2
  <2> QED BY <1>3, <2>2, <2>3
<1>6. Alters(disk, d, p) /\ d[p].ents = D /\ Alters(d, e, p) /\ e[p].ents = X
  BY <1>1, <1>2, <1>3, WithAlters, WithBoth
<1>7. /\ Listed(e) = Listed(disk) /\ p \in Listed(e) /\ Card(e)
      /\ \A r \in Listed(disk) \ {p} : e[r] = disk[r]
  <2>1. Listed(e) = Listed(disk) /\ \A r \in Pair \ {p} : e[r] = disk[r]
    BY <1>2, <1>3, WithIs
  <2> QED BY <1>3, <1>6, <2>1, CardHas DEF Alters
<1>8. e[p].tail = disk[p].tail /\ e[p].split = disk[p].split
  <2>1. PICK m : m = SetEnts(disk[p], X)
    OBVIOUS
  <2>2. m \in Content /\ m.tail = disk[p].tail /\ m.split = disk[p].split
    BY <1>3, <1>4, <2>1, WithEnts DEF Fitting
  <2>3. e = SetPair(disk, p, m) /\ disk \in Disks
    BY <1>2, <1>3, <2>1, CardHas DEF With
  <2> QED BY <1>4, <2>2, <2>3, WithPair
<1>9. PICK N : PutsIn(d, p, v, N)
  <2>1. Moving(w, v, y, p, h, n, k, a, K, D, X, old) /\ d = With(p, D)
    BY <1>1, <1>2
  <2> QED BY ONLY <2>1, PutKeeps
<1>10. ASSUME NEW m, NEW x, SamePlace(m), Stands(m, disk), m.pair = p, x = Shifted(m, attrs),
              NEW j, j = IF ~v.found /\ m.id >= v.id THEN m.id + 1 ELSE m.id
       PROVE  /\ SameStory(x, m) /\ x.pair = m.pair
              /\ x.id = IF w.pair = p /\ j > old THEN j - 1 ELSE j
  <2>1. Hand(m) /\ m.id \in Nat /\ (v.found => m.id # v.id) /\ (w.pair = v.pair => m.id # w.id)
    BY <1>1, <1>4, <1>10 DEF SamePlace, Stands
  <2>2. /\ v.found \in BOOLEAN /\ v.id \in Nat /\ w.id \in Nat /\ x = Shifted(m, attrs)
        /\ old = (IF ~v.found /\ v.id <= w.id THEN w.id + 1 ELSE w.id)
        /\ attrs = RenameAttrs(w, v) /\ j = IF ~v.found /\ m.id >= v.id THEN m.id + 1 ELSE m.id
    BY <1>3, <1>5, <1>10
  <2>3. /\ SameStory(x, m) /\ x.pair = m.pair
        /\ x.id = IF w.pair = v.pair /\ j > old THEN j - 1 ELSE j
    BY ONLY <2>1, <2>2, RenameShifts
  <2> QED BY <1>1, <2>3
<1>11. ASSUME NEW m, NEW x, SamePlace(m), Stands(m, disk),
              x = IF m.pair = p THEN Shifted(m, attrs) ELSE m
       PROVE  /\ SameStory(x, m) /\ x.pair = m.pair
              /\ Keeps(disk, m.pair, m.id, e, x.pair, x.id, N)
  <2>1. Hand(m) /\ m.pair \in Listed(disk) /\ m.id \in 1 .. (Len(disk[m.pair].ents) + 1)
    BY <1>11 DEF SamePlace, Stands
  <2>2. PICK r, i, j : /\ r = m.pair /\ i = m.id
                       /\ j = IF ~v.found /\ r = p /\ i >= v.id THEN i + 1 ELSE i
    OBVIOUS
  <2>3. /\ SameStory(x, m) /\ x.pair = m.pair
        /\ x.id = IF w.pair = p /\ r = p /\ j > old THEN j - 1 ELSE j
    <3>1. CASE m.pair = p
      <4>1. j = IF ~v.found /\ m.id >= v.id THEN m.id + 1 ELSE m.id
        BY <2>2, <3>1
      <4>2. x = Shifted(m, attrs)
        BY <1>11, <3>1
      <4> QED BY <1>10, <1>11, <2>2, <3>1, <4>1, <4>2
    <3>2. CASE m.pair # p
      BY <1>11, <2>1, <2>2, <3>2 DEF SameStory, LikeHand
    <3> QED BY <3>1, <3>2
  <2>4. Keeps(disk, r, i, d, r, j, N)
    BY <1>9, <2>1, <2>2 DEF PutsIn
  <2>5. PICK z : z = x.id
    OBVIOUS
  <2>6. Keeps(d, r, j, e, r, z, {})
    <3>1. CASE w.pair = p
      <4>1. r \in Listed(d) /\ j \in 1 .. (Len(d[r].ents) + 1)
        <5>1. Stands([pair |-> r, id |-> j], d)
          <6>1. Card(d)
            BY <1>6 DEF Alters
          <6> QED BY <1>3, <2>1, <2>2, <2>4, <6>1, StandsOn DEF Stands
        <5> QED BY <5>1 DEF Stands
      <4>2. old \in 1 .. Len(d[p].ents) /\ HasLess(e[p].ents, d[p].ents, old)
        BY <1>3, <1>6, <3>1
      <4>3. z = IF r = p /\ j > old THEN j - 1 ELSE j
        BY <2>3, <2>5, <3>1
      <4> QED BY ONLY <1>6, <4>1, <4>2, <4>3, LessKeeps
    <3>2. CASE w.pair # p
      <4>1. e = d /\ z = j
        BY <1>1, <1>2, <1>3, <2>3, <2>5, <3>2
      <4> QED BY <4>1, KeepsSame
    <3> QED BY <3>1, <3>2
  <2>7. Keeps(disk, r, i, e, r, z, N)
    BY <2>4, <2>6, KeepsThen
  <2> QED BY <2>2, <2>3, <2>5, <2>7
<1>12. Editing(e, p, attrs, N)
  BY <1>3, <1>7, <1>9, <1>11 DEF Editing, PutsIn
<1>13. ASSUME w.pair # p, NEW m, SamePlace(m), Stands(m, disk), m.pair = p,
              v.id \in 1 .. Len(disk[p].ents), Shifted(m, attrs).id = Len(e[p].ents) + 1
       PROVE  m.id = Len(disk[p].ents) + 1
  <2>1. Len(e[p].ents) = Len(disk[p].ents) + (IF v.found THEN 0 ELSE 1)
    BY <1>3, <1>5, <1>6, <1>13
  <2>2. PICK j : j = IF ~v.found /\ m.id >= v.id THEN m.id + 1 ELSE m.id
    OBVIOUS
  <2>3. Shifted(m, attrs).id = j
    BY <1>10, <1>13, <2>2
  <2>4. m.id \in Nat
    BY <1>4, <1>13 DEF Stands
  <2>5. j = Len(disk[p].ents) + (IF v.found THEN 0 ELSE 1) + 1
    BY <1>4, <1>13, <2>1, <2>3
  <2>6. CASE v.found
    BY <1>4, <2>2, <2>4, <2>5, <2>6
  <2>7. CASE ~v.found
    BY <1>4, <1>13, <2>2, <2>4, <2>5, <2>7, SMTT(30)
  <2> QED BY <2>6, <2>7
<1>14. RenameKeeps(e, w, v, attrs, N)
  BY <1>1, <1>7, <1>8, <1>12, <1>13 DEF RenameKeeps
<1> QED BY <1>14
(* A reader that the commit of a rename has carried along does not come to *)
(* the old entry, which that commit leaves in another pair.                *)
StaysOffIf(w, v, e, attrs, N, s, o, m, n) ==
  /\ "next" \notin Uses /\ Card(disk) /\ Moves(lfs.gdisk) = {} /\ Dirlike(handle) /\ HandleReads
  /\ Removes(w.pair, w.id) /\ w.pair \in Listed(disk) /\ w.id \in 1 .. Len(disk[w.pair].ents)
  /\ w.pair # v.pair /\ (disk[v.pair].split => v.id \in 1 .. Len(disk[v.pair].ents))
  /\ RenameKeeps(e, w, v, attrs, N) /\ s.told = {} /\ Committed(s, v.pair, e, o)
  /\ SamePlace(m) /\ n = FixUp(m, o, v.pair, attrs)
LEMMA StaysOff ==
  ASSUME NEW w, NEW v, NEW e, NEW attrs, NEW N, NEW s, NEW o, NEW m, NEW n,
         StaysOffIf(w, v, e, attrs, N, s, o, m, n)
  PROVE  ~(n.pair = w.pair /\ n.id = w.id)
<1> SUFFICES ASSUME "next" \notin Uses, Card(disk), Moves(lfs.gdisk) = {}, Dirlike(handle), HandleReads,
                    Removes(w.pair, w.id), w.pair \in Listed(disk), w.id \in 1 .. Len(disk[w.pair].ents),
                    w.pair # v.pair, disk[v.pair].split => v.id \in 1 .. Len(disk[v.pair].ents),
                    RenameKeeps(e, w, v, attrs, N), s.told = {}, Committed(s, v.pair, e, o),
                    SamePlace(m), n = FixUp(m, o, v.pair, attrs)
             PROVE  ~(n.pair = w.pair /\ n.id = w.id)
  BY DEF StaysOffIf
<1>1. PICK p, h : p = v.pair /\ h = handle
  OBVIOUS
<1>2. /\ Editing(e, p, attrs, N) /\ Committed(s, p, e, o) /\ n = FixUp(m, o, p, attrs) /\ w.pair # p
      /\ Listed(e) = Listed(disk) /\ e[p].tail = disk[p].tail /\ e[p].split = disk[p].split
      /\ disk[p].split => v.id \in 1 .. Len(disk[p].ents)
  BY <1>1 DEF RenameKeeps
<1>3. /\ Card(o.disk) /\ Heads(o.disk) = Heads(e) /\ Spread(e, o.disk, p, Free(s)) /\ o.told = {p}
  BY <1>2, CommittedClean, CleanCard DEF Committed, Alike
<1>4. /\ Card(e) /\ p \in Listed(disk) /\ p \in Listed(e) /\ Len(disk[p].ents) \in Nat
      /\ \A r \in Listed(disk) \ {p} : e[r] = disk[r]
  BY <1>2, CardHas DEF Editing
<1>5. /\ Hand(m) /\ m.pair = h.pair /\ m.id = h.id /\ Hand(h)
      /\ ((Stands(h, disk) /\ Fresh(h, disk)) \/ Blind(h))
  BY <1>1 DEF SamePlace, HandleReads, ReaderOK
<1>6. /\ ~(Sought(h).pair = w.pair /\ Sought(h).id = w.id)
      /\ ~(h.pair = w.pair /\ h.id = w.id)
  BY <1>1, RemovesIs
<1>7. CASE h.pair # p
  <2>1. m.pair \notin o.told
    BY <1>3, <1>5, <1>7
  <2>2. PICK x : x = IF m.pair = p THEN Shifted(m, attrs) ELSE m
    OBVIOUS
  <2>3. n = m
    BY <1>2, <2>1, <2>2, FixUpIs
  <2> QED BY <1>5, <1>6, <2>3
<1>8. CASE h.pair = p
  <2> SUFFICES ASSUME n.pair = w.pair, n.id = w.id PROVE FALSE
    OBVIOUS
  <2>1. Stands(m, disk)
    <3>1. CASE Blind(h)
      BY <1>4, <1>5, <1>8, <3>1 DEF Blind, Stands
    <3>2. CASE Stands(h, disk)
      BY <1>5, <3>2 DEF Stands
    <3> QED BY <1>5, <3>1, <3>2
  <2>2. PICK x : x = Shifted(m, attrs)
    OBVIOUS
  <2>3. Onward(e, p, x.id, n.pair, n.id)
    <3>1. x = IF m.pair = p THEN Shifted(m, attrs) ELSE m
      BY <1>5, <1>8, <2>2
    <3>2. /\ SameStory(x, m) /\ x.pair = m.pair
          /\ Keeps(disk, m.pair, m.id, e, x.pair, x.id, N)
      BY <1>2, <2>1, <3>1 DEF Editing
    <3>3. m.pair = p /\ p \in o.told
      BY <1>3, <1>5, <1>8
    <3> QED BY ONLY Card(disk), <1>2, <1>3, <1>4, <1>5, <2>1, <3>1, <3>2, <3>3, EditReads
  <2>4. PICK t : t = disk[p].tail
    OBVIOUS
  <2>5. /\ x.id = Len(e[p].ents) + 1 /\ disk[p].split /\ w.id = 1
        /\ w.pair = t \/ (e[t].ents = <<>> /\ e[t].split /\ w.pair = e[t].tail)
    BY <1>2, <2>3, <2>4 DEF Onward
  <2>6. m.id = Len(disk[p].ents) + 1 /\ Len(disk[p].ents) # 0
    <3>1. m.pair = p /\ v.id \in 1 .. Len(disk[p].ents) /\ Shifted(m, attrs).id = Len(e[p].ents) + 1
      BY <1>2, <1>5, <1>8, <2>2, <2>5
    <3>2. m.id = Len(disk[p].ents) + 1
      BY <1>1, <1>2, <2>1, <3>1 DEF RenameKeeps
    <3> QED BY <1>4, <3>1, <3>2
  <2>7. Stands(h, disk) /\ Fresh(h, disk)
    BY <1>4, <1>5, <2>6 DEF Blind
  <2>8. /\ t \in Listed(disk) /\ t # p /\ disk[t] = e[t]
    <3>1. t \in Listed(disk)
      BY <1>4, <2>4, <2>5, CardHas
    <3>2. disk \in Disks /\ Threaded(disk)
      BY CardHas
    <3>3. p \notin Chain(disk, t) /\ t \in Chain(disk, t)
      BY <1>4, <2>4, <2>5, <3>1, <3>2, ChainEndsOnce, ChainCloses
    <3> QED BY <1>4, <3>1, <3>3
  <2>9. PICK c, b : c = Crossed(h, disk) /\ b = Crossed(c, disk)
    OBVIOUS
  <2>10. c.pair = t /\ c.id = 1 /\ Hand(c) /\ Stands(c, disk) /\ Fresh(c, disk)
    <3>1. h.id = Len(disk[h.pair].ents) + 1 /\ disk[h.pair].split
      BY <1>5, <1>8, <2>5, <2>6
    <3>2. /\ Hand(c) /\ Stands(c, disk) /\ Fresh(c, disk) /\ c.pair = disk[h.pair].tail /\ c.id = 1
      BY <1>5, <2>7, <2>9, <3>1, CrossedReads
    <3> QED BY <1>8, <2>4, <3>2
  <2>11. Len(disk[w.pair].ents) \in Nat /\ Len(disk[w.pair].ents) # 0
    BY CardHas
  <2>12. b.pair = w.pair /\ b.id = 1
    <3>0. \/ b = c /\ ~(c.id = Len(disk[c.pair].ents) + 1 /\ disk[c.pair].split)
          \/ /\ c.id = Len(disk[c.pair].ents) + 1 /\ disk[c.pair].split
             /\ b.pair = disk[c.pair].tail /\ b.id = 1
      BY <2>9, <2>10, CrossedReads
    <3>1. CASE w.pair = t
      BY <2>10, <2>11, <3>0, <3>1
    <3>2. CASE e[t].ents = <<>> /\ e[t].split /\ w.pair = e[t].tail
      <4>1. Len(disk[t].ents) = 0 /\ disk[t].split /\ w.pair = disk[t].tail
        BY <2>8, <3>2
      <4> QED BY <2>10, <3>0, <4>1
    <3> QED BY <2>5, <3>1, <3>2
  <2>13. ~Crosses(b, disk)
    BY <2>11, <2>12 DEF Crosses
  <2>14. Sought(h) = b
    BY <1>5, <2>7, <2>9, <2>13, SoughtTwice
  <2> QED BY <1>6, <2>5, <2>12, <2>14
<1> QED BY <1>7, <1>8
(* lfs_rename, up to its first commit.                                     *)
LEMMA RenameReads ==
  ASSUME Sure, "next" \notin Uses, NamesInv, ReadInv, Rename
  PROVE  ReadInv'
<1>0. Inv /\ Sorted(disk) /\ Card(disk) /\ Ready
  BY NamesHave DEF Rename
<1>1. PICK w, v, h, n, k, a, l, o : RenameCommit(w, v, h, n, k, a, l, o)
  BY <1>0, RenameTakes
<1>2. RenameLeft(w, v, l, o)
  BY <1>0, <1>1, RenameLeaves
<1>3. PICK s, y, K, D, X, old : RenameWrites(w, v, s, y, h, n, k, a, K, D, X, old, o)
  BY <1>0, <1>1, RenameMoves
<1>4. /\ w.pair \in Listed(disk) /\ w.id \in 1 .. Len(disk[w.pair].ents)
      /\ v.found => v.pair \in Listed(disk) /\ v.id \in 1 .. Len(disk[v.pair].ents)
  <2>1. /\ Has(disk, h, w.pair, w.id)
        /\ v.found => Has(disk, k, v.pair, v.id)
    BY <1>3 DEF RenameWrites, Moving
  <2> QED BY <1>0, <2>1, HasIs
<1>5. Moves(lfs.gdisk) = {}
  BY <1>0, ReadyIs
<1>6. Removes(w.pair, w.id) /\ (v.found => Removes(v.pair, v.id))
  BY <1>1 DEF RenameCommit
<1>7. PICK p, attrs, e : p = v.pair /\ attrs = RenameAttrs(w, v) /\ e = With(v.pair, X)
  OBVIOUS
<1>8. /\ Committed(s, p, e, o) /\ s.told = {} /\ (disk[v.pair].split => v.id \in 1 .. Len(disk[v.pair].ents))
      /\ v.found \in BOOLEAN
  BY <1>3, <1>7 DEF RenameWrites, Moving
<1>9. Card(o.disk)
  BY <1>8, CommittedClean, CleanCard
<1>10. Len(attrs) \in Nat
  <2>1. PICK b, S : S = {Del(v.id), Create(v.id), b} /\ b = Del(IF ~v.found /\ v.id <= w.id THEN w.id + 1 ELSE w.id)
    OBVIOUS
  <2>2. PICK f, g : f = Del(v.id) /\ g = Create(v.id)
    OBVIOUS
  <2>3. attrs = (IF v.found THEN <<f>> ELSE <<>>) \o <<g>> \o (IF w.pair # v.pair THEN <<>> ELSE <<b>>)
    BY <1>7, <2>1, <2>2 DEF RenameAttrs
  <2>4. f \in S /\ g \in S /\ b \in S
    BY <2>1, <2>2
  <2>5. PICK i, j : i = (IF v.found THEN <<f>> ELSE <<>>) /\ j = (IF w.pair # v.pair THEN <<>> ELSE <<b>>)
    OBVIOUS
  <2>6. i \in Seq(S) /\ j \in Seq(S) /\ <<g>> \in Seq(S)
    BY <2>4, <2>5
  <2>7. i \o <<g>> \in Seq(S)
    BY <2>6
  <2>8. attrs = (i \o <<g>>) \o j
    BY <2>3, <2>5
  <2>9. attrs \in Seq(S)
    BY <2>6, <2>7, <2>8
  <2> QED BY <2>9
<1>11. ASSUME Dirlike(handle)
       PROVE  /\ HandleReads
              /\ v.found => ~(handle.pair = v.pair /\ handle.id = v.id)
              /\ ~(handle.pair = w.pair /\ handle.id = w.id)
  <2>1. HandleReads
    BY <1>11 DEF ReadInv
  <2> QED BY <1>0, <1>4, <1>5, <1>6, <1>11, <2>1, RemovesIs
<1>12. Dirlike(handle) => \E M : RenameKeeps(e, w, v, attrs, M)
  BY <1>3, <1>7, <1>11, RenameReadsOn
<1>13. PICK N : Dirlike(handle) => RenameKeeps(e, w, v, attrs, N)
  BY <1>12
<1>14. Dirlike(handle) => Steering(o, p, attrs, N)
  <2> SUFFICES ASSUME Dirlike(handle) PROVE Steering(o, p, attrs, N)
    OBVIOUS
  <2>1. Editing(e, p, attrs, N)
    BY <1>7, <1>13 DEF RenameKeeps
  <2> QED BY ONLY <1>0, <1>8, <2>1, EditSteers
<1>15. PICK k2 : k2 = SetLfs(o, PrepOrphans(o.lfs, FALSE))
  OBVIOUS
<1>16. /\ o.ok = TRUE
       /\ Moves(l.gstate) = (IF w.pair # v.pair THEN {Moved(w)} ELSE {}) /\ o.lfs.gdisk = l.gstate
  <2>1. o.ok
    BY <1>2 DEF RenameLeft
  <2>2. o.ok \in BOOLEAN
    <3>1. o \in States
      BY <1>2 DEF RenameLeft
    <3> QED BY <3>1, StateIs
  <2> QED BY <1>2, <2>1, <2>2 DEF RenameLeft
<1>17. CASE w.pair # v.pair
  <2>1. Apply(o, p, attrs) /\ op'.at = "rename_delete" /\ op'.pair = w.pair /\ op'.id = w.id
    <3>1. Apply(o, p, attrs) /\ op' = [at |-> "rename_delete", pair |-> w.pair, id |-> w.id,
                                      dir |-> IF v.found /\ v.node \in Pair THEN v.node ELSE NoPair]
      BY <1>1, <1>7, <1>16, <1>17 DEF RenameCommit
    <3> QED BY <3>1
  <2>2. Dirlike(handle) => ~(handle'.pair = op'.pair /\ handle'.id = op'.id)
    <3> SUFFICES ASSUME Dirlike(handle) PROVE ~(handle'.pair = w.pair /\ handle'.id = w.id)
      BY <2>1
    <3>1. PICK m, x : m = Remember(handle, o) /\ x = FixUp(m, o, v.pair, attrs)
      OBVIOUS
    <3>2. handle' = x
      BY <1>7, <2>1, <3>1 DEF Apply
    <3>3. SamePlace(m)
      <4>1. Hand(handle)
        BY <1>0 DEF Inv, HandleOK, Follows
      <4> QED BY <3>1, <4>1, Remembered DEF SamePlace
    <3>4. HandleReads /\ RenameKeeps(e, w, v, attrs, N) /\ Committed(s, v.pair, e, o)
      BY <1>7, <1>8, <1>11, <1>13
    <3>5. ~(x.pair = w.pair /\ x.id = w.id)
      <4>1. /\ "next" \notin Uses /\ Card(disk) /\ Moves(lfs.gdisk) = {} /\ Dirlike(handle) /\ HandleReads
            /\ Removes(w.pair, w.id) /\ w.pair \in Listed(disk) /\ w.id \in 1 .. Len(disk[w.pair].ents)
            /\ w.pair # v.pair /\ (disk[v.pair].split => v.id \in 1 .. Len(disk[v.pair].ents))
        BY <1>0, <1>4, <1>5, <1>6, <1>8, <1>17, <3>4
      <4>2. /\ RenameKeeps(e, w, v, attrs, N) /\ s.told = {} /\ Committed(s, v.pair, e, o)
            /\ SamePlace(m) /\ x = FixUp(m, o, v.pair, attrs)
        BY <1>8, <3>1, <3>3, <3>4
      <4>3. StaysOffIf(w, v, e, attrs, N, s, o, m, x)
        BY <4>1, <4>2 DEF StaysOffIf
      <4> QED BY ONLY <4>3, StaysOff
    <3> QED BY <3>2, <3>5
  <2> QED BY ONLY <1>0, ReadInv, <1>9, <1>10, <1>14, <2>1, <2>2, CommitReads
<1>18. CASE w.pair = v.pair
  <2>1. PICK c : /\ c = o \/ c = k2
                 /\ Apply(c, p, attrs) /\ op'.at # "rename_delete"
    <3>1. CASE ~(v.found /\ v.node \in Pair)
      <4>1. Apply(o, p, attrs) /\ op' = Idle
        BY <1>1, <1>7, <1>16, <1>18, <3>1, Zenon DEF RenameCommit, Return
      <4>2. op'.at # "rename_delete"
        BY <4>1 DEF Idle
      <4> QED BY <4>1, <4>2
    <3>2. CASE v.found /\ v.node \in Pair
      <4>1. Apply(k2, p, attrs) /\ op' = [at |-> "drop", dir |-> v.node]
        BY <1>1, <1>7, <1>15, <1>16, <1>18, <3>2, Zenon DEF RenameCommit
      <4>2. op'.at # "rename_delete"
        BY <4>1
      <4> QED BY <4>1, <4>2
    <3> QED BY <3>1, <3>2
  <2>2. c.disk = o.disk /\ c.told = o.told /\ c.held = o.held /\ c.lfs.gdisk = o.lfs.gdisk
    <3>1. o \in States /\ o.lfs \in Globals
      BY <1>2, StateIs DEF RenameLeft
    <3>2. PICK g : g = PrepOrphans(o.lfs, FALSE)
      OBVIOUS
    <3>3. g.gdisk = o.lfs.gdisk
      <4>1. {} \in SUBSET Token
        OBVIOUS
      <4> QED BY <3>1, <3>2, <4>1, PrepIs
    <3>4. k2.disk = o.disk /\ k2.told = o.told /\ k2.held = o.held /\ k2.lfs = g
      BY <1>15, <3>1, <3>2 DEF SetLfs, States
    <3> QED BY <2>1, <3>3, <3>4
  <2>3. Dirlike(handle) => Steering(c, p, attrs, N)
    BY <1>14, <2>2, SteeringSame
  <2>4. Moves(c.lfs.gdisk) = {} /\ Card(c.disk)
    BY <1>9, <1>16, <1>18, <2>2
  <2>5. Apply(c, p, attrs) /\ op'.at # "rename_delete"
    BY <2>1
  <2> QED BY ONLY <1>0, ReadInv, <1>10, <2>3, <2>4, <2>5, CommitReads
<1> QED BY <1>17, <1>18
------------------------------------------------------------------------------
(* The theorems.                                                           *)

(* Every step leaves an open directory readable, and nothing of it read    *)
(* twice or left out.                                                      *)
LEMMA NextReadInv ==
  ASSUME Sure, "next" \notin Uses, "early" \notin Uses, NamesInv, Inv', ReadInv, [Next]_vars
  PROVE  ReadInv'
<1>1. CASE Demove
  BY <1>1, DemoveReads
<1>2. CASE DropOrphan \/ DropRemoved
  BY <1>2, OrphanReads
<1>3. CASE Deorphaned \/ Refuse \/ Close \/ PowerLoss
  BY <1>3, QuietReads
<1>4. CASE Mkdir
  BY <1>4, MkdirReads
<1>5. CASE MkdirLink
  BY <1>5, MkdirLinkReads
<1>6. CASE MkdirEntry
  BY <1>6, MkdirEntryReads
<1>7. CASE CreateFile
  BY <1>7, CreateFileReads
<1>8. CASE SyncFile
  BY <1>8, SyncFileReads
<1>9. CASE OpenDir
  BY <1>9, OpenDirReads
<1>10. CASE ReadDir
  <2>1. Sorted(disk)
    BY NamesHave
  <2> QED BY <1>10, <2>1, ReadDirReads
<1>11. CASE RemoveEntry
  BY <1>11, RemoveEntryReads
<1>12. CASE Rename
  BY <1>12, RenameReads
<1>13. CASE RenameDelete
  BY <1>13, RenameDeleteReads
<1>14. CASE UNCHANGED vars
  BY <1>14 DEF vars, ReadInv, Dirlike, HandleReads, WatchOK
<1> QED
  BY <1>1, <1>2, <1>3, <1>4, <1>5, <1>6, <1>7, <1>8, <1>9, <1>10, <1>11, <1>12, <1>13, <1>14 DEF Next

(* No directory is open at the start.                                      *)
LEMMA InitReads ==
  ASSUME Init
  PROVE  ReadInv
BY DEF Init, ReadInv, Dirlike, NoHandle

(* What these two proofs rest on holds of every state: where an open       *)
(* directory is on the card, what it has read is behind that place and     *)
(* what it has still to read ahead of it.                                  *)
THEOREM ReadsInvariance ==
  ASSUME Sure, "next" \notin Uses, "early" \notin Uses
  PROVE  Spec => []ReadInv
<1>1. Init => ReadInv
  BY InitReads
<1>2. NamesInv /\ NamesInv' /\ ReadInv /\ [Next]_vars => ReadInv'
  <2> SUFFICES ASSUME NamesInv, NamesInv', ReadInv, [Next]_vars PROVE ReadInv'
    OBVIOUS
  <2>1. Inv'
    BY DEF NamesInv
  <2> QED BY <2>1, NextReadInv
<1>3. Spec => []NamesInv
  BY NamesInvariance
<1> QED BY <1>1, <1>2, <1>3, PTL DEF Spec

(* The fix-up of lfs_dir_commit keeps an open directory on a pair of its   *)
(* own, whatever the commits between two reads do (lfs.cpp:1869).          *)
THEOREM AlwaysReadable ==
  ASSUME Sure, "next" \notin Uses, "early" \notin Uses
  PROVE  Spec => StaysReadable
<1>1. NamesInv /\ ReadInv /\ [Next]_vars => [ReadDir => result' # "unreadable"]_vars
  <2> SUFFICES ASSUME NamesInv, ReadInv, ReadDir PROVE result' # "unreadable"
    OBVIOUS
  <2>1. Sorted(disk)
    BY NamesHave
  <2> QED BY <2>1, ReadDirReads DEF ReadsWell
<1>2. Spec => []NamesInv
  BY NamesInvariance
<1>3. Spec => []ReadInv
  BY ReadsInvariance
<1> QED BY <1>1, <1>2, <1>3, PTL DEF Spec, StaysReadable

(* lfs_dir_read returns every entry that stays in the directory, and none  *)
(* of them twice.                                                          *)
THEOREM EachReadOnce ==
  ASSUME Sure, "next" \notin Uses, "early" \notin Uses
  PROVE  Spec => ReadsEachOnce
<1> DEFINE Once == ReadDir /\ handle.kind = "dir" =>
                     /\ result' = "end" => handle.due = {}
                     /\ result' = "read" => handle'.seen # handle.seen
<1>1. NamesInv /\ ReadInv /\ [Next]_vars => [Once]_vars
  <2> SUFFICES ASSUME NamesInv, ReadInv, ReadDir, handle.kind = "dir"
               PROVE  /\ result' = "end" => handle.due = {}
                      /\ result' = "read" => handle'.seen # handle.seen
    OBVIOUS
  <2>1. Sorted(disk)
    BY NamesHave
  <2> QED BY <2>1, ReadDirReads DEF ReadsWell
<1>2. Spec => []NamesInv
  BY NamesInvariance
<1>3. Spec => []ReadInv
  BY ReadsInvariance
<1>4. Spec => [][Once]_vars
  <2> HIDE DEF Once
  <2> QED BY <1>1, <1>2, <1>3, PTL DEF Spec
<1> QED BY <1>4 DEF ReadsEachOnce
==============================================================================
