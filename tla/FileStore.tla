------------------------------ MODULE FileStore ------------------------------
(***************************************************************************)
(* What littlefs promises of a file: an open file is a sequence and a      *)
(* position, that of POSIX; what is stored under its name changes only     *)
(* when it is synchronised or closed, then to the whole of what was        *)
(* written, and is what remains when power is lost.  A call that fails may *)
(* have had a first part of its effect, and may leave the position         *)
(* anywhere; what has failed is not stored until a write has succeeded.    *)
(***************************************************************************)
EXTENDS Naturals, SequencesExt

CONSTANTS
  NoFile,      (* nothing is stored under a name                           *)
  Closed       (* a handle that is not open                                *)

VARIABLES
  stored,      (* what is stored of each file                              *)
  view,        (* what each handle shows                                   *)
  call         (* the last call, and what it returned                      *)

files == <<stored, view, call>>

Zeros(n) == [i \in 1 .. n |-> 0]
(* s to be m long or longer, with zeros from its end on.                   *)
Padded(s, m) == IF Len(s) < m THEN s \o Zeros(m - Len(s)) ELSE s
(* d over what s holds from position p on; cut to the length n.            *)
Over(s, p, d) ==
  SubSeq(Padded(s, p), 1, p) \o d \o SubSeq(s, p + Len(d) + 1, Len(s))
Resized(s, n) == SubSeq(Padded(s, n), 1, n)

(* The contents that a write of d at p, or a growth to n, may leave when   *)
(* it fails.                                                               *)
PartOver(s, p, d) ==
  {Padded(s, m) : m \in 0 .. p}
    \cup {Over(s, p, SubSeq(d, 1, m)) : m \in 0 .. Len(d)}

(* Where a write goes.                                                     *)
Start(v) == IF v.append /\ v.pos < Len(v.data) THEN Len(v.data) ELSE v.pos

(* A step makes the call c; it takes what is stored from a to z, and the   *)
(* handle of the call from v to w.                                         *)
Open(c, v, w, a, z) ==
  LET old == a[c.file] IN
  /\ v = Closed
  /\ \/ c.ret = "noent" /\ old = NoFile /\ "creat" \notin c.flags /\ z = a /\ w = v
     \/ c.ret = "exist" /\ old # NoFile /\ "excl" \in c.flags /\ z = a /\ w = v
     \/ /\ c.ret = "ok"
        /\ IF old = NoFile THEN "creat" \in c.flags ELSE "excl" \notin c.flags
        /\ z = IF old = NoFile THEN [a EXCEPT ![c.file] = <<>>] ELSE a
        /\ w = [file |-> c.file, linked |-> TRUE, sound |-> TRUE, pos |-> 0,
                changed |-> old # NoFile /\ "trunc" \in c.flags,
                append |-> "append" \in c.flags,
                data |-> IF old = NoFile \/ "trunc" \in c.flags THEN <<>> ELSE old]

(* After a failure the handle is at any position, sound or not.            *)
Failed(c, v, w, rest) ==
  /\ c.ret \in {"nospc", "fbig"} /\ w.data \in rest
  /\ w = [v EXCEPT !.pos = w.pos, !.sound = w.sound, !.data = w.data,
                   !.changed = w.changed]

Write(c, v, w) ==
  LET p == Start(v) IN
  \/ c.ret = "ok"
     /\ w = [v EXCEPT !.data = Over(@, p, c.data), !.pos = p + Len(c.data),
                      !.sound = TRUE, !.changed = TRUE]
  \/ Failed(c, v, w, PartOver(v.data, p, c.data))

Read(c, v, w) ==
  \/ /\ c.ret = "ok"
     /\ c.data = SubSeq(v.data, v.pos + 1, Min({v.pos + c.size, Len(v.data)}))
     /\ w = [v EXCEPT !.pos = @ + Len(c.data)]
  \/ Failed(c, v, w, {v.data})

Seek(c, v, w) ==
  \/ c.ret = "ok"
     /\ w = [v EXCEPT !.pos = c.size + CASE c.whence = "set" -> 0
                                         [] c.whence = "cur" -> v.pos
                                         [] c.whence = "end" -> Len(v.data)]
  \/ c.ret = "inval" /\ w = v
  \/ Failed(c, v, w, {v.data})

Truncate(c, v, w) ==
  \/ c.ret = "ok" /\ w.sound \in {v.sound, TRUE}
     /\ w = [v EXCEPT !.data = Resized(@, c.size), !.sound = w.sound,
                      !.changed = @ \/ c.size # Len(v.data)]
  \/ c.ret = "inval" /\ w = v
  \/ Failed(c, v, w, {Padded(v.data, n) : n \in 0 .. c.size}
                       \cup {Resized(v.data, c.size)})

(* A handle that has failed stores nothing, and says so by no error.       *)
ToStore(v)   == v.sound /\ v.linked /\ v.changed
Stores(c, v) == c.ret = "ok" /\ ToStore(v)
Publish(c, v, a, z) ==
  z = IF Stores(c, v) THEN [a EXCEPT ![v.file] = v.data] ELSE a
Sync(c, v, w) ==
  \/ c.ret = "ok" /\ w = IF Stores(c, v) THEN [v EXCEPT !.changed = FALSE] ELSE v
  \/ Failed(c, v, w, {v.data})
Close(c, w) == w = Closed /\ c.ret \in {"ok", "nospc", "fbig"}

Calls(c, v, w, a, z) ==
  \/ c.op = "open"     /\ Open(c, v, w, a, z)
  \/ c.op = "write"    /\ Write(c, v, w) /\ z = a
  \/ c.op = "read"     /\ Read(c, v, w) /\ z = a
  \/ c.op = "seek"     /\ Seek(c, v, w) /\ z = a
  \/ c.op = "truncate" /\ Truncate(c, v, w) /\ z = a
  \/ c.op = "sync"     /\ Sync(c, v, w) /\ Publish(c, v, a, z)
  \/ c.op = "close"    /\ Close(c, w) /\ Publish(c, v, a, z)

(* The other handles keep what they show, whatever the call.               *)
Removed(c, v, w, a, z) ==
  /\ c.op = "remove" /\ z = [a EXCEPT ![c.file] = NoFile]
  /\ w = [h \in DOMAIN v |-> IF v[h] # Closed /\ v[h].file = c.file
                            THEN [v[h] EXCEPT !.linked = FALSE] ELSE v[h]]
(* Power is lost: what has been stored remains.  A synchronisation that is *)
(* cut has stored nothing or everything.                                   *)
Kept(c, v, w, a, z) == c.op = "mount" /\ z = a /\ w = v
Lost(c, v, w, a, z) == c.op = "lost" /\ z = a /\ w = [h \in DOMAIN v |-> Closed]
Cut(c, v, w, a, z) ==
  /\ c.op = "cut" /\ w = [h \in DOMAIN v |-> Closed]
  /\ \/ z = a
     \/ ToStore(v[c.h]) /\ z = [a EXCEPT ![v[c.h].file] = v[c.h].data]

Init == \A h \in DOMAIN view : view[h] = Closed

Next ==
  \E c \in {call'}, v \in {view}, w \in {view'}, a \in {stored}, z \in {stored'} :
    \/ "h" \in DOMAIN c /\ Calls(c, v[c.h], w[c.h], a, z)
       /\ \A h \in DOMAIN v \ {c.h} : w[h] = v[h]
    \/ Removed(c, v, w, a, z)
    \/ Lost(c, v, w, a, z) \/ Cut(c, v, w, a, z) \/ Kept(c, v, w, a, z)

Promise == Init /\ [][Next]_files
==============================================================================
