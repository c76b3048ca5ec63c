------------------------------ MODULE Namespace ------------------------------
(***************************************************************************)
(* What the directories of littlefs promise: "All POSIX operations, such   *)
(* as remove and rename, are atomic, even in event of power-loss"          *)
(* (littlefs/README.md:108).  The names are a set of entries; a call has   *)
(* its whole effect at one moment or none at all, has had it if it reports *)
(* success, and has not if it reports an error.                            *)
(***************************************************************************)
CONSTANTS
  Dir,         (* directories, the root among them                         *)
  Root,
  File,        (* files                                                    *)
  Name,
  NoCall       (* no call is running                                       *)

VARIABLES
  tree,        (* entries <<directory, name, what it names>>               *)
  call,        (* the running call, with the entries it found              *)
  result       (* what the last call returned                              *)

names == <<tree, call, result>>

Under(t, d)   == {e \in t : e[1] = d}
At(t, d, n)   == {e \in t : e[1] = d /\ e[2] = n}
Nodes(t)      == {e[3] : e \in t}
IsDir(e)      == e[3] \in Dir
Removable(t, e) == IsDir(e) => Under(t, e[3]) = {}

Effect(t, c) ==
  CASE c.op = "make"   -> t \cup {<<c.dir, c.name, c.node>>}
    [] c.op = "remove" -> t \ At(t, c.dir, c.name)
    [] c.op = "rename" ->
         (t \ (At(t, c.dir, c.name) \cup At(t, c.to, c.as)))
           \cup {<<c.to, c.as, e[3]>> : e \in At(t, c.dir, c.name)}

(* The calls that may succeed: a name that is not there is made, for what  *)
(* has none yet; one that is there is removed, or given to another name.   *)
Calls(t) ==
       {[op |-> "make", dir |-> d, name |-> n, node |-> x] :
          d \in Dir, n \in Name, x \in (Dir \cup File) \ (Nodes(t) \cup {Root})}
  \cup {[op |-> "remove", dir |-> e[1], name |-> e[2]] : e \in t}
  \cup {[op |-> "rename", dir |-> e[1], name |-> e[2], to |-> d, as |-> n] :
          e \in t, d \in Dir, n \in Name}
Legal(t, c) ==
  CASE c.op = "make"   -> At(t, c.dir, c.name) = {}
    [] c.op = "remove" -> \A e \in At(t, c.dir, c.name) : Removable(t, e)
    [] c.op = "rename" ->
         \A e \in At(t, c.dir, c.name), prev \in At(t, c.to, c.as) :
           e = prev \/ ((IsDir(e) <=> IsDir(prev)) /\ Removable(t, prev))

Init == tree = {} /\ call = NoCall /\ result = "none"

(* A step takes the entries from t to u.  A call that is over at once,     *)
(* those that only read among them:                                        *)
Once(t, u) ==
  /\ call = NoCall /\ UNCHANGED call
  /\ \/ result' = "ok" /\ \E c \in Calls(t) : Legal(t, c) /\ u = Effect(t, c)
     \/ result' # "ok" /\ u = t

(* Effects of a running call: none yet, or all of it at this moment.       *)
Moves(c, t, u) == u = t \/ (t = c.found /\ u = Effect(t, c))

Begin(t, u) ==
  /\ call = NoCall /\ call' # NoCall /\ UNCHANGED result
  /\ [f \in DOMAIN call' \ {"found"} |-> call'[f]] \in Calls(t)
  /\ call'.found = t /\ Legal(t, call')
  /\ Moves(call', t, u)

Go(t, u) ==
  /\ call # NoCall /\ UNCHANGED <<call, result>>
  /\ Moves(call, t, u)

Return(t, u) ==
  /\ call # NoCall /\ call' = NoCall
  /\ Moves(call, t, u)
  /\ \/ result' = "ok" /\ u = Effect(call.found, call)
     \/ result' = "error" /\ u = call.found

(* Power is lost; what a mount finds is what there was.                    *)
Lost(t, u) == call' = NoCall /\ result' = "lost" /\ u = t

Next ==
  \E t \in {tree}, u \in {tree'} :
    Once(t, u) \/ Begin(t, u) \/ Go(t, u) \/ Return(t, u) \/ Lost(t, u)

Promise == Init /\ [][Next]_names
==============================================================================
