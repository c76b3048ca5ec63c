--------------------------- MODULE DirTreeProofs -----------------------------
(***************************************************************************)
(* Theorems about DirTree, for every number of pairs, files and names,     *)
(* every size of a pair, any number of calls, open handles and power       *)
(* losses between any two commits.  They assume Sure: that commits are     *)
(* written, and that calls that change the tree first make the file system *)
(* consistent.                                                             *)
(*                                                                         *)
(* Inv is inductive.  Its core is CardOK, which says of the card alone     *)
(* what every commit of every call must leave on it: no pair is on the     *)
(* tail list twice; each directory has one name but for a rename that is   *)
(* half done, when it has two and the global state hides one; at most one  *)
(* directory has none, it is empty, and the global state says so.  Because *)
(* CardOK speaks of the card alone, power may be lost after any commit.    *)
(* OpOK says what the running call has still to do about it.               *)
(*                                                                         *)
(* An action of the model is proved to keep Inv in three layers.  First    *)
(* the commits: PutCommits, DropIs, DeleteIs, AddedIs, LinkedIs, RenamedIs *)
(* say what is on the card afterwards, whether the pair was split or not,  *)
(* in terms of the tail list, of the number of names of a node and of the  *)
(* handles.  Then what those keep of CardOK: the lemmas ending in Keeps or *)
(* Lands.  Then the calls: the lemmas ending in Inv.                       *)
(*                                                                         *)
(* Where entries are along the pairs of a directory, and in which order,   *)
(* what commits do to that, and what a lookup finds, come after the calls: *)
(* DirTreeNames rests on them.                                             *)
(*                                                                         *)
(* The operators beginning with Set are updates of one field of a record.  *)
(***************************************************************************)
EXTENDS DirTree, FiniteSetTheorems, TLAPS

------------------------------------------------------------------------------
(* Induction up to a bound, and the functions that repeat a step.          *)

(* A set of naturals that is not empty has a least member.                 *)
LEMMA LeastNatural ==
  ASSUME NEW T \in SUBSET Nat, T # {}
  PROVE  \E m \in T : \A j \in T : m <= j
<1>1. PICK m \in T : \A j \in T : ~(<<j, m>> \in OpToRel(<, Nat))
  BY Zenon, NatLessThanWellFounded, WFMin
<1>2. \A j \in T : <<j, m>> \in Nat \X Nat
  OBVIOUS
<1>3. \A j \in T : ~(j < m)
  BY <1>1, <1>2 DEF OpToRel
<1> QED BY <1>3

(* What holds of 0, and of k if of k - 1, holds up to the bound.           *)
LEMMA UpTo ==
  ASSUME NEW n \in Nat, NEW T \in SUBSET (0 .. n), 0 \in T,
         \A k \in 1 .. n : k - 1 \in T => k \in T
  PROVE  T = 0 .. n
<1> SUFFICES ASSUME (0 .. n) \ T # {} PROVE FALSE
  OBVIOUS
<1> DEFINE U == (0 .. n) \ T
<1>1. PICK m \in U : \A j \in U : m <= j
  <2>1. U \in SUBSET Nat /\ U # {}
    OBVIOUS
  <2> HIDE DEF U
  <2> QED BY <2>1, LeastNatural
<1>2. m \in 1 .. n /\ m - 1 \in 0 .. n /\ ~(m <= m - 1)
  BY <1>1
<1> QED BY <1>1, <1>2

(* g repeats step F of S n times, from a on.                               *)
Repeats(g, S, a, F, n) ==
  g \in [0 .. n -> S] /\ g[0] = a /\ \A k \in 1 .. n : g[k] = F[g[k - 1]]

(* A step within a set can be repeated n times.                            *)
LEMMA Iterates ==
  ASSUME NEW S, NEW a \in S, NEW F \in [S -> S], NEW n \in Nat
  PROVE  \E g : Repeats(g, S, a, F, n)
<1> DEFINE P(g, m) == /\ g \in [0 .. m -> S]
                      /\ g[0] = a
                      /\ \A k \in 1 .. m : g[k] = F[g[k - 1]]
           T == {m \in 0 .. n : \E g : P(g, m)}
<1>1. 0 \in T
  <2>1. P([k \in 0 .. 0 |-> a], 0)
    OBVIOUS
  <2>2. \E g : P(g, 0)
    BY <2>1, Zenon
  <2> QED BY <2>2
<1>2. ASSUME NEW m \in 1 .. n, m - 1 \in T PROVE m \in T
  <2>1. PICK h : P(h, m - 1)
    BY <1>2
  <2> DEFINE g == [k \in 0 .. m |-> IF k = m THEN F[h[m - 1]] ELSE h[k]]
  <2>2. g \in [0 .. m -> S] /\ g[0] = a
    BY <2>1
  <2>3. ASSUME NEW k \in 1 .. m PROVE g[k] = F[g[k - 1]]
    <3>1. CASE k = m
      BY <3>1
    <3>2. CASE k # m
      BY <2>1, <3>2
    <3> QED BY <3>1, <3>2
  <2>4. P(g, m)
    BY <2>2, <2>3
  <2>5. \E f : P(f, m)
    BY <2>4, Zenon
  <2> QED BY <2>5
<1>3. T = 0 .. n
  <2>1. T \in SUBSET (0 .. n)
    OBVIOUS
  <2> HIDE DEF T
  <2> QED BY <1>1, <1>2, <2>1, UpTo
<1>4. PICK g : P(g, n)
  BY <1>3
<1> QED BY <1>4 DEF Repeats

------------------------------------------------------------------------------
(* Following tails.                                                        *)
Count == Cardinality(Pair)

(* There are finitely many pairs, and no set of them has more than Count.  *)
LEMMA PairsAreFinite ==
  /\ IsFiniteSet(Pair) /\ Count \in Nat
  /\ \A S \in SUBSET Pair : IsFiniteSet(S) /\ Cardinality(S) \in 0 .. Count
<1>1. IsFiniteSet(Pair) /\ Count \in Nat
  BY DirTreeAssumption, FS_CardinalityType DEF Count
<1>2. ASSUME NEW S \in SUBSET Pair
      PROVE  IsFiniteSet(S) /\ Cardinality(S) \in 0 .. Count
  <2>1. IsFiniteSet(S) /\ Cardinality(S) <= Cardinality(Pair)
    BY <1>1, FS_Subset
  <2>2. Cardinality(S) \in Nat
    BY <2>1, FS_CardinalityType
  <2> QED BY <1>1, <2>1, <2>2 DEF Count
<1> QED BY <1>1, <1>2

(* What a pair holds, and the card.                                        *)
Content == [ents : Seq(Entry), tail : Pair \cup {NoPair}, split : BOOLEAN,
            delta : SUBSET Token]
Disks == [Pair -> Content]

(* What a fetch of a pair finds is of its type.                            *)
LEMMA DiskType ==
  ASSUME NEW d \in Disks, NEW p \in Pair
  PROVE  /\ d[p] \in Content
         /\ d[p].ents \in Seq(Entry) /\ d[p].tail \in Pair \cup {NoPair}
         /\ d[p].split \in BOOLEAN /\ d[p].delta \in SUBSET Token
         /\ Len(d[p].ents) \in Nat /\ DOMAIN d[p].ents = 1 .. Len(d[p].ents)
BY DEF Disks, Content

(* The tail of p is followed.                                              *)
Goes(d, p, hard) == (hard => d[p].split) /\ d[p].tail # NoPair
Onto(d, m, hard) == m \cup {d[p].tail : p \in {p \in m : Goes(d, p, hard)}}

(* Closure follows the tails Count times.                                  *)
LEMMA ClosureSteps ==
  ASSUME NEW d \in Disks, NEW P \in SUBSET Pair, NEW hard \in BOOLEAN
  PROVE  \E g \in [0 .. Count -> SUBSET Pair] :
           /\ g[0] = P /\ \A k \in 1 .. Count : g[k] = Onto(d, g[k - 1], hard)
           /\ Closure(d, P, hard) = g[Count]
<1> DEFINE Is(g) == g = [n \in 0 .. Count |->
             IF n = 0 THEN P
             ELSE g[n - 1] \cup ({d[p].tail : p \in {p \in g[n - 1] : hard => d[p].split}}
                          \ {NoPair})]
<1>1. Closure(d, P, hard) = (CHOOSE g : Is(g))[Count]
  BY DEF Closure, Count
<1> DEFINE F == [m \in SUBSET Pair |-> Onto(d, m, hard)]
<1>2. F \in [SUBSET Pair -> SUBSET Pair]
  BY DiskType DEF Onto, Goes
<1>3. PICK f \in [0 .. Count -> SUBSET Pair] :
        f[0] = P /\ \A k \in 1 .. Count : f[k] = F[f[k - 1]]
  <2> DEFINE S == SUBSET Pair
  <2>1. F \in [S -> S] /\ P \in S
    BY <1>2
  <2> HIDE DEF F, S
  <2>2. PICK f : Repeats(f, S, P, F, Count)
    BY <2>1, PairsAreFinite, Iterates
  <2> QED BY <2>2 DEF S, Repeats
<1>4. \A m : Onto(d, m, hard) = m \cup ({d[p].tail : p \in {p \in m : hard => d[p].split}} \ {NoPair})
  BY DEF Onto, Goes
<1>5. Is(f)
  <2>1. ASSUME NEW k \in 0 .. Count
        PROVE  f[k] = IF k = 0 THEN P ELSE f[k - 1] \cup ({d[p].tail : p \in {p \in f[k - 1] : hard => d[p].split}} \ {NoPair})
    <3>1. CASE k = 0
      BY <1>3, <3>1
    <3>2. CASE k # 0
      <4>0. k - 1 \in 0 .. Count /\ k \in 1 .. Count
        BY <3>2, PairsAreFinite
      <4>1. f[k] = F[f[k - 1]] /\ f[k - 1] \in SUBSET Pair
        <5> HIDE DEF F
        <5> QED BY <1>3, <3>2, <4>0
      <4>2. f[k] = Onto(d, f[k - 1], hard)
        BY <4>1
      <4> QED BY <1>4, <3>2, <4>2
    <3> QED BY <3>1, <3>2
  <2>2. f = [k \in 0 .. Count |-> f[k]]
    BY <1>3
  <2> QED BY <2>1, <2>2, Zenon
<1>6. PICK g : Is(g) /\ Closure(d, P, hard) = g[Count]
  BY <1>1, <1>5
<1>7. \A k \in 0 .. Count : g[k] = IF k = 0 THEN P ELSE Onto(d, g[k - 1], hard)
  BY <1>4, <1>6
<1>8. g[0] = P /\ \A k \in 1 .. Count : g[k] = Onto(d, g[k - 1], hard)
  BY <1>7, PairsAreFinite
<1>9. \A k \in 0 .. Count : g[k] \in SUBSET Pair
  <2> DEFINE T == {k \in 0 .. Count : g[k] \in SUBSET Pair}
  <2>1. T \in SUBSET (0 .. Count) /\ 0 \in T
    BY <1>8, PairsAreFinite
  <2>2. ASSUME NEW k \in 1 .. Count, k - 1 \in T PROVE k \in T
    <3>1. g[k] = Onto(d, g[k - 1], hard) /\ g[k - 1] \in SUBSET Pair
      BY <1>8, <2>2
    <3>2. g[k] \in SUBSET Pair
      BY <3>1, DiskType DEF Onto, Goes
    <3> QED BY <3>2
  <2>3. T = 0 .. Count
    <3> HIDE DEF T
    <3> QED BY <2>1, <2>2, UpTo, PairsAreFinite
  <2> QED BY <2>3
<1>10. g \in [0 .. Count -> SUBSET Pair]
  BY <1>6, <1>9
<1> QED BY <1>6, <1>8, <1>10

(* The closure is one: a step that adds a pair makes it larger, and there  *)
(* are not more pairs than steps.                                          *)
LEMMA ClosureCloses ==
  ASSUME NEW d \in Disks, NEW h \in Pair, NEW hard \in BOOLEAN
  PROVE  /\ Closure(d, {h}, hard) \in SUBSET Pair
         /\ h \in Closure(d, {h}, hard)
         /\ \A p \in Closure(d, {h}, hard) :
              Goes(d, p, hard) => d[p].tail \in Closure(d, {h}, hard)
<1>1. PICK g \in [0 .. Count -> SUBSET Pair] :
        /\ g[0] = {h} /\ \A k \in 1 .. Count : g[k] = Onto(d, g[k - 1], hard)
        /\ Closure(d, {h}, hard) = g[Count]
  <2> DEFINE P == {h}
  <2>1. P \in SUBSET Pair
    OBVIOUS
  <2> HIDE DEF P
  <2>2. \E g \in [0 .. Count -> SUBSET Pair] :
        /\ g[0] = P /\ \A k \in 1 .. Count : g[k] = Onto(d, g[k - 1], hard)
        /\ Closure(d, P, hard) = g[Count]
    BY <2>1, ClosureSteps, ZenonT(40)
  <2> QED BY <2>2 DEF P
<1> DEFINE T == {k \in 0 .. Count : /\ h \in g[k]
                                    /\ \/ Onto(d, g[k], hard) = g[k]
                                       \/ Cardinality(g[k]) > k}
<1>2. T \in SUBSET (0 .. Count) /\ 0 \in T
  <2>1. h \in g[0] /\ Cardinality(g[0]) = 1
    BY <1>1, FS_Singleton
  <2> QED BY <2>1, PairsAreFinite
<1>3. ASSUME NEW k \in 1 .. Count, k - 1 \in T PROVE k \in T
  <2>1. /\ h \in g[k - 1]
        /\ Onto(d, g[k - 1], hard) = g[k - 1] \/ Cardinality(g[k - 1]) > k - 1
        /\ g[k - 1] \in SUBSET Pair /\ g[k] \in SUBSET Pair
        /\ g[k] = Onto(d, g[k - 1], hard)
    BY <1>1, <1>3
  <2>2. g[k - 1] \subseteq g[k]
    BY <2>1 DEF Onto
  <2>3. CASE g[k] = g[k - 1]
    <3>1. CASE Onto(d, g[k - 1], hard) = g[k - 1]
      BY <2>1, <2>3, <3>1
    <3> QED BY <2>1, <2>3, <3>1
  <2>4. CASE g[k] # g[k - 1]
    <3>1. /\ Cardinality(g[k - 1]) <= Cardinality(g[k])
          /\ Cardinality(g[k - 1]) # Cardinality(g[k])
      BY <2>1, <2>2, <2>4, PairsAreFinite, FS_Subset
    <3>2. Cardinality(g[k]) \in Nat /\ Cardinality(g[k - 1]) \in Nat
      BY <2>1, PairsAreFinite
    <3>3. Cardinality(g[k]) > k
      BY <2>1, <2>4, <3>1, <3>2
    <3> QED BY <2>1, <2>2, <3>3
  <2> QED BY <2>3, <2>4
<1>4. T = 0 .. Count
  <2> HIDE DEF T
  <2> QED BY <1>2, <1>3, UpTo, PairsAreFinite
<1>5. /\ h \in g[Count] /\ g[Count] \in SUBSET Pair
      /\ Onto(d, g[Count], hard) = g[Count] \/ Cardinality(g[Count]) > Count
  BY <1>1, <1>4, PairsAreFinite
<1>6. Onto(d, g[Count], hard) = g[Count]
  BY <1>5, PairsAreFinite
<1>7. \A p \in g[Count] : Goes(d, p, hard) => d[p].tail \in g[Count]
  BY <1>6 DEF Onto
<1> QED BY <1>1, <1>5, <1>7

(* It is the least one.                                                    *)
LEMMA ClosureIsLeast ==
  ASSUME NEW d \in Disks, NEW h \in Pair, NEW hard \in BOOLEAN,
         NEW S, h \in S,
         \A p \in S \cap Pair : Goes(d, p, hard) => d[p].tail \in S
  PROVE  Closure(d, {h}, hard) \subseteq S
<1>1. PICK g \in [0 .. Count -> SUBSET Pair] :
        /\ g[0] = {h} /\ \A k \in 1 .. Count : g[k] = Onto(d, g[k - 1], hard)
        /\ Closure(d, {h}, hard) = g[Count]
  <2> DEFINE P == {h}
  <2>1. P \in SUBSET Pair
    OBVIOUS
  <2> HIDE DEF P
  <2>2. \E g \in [0 .. Count -> SUBSET Pair] :
        /\ g[0] = P /\ \A k \in 1 .. Count : g[k] = Onto(d, g[k - 1], hard)
        /\ Closure(d, P, hard) = g[Count]
    BY <2>1, ClosureSteps, ZenonT(40)
  <2> QED BY <2>2 DEF P
<1> DEFINE T == {k \in 0 .. Count : g[k] \subseteq S}
<1>2. T \in SUBSET (0 .. Count) /\ 0 \in T
  BY <1>1, PairsAreFinite
<1>3. ASSUME NEW k \in 1 .. Count, k - 1 \in T PROVE k \in T
  <2>1. g[k - 1] \subseteq S /\ g[k - 1] \subseteq Pair /\ g[k] = Onto(d, g[k - 1], hard)
    BY <1>1, <1>3
  <2>2. g[k] \subseteq S
    BY <2>1 DEF Onto
  <2> QED BY <2>2
<1>4. T = 0 .. Count
  <2> HIDE DEF T
  <2> QED BY <1>2, <1>3, UpTo, PairsAreFinite
<1> QED BY <1>1, <1>4, PairsAreFinite

(* The tail list.                                                          *)
LEMMA ListCloses ==
  ASSUME NEW d \in Disks
  PROVE  /\ Listed(d) \in SUBSET Pair /\ Root \in Listed(d)
         /\ \A p \in Listed(d) : d[p].tail # NoPair => d[p].tail \in Listed(d)
<1>1. Root \in Pair
  BY DirTreeAssumption
<1> QED BY <1>1, ClosureCloses DEF Listed, Goes

(* The tail list holds nothing but the root and what tails lead to: a set  *)
(* with the root in it that no tail leads out of holds all of the list.    *)
LEMMA ListIsLeast ==
  ASSUME NEW d \in Disks, NEW S, Root \in S,
         \A p \in S \cap Listed(d) :
           d[p].tail # NoPair => d[p].tail \in S
  PROVE  Listed(d) \subseteq S
<1>1. Root \in Pair
  BY DirTreeAssumption
<1>2. Root \in S \cap Listed(d)
  BY ListCloses
<1>3. \A p \in (S \cap Listed(d)) \cap Pair :
        Goes(d, p, FALSE) => d[p].tail \in S \cap Listed(d)
  BY ListCloses DEF Goes
<1>4. Listed(d) \subseteq S \cap Listed(d)
  <2> DEFINE U == S \cap Listed(d)
  <2> HIDE DEF U
  <2>1. Root \in U /\ \A p \in U \cap Pair : Goes(d, p, FALSE) => d[p].tail \in U
    BY <1>2, <1>3 DEF U
  <2>2. Closure(d, {Root}, FALSE) \subseteq U
    BY <1>1, <2>1, ClosureIsLeast
  <2> QED BY <2>2 DEF U, Listed
<1> QED BY <1>4

------------------------------------------------------------------------------
(* The tail list: no tail leads to the root, a pair that goes on in        *)
(* another has a tail, and no two pairs of the list have the same one.     *)
TailsOK(d) ==
  \A p \in Pair : d[p].tail # Root /\ (d[p].split => d[p].tail # NoPair)
ListOK(d) ==
  \A p, q \in Listed(d) : d[p].tail = d[q].tail /\ d[p].tail # NoPair => p = q
Threaded(d) == TailsOK(d) /\ ListOK(d)

(* No pair is its own tail.                                                *)
LEMMA NoSelfTail ==
  ASSUME NEW d \in Disks, Threaded(d), NEW p \in Listed(d)
  PROVE  d[p].tail # p
<1> SUFFICES ASSUME d[p].tail = p PROVE FALSE
  OBVIOUS
<1> DEFINE S == Listed(d) \ {p}
<1>1. p \in Pair /\ p # NoPair /\ p # Root
  BY ListCloses, DirTreeAssumption DEF Threaded, TailsOK
<1>2. Root \in S
  BY <1>1, ListCloses
<1>3. \A r \in S \cap Listed(d) : d[r].tail # NoPair => d[r].tail \in S
  BY <1>1, ListCloses DEF Threaded, ListOK
<1>4. Listed(d) \subseteq S
  <2> HIDE DEF S
  <2> QED BY <1>2, <1>3, ListIsLeast
<1> QED BY <1>4

(* Every pair of the list but the root is the tail of one.                 *)
LEMMA HasPred ==
  ASSUME NEW d \in Disks, Threaded(d), NEW q \in Listed(d), q # Root
  PROVE  /\ Pred(d, q) \in Listed(d) /\ d[Pred(d, q)].tail = q
         /\ \A p \in Listed(d) : d[p].tail = q => p = Pred(d, q)
<1>0. q \in Pair /\ q # NoPair
  BY ListCloses, DirTreeAssumption
<1>1. \E p \in Listed(d) : d[p].tail = q
  <2> SUFFICES ASSUME \A p \in Listed(d) : d[p].tail # q PROVE FALSE
    OBVIOUS
  <2> DEFINE S == Listed(d) \ {q}
  <2>1. Root \in S /\ \A r \in S \cap Listed(d) : d[r].tail # NoPair => d[r].tail \in S
    BY ListCloses
  <2>2. Listed(d) \subseteq S
    <3> HIDE DEF S
    <3> QED BY <2>1, ListIsLeast
  <2> QED BY <2>2
<1>2. Pred(d, q) \in Listed(d) /\ d[Pred(d, q)].tail = q
  BY <1>1 DEF Pred
<1> QED BY <1>0, <1>2 DEF Threaded, ListOK

(* The pairs of a directory are on the list with its first.                *)
LEMMA ChainIsListed ==
  ASSUME NEW d \in Disks, NEW h \in Listed(d)
  PROVE  Chain(d, h) \subseteq Listed(d) /\ h \in Chain(d, h)
<1>1. h \in Pair /\ \A p \in Listed(d) \cap Pair : Goes(d, p, TRUE) => d[p].tail \in Listed(d)
  BY ListCloses DEF Goes
<1>2. Closure(d, {h}, TRUE) \subseteq Listed(d)
  BY <1>1, ClosureIsLeast
<1>3. h \in Closure(d, {h}, TRUE)
  BY <1>1, ClosureCloses
<1> QED BY <1>2, <1>3 DEF Chain

(* A directory ends.  If all its pairs went on in another, then, as there  *)
(* are finitely many, each would be the tail of one, and none could be     *)
(* reached from the root.                                                  *)
LEMMA ChainEnds ==
  ASSUME NEW d \in Disks, Threaded(d), NEW h \in Listed(d)
  PROVE  LastOf(d, h) \in Listed(d) /\ d[LastOf(d, h)].split = FALSE
<1> DEFINE K == Chain(d, h)
<1>0. K \in SUBSET Listed(d) /\ h \in K /\ K \in SUBSET Pair
  BY ChainIsListed, ListCloses
<1>1. \E p \in K : ~d[p].split
  <2> SUFFICES ASSUME \A p \in K : d[p].split PROVE FALSE
    OBVIOUS
  <2>1. \A p \in K : d[p].tail # NoPair /\ d[p].tail # Root
    BY <1>0 DEF Threaded, TailsOK
  <2>2. \A p \in K : d[p].tail \in K
    <3>1. \A p \in Closure(d, {h}, TRUE) : Goes(d, p, TRUE) => d[p].tail \in Closure(d, {h}, TRUE)
      BY <1>0, ClosureCloses
    <3> QED BY <2>1, <3>1 DEF Chain, Goes
  <2> DEFINE f == [p \in K |-> d[p].tail]
  <2>3. f \in [K -> K]
    BY <2>2
  <2>4. f \in Injection(K, K)
    <3>1. \A p, q \in K : d[p].tail = d[q].tail => p = q
      BY <1>0, <2>1 DEF Threaded, ListOK
    <3> HIDE DEF K
    <3>2. \A p, q \in K : f[p] = f[q] => p = q
      BY <3>1
    <3> HIDE DEF f
    <3> QED BY <2>3, <3>2 DEF Injection, IsInjective
  <2>5. IsFiniteSet(K)
    BY <1>0, PairsAreFinite
  <2>6. f \in Surjection(K, K)
    <3> HIDE DEF K, f
    <3> QED BY <2>4, <2>5, FS_Injection
  <2>7. \A q \in K : \E p \in K : d[p].tail = q
    <3> HIDE DEF K
    <3> QED BY <2>6 DEF Surjection
  <2> DEFINE S == Listed(d) \ K
  <2>8. Root \in S
    BY <2>1, <2>7, ListCloses
  <2>9. \A r \in S \cap Listed(d) : d[r].tail # NoPair => d[r].tail \in S
    <3> SUFFICES ASSUME NEW r \in Listed(d), r \notin K, d[r].tail # NoPair, d[r].tail \in K
                 PROVE  FALSE
      BY ListCloses
    <3>1. PICK p \in K : d[p].tail = d[r].tail
      BY <2>7
    <3>2. p = r
      BY <1>0, <3>1 DEF Threaded, ListOK
    <3> QED BY <3>1, <3>2
  <2>10. Listed(d) \subseteq S
    <3> HIDE DEF S
    <3> QED BY <2>8, <2>9, ListIsLeast
  <2> QED BY <1>0, <2>10
<1>2. LastOf(d, h) \in K /\ ~d[LastOf(d, h)].split
  BY <1>1 DEF LastOf
<1> QED BY <1>0, <1>2, DiskType

------------------------------------------------------------------------------
(* What commits do to the list.                                            *)

(* e threads the pairs of the list of d as d does.                         *)
LEMMA SameThread ==
  ASSUME NEW d \in Disks, NEW e \in Disks, Threaded(d), TailsOK(e),
         \A p \in Listed(d) : e[p].tail = d[p].tail /\ e[p].split = d[p].split
  PROVE  Threaded(e) /\ Listed(e) = Listed(d) /\ Heads(e) = Heads(d)
<1>1. Listed(e) \subseteq Listed(d)
  BY ListCloses, ListIsLeast
<1>2. Listed(d) \subseteq Listed(e)
  BY ListCloses, ListIsLeast
<1>3. Listed(e) = Listed(d)
  BY <1>1, <1>2
<1>4. Heads(e) = Heads(d)
  BY <1>3 DEF Heads
<1>5. Threaded(e)
  BY <1>3 DEF Threaded, ListOK
<1> QED BY <1>3, <1>4, <1>5

(* q is put into the list behind p: the second half of p, or the first     *)
(* pair of a new directory.                                                *)
LEMMA Inserted ==
  ASSUME NEW d \in Disks, NEW e \in Disks, Threaded(d), TailsOK(e),
         NEW p \in Listed(d), NEW q \in Pair \ Listed(d),
         e[p].tail = q, e[q].tail = d[p].tail,
         \A r \in Listed(d) \ {p} : e[r].tail = d[r].tail /\ e[r].split = d[r].split
  PROVE  /\ Threaded(e) /\ Listed(e) = Listed(d) \cup {q}
         /\ e[p].split /\ (e[q].split <=> d[p].split) => Heads(e) = Heads(d)
         /\ ~e[p].split /\ ~d[p].split /\ ~e[q].split =>
              Heads(e) = Heads(d) \cup {q}
<1> DEFINE L == Listed(d)
           M == Listed(e)
<1>0. L \subseteq Pair /\ Root \in L /\ q # NoPair /\ q # p /\ NoPair \notin L
  BY ListCloses, DirTreeAssumption
<1>1. M \subseteq L \cup {q}
  <2> DEFINE S == L \cup {q}
  <2>1. Root \in S
    BY <1>0
  <2>2. \A r \in S \cap M : e[r].tail # NoPair => e[r].tail \in S
    <3> SUFFICES ASSUME NEW r \in S, e[r].tail # NoPair PROVE e[r].tail \in S
      OBVIOUS
    <3>1. CASE r = p
      BY <3>1
    <3>2. CASE r = q
      BY <3>2, ListCloses
    <3>3. CASE r \in L \ {p}
      BY <3>3, ListCloses
    <3> QED BY <3>1, <3>2, <3>3
  <2> HIDE DEF S
  <2> QED BY <2>1, <2>2, ListIsLeast DEF S
<1>2. L \subseteq M
  <2>1. \A r \in M \cap L : d[r].tail # NoPair => d[r].tail \in M
    <3> SUFFICES ASSUME NEW r \in L, r \in M, d[r].tail # NoPair PROVE d[r].tail \in M
      OBVIOUS
    <3>1. CASE r = p
      <4>1. q \in M
        BY <1>0, <3>1, ListCloses
      <4> QED BY <3>1, <4>1, ListCloses
    <3>2. CASE r # p
      BY <3>2, ListCloses
    <3> QED BY <3>1, <3>2
  <2> QED BY <2>1, ListCloses, ListIsLeast
<1>3. q \in M
  BY <1>0, <1>2, ListCloses
<1>4. M = L \cup {q}
  BY <1>1, <1>2, <1>3
<1>5. \A r, s \in L \cup {q} : e[r].tail = e[s].tail /\ e[r].tail # NoPair => r = s
  <2>1. \A r \in L : d[r].tail # q
    BY <1>0, ListCloses
  <2>2. \A r \in L \ {p} : e[r].tail # q
    BY <2>1
  <2>3. e[q].tail # q
    BY <2>1
  <2>4. \A r \in L \ {p} : e[r].tail = e[q].tail /\ e[r].tail # NoPair => FALSE
    BY DEF Threaded, ListOK
  <2>5. \A r, s \in L \ {p} : e[r].tail = e[s].tail /\ e[r].tail # NoPair => r = s
    BY DEF Threaded, ListOK
  <2> QED BY <2>2, <2>3, <2>4, <2>5
<1>6. Threaded(e)
  BY <1>4, <1>5 DEF Threaded, ListOK
<1>7. Heads(e) = {Root} \cup ({e[r].tail : r \in {r \in L \cup {q} : ~e[r].split}} \ {NoPair})
  BY <1>4 DEF Heads
<1>8. Heads(d) = {Root} \cup ({d[r].tail : r \in {r \in L : ~d[r].split}} \ {NoPair})
  BY DEF Heads
<1>9. ASSUME e[p].split, e[q].split <=> d[p].split
      PROVE  Heads(e) = Heads(d)
  <2>1. \A r \in L \cup {q} : ~e[r].split => \E s \in L : ~d[s].split /\ d[s].tail = e[r].tail
    BY <1>9
  <2>2. \A s \in L : ~d[s].split => \E r \in L \cup {q} : ~e[r].split /\ e[r].tail = d[s].tail
    BY <1>9
  <2> QED BY <1>7, <1>8, <2>1, <2>2
<1>10. ASSUME ~e[p].split, ~d[p].split, ~e[q].split
       PROVE  Heads(e) = Heads(d) \cup {q}
  <2>1. \A r \in L \cup {q} : ~e[r].split => r = p \/ \E s \in L : ~d[s].split /\ d[s].tail = e[r].tail
    BY <1>10
  <2>2. \A s \in L : ~d[s].split => \E r \in L \cup {q} : ~e[r].split /\ e[r].tail = d[s].tail
    BY <1>10
  <2> QED BY <1>0, <1>7, <1>8, <1>10, <2>1, <2>2
<1> QED BY <1>4, <1>6, <1>9, <1>10

(* q is taken out of the list; p, before it, takes over where it goes.     *)
LEMMA Unlinked ==
  ASSUME NEW d \in Disks, NEW e \in Disks, Threaded(d), TailsOK(e),
         NEW p \in Listed(d), NEW q \in Listed(d), d[p].tail = q,
         e[p].tail = d[q].tail, e[p].split = d[q].split,
         \A r \in Listed(d) \ {p, q} : e[r].tail = d[r].tail /\ e[r].split = d[r].split
  PROVE  /\ q # Root /\ q # p
         /\ Threaded(e) /\ Listed(e) = Listed(d) \ {q}
         /\ d[p].split => Heads(e) = Heads(d)
         /\ ~d[p].split /\ ~d[q].split => Heads(e) = Heads(d) \ {q}
<1> DEFINE L == Listed(d)
           M == Listed(e)
<1>0. L \subseteq Pair /\ Root \in L /\ q # NoPair /\ q # p /\ NoPair \notin L /\ q # Root
  BY ListCloses, DirTreeAssumption, NoSelfTail DEF Threaded, TailsOK
<1>a. d[q].tail # q
  BY NoSelfTail
<1>b. \A r \in L \ {p} : d[r].tail # q
  BY <1>0 DEF Threaded, ListOK
<1>1. M \subseteq L \ {q}
  <2> DEFINE S == L \ {q}
  <2>1. Root \in S
    BY <1>0
  <2>2. \A r \in S \cap M : e[r].tail # NoPair => e[r].tail \in S
    <3> SUFFICES ASSUME NEW r \in S, e[r].tail # NoPair PROVE e[r].tail \in S
      OBVIOUS
    <3>1. CASE r = p
      BY <1>a, <3>1, ListCloses
    <3>2. CASE r # p
      BY <1>b, <3>2, ListCloses
    <3> QED BY <3>1, <3>2
  <2> HIDE DEF S
  <2> QED BY <2>1, <2>2, ListIsLeast DEF S
<1>2. L \ {q} \subseteq M
  <2> DEFINE S == M \cup {r \in {q} : p \in M}
  <2>1. Root \in S
    BY ListCloses
  <2>2. \A r \in S \cap L : d[r].tail # NoPair => d[r].tail \in S
    <3> SUFFICES ASSUME NEW r \in L, r \in S, d[r].tail # NoPair PROVE d[r].tail \in S
      OBVIOUS
    <3>1. CASE r = p
      BY <1>0, <3>1
    <3>2. CASE r = q
      <4>1. p \in M
        BY <1>1, <3>2
      <4> QED BY <3>2, <4>1, ListCloses
    <3>3. CASE r \in L \ {p, q}
      <4>1. r \in M
        BY <3>3
      <4> QED BY <3>3, <4>1, ListCloses
    <3> QED BY <3>1, <3>2, <3>3
  <2>3. L \subseteq S
    <3> HIDE DEF S
    <3> QED BY <2>1, <2>2, ListIsLeast
  <2> QED BY <2>3
<1>4. M = L \ {q}
  BY <1>1, <1>2
<1>5. \A r, s \in L \ {q} : e[r].tail = e[s].tail /\ e[r].tail # NoPair => r = s
  <2>1. \A r \in L \ {p, q} : e[r].tail = d[q].tail /\ e[r].tail # NoPair => FALSE
    BY DEF Threaded, ListOK
  <2>2. \A r, s \in L \ {p, q} : e[r].tail = e[s].tail /\ e[r].tail # NoPair => r = s
    BY DEF Threaded, ListOK
  <2> QED BY <2>1, <2>2
<1>6. Threaded(e)
  BY <1>4, <1>5 DEF Threaded, ListOK
<1>7. Heads(e) = {Root} \cup ({e[r].tail : r \in {r \in L \ {q} : ~e[r].split}} \ {NoPair})
  BY <1>4 DEF Heads
<1>8. Heads(d) = {Root} \cup ({d[r].tail : r \in {r \in L : ~d[r].split}} \ {NoPair})
  BY DEF Heads
<1>9. ASSUME d[p].split
      PROVE  Heads(e) = Heads(d)
  <2>1. \A r \in L \ {q} : ~e[r].split => \E s \in L : ~d[s].split /\ d[s].tail = e[r].tail
    OBVIOUS
  <2>2. \A s \in L : ~d[s].split => \E r \in L \ {q} : ~e[r].split /\ e[r].tail = d[s].tail
    BY <1>0, <1>9
  <2> QED BY <1>7, <1>8, <2>1, <2>2
<1>10. ASSUME ~d[p].split, ~d[q].split
       PROVE  Heads(e) = Heads(d) \ {q}
  <2>1. \A r \in L \ {q} : ~e[r].split => e[r].tail # q /\ \E s \in L : ~d[s].split /\ d[s].tail = e[r].tail
    BY <1>a, <1>b, <1>10
  <2>2. \A s \in L : ~d[s].split /\ d[s].tail # q => \E r \in L \ {q} : ~e[r].split /\ e[r].tail = d[s].tail
    BY <1>0, <1>10
  <2> QED BY <1>0, <1>7, <1>8, <2>1, <2>2
<1> QED BY <1>0, <1>4, <1>6, <1>9, <1>10

------------------------------------------------------------------------------
(* Entries put in and taken out.                                           *)
Joined(c, a, b) ==
  /\ c \in Seq(Entry) /\ Len(c) = Len(a) + Len(b)
  /\ \A j \in 1 .. Len(a) : c[j] = a[j]
  /\ \A j \in (Len(a) + 1) .. (Len(a) + Len(b)) : c[j] = b[j - Len(a)]
HasMore(r, s, i, x) ==
  /\ r \in Seq(Entry) /\ Len(r) = Len(s) + 1
  /\ \A j \in 1 .. (Len(s) + 1) : r[j] =
       IF j < i THEN s[j] ELSE IF j = i THEN x ELSE s[j - 1]
HasLess(r, s, i) ==
  /\ r \in Seq(Entry) /\ Len(r) = Len(s) - 1
  /\ \A j \in 1 .. (Len(s) - 1) : r[j] = IF j < i THEN s[j] ELSE s[j + 1]

(* The entries of two sequences one behind the other.                      *)
LEMMA ConcatIs ==
  ASSUME NEW a \in Seq(Entry), NEW b \in Seq(Entry)
  PROVE  Joined(a \o b, a, b)
<1>0. PICK c : c = a \o b
  OBVIOUS
<1>1. c \in Seq(Entry)
  BY <1>0
<1>2. Len(c) = Len(a) + Len(b)
  BY <1>0
<1>3. \A j \in 1 .. Len(a) : c[j] = a[j]
  BY <1>0
<1>4. \A j \in (Len(a) + 1) .. (Len(a) + Len(b)) : c[j] = b[j - Len(a)]
  BY <1>0
<1>5. Joined(c, a, b)
  BY <1>1, <1>2, <1>3, <1>4 DEF Joined
<1> QED BY <1>0, <1>5, Zenon

(* What an entry created at i leaves (lfs_dir_commitattr with a create     *)
(* tag).                                                                   *)
LEMMA InsertIs ==
  ASSUME NEW s \in Seq(Entry), NEW i \in 1 .. (Len(s) + 1), NEW x \in Entry
  PROVE  HasMore(InsertAt(s, i, x), s, i, x)
<1>0. PICK r : r = InsertAt(s, i, x)
  OBVIOUS
<1> DEFINE a == SubSeq(s, 1, i - 1)
           b == SubSeq(s, i, Len(s))
           t == <<x>>
<1>1. a \in Seq(Entry) /\ Len(a) = i - 1 /\ \A j \in 1 .. (i - 1) : a[j] = s[j]
  OBVIOUS
<1>2. b \in Seq(Entry) /\ Len(b) = Len(s) - i + 1
      /\ \A j \in 1 .. (Len(s) - i + 1) : b[j] = s[i + j - 1]
  OBVIOUS
<1>3. t \in Seq(Entry) /\ Len(t) = 1 /\ t[1] = x
  OBVIOUS
<1>4. r = (a \o t) \o b
  BY <1>0 DEF InsertAt
<1> HIDE DEF a, b, t
<1>5. PICK c : c = a \o t
  OBVIOUS
<1>6. /\ c \in Seq(Entry) /\ Len(c) = i
      /\ \A j \in 1 .. (i - 1) : c[j] = a[j]
      /\ c[i] = t[1]
  <2>1. /\ c \in Seq(Entry) /\ Len(c) = Len(a) + Len(t)
        /\ \A j \in 1 .. Len(a) : c[j] = a[j]
        /\ \A j \in (Len(a) + 1) .. (Len(a) + Len(t)) : c[j] = t[j - Len(a)]
    <3>1. Joined(c, a, t)
      BY <1>1, <1>3, <1>5, ConcatIs, Zenon
    <3> QED BY <3>1 DEF Joined
  <2>2. PICK n, k : n = Len(a) /\ k = Len(t)
    OBVIOUS
  <2>3. n = i - 1 /\ k = 1 /\ i \in Nat /\ i >= 1
    BY <1>1, <1>3, <2>2
  <2>4. c \in Seq(Entry) /\ Len(c) = i
    BY <2>1, <2>2, <2>3
  <2>5. \A j \in 1 .. (i - 1) : c[j] = a[j]
    BY <2>1, <2>2, <2>3
  <2>6. c[i] = t[1]
    <3>1. i \in (n + 1) .. (n + k) /\ i - n = 1
      BY <2>3
    <3>2. c[i] = t[i - n]
      BY ONLY <2>1, <2>2, <3>1
    <3> QED BY <3>1, <3>2
  <2> QED BY <2>4, <2>5, <2>6
<1>7. /\ r \in Seq(Entry) /\ Len(r) = Len(c) + Len(b)
      /\ \A j \in 1 .. Len(c) : r[j] = c[j]
      /\ \A j \in (Len(c) + 1) .. (Len(c) + Len(b)) : r[j] = b[j - Len(c)]
  <2>1. Joined(r, c, b)
    BY <1>2, <1>4, <1>5, <1>6, ConcatIs, Zenon
  <2> QED BY <2>1 DEF Joined
<1>8. Len(r) = Len(s) + 1
  BY <1>2, <1>6, <1>7
<1>9. ASSUME NEW j \in 1 .. (Len(s) + 1)
      PROVE  r[j] = IF j < i THEN s[j] ELSE IF j = i THEN x ELSE s[j - 1]
  <2>1. CASE j < i
    BY <1>1, <1>6, <1>7, <2>1
  <2>2. CASE j = i
    BY <1>3, <1>6, <1>7, <2>2
  <2>3. CASE j > i
    <3>1. r[j] = b[j - i]
      BY <1>2, <1>6, <1>7, <2>3
    <3>2. j - i \in 1 .. (Len(s) - i + 1) /\ i + (j - i) - 1 = j - 1
      BY <2>3
    <3> QED BY <1>2, <2>3, <3>1, <3>2
  <2> QED BY <2>1, <2>2, <2>3
<1>10. HasMore(r, s, i, x)
  BY <1>7, <1>8, <1>9 DEF HasMore
<1> QED BY <1>0, <1>10, Zenon

(* What a deletion of entry i leaves.                                      *)
LEMMA RemoveIs ==
  ASSUME NEW s \in Seq(Entry), NEW i \in 1 .. Len(s)
  PROVE  HasLess(RemoveAt(s, i), s, i)
<1>0. PICK r : r = RemoveAt(s, i)
  OBVIOUS
<1> DEFINE a == SubSeq(s, 1, i - 1)
           b == SubSeq(s, i + 1, Len(s))
<1>1. a \in Seq(Entry) /\ Len(a) = i - 1 /\ \A j \in 1 .. (i - 1) : a[j] = s[j]
  OBVIOUS
<1>2. b \in Seq(Entry) /\ Len(b) = Len(s) - i
      /\ \A j \in 1 .. (Len(s) - i) : b[j] = s[i + j]
  OBVIOUS
<1>3. r = a \o b
  BY <1>0 DEF RemoveAt
<1> HIDE DEF a, b
<1>4. /\ r \in Seq(Entry) /\ Len(r) = Len(a) + Len(b)
      /\ \A j \in 1 .. Len(a) : r[j] = a[j]
      /\ \A j \in (Len(a) + 1) .. (Len(a) + Len(b)) : r[j] = b[j - Len(a)]
  <2>1. Joined(r, a, b)
    BY <1>1, <1>2, <1>3, ConcatIs, Zenon
  <2> QED BY <2>1 DEF Joined
<1>5. ASSUME NEW j \in 1 .. (Len(s) - 1)
      PROVE  r[j] = IF j < i THEN s[j] ELSE s[j + 1]
  <2>1. CASE j < i
    BY <1>1, <1>4, <2>1
  <2>2. CASE j >= i
    <3>1. r[j] = b[j - (i - 1)]
      BY <1>1, <1>2, <1>4, <2>2
    <3>2. j - (i - 1) \in 1 .. (Len(s) - i) /\ i + (j - (i - 1)) = j + 1
      BY <2>2
    <3> QED BY <1>2, <2>2, <3>1, <3>2
  <2> QED BY <2>1, <2>2
<1>6. Len(r) = Len(s) - 1
  BY <1>1, <1>2, <1>4
<1>7. HasLess(r, s, i)
  BY <1>4, <1>5, <1>6 DEF HasLess
<1> QED BY <1>0, <1>7, Zenon

------------------------------------------------------------------------------
(* How many entries name something.                                        *)
Slot == Pair \X (1 .. (Full + 1))
Short(d) == \A p \in Pair : Len(d[p].ents) <= Full + 1
Namers(d, x) ==
  {t \in Slot : /\ t[1] \in Listed(d) /\ t[2] \in 1 .. Len(d[t[1]].ents)
                /\ d[t[1]].ents[t[2]].node = x}
NameCount(d, x) == Cardinality(Namers(d, x))

(* There are finitely many places for entries.                             *)
LEMMA SlotsAreFinite ==
  \A S \in SUBSET Slot : IsFiniteSet(S) /\ Cardinality(S) \in Nat
<1>1. Full \in Nat
  BY DirTreeAssumption
<1>2. IsFiniteSet(1 .. (Full + 1))
  BY <1>1, FS_Interval
<1>3. IsFiniteSet(Slot)
  BY <1>2, PairsAreFinite, FS_Product DEF Slot
<1> QED BY <1>3, FS_Subset, FS_CardinalityType

(* An entry that names x is at a place, and there are finitely many.       *)
LEMMA NamesType ==
  ASSUME NEW d, NEW x
  PROVE  NameCount(d, x) \in Nat /\ Namers(d, x) \in SUBSET Slot
BY SlotsAreFinite DEF NameCount, Namers

(* An entry of the list is one that counts.                                *)
LEMMA NamerIs ==
  ASSUME NEW d \in Disks, Short(d), NEW p \in Listed(d),
         NEW i \in 1 .. Len(d[p].ents)
  PROVE  <<p, i>> \in Namers(d, d[p].ents[i].node)
<1>1. Full \in Nat /\ p \in Pair
  BY DirTreeAssumption, ListCloses
<1>2. Len(d[p].ents) \in Nat /\ Len(d[p].ents) <= Full + 1
  BY <1>1, DiskType DEF Short
<1>3. i \in 1 .. (Full + 1)
  BY <1>1, <1>2
<1> QED BY <1>1, <1>3 DEF Namers, Slot

(* The count is zero exactly if nothing names x.                           *)
LEMMA NoNames ==
  ASSUME NEW d, NEW x
  PROVE  NameCount(d, x) = 0 <=> Namers(d, x) = {}
<1>1. IsFiniteSet(Namers(d, x))
  BY NamesType, SlotsAreFinite
<1> QED BY <1>1, FS_EmptySet DEF NameCount

(* Two entries name it twice.                                              *)
LEMMA TwoNames ==
  ASSUME NEW d, NEW x, NEW t \in Namers(d, x)
  PROVE  /\ NameCount(d, x) >= 1
         /\ NameCount(d, x) = 1 => \A u \in Namers(d, x) : u = t
         /\ NameCount(d, x) >= 2 => \E u \in Namers(d, x) : u # t
<1> DEFINE N == Namers(d, x)
<1>1. IsFiniteSet(N) /\ Cardinality(N) \in Nat
  BY NamesType, SlotsAreFinite
<1>2. Cardinality(N) = 1 <=> \E u : N = {u}
  <2> HIDE DEF N
  <2> QED BY <1>1, FS_Singleton
<1>3. Cardinality(N) # 0
  <2>1. N # {}
    OBVIOUS
  <2> HIDE DEF N
  <2> QED BY <1>1, <2>1, FS_EmptySet
<1>4. t \in N
  OBVIOUS
<1> HIDE DEF N
<1>5. Cardinality(N) = 1 => \A u \in N : u = t
  BY <1>2, <1>4
<1>6. (\A u \in N : u = t) => N = {t}
  BY <1>4
<1>7. (\A u \in N : u = t) => Cardinality(N) = 1
  BY <1>2, <1>6
<1>8. Cardinality(N) >= 2 => \E u \in N : u # t
  BY <1>1, <1>7
<1> QED BY <1>1, <1>3, <1>5, <1>8 DEF N, NameCount

(* Sets whose members can be matched one to one are of the same size.      *)
LEMMA Matched ==
  ASSUME NEW S \in SUBSET Slot, NEW T \in SUBSET Slot, NEW f \in [S -> T],
         \A t, u \in S : f[t] = f[u] => t = u,
         \A u \in T : \E t \in S : f[t] = u
  PROVE  Cardinality(S) = Cardinality(T)
<1>1. f \in Injection(S, T)
  BY DEF Injection, IsInjective
<1>2. f \in Surjection(S, T)
  BY DEF Surjection
<1>3. IsFiniteSet(T)
  BY SlotsAreFinite
<1> QED BY <1>1, <1>2, <1>3, FS_Injection

(* Nothing changes if the entries on the list are the same.                *)
LEMMA SameNames ==
  ASSUME NEW d \in Disks, NEW e \in Disks,
         \A p \in Listed(d) : p \in Listed(e) \/ d[p].ents = <<>>,
         \A p \in Listed(e) : p \in Listed(d) \/ e[p].ents = <<>>,
         \A p \in Listed(d) \cap Listed(e) : e[p].ents = d[p].ents,
         NEW x
  PROVE  Namers(e, x) = Namers(d, x) /\ NameCount(e, x) = NameCount(d, x)
<1>1. Len(<<>>) = 0
  OBVIOUS
<1>2. Namers(e, x) \subseteq Namers(d, x)
  BY <1>1 DEF Namers
<1>3. Namers(d, x) \subseteq Namers(e, x)
  BY <1>1 DEF Namers
<1> QED BY <1>2, <1>3 DEF NameCount

(* An entry put in counts for what it names.                               *)
LEMMA InsertNames ==
  ASSUME NEW d \in Disks, NEW e \in Disks, Short(e), Listed(e) = Listed(d),
         NEW p \in Listed(d), NEW i \in 1 .. (Len(d[p].ents) + 1), NEW y \in Entry,
         HasMore(e[p].ents, d[p].ents, i, y),
         \A r \in Listed(d) \ {p} : e[r].ents = d[r].ents,
         NEW x
  PROVE  NameCount(e, x) = NameCount(d, x) + (IF y.node = x THEN 1 ELSE 0)
<1> DEFINE n == Len(d[p].ents)
<1>0. /\ Full \in Nat /\ p \in Pair /\ n \in Nat /\ n + 1 <= Full + 1 /\ i \in 1 .. (n + 1)
      /\ Len(e[p].ents) = n + 1
      /\ \A j \in 1 .. (n + 1) : e[p].ents[j] =
              IF j < i THEN d[p].ents[j] ELSE IF j = i THEN y ELSE d[p].ents[j - 1]
  <2>1. Full \in Nat /\ p \in Pair
    BY DirTreeAssumption, ListCloses
  <2>2. d[p].ents \in Seq(Entry)
    BY <2>1, DiskType
  <2>3. /\ Len(e[p].ents) = n + 1
        /\ \A j \in 1 .. (n + 1) : e[p].ents[j] =
              IF j < i THEN d[p].ents[j] ELSE IF j = i THEN y ELSE d[p].ents[j - 1]
    BY DEF HasMore
  <2> QED BY <2>1, <2>2, <2>3 DEF Short
<1> HIDE DEF n
<1> DEFINE S == Namers(d, x)
           A == Namers(e, x)
           T == A \ {<<p, i>>}
           f == [t \in S |-> IF t[1] = p /\ t[2] >= i THEN <<p, t[2] + 1>> ELSE t]
<1>1. f \in [S -> T]
  <2> SUFFICES ASSUME NEW t \in S PROVE f[t] \in T
    OBVIOUS
  <2>1. PICK r \in Listed(d), j \in 1 .. (Full + 1) : /\ t = <<r, j>> /\ r \in Pair
        /\ j \in 1 .. Len(d[r].ents) /\ d[r].ents[j].node = x
    BY DEF Namers, Slot
  <2>2. CASE r = p /\ j >= i
    <3>1. j \in 1 .. n /\ j + 1 \in 1 .. (n + 1)
      BY <1>0, <2>1, <2>2 DEF n
    <3>2. e[p].ents[j + 1] = d[p].ents[j]
      BY <1>0, <2>2, <3>1
    <3>3. f[t] = <<p, j + 1>> /\ j + 1 \in 1 .. (Full + 1)
      BY <1>0, <2>1, <2>2, <3>1
    <3>4. <<p, j + 1>> \in A
      BY <1>0, <2>1, <2>2, <3>1, <3>2, <3>3 DEF Namers, Slot
    <3> QED BY <2>2, <3>3, <3>4
  <2>3. CASE r = p /\ j < i
    <3>1. j \in 1 .. n /\ j \in 1 .. (n + 1)
      BY <1>0, <2>1, <2>3 DEF n
    <3>2. e[p].ents[j] = d[p].ents[j]
      BY <1>0, <2>3, <3>1
    <3>3. f[t] = t
      BY <1>0, <2>1, <2>3
    <3>4. t \in A
      BY <1>0, <2>1, <2>3, <3>1, <3>2 DEF Namers, Slot
    <3> QED BY <2>1, <2>3, <3>3, <3>4
  <2>4. CASE r # p
    <3>1. f[t] = t
      BY <2>1, <2>4
    <3>2. t \in A
      BY <2>1, <2>4 DEF Namers, Slot
    <3> QED BY <2>1, <2>4, <3>1, <3>2
  <2>5. j >= i \/ j < i
    BY <1>0
  <2> QED BY <2>2, <2>3, <2>4, <2>5
<1>2. \A t, u \in S : f[t] = f[u] => t = u
  <2> SUFFICES ASSUME NEW t \in S, NEW u \in S, f[t] = f[u] PROVE t = u
    BY SMTT(30)
  <2>1. /\ t \in Slot /\ u \in Slot
        /\ f[t] = IF t[1] = p /\ t[2] >= i THEN <<p, t[2] + 1>> ELSE t
        /\ f[u] = IF u[1] = p /\ u[2] >= i THEN <<p, u[2] + 1>> ELSE u
    BY DEF Namers
  <2> HIDE DEF f, S
  <2>2. PICK r \in Pair, j \in 1 .. (Full + 1) : t = <<r, j>>
    BY <2>1 DEF Slot
  <2>3. PICK q \in Pair, k \in 1 .. (Full + 1) : u = <<q, k>>
    BY <2>1 DEF Slot
  <2>4. /\ f[t] = IF r = p /\ j >= i THEN <<p, j + 1>> ELSE <<r, j>>
        /\ f[u] = IF q = p /\ k >= i THEN <<p, k + 1>> ELSE <<q, k>>
    BY <2>1, <2>2, <2>3
  <2>5. r = q /\ j = k
    <3>1. i \in Int /\ j \in Int /\ k \in Int
      BY <1>0
    <3>2. CASE r = p /\ j >= i /\ q = p /\ k >= i
      <4>1. <<p, j + 1>> = <<p, k + 1>>
        BY <2>4, <3>2
      <4> QED BY <3>1, <3>2, <4>1
    <3>3. CASE r = p /\ j >= i /\ ~(q = p /\ k >= i)
      <4>1. <<p, j + 1>> = <<q, k>>
        BY <2>4, <3>3
      <4>2. p = q /\ j + 1 = k
        BY <4>1
      <4> QED BY <3>1, <3>3, <4>2
    <3>4. CASE ~(r = p /\ j >= i) /\ q = p /\ k >= i
      <4>1. <<r, j>> = <<p, k + 1>>
        BY <2>4, <3>4
      <4>2. p = r /\ j = k + 1
        BY <4>1
      <4> QED BY <3>1, <3>4, <4>2
    <3>5. CASE ~(r = p /\ j >= i) /\ ~(q = p /\ k >= i)
      <4>1. <<r, j>> = <<q, k>>
        BY <2>4, <3>5
      <4> QED BY <4>1
    <3> QED BY <3>2, <3>3, <3>4, <3>5
  <2> QED BY <2>2, <2>3, <2>5
<1>3. \A u \in T : \E t \in S : f[t] = u
  <2> SUFFICES ASSUME NEW u \in T PROVE \E t \in S : f[t] = u
    OBVIOUS
  <2>1. PICK r \in Listed(d), j \in 1 .. (Full + 1) : /\ u = <<r, j>> /\ r \in Pair
        /\ j \in 1 .. Len(e[r].ents) /\ e[r].ents[j].node = x /\ u # <<p, i>>
    BY DEF Namers, Slot
  <2>2. CASE r = p /\ j > i
    <3>1. j - 1 \in 1 .. n /\ j \in 1 .. (n + 1) /\ ~(j < i) /\ j # i
      BY <1>0, <2>1, <2>2
    <3>2. e[p].ents[j] = d[p].ents[j - 1]
      BY <1>0, <3>1
    <3>a. j - 1 \in 1 .. (Full + 1) /\ j - 1 \in 1 .. Len(d[p].ents)
          /\ d[p].ents[j - 1].node = x
      BY <1>0, <2>1, <2>2, <3>1, <3>2 DEF n
    <3>3. <<p, j - 1>> \in S
      BY <1>0, <3>a DEF Namers, Slot
    <3>4. j - 1 >= i /\ (j - 1) + 1 = j
      BY <1>0, <2>2
    <3>5. f[<<p, j - 1>>] = u
      BY <2>1, <2>2, <3>3, <3>4
    <3> QED BY <3>3, <3>5
  <2>3. CASE r = p /\ j < i
    <3>1. j \in 1 .. n /\ j \in 1 .. (n + 1)
      BY <1>0, <2>1, <2>3
    <3>2. e[p].ents[j] = d[p].ents[j]
      BY <1>0, <2>3, <3>1
    <3>3. u \in S
      BY <1>0, <2>1, <2>3, <3>1, <3>2 DEF Namers, Slot, n
    <3>4. f[u] = u
      BY <1>0, <2>1, <2>3, <3>3
    <3> QED BY <3>3, <3>4
  <2>4. CASE r # p
    <3>1. u \in S
      BY <2>1, <2>4 DEF Namers, Slot
    <3>2. f[u] = u
      BY <2>1, <2>4, <3>1
    <3> QED BY <3>1, <3>2
  <2>5. j > i \/ j < i \/ j = i
    BY <1>0
  <2> QED BY <2>1, <2>2, <2>3, <2>4, <2>5
<1>4. S \in SUBSET Slot /\ A \in SUBSET Slot /\ T \in SUBSET Slot
  BY NamesType
<1>5. <<p, i>> \in A <=> y.node = x
  <2>1. e[p].ents[i] = y /\ i \in 1 .. (Full + 1)
    BY <1>0
  <2> QED BY <1>0, <2>1 DEF Namers, Slot
<1>6. Cardinality(T) = Cardinality(A) - (IF y.node = x THEN 1 ELSE 0)
  <2>1. IsFiniteSet(A) /\ Cardinality(A) \in Nat
    BY <1>4, SlotsAreFinite
  <2>2. PICK t : t = <<p, i>>
    OBVIOUS
  <2> HIDE DEF A
  <2>3. Cardinality(A \ {t}) = IF t \in A THEN Cardinality(A) - 1 ELSE Cardinality(A)
    BY <2>1, FS_RemoveElement
  <2> QED BY <1>5, <2>1, <2>2, <2>3
<1>7. Cardinality(S) = Cardinality(T)
  <2> HIDE DEF f, S, T
  <2> QED BY <1>1, <1>2, <1>3, <1>4, Matched
<1>8. Cardinality(A) \in Nat /\ Cardinality(S) \in Nat
  BY <1>4, SlotsAreFinite
<1>9. NameCount(e, x) = Cardinality(A) /\ NameCount(d, x) = Cardinality(S)
  BY DEF NameCount
<1> HIDE DEF A, S, T
<1> QED BY <1>6, <1>7, <1>8, <1>9

(* One taken out no longer does.                                           *)
LEMMA RemoveNames ==
  ASSUME NEW d \in Disks, NEW e \in Disks, Short(d), Listed(e) = Listed(d),
         NEW p \in Listed(d), NEW i \in 1 .. Len(d[p].ents),
         HasLess(e[p].ents, d[p].ents, i),
         \A r \in Listed(d) \ {p} : e[r].ents = d[r].ents,
         NEW x
  PROVE  NameCount(d, x) = NameCount(e, x) + (IF d[p].ents[i].node = x THEN 1 ELSE 0)
<1> DEFINE s == d[p].ents
           t == e[p].ents
<1>1. p \in Pair /\ s \in Seq(Entry) /\ t \in Seq(Entry) /\ Len(s) \in Nat
  BY ListCloses, DiskType
<1>2. Len(t) = Len(s) - 1 /\ \A j \in 1 .. (Len(s) - 1) : t[j] =
              IF j < i THEN s[j] ELSE s[j + 1]
  BY DEF HasLess
<1>3. i \in 1 .. (Len(t) + 1) /\ s[i] \in Entry
  BY <1>1, <1>2
<1>4. HasMore(s, t, i, s[i])
  <2> HIDE DEF s, t
  <2>1. ASSUME NEW j \in 1 .. (Len(t) + 1)
        PROVE  s[j] = IF j < i THEN t[j] ELSE IF j = i THEN s[i] ELSE t[j - 1]
    <3>1. CASE j < i
      BY <1>1, <1>2, <1>3, <3>1
    <3>2. CASE j = i
      BY <3>2
    <3>3. CASE j > i
      <4>1. j - 1 \in 1 .. (Len(s) - 1) /\ ~(j - 1 < i) /\ (j - 1) + 1 = j
        BY <1>1, <1>2, <1>3, <3>3
      <4>2. t[j - 1] = s[(j - 1) + 1]
        BY <1>2, <4>1
      <4> QED BY <1>1, <1>3, <3>3, <4>1, <4>2
    <3> QED BY <1>1, <1>3, <3>1, <3>2, <3>3
  <2>2. Len(s) = Len(t) + 1
    BY <1>1, <1>2
  <2> QED BY <1>1, <2>1, <2>2 DEF HasMore
<1>5. NameCount(d, x) = NameCount(e, x) + (IF s[i].node = x THEN 1 ELSE 0)
  <2>1. \A r \in Listed(e) \ {p} : d[r].ents = e[r].ents
    OBVIOUS
  <2> QED BY <1>3, <1>4, <2>1, InsertNames
<1> QED BY <1>5

(* The entries s are a, h of them, and then b.                             *)
Halved(a, b, s, h) ==
  /\ a \in Seq(Entry) /\ b \in Seq(Entry) /\ Len(a) = h /\ Len(b) = Len(s) - h
  /\ \A j \in 1 .. h : a[j] = s[j]
  /\ \A j \in 1 .. (Len(s) - h) : b[j] = s[h + j]

(* What lfs_dir_splittingcompact makes of the entries: the two halves hold *)
(* each of them once, in order.                                            *)
LEMMA HalvesAre ==
  ASSUME NEW s \in Seq(Entry), NEW h \in 0 .. Len(s)
  PROVE  Halved(SubSeq(s, 1, h), SubSeq(s, h + 1, Len(s)), s, h)
<1> DEFINE a == SubSeq(s, 1, h)
           b == SubSeq(s, h + 1, Len(s))
<1>1. a \in Seq(Entry) /\ Len(a) = h /\ \A j \in 1 .. h : a[j] = s[j]
  OBVIOUS
<1>2. b \in Seq(Entry) /\ Len(b) = Len(s) - h
      /\ \A j \in 1 .. (Len(s) - h) : b[j] = s[h + j]
  OBVIOUS
<1> QED BY <1>1, <1>2 DEF Halved

(* A pair that is split names what it did.                                 *)
LEMMA SplitNames ==
  ASSUME NEW d \in Disks, NEW e \in Disks, Short(d),
         NEW p \in Listed(d), NEW q \in Pair \ Listed(d),
         Listed(e) = Listed(d) \cup {q},
         NEW h \in 0 .. Len(d[p].ents),
         Halved(e[p].ents, e[q].ents, d[p].ents, h),
         \A r \in Listed(d) \ {p} : e[r].ents = d[r].ents,
         NEW x
  PROVE  NameCount(e, x) = NameCount(d, x)
<1> DEFINE n == Len(d[p].ents)
<1>0. /\ Full \in Nat /\ p \in Pair /\ p # q /\ n \in Nat /\ n <= Full + 1 /\ h \in 0 .. n
      /\ Len(e[p].ents) = h /\ Len(e[q].ents) = n - h
      /\ \A j \in 1 .. h : e[p].ents[j] = d[p].ents[j]
      /\ \A j \in 1 .. (n - h) : e[q].ents[j] = d[p].ents[h + j]
  BY DirTreeAssumption, ListCloses, DiskType DEF Short, Halved
<1> HIDE DEF n
<1> DEFINE S == Namers(d, x)
           T == Namers(e, x)
           f == [t \in S |-> IF t[1] = p /\ t[2] > h THEN <<q, t[2] - h>> ELSE t]
<1>1. f \in [S -> T]
  <2> SUFFICES ASSUME NEW t \in S PROVE f[t] \in T
    OBVIOUS
  <2>1. PICK r \in Listed(d), j \in 1 .. (Full + 1) : /\ t = <<r, j>> /\ r \in Pair
        /\ j \in 1 .. Len(d[r].ents) /\ d[r].ents[j].node = x
    BY DEF Namers, Slot
  <2>2. CASE r = p /\ j > h
    <3>1. j \in 1 .. n /\ j - h \in 1 .. (n - h) /\ h + (j - h) = j
      BY <1>0, <2>1, <2>2 DEF n
    <3>2. e[q].ents[j - h] = d[p].ents[j]
      BY <1>0, <2>2, <3>1
    <3>3. f[t] = <<q, j - h>> /\ j - h \in 1 .. (Full + 1)
      BY <1>0, <2>1, <2>2, <3>1, SMTT(30)
    <3>4. <<q, j - h>> \in T
      BY <1>0, <2>1, <2>2, <3>1, <3>2, <3>3 DEF Namers, Slot
    <3> QED BY <3>3, <3>4
  <2>3. CASE r = p /\ j <= h
    <3>1. j \in 1 .. h
      BY <1>0, <2>1, <2>3
    <3>2. e[p].ents[j] = d[p].ents[j]
      BY <1>0, <3>1
    <3>3. f[t] = t
      BY <1>0, <2>1, <2>3
    <3>4. t \in T
      BY <1>0, <2>1, <2>3, <3>1, <3>2 DEF Namers, Slot
    <3> QED BY <3>3, <3>4
  <2>4. CASE r # p
    <3>1. f[t] = t
      BY <2>1, <2>4
    <3>2. t \in T
      BY <2>1, <2>4 DEF Namers, Slot
    <3> QED BY <3>1, <3>2
  <2>5. j > h \/ j <= h
    BY <1>0
  <2> QED BY <2>2, <2>3, <2>4, <2>5
<1>2. \A t, u \in S : f[t] = f[u] => t = u
  <2> SUFFICES ASSUME NEW t \in S, NEW u \in S, f[t] = f[u] PROVE t = u
    BY SMTT(30)
  <2>1. /\ t \in Slot /\ u \in Slot /\ t[1] # q /\ u[1] # q
        /\ f[t] = IF t[1] = p /\ t[2] > h THEN <<q, t[2] - h>> ELSE t
        /\ f[u] = IF u[1] = p /\ u[2] > h THEN <<q, u[2] - h>> ELSE u
    BY DEF Namers
  <2> HIDE DEF f, S
  <2>2. PICK r \in Pair, j \in 1 .. (Full + 1) : t = <<r, j>> /\ r # q
    BY <2>1 DEF Slot
  <2>3. PICK v \in Pair, k \in 1 .. (Full + 1) : u = <<v, k>> /\ v # q
    BY <2>1 DEF Slot
  <2>4. /\ f[t] = IF r = p /\ j > h THEN <<q, j - h>> ELSE <<r, j>>
        /\ f[u] = IF v = p /\ k > h THEN <<q, k - h>> ELSE <<v, k>>
    BY <2>1, <2>2, <2>3
  <2>5. r = v /\ j = k
    <3>1. h \in Int /\ j \in Int /\ k \in Int
      BY <1>0
    <3>2. CASE r = p /\ j > h /\ v = p /\ k > h
      <4>1. <<q, j - h>> = <<q, k - h>>
        BY <2>4, <3>2
      <4> QED BY <3>1, <3>2, <4>1
    <3>3. CASE r = p /\ j > h /\ ~(v = p /\ k > h)
      <4>1. <<q, j - h>> = <<v, k>>
        BY <2>4, <3>3
      <4> QED BY <2>3, <4>1
    <3>4. CASE ~(r = p /\ j > h) /\ v = p /\ k > h
      <4>1. <<r, j>> = <<q, k - h>>
        BY <2>4, <3>4
      <4> QED BY <2>2, <4>1
    <3>5. CASE ~(r = p /\ j > h) /\ ~(v = p /\ k > h)
      <4>1. <<r, j>> = <<v, k>>
        BY <2>4, <3>5
      <4> QED BY <4>1
    <3> QED BY <3>2, <3>3, <3>4, <3>5
  <2> QED BY <2>2, <2>3, <2>5
<1>3. \A u \in T : \E t \in S : f[t] = u
  <2> SUFFICES ASSUME NEW u \in T PROVE \E t \in S : f[t] = u
    OBVIOUS
  <2>1. PICK r \in Listed(d) \cup {q}, j \in 1 .. (Full + 1) : /\ u = <<r, j>> /\ r \in Pair
        /\ j \in 1 .. Len(e[r].ents) /\ e[r].ents[j].node = x
    BY DEF Namers, Slot
  <2>2. CASE r = q
    <3>1. j \in 1 .. (n - h) /\ h + j \in 1 .. n /\ h + j \in 1 .. (Full + 1) /\ h + j > h
          /\ (h + j) - h = j
      BY <1>0, <2>1, <2>2
    <3>2. e[q].ents[j] = d[p].ents[h + j]
      BY <1>0, <3>1
    <3>a. h + j \in 1 .. Len(d[p].ents) /\ d[p].ents[h + j].node = x
      BY <2>1, <2>2, <3>1, <3>2 DEF n
    <3>3. <<p, h + j>> \in S
      BY <1>0, <3>1, <3>a DEF Namers, Slot
    <3>5. f[<<p, h + j>>] = u
      BY <2>1, <2>2, <3>1, <3>3
    <3> QED BY <3>3, <3>5
  <2>3. CASE r = p
    <3>1. j \in 1 .. h /\ j \in 1 .. n /\ ~(j > h)
      BY <1>0, <2>1, <2>3
    <3>2. e[p].ents[j] = d[p].ents[j]
      BY <1>0, <2>3, <3>1
    <3>3. u \in S
      BY <1>0, <2>1, <2>3, <3>1, <3>2 DEF Namers, Slot, n
    <3>4. f[u] = u
      BY <1>0, <2>1, <2>3, <3>1, <3>3
    <3> QED BY <3>3, <3>4
  <2>4. CASE r # p /\ r # q
    <3>1. u \in S
      BY <2>1, <2>4 DEF Namers, Slot
    <3>2. f[u] = u
      BY <2>1, <2>4, <3>1
    <3> QED BY <3>1, <3>2
  <2> QED BY <2>2, <2>3, <2>4
<1>4. S \in SUBSET Slot /\ T \in SUBSET Slot
  BY NamesType
<1>7. Cardinality(S) = Cardinality(T)
  <2> HIDE DEF f, S, T
  <2> QED BY <1>1, <1>2, <1>3, <1>4, Matched
<1> QED BY <1>7 DEF NameCount

------------------------------------------------------------------------------
(* The global state that pairs add up to.                                  *)
Givers(d, P, t) == {p \in P : t \in d[p].delta}

(* A token is in the sum if an odd number of pairs give it.                *)
LEMMA SumIs ==
  ASSUME NEW d \in Disks, NEW P \in SUBSET Pair, NEW t
  PROVE  /\ t \in Sum(d, P) <=> Cardinality(Givers(d, P, t)) % 2 = 1
         /\ IsFiniteSet(Givers(d, P, t)) /\ Cardinality(Givers(d, P, t)) \in Nat
<1>1. IsFiniteSet(Givers(d, P, t)) /\ Cardinality(Givers(d, P, t)) \in Nat
  BY PairsAreFinite DEF Givers
<1>2. ASSUME Cardinality(Givers(d, P, t)) % 2 = 1
      PROVE  t \in UNION {d[p].delta : p \in P}
  <2>1. Cardinality(Givers(d, P, t)) # 0
    BY <1>1, <1>2
  <2>2. Givers(d, P, t) # {}
    BY <1>1, <2>1, FS_EmptySet
  <2> QED BY <2>2 DEF Givers
<1> QED BY <1>1, <1>2 DEF Sum, Givers

(* What a mount adds up is a global state.                                 *)
LEMMA SumType ==
  ASSUME NEW d \in Disks, NEW P \in SUBSET Pair
  PROVE  Sum(d, P) \in SUBSET Token
BY DiskType DEF Sum

(* Pairs that have kept their deltas have kept their sum.                  *)
LEMMA SumSame ==
  ASSUME NEW d \in Disks, NEW e \in Disks, NEW P \in SUBSET Pair,
         \A p \in P : e[p].delta = d[p].delta
  PROVE  Sum(e, P) = Sum(d, P)
<1>1. \A t : Givers(e, P, t) = Givers(d, P, t)
  BY DEF Givers
<1>2. \A t : t \in Sum(e, P) <=> t \in Sum(d, P)
  BY <1>1, SumIs
<1> QED BY <1>2

(* A pair that joins the list adds its delta to the sum.                   *)
LEMMA SumAdd ==
  ASSUME NEW d \in Disks, NEW P \in SUBSET Pair, NEW q \in Pair \ P
  PROVE  Sum(d, P \cup {q}) = Xor(Sum(d, P), d[q].delta)
<1> SUFFICES ASSUME NEW t
             PROVE  t \in Sum(d, P \cup {q}) <=> t \in Xor(Sum(d, P), d[q].delta)
  OBVIOUS
<1> DEFINE A == Givers(d, P, t)
           B == Givers(d, P \cup {q}, t)
<1>1. /\ t \in Sum(d, P) <=> Cardinality(A) % 2 = 1
      /\ IsFiniteSet(A) /\ Cardinality(A) \in Nat
  BY SumIs
<1>2. t \in Sum(d, P \cup {q}) <=> Cardinality(B) % 2 = 1
  BY SumIs
<1>3. q \notin A
  BY DEF Givers
<1>4. CASE t \in d[q].delta
  <2>1. B = A \cup {q}
    BY <1>4 DEF Givers
  <2> HIDE DEF A, B
  <2>2. Cardinality(B) = Cardinality(A) + 1
    BY <1>1, <1>3, <2>1, FS_AddElement
  <2>3. Cardinality(B) % 2 = 1 <=> ~(Cardinality(A) % 2 = 1)
    BY <1>1, <2>2
  <2> QED BY <1>1, <1>2, <1>4, <2>3 DEF Xor
<1>5. CASE t \notin d[q].delta
  <2>1. B = A
    BY <1>5 DEF Givers
  <2> QED BY <1>1, <1>2, <1>5, <2>1 DEF Xor
<1> QED BY <1>4, <1>5

(* A pair that leaves the list takes its delta out of the sum.             *)
LEMMA SumRemove ==
  ASSUME NEW d \in Disks, NEW P \in SUBSET Pair, NEW q \in P
  PROVE  Sum(d, P \ {q}) = Xor(Sum(d, P), d[q].delta)
<1> DEFINE R == P \ {q}
<1>1. R \in SUBSET Pair /\ q \in Pair \ R /\ P = R \cup {q}
  OBVIOUS
<1> HIDE DEF R
<1>2. Sum(d, P) = Xor(Sum(d, R), d[q].delta)
  BY <1>1, SumAdd
<1>3. Sum(d, R) = Xor(Sum(d, P), d[q].delta)
  BY <1>2 DEF Xor
<1> QED BY <1>3 DEF R

(* One pair contributes c more than it did.                                *)
LEMMA SumChange ==
  ASSUME NEW d \in Disks, NEW e \in Disks, NEW P \in SUBSET Pair, NEW p \in P,
         NEW c, e[p].delta = Xor(d[p].delta, c),
         \A r \in P \ {p} : e[r].delta = d[r].delta
  PROVE  Sum(e, P) = Xor(Sum(d, P), c)
<1> DEFINE R == P \ {p}
<1>1. R \in SUBSET Pair /\ p \in Pair \ R /\ P = R \cup {p}
  OBVIOUS
<1>2. Sum(e, R) = Sum(d, R)
  BY SumSame
<1> HIDE DEF R
<1>3. Sum(d, P) = Xor(Sum(d, R), d[p].delta) /\ Sum(e, P) = Xor(Sum(e, R), e[p].delta)
  BY <1>1, SumAdd
<1> QED BY <1>2, <1>3 DEF Xor

------------------------------------------------------------------------------
(* Commits.                                                                *)
Globals == [gstate : SUBSET Token, gdisk : SUBSET Token, gdelta : SUBSET Token]
States == [disk : Disks, lfs : Globals, held : SUBSET Pair, ok : BOOLEAN,
           told : SUBSET Pair]

(* Every commit is written: no device error, no refusal for lack of space, *)
(* and no call that leaves out lfs_fs_forceconsistency.                    *)
Sure == Uses \cap {"fails", "full", "rdonly"} = {}

(* The card e is d with m, and global state c, in p; or with the halves of *)
(* m in p and q, and c in q.                                               *)
Whole(d, e, p, m, c) ==
  /\ e[p].ents = m.ents /\ e[p].tail = m.tail /\ e[p].split = m.split
  /\ e[p].delta = Xor(m.delta, c)
  /\ \A r \in Pair \ {p} : e[r] = d[r]
Halves(d, e, p, q, m, c) ==
  /\ Halved(e[p].ents, e[q].ents, m.ents, Len(m.ents) \div 2)
  /\ e[p].tail = q /\ e[p].split = TRUE /\ e[p].delta = m.delta
  /\ e[q].tail = m.tail /\ e[q].split = m.split /\ e[q].delta = c
  /\ \A r \in Pair \ {p, q} : e[r] = d[r]

(* The types of what a commit brings to the card, and of lfs_t after it.   *)
LEMMA GlobalsIs ==
  ASSUME NEW l \in Globals
  PROVE  /\ Settled(l) \in Globals /\ Pending(l) \in SUBSET Token
         /\ Settled(l).gstate = l.gstate /\ Settled(l).gdisk = l.gstate
         /\ Settled(l).gdelta = {}
<1>1. PICK k : k = [l EXCEPT !.gdisk = l.gstate]
  OBVIOUS
<1>2. k \in Globals /\ k.gstate = l.gstate /\ k.gdisk = l.gstate
  BY <1>1 DEF Globals
<1>3. PICK n : n = [k EXCEPT !.gdelta = {}]
  OBVIOUS
<1>4. n \in Globals /\ n.gstate = l.gstate /\ n.gdisk = l.gstate /\ n.gdelta = {}
  BY <1>2, <1>3 DEF Globals
<1>5. Settled(l) = n
  BY <1>1, <1>3, Zenon DEF Settled
<1>6. Pending(l) \in SUBSET Token
  BY DEF Pending, Xor, Globals
<1> QED BY <1>4, <1>5, <1>6

(* The types of a pair's parts.                                            *)
LEMMA ContentIs ==
  ASSUME NEW m \in Content
  PROVE  /\ m.ents \in Seq(Entry) /\ m.tail \in Pair \cup {NoPair}
         /\ m.split \in BOOLEAN /\ m.delta \in SUBSET Token
         /\ Len(m.ents) \in Nat
BY DEF Content

(* The types of a state's parts.                                           *)
LEMMA StateIs ==
  ASSUME NEW s \in States
  PROVE  /\ s.disk \in Disks /\ s.lfs \in Globals /\ s.held \in SUBSET Pair
         /\ s.ok \in BOOLEAN /\ s.told \in SUBSET Pair
BY DEF States

(* A state, or a pair's contents, with one field replaced.                 *)
SetDisk(s, e) == [s EXCEPT !.disk = e]
SetLfs(s, l) == [s EXCEPT !.lfs = l]
SetTold(s, T) == [s EXCEPT !.told = T]
SetHeld(s, H) == [s EXCEPT !.held = H]
SetEnts(m, x) == [m EXCEPT !.ents = x]
SetTail(m, x) == [m EXCEPT !.tail = x]
SetSplit(m, x) == [m EXCEPT !.split = x]
SetDelta(m, x) == [m EXCEPT !.delta = x]
SetPair(d, p, n) == [d EXCEPT ![p] = n]

(* Fields of a state that are replaced.                                    *)
LEMMA WithDisk ==
  ASSUME NEW s \in States, NEW e \in Disks, NEW t, t = SetDisk(s, e)
  PROVE  /\ t \in States /\ t.disk = e /\ t.lfs = s.lfs /\ t.held = s.held
         /\ t.ok = s.ok /\ t.told = s.told
<1>1. t \in States
  BY DEF States, SetDisk, SetLfs, SetTold, SetHeld
<1>2. t.disk = e /\ t.lfs = s.lfs /\ t.held = s.held /\ t.told = s.told
  BY DEF States, SetDisk, SetLfs, SetTold, SetHeld
<1>3. t.ok = s.ok
  BY DEF States, SetDisk, SetLfs, SetTold, SetHeld
<1> QED BY <1>1, <1>2, <1>3

(* A state with other global state in lfs_t.                               *)
LEMMA WithLfs ==
  ASSUME NEW s \in States, NEW l \in Globals, NEW t, t = SetLfs(s, l)
  PROVE  /\ t \in States /\ t.disk = s.disk /\ t.lfs = l /\ t.held = s.held
         /\ t.ok = s.ok /\ t.told = s.told
<1>1. t \in States
  BY DEF States, SetDisk, SetLfs, SetTold, SetHeld
<1>2. t.disk = s.disk /\ t.lfs = l /\ t.held = s.held /\ t.told = s.told
  BY DEF States, SetDisk, SetLfs, SetTold, SetHeld
<1>3. t.ok = s.ok
  BY DEF States, SetDisk, SetLfs, SetTold, SetHeld
<1> QED BY <1>1, <1>2, <1>3

(* A state in which other pairs have been told of.                         *)
LEMMA WithTold ==
  ASSUME NEW s \in States, NEW T \in SUBSET Pair, NEW t, t = SetTold(s, T)
  PROVE  /\ t \in States /\ t.disk = s.disk /\ t.lfs = s.lfs /\ t.held = s.held
         /\ t.ok = s.ok /\ t.told = T
<1>1. t \in States
  BY DEF States, SetDisk, SetLfs, SetTold, SetHeld
<1>2. t.disk = s.disk /\ t.lfs = s.lfs /\ t.held = s.held /\ t.told = T
  BY DEF States, SetDisk, SetLfs, SetTold, SetHeld
<1>3. t.ok = s.ok
  BY DEF States, SetDisk, SetLfs, SetTold, SetHeld
<1> QED BY <1>1, <1>2, <1>3

(* A state in which other pairs are allocated.                             *)
LEMMA WithHeld ==
  ASSUME NEW s \in States, NEW H \in SUBSET Pair, NEW t, t = SetHeld(s, H)
  PROVE  /\ t \in States /\ t.disk = s.disk /\ t.lfs = s.lfs /\ t.held = H
         /\ t.ok = s.ok /\ t.told = s.told
<1>1. t \in States
  BY DEF States, SetDisk, SetLfs, SetTold, SetHeld
<1>2. t.disk = s.disk /\ t.lfs = s.lfs /\ t.held = H /\ t.told = s.told
  BY DEF States, SetDisk, SetLfs, SetTold, SetHeld
<1>3. t.ok = s.ok
  BY DEF States, SetDisk, SetLfs, SetTold, SetHeld
<1> QED BY <1>1, <1>2, <1>3

(* Fields of a pair's contents that are replaced.                          *)
LEMMA WithEnts ==
  ASSUME NEW m \in Content, NEW x \in Seq(Entry), NEW n, n = SetEnts(m, x)
  PROVE  /\ n \in Content /\ n.ents = x /\ n.tail = m.tail /\ n.split = m.split
         /\ n.delta = m.delta
<1>1. n \in Content
  BY DEF Content, SetEnts, SetTail, SetSplit, SetDelta
<1>2. n.ents = x /\ n.tail = m.tail /\ n.delta = m.delta
  BY DEF Content, SetEnts, SetTail, SetSplit, SetDelta
<1>3. n.split = m.split
  BY DEF Content, SetEnts, SetTail, SetSplit, SetDelta
<1> QED BY <1>1, <1>2, <1>3

(* A pair with another tail.                                               *)
LEMMA WithTail ==
  ASSUME NEW m \in Content, NEW x \in Pair \cup {NoPair}, NEW n, n = SetTail(m, x)
  PROVE  /\ n \in Content /\ n.ents = m.ents /\ n.tail = x /\ n.split = m.split
         /\ n.delta = m.delta
<1>1. n \in Content
  BY DEF Content, SetEnts, SetTail, SetSplit, SetDelta
<1>2. n.ents = m.ents /\ n.tail = x /\ n.delta = m.delta
  BY DEF Content, SetEnts, SetTail, SetSplit, SetDelta
<1>3. n.split = m.split
  BY DEF Content, SetEnts, SetTail, SetSplit, SetDelta
<1> QED BY <1>1, <1>2, <1>3

(* A pair with another split flag.                                         *)
LEMMA WithSplit ==
  ASSUME NEW m \in Content, NEW x \in BOOLEAN, NEW n, n = SetSplit(m, x)
  PROVE  /\ n \in Content /\ n.ents = m.ents /\ n.tail = m.tail /\ n.split = x
         /\ n.delta = m.delta
<1>1. n \in Content
  BY DEF Content, SetEnts, SetTail, SetSplit, SetDelta
<1>2. n.ents = m.ents /\ n.tail = m.tail /\ n.delta = m.delta
  BY DEF Content, SetEnts, SetTail, SetSplit, SetDelta
<1>3. n.split = x
  BY DEF Content, SetEnts, SetTail, SetSplit, SetDelta
<1> QED BY <1>1, <1>2, <1>3

(* A pair with another delta.                                              *)
LEMMA WithDelta ==
  ASSUME NEW m \in Content, NEW x \in SUBSET Token, NEW n, n = SetDelta(m, x)
  PROVE  /\ n \in Content /\ n.ents = m.ents /\ n.tail = m.tail /\ n.split = m.split
         /\ n.delta = x
<1>1. n \in Content
  BY DEF Content, SetEnts, SetTail, SetSplit, SetDelta
<1>2. n.ents = m.ents /\ n.tail = m.tail /\ n.delta = x
  BY DEF Content, SetEnts, SetTail, SetSplit, SetDelta
<1>3. n.split = m.split
  BY DEF Content, SetEnts, SetTail, SetSplit, SetDelta
<1> QED BY <1>1, <1>2, <1>3

(* The card with something else on a pair.                                 *)
LEMMA WithPair ==
  ASSUME NEW d \in Disks, NEW p \in Pair, NEW n \in Content, NEW e, e = SetPair(d, p, n)
  PROVE  e \in Disks /\ e[p] = n /\ \A r \in Pair \ {p} : e[r] = d[r]
BY DEF Disks, SetPair

(* The outcomes of Put.                                                    *)
WholeOf(s, p, m, c, l) ==
  [s EXCEPT !.disk[p] = [m EXCEPT !.delta = Xor(@, c)],
            !.lfs = l, !.told = @ \cup {p}]
TailOf(s, q, m, b, c, l) ==
  [s EXCEPT !.disk[q] = [m EXCEPT !.ents = b, !.delta = c], !.lfs = l]
HalvesOf(t, p, q, m, a) ==
  [t EXCEPT !.told = @ \cup {p},
            !.disk[p] = [m EXCEPT !.ents = a, !.tail = q, !.split = TRUE]]

(* The outcome of a commit that is written to its pair whole.              *)
LEMMA PutWhole ==
  ASSUME NEW s \in States, NEW p \in Pair, NEW m \in Content, NEW c \in SUBSET Token,
         NEW l \in Globals, NEW o,
         o = WholeOf(s, p, m, c, l)
  PROVE  /\ o \in States /\ Whole(s.disk, o.disk, p, m, c)
         /\ o.lfs = l /\ o.held = s.held /\ o.ok = s.ok
         /\ o.told = s.told \cup {p}
<1>0. Xor(m.delta, c) \in SUBSET Token /\ s.told \cup {p} \in SUBSET Pair
  BY ContentIs, StateIs DEF Xor
<1>1. PICK n : n = SetDelta(m, Xor(m.delta, c))
  OBVIOUS
<1>2. /\ n \in Content /\ n.ents = m.ents /\ n.tail = m.tail /\ n.split = m.split
      /\ n.delta = Xor(m.delta, c)
  BY <1>0, <1>1, WithDelta
<1>3. PICK e : e = SetPair(s.disk, p, n)
  OBVIOUS
<1>4. e \in Disks /\ e[p] = n /\ \A r \in Pair \ {p} : e[r] = s.disk[r]
  <2>1. s.disk \in Disks
    BY StateIs
  <2> QED BY <1>2, <1>3, <2>1, WithPair, SMTT(30)
<1>5. PICK s1 : s1 = SetDisk(s, e)
  OBVIOUS
<1>6. PICK s2 : s2 = SetLfs(s1, l)
  OBVIOUS
<1>7. PICK s3 : s3 = SetTold(s2, s.told \cup {p})
  OBVIOUS
<1>8. s1 \in States /\ s1.disk = e /\ s1.held = s.held /\ s1.ok = s.ok /\ s1.told = s.told
  BY <1>4, <1>5, WithDisk
<1>9. s2 \in States /\ s2.disk = e /\ s2.lfs = l /\ s2.held = s.held /\ s2.ok = s.ok /\ s2.told = s.told
  BY <1>6, <1>8, WithLfs
<1>10. /\ s3 \in States /\ s3.disk = e /\ s3.lfs = l /\ s3.held = s.held /\ s3.ok = s.ok
       /\ s3.told = s.told \cup {p}
  BY <1>0, <1>7, <1>9, WithTold
<1>11. o = s3
  BY <1>1, <1>3, <1>5, <1>6, <1>7, Zenon DEF WholeOf, TailOf, HalvesOf, SetDisk, SetLfs, SetTold, SetEnts, SetTail, SetSplit,
    SetDelta, SetPair
<1>12. Whole(s.disk, e, p, m, c)
  BY <1>2, <1>4, Zenon DEF Whole
<1> QED BY <1>10, <1>11, <1>12

(* o is s with a, b, the halves of m, put in p and q.                      *)
Halving(s, p, q, m, c, l, a, b, t, o) ==
  /\ s \in States /\ p \in Pair /\ q \in Pair /\ q # p /\ m \in Content
  /\ c \in SUBSET Token /\ l \in Globals /\ a \in Seq(Entry) /\ b \in Seq(Entry)
  /\ Halved(a, b, m.ents, Len(m.ents) \div 2)
  /\ t = TailOf(s, q, m, b, c, l) /\ o = HalvesOf(t, p, q, m, a)

(* The outcome of a commit that splits its pair.                           *)
LEMMA PutHalves ==
  ASSUME NEW s, NEW p, NEW q, NEW m, NEW c, NEW l, NEW a, NEW b, NEW t, NEW o,
         Halving(s, p, q, m, c, l, a, b, t, o)
  PROVE  /\ o \in States /\ Halves(s.disk, o.disk, p, q, m, c)
         /\ o.lfs = l /\ o.held = s.held /\ o.ok = s.ok
         /\ o.told = s.told \cup {p}
<1>0. /\ s \in States /\ p \in Pair /\ q \in Pair /\ q # p /\ m \in Content
      /\ c \in SUBSET Token /\ l \in Globals /\ a \in Seq(Entry) /\ b \in Seq(Entry)
      /\ Halved(a, b, m.ents, Len(m.ents) \div 2)
      /\ t = TailOf(s, q, m, b, c, l) /\ o = HalvesOf(t, p, q, m, a)
  BY Zenon DEF Halving
<1> USE <1>0
<1>1. PICK n1 : n1 = SetEnts(m, b)
  OBVIOUS
<1>2. PICK n : n = SetDelta(n1, c)
  OBVIOUS
<1>3. /\ n \in Content /\ n.ents = b /\ n.tail = m.tail /\ n.split = m.split /\ n.delta = c
  <2>1. n1 \in Content /\ n1.ents = b /\ n1.tail = m.tail /\ n1.split = m.split
    BY <1>1, WithEnts
  <2> QED BY <1>2, <2>1, WithDelta
<1>4. PICK k1 : k1 = SetEnts(m, a)
  OBVIOUS
<1>5. PICK k2 : k2 = SetTail(k1, q)
  OBVIOUS
<1>6. PICK k : k = SetSplit(k2, TRUE)
  OBVIOUS
<1>7. k \in Content /\ k.ents = a /\ k.tail = q /\ k.split = TRUE /\ k.delta = m.delta
  <2>1. k1 \in Content /\ k1.ents = a /\ k1.delta = m.delta
    BY <1>4, WithEnts
  <2>2. k2 \in Content /\ k2.ents = a /\ k2.tail = q /\ k2.delta = m.delta
    BY <1>5, <2>1, WithTail
  <2> QED BY <1>6, <2>2, WithSplit, ZenonT(60)
<1>8. PICK e1 : e1 = SetPair(s.disk, q, n)
  OBVIOUS
<1>9. e1 \in Disks /\ e1[q] = n /\ \A r \in Pair \ {q} : e1[r] = s.disk[r]
  <2>1. s.disk \in Disks
    BY StateIs
  <2> QED BY <1>3, <1>8, <2>1 DEF Disks, SetPair
<1>10. PICK e : e = SetPair(e1, p, k)
  OBVIOUS
<1>11. e \in Disks /\ e[p] = k /\ \A r \in Pair \ {p} : e[r] = e1[r]
  BY <1>7, <1>9, <1>10 DEF Disks, SetPair
<1>12. PICK s1 : s1 = SetDisk(s, e1)
  OBVIOUS
<1>13. s1 \in States /\ s1.disk = e1 /\ s1.held = s.held /\ s1.ok = s.ok /\ s1.told = s.told
  BY <1>9, <1>12, WithDisk
<1>14. t = SetLfs(s1, l)
  BY <1>1, <1>2, <1>8, <1>12, Zenon DEF WholeOf, TailOf, HalvesOf, SetDisk, SetLfs, SetTold, SetEnts, SetTail, SetSplit,
    SetDelta, SetPair
<1>15. t \in States /\ t.disk = e1 /\ t.lfs = l /\ t.held = s.held /\ t.ok = s.ok /\ t.told = s.told
  BY <1>13, <1>14, WithLfs
<1>16. PICK s2 : s2 = SetTold(t, t.told \cup {p})
  OBVIOUS
<1>17. /\ s2 \in States /\ s2.disk = e1 /\ s2.lfs = l /\ s2.held = s.held /\ s2.ok = s.ok
       /\ s2.told = s.told \cup {p}
  <2>1. t.told \cup {p} \in SUBSET Pair
    BY <1>15, StateIs
  <2> QED BY <1>15, <1>16, <2>1, WithTold
<1>18. o = SetDisk(s2, e)
  BY <1>4, <1>5, <1>6, <1>10, <1>15, <1>16, Zenon DEF WholeOf, TailOf, HalvesOf, SetDisk, SetLfs, SetTold, SetEnts, SetTail, SetSplit,
    SetDelta, SetPair
<1>19. /\ o \in States /\ o.disk = e /\ o.lfs = l /\ o.held = s.held /\ o.ok = s.ok
       /\ o.told = s.told \cup {p}
  BY <1>11, <1>17, <1>18, WithDisk
<1>20. \A r \in Pair \ {p, q} : e[r] = s.disk[r]
  BY <1>9, <1>11
<1>21. Halves(s.disk, e, p, q, m, c)
  <2>1. e[p] = k /\ e[q] = n
    BY <1>9, <1>11
  <2> QED BY <1>3, <1>7, <1>20, <2>1, Zenon DEF Halves
<1> QED BY <1>19, <1>21

(* What a commit of m to p does.                                           *)
LEMMA PutIs ==
  ASSUME Sure, NEW s \in States, NEW p \in Pair, NEW m \in Content,
         p \in Free(s) => Len(m.ents) = 0, NEW o \in Put(s, p, m)
  PROVE  /\ o \in States /\ o.lfs = Settled(s.lfs) /\ o.held = s.held
         /\ o.ok = s.ok /\ o.told = s.told \cup {p}
         /\ \/ /\ Len(m.ents) <= Full
               /\ Whole(s.disk, o.disk, p, m, Pending(s.lfs))
            \/ \E q \in Free(s) :
                 /\ Len(m.ents) > Capacity
                 /\ Halves(s.disk, o.disk, p, q, m, Pending(s.lfs))
<1> DEFINE n == Len(m.ents)
           h == n \div 2
           change == Pending(s.lfs)
           whole == [s EXCEPT !.disk[p] = [m EXCEPT !.delta = Xor(@, change)],
                         !.lfs = Settled(@), !.told = @ \cup {p}]
           tail(q) == [s EXCEPT !.disk[q] = [m EXCEPT
                                          !.ents = SubSeq(@, h + 1, n),
                                          !.delta = change],
                           !.lfs = Settled(@)]
           halves(q) == [tail(q) EXCEPT !.told = @ \cup {p},
                      !.disk[p] = [m EXCEPT !.ents = SubSeq(@, 1, h),
                                            !.tail = q, !.split = TRUE]]
           spare == IF n > Capacity THEN Free(s) ELSE {}
<1>1. "fails" \notin Uses /\ "full" \notin Uses
  BY DEF Sure
<1>2. o \in (IF Fits(n) THEN {whole} ELSE {}) \cup {halves(q) : q \in spare}
             \cup (IF ~Fits(n) /\ spare = {} /\ "full" \in Uses
                   THEN {Fails(s)} ELSE {})
             \cup (IF "fails" \in Uses
                   THEN {Fails(s)} \cup {Fails(tail(q)) : q \in spare} ELSE {})
  BY Zenon DEF Put
<1> HIDE DEF whole, tail, halves, spare, n, h, change
<1>3. (Fits(n) /\ o = whole) \/ \E q \in spare : o = halves(q)
  BY <1>1, <1>2
<1>4. Settled(s.lfs) \in Globals /\ change \in SUBSET Token
  BY StateIs, GlobalsIs DEF change
<1>a. PICK l : l = Settled(s.lfs)
  OBVIOUS
<1>5. CASE Fits(n) /\ o = whole
  <2>a. o = WholeOf(s, p, m, change, l)
    BY <1>a, <1>5, Zenon DEF whole, WholeOf
  <2>b. l \in Globals
    BY <1>4, <1>a
  <2> HIDE DEF change
  <2>2. /\ o \in States /\ Whole(s.disk, o.disk, p, m, change)
        /\ o.lfs = Settled(s.lfs) /\ o.held = s.held /\ o.ok = s.ok
        /\ o.told = s.told \cup {p}
    <3>1. /\ o \in States /\ Whole(s.disk, o.disk, p, m, change)
          /\ o.lfs = l /\ o.held = s.held /\ o.ok = s.ok
          /\ o.told = s.told \cup {p}
      BY <1>4, <2>a, <2>b, PutWhole
    <3> QED BY <1>a, <3>1
  <2>3. Len(m.ents) <= Full
    BY <1>5 DEF Fits, n
  <2> QED BY <2>2, <2>3 DEF change
<1>6. CASE \E q \in spare : o = halves(q)
  <2>1. PICK q \in spare : o = halves(q)
    BY <1>6
  <2>2. n > Capacity /\ q \in Free(s) /\ q \in Pair /\ q # p
    <3>1. n > Capacity /\ q \in Free(s) /\ q \in Pair
      BY <2>1 DEF spare, Free
    <3>2. Len(m.ents) # 0
      BY <3>1, DirTreeAssumption, ContentIs DEF n
    <3> QED BY <3>1, <3>2
  <2>3. PICK a : a = SubSeq(m.ents, 1, h)
    OBVIOUS
  <2>4. PICK b : b = SubSeq(m.ents, h + 1, n)
    OBVIOUS
  <2>5. m.ents \in Seq(Entry) /\ n \in Nat /\ h \in 0 .. n
    <3>1. m.ents \in Seq(Entry) /\ n \in Nat
      BY ContentIs DEF n
    <3>2. n \div 2 \in 0 .. n
      BY <3>1
    <3> QED BY <3>1, <3>2 DEF h
  <2>6. Halved(a, b, m.ents, h)
    <3>1. Halved(SubSeq(m.ents, 1, h), SubSeq(m.ents, h + 1, Len(m.ents)), m.ents, h)
      BY <2>5, HalvesAre, Zenon DEF n
    <3> QED BY <2>3, <2>4, <3>1, Zenon DEF n
  <2>7. a \in Seq(Entry) /\ b \in Seq(Entry)
    BY <2>6 DEF Halved
  <2>8. PICK t : t = tail(q)
    OBVIOUS
  <2>9. t = TailOf(s, q, m, b, change, l)
    BY <1>a, <2>4, <2>8, Zenon DEF tail, TailOf
  <2>10. o = HalvesOf(t, p, q, m, a)
    BY <2>1, <2>3, <2>8, Zenon DEF halves, HalvesOf
  <2>11. /\ o \in States /\ Halves(s.disk, o.disk, p, q, m, change)
         /\ o.lfs = Settled(s.lfs) /\ o.held = s.held /\ o.ok = s.ok
         /\ o.told = s.told \cup {p}
    <3>1. h = Len(m.ents) \div 2
      BY DEF h, n
    <3>2. l \in Globals
      BY <1>4, <1>a
    <3>3. /\ o \in States /\ Halves(s.disk, o.disk, p, q, m, change)
          /\ o.lfs = l /\ o.held = s.held /\ o.ok = s.ok
          /\ o.told = s.told \cup {p}
      <4>1. Halving(s, p, q, m, change, l, a, b, t, o)
        BY <1>4, <2>2, <2>6, <2>7, <2>9, <2>10, <3>1, <3>2, Zenon DEF Halving
      <4> HIDE DEF change, h, n, spare
      <4>2. /\ o \in States /\ Halves(s.disk, o.disk, p, q, m, change)
            /\ o.lfs = l /\ o.held = s.held /\ o.ok = s.ok
            /\ o.told = s.told \cup {p}
        BY <4>1, PutHalves
      <4> QED BY <4>2
    <3> QED BY <1>a, <3>3
  <2> QED BY <2>2, <2>11 DEF change, n
<1> QED BY <1>3, <1>5, <1>6

------------------------------------------------------------------------------
(* What a commit leaves on the card.                                       *)

Filled(d) == \A p \in Pair : Len(d[p].ents) <= Full

(* e is d with other global state in p, or with p split into p and a pair  *)
(* of F.                                                                   *)
Same(d, e, p) ==
  /\ e[p].ents = d[p].ents /\ e[p].tail = d[p].tail /\ e[p].split = d[p].split
  /\ \A r \in Pair \ {p} : e[r] = d[r]
SplitOff(d, e, p, q) ==
  /\ Halved(e[p].ents, e[q].ents, d[p].ents, Len(d[p].ents) \div 2)
  /\ e[p].tail = q /\ e[p].split = TRUE
  /\ e[q].tail = d[p].tail /\ e[q].split = d[p].split
  /\ \A r \in Pair \ {p, q} : e[r] = d[r]
Spread(d, e, p, F) ==
  /\ \A r \in Listed(d) \ {p} : e[r] = d[r]
  /\ \/ /\ Listed(e) = Listed(d)
        /\ e[p].ents = d[p].ents /\ e[p].tail = d[p].tail /\ e[p].split = d[p].split
     \/ \E q \in F :
          /\ q \in Pair \ Listed(d) /\ Listed(e) = Listed(d) \cup {q}
          /\ Halved(e[p].ents, e[q].ents, d[p].ents, Len(d[p].ents) \div 2)
          /\ e[p].tail = q /\ e[p].split = TRUE
          /\ e[q].tail = d[p].tail /\ e[q].split = d[p].split
          /\ Len(d[p].ents) > Capacity

(* They have the same directories, and entries that name the same.         *)
Alike(d, e) == Heads(e) = Heads(d) /\ \A x : NameCount(e, x) = NameCount(d, x)

(* A half of the entries fits in a pair if all but one do.                 *)
LEMMA HalfIs ==
  ASSUME NEW n \in Nat
  PROVE  /\ n \div 2 \in 0 .. n
         /\ \A f \in Nat : f >= 1 /\ n <= f + 1 =>
              n \div 2 <= f /\ n - (n \div 2) <= f
OBVIOUS

(* What cancels out in the exclusive or of the global state.               *)
LEMMA XorIs ==
  ASSUME NEW a, NEW b, NEW c
  PROVE  /\ Xor(Xor(a, b), Xor(Xor(c, a), b)) = c
         /\ Xor(a, {}) = a /\ Xor({}, a) = a /\ Xor(a, a) = {}
         /\ Xor(Xor(a, b), b) = a
BY DEF Xor

(* A commit to p that would leave the list threaded as in d does, whether  *)
(* p is split or not, and makes the card's global state that of lfs_t.     *)
Target(s, p, m, d) ==
  /\ s \in States /\ p \in Pair /\ m \in Content /\ d = SetPair(s.disk, p, m)
  /\ Threaded(d) /\ p \in Listed(d) /\ Listed(d) \subseteq Listed(s.disk) \cup s.held
  /\ Short(d) /\ (\A r \in Pair \ {p} : Len(d[r].ents) <= Full)
  /\ OnCard(d) = Xor(s.lfs.gdisk, s.lfs.gdelta)
Committed(s, p, d, o) ==
  /\ o \in States /\ o.held = s.held
  /\ o.lfs.gstate = s.lfs.gstate /\ o.lfs.gdisk = s.lfs.gstate /\ o.lfs.gdelta = {}
  /\ o.ok = s.ok /\ o.told = s.told \cup {p}
  /\ Threaded(o.disk) /\ Filled(o.disk) /\ Alike(d, o.disk)
  /\ Spread(d, o.disk, p, Free(s)) /\ OnCard(o.disk) = s.lfs.gstate

(* A commit, whole or split, leaves on the tail list what it was to leave; *)
(* a mount would then find the global state that lfs_t held for it, and    *)
(* the handles have been told.                                             *)
LEMMA PutCommits ==
  ASSUME Sure, NEW s, NEW p, NEW m, NEW d, Target(s, p, m, d), NEW o \in Put(s, p, m)
  PROVE  Committed(s, p, d, o)
<1> DEFINE e == o.disk
           c == Pending(s.lfs)
<1>1. s \in States /\ p \in Pair /\ m \in Content /\ d = SetPair(s.disk, p, m)
  BY DEF Target
<1>2. /\ Threaded(d) /\ p \in Listed(d) /\ Listed(d) \subseteq Listed(s.disk) \cup s.held
      /\ Short(d) /\ \A r \in Pair \ {p} : Len(d[r].ents) <= Full
  BY DEF Target
<1>3. OnCard(d) = Xor(s.lfs.gdisk, s.lfs.gdelta)
  BY DEF Target
<1>4. s.disk \in Disks /\ s.lfs \in Globals /\ s.held \in SUBSET Pair
  BY <1>1, StateIs
<1>5. d \in Disks /\ d[p] = m /\ \A r \in Pair \ {p} : d[r] = s.disk[r]
  BY <1>1, <1>4, WithPair
<1>6. p \notin Free(s)
  BY <1>2 DEF Free
<1>7. /\ o \in States /\ o.lfs = Settled(s.lfs) /\ o.held = s.held
      /\ o.ok = s.ok /\ o.told = s.told \cup {p}
  BY <1>1, <1>6, PutIs
<1>8. \/ Len(m.ents) <= Full /\ Whole(s.disk, e, p, m, c)
      \/ \E q \in Free(s) :
           Len(m.ents) > Capacity /\ Halves(s.disk, e, p, q, m, c)
  BY <1>1, <1>6, PutIs
<1>9. e \in Disks
  BY <1>7, StateIs
<1>10. Listed(d) \in SUBSET Pair
  BY <1>5, ListCloses
<1>11. /\ Threaded(e) /\ Filled(e) /\ Alike(d, e)
       /\ Spread(d, e, p, Free(s)) /\ OnCard(e) = Xor(OnCard(d), c)
  <2>1. CASE Len(m.ents) <= Full /\ Whole(s.disk, e, p, m, c)
    <3>1. e[p].delta = Xor(d[p].delta, c) /\ Same(d, e, p)
      BY <1>5, <2>1 DEF Whole, Same
    <3>2. TailsOK(e)
      BY <1>2, <3>1 DEF TailsOK, Threaded, Same
    <3>3. \A r \in Listed(d) : e[r].tail = d[r].tail /\ e[r].split = d[r].split
      BY <1>10, <3>1 DEF Same
    <3>4. Threaded(e) /\ Listed(e) = Listed(d) /\ Heads(e) = Heads(d)
      BY <1>2, <1>5, <1>9, <3>2, <3>3, SameThread
    <3>5. \A r \in Pair : e[r].ents = d[r].ents
      BY <3>1 DEF Same
    <3>6. ASSUME NEW x PROVE NameCount(e, x) = NameCount(d, x)
      BY <1>5, <1>9, <1>10, <3>4, <3>5, SameNames
    <3>7. Filled(e)
      BY <1>2, <1>5, <2>1, <3>5 DEF Filled
    <3>8. \A r \in Listed(d) \ {p} : e[r].delta = d[r].delta
      BY <1>10, <3>1 DEF Same
    <3>9. Sum(e, Listed(d)) = Xor(Sum(d, Listed(d)), c)
      BY <1>2, <1>5, <1>9, <1>10, <3>1, <3>8, SumChange
    <3>10. Spread(d, e, p, Free(s))
      BY <1>10, <3>1, <3>4 DEF Spread, Same
    <3> QED BY <3>4, <3>6, <3>7, <3>9, <3>10 DEF Alike, OnCard
  <2>2. CASE \E q \in Free(s) :
               Len(m.ents) > Capacity /\ Halves(s.disk, e, p, q, m, c)
    <3>1. PICK q \in Free(s) :
            Len(m.ents) > Capacity /\ Halves(s.disk, e, p, q, m, c)
      BY <2>2
    <3>2. q \in Pair \ Listed(d) /\ q # p
      BY <1>2 DEF Free
    <3>3. SplitOff(d, e, p, q) /\ e[p].delta = d[p].delta /\ e[q].delta = c
      BY <1>5, <3>1 DEF Halves, SplitOff
    <3>4. TailsOK(e)
      <4>1. q # Root /\ q # NoPair
        BY <1>5, <3>2, ListCloses, DirTreeAssumption
      <4>2. \A r \in Pair : d[r].tail # Root /\ (d[r].split => d[r].tail # NoPair)
        BY <1>2 DEF TailsOK, Threaded
      <4>3. SUFFICES ASSUME NEW r \in Pair
                     PROVE  e[r].tail # Root /\ (e[r].split => e[r].tail # NoPair)
        BY DEF TailsOK
      <4>4. CASE r = p
        BY <3>3, <4>1, <4>4 DEF SplitOff
      <4>5. CASE r = q
        BY <1>1, <3>3, <4>2, <4>5 DEF SplitOff
      <4>6. CASE r \notin {p, q}
        BY <3>3, <4>2, <4>6 DEF SplitOff
      <4> QED BY <4>4, <4>5, <4>6
    <3>5. /\ e[p].tail = q /\ e[q].tail = d[p].tail /\ e[p].split = TRUE /\ e[q].split = d[p].split
          /\ \A r \in Listed(d) \ {p} : e[r].tail = d[r].tail /\ e[r].split = d[r].split
      BY <1>10, <3>2, <3>3 DEF SplitOff
    <3>6. Threaded(e) /\ Listed(e) = Listed(d) \cup {q} /\ Heads(e) = Heads(d)
      BY <1>2, <1>5, <1>9, <3>2, <3>4, <3>5, Inserted
    <3>7. \A r \in Listed(d) \ {p} : e[r] = d[r]
      BY <1>10, <3>2, <3>3 DEF SplitOff
    <3>8. Len(m.ents) \div 2 \in 0 .. Len(d[p].ents) /\ Len(m.ents) \in Nat
      <4>1. Len(m.ents) \in Nat
        BY <1>1, ContentIs
      <4> QED BY <1>5, <4>1, HalfIs
    <3>9. Halved(e[p].ents, e[q].ents, d[p].ents, Len(m.ents) \div 2)
      BY <1>5, <3>3 DEF SplitOff
    <3>10. ASSUME NEW x PROVE NameCount(e, x) = NameCount(d, x)
      <4>1. \A r \in Listed(d) \ {p} : e[r].ents = d[r].ents
        BY <3>7
      <4> QED BY <1>2, <1>5, <1>9, <3>2, <3>6, <3>8, <3>9, <4>1, SplitNames
    <3>11. Filled(e)
      <4>1. Len(m.ents) <= Full + 1
        BY <1>1, <1>2, <1>5 DEF Short
      <4>2. Len(e[p].ents) = Len(m.ents) \div 2 /\ Len(e[q].ents) = Len(m.ents) - Len(m.ents) \div 2
        BY <1>5, <3>9 DEF Halved
      <4>3. Len(e[p].ents) <= Full /\ Len(e[q].ents) <= Full
        <5>1. Full \in Nat /\ Len(m.ents) \in Nat /\ Len(m.ents) >= 2 /\ Full >= 1
          BY <3>1, <3>8, DirTreeAssumption
        <5>2. Len(m.ents) \div 2 <= Full /\ Len(m.ents) - Len(m.ents) \div 2 <= Full
          BY <4>1, <5>1, HalfIs
        <5> QED BY <4>2, <5>2
      <4>4. \A r \in Pair \ {p, q} : e[r] = d[r]
        BY <3>3 DEF SplitOff
      <4> QED BY <1>2, <4>3, <4>4 DEF Filled
    <3>12. Sum(e, Listed(e)) = Xor(Sum(d, Listed(d)), c)
      <4>1. \A r \in Listed(d) : e[r].delta = d[r].delta
        BY <3>3, <3>7
      <4>2. Sum(e, Listed(d)) = Sum(d, Listed(d))
        BY <1>5, <1>9, <1>10, <4>1, SumSame
      <4>3. Sum(e, Listed(d) \cup {q}) = Xor(Sum(e, Listed(d)), e[q].delta)
        BY <1>9, <1>10, <3>2, SumAdd
      <4> QED BY <3>3, <3>6, <4>2, <4>3
    <3>13. Len(d[p].ents) > Capacity
      BY <1>5, <3>1
    <3>14. Spread(d, e, p, Free(s))
      BY <3>1, <3>2, <3>3, <3>6, <3>7, <3>13 DEF Spread, SplitOff
    <3> QED BY <3>6, <3>10, <3>11, <3>12, <3>14 DEF Alike, OnCard
  <2> QED BY <1>8, <2>1, <2>2
<1>12. OnCard(e) = s.lfs.gstate
  <2>1. OnCard(e) = Xor(Xor(s.lfs.gdisk, s.lfs.gdelta), Xor(Xor(s.lfs.gstate, s.lfs.gdisk), s.lfs.gdelta))
    BY <1>3, <1>11 DEF Pending
  <2> QED BY <2>1, XorIs
<1>13. o.lfs.gstate = s.lfs.gstate /\ o.lfs.gdisk = s.lfs.gstate /\ o.lfs.gdelta = {}
  BY <1>4, <1>7, GlobalsIs
<1> QED BY <1>7, <1>11, <1>12, <1>13 DEF Committed

------------------------------------------------------------------------------
(* Open handles.                                                           *)

(* Handles: records of which only some fields matter here.                 *)
Hand(h) == DOMAIN h = {"kind", "pair", "id", "count", "tail", "split",
                       "head", "node", "seen", "due"}
SetAt(h, p) == [h EXCEPT !.pair = p]
SetId(h, i) == [h EXCEPT !.id = i]
SetCount(h, n) == [h EXCEPT !.count = n]
SetNext(h, p) == [h EXCEPT !.tail = p]
SetGoes(h, b) == [h EXCEPT !.split = b]
LikeHand(n, h) == Hand(n) /\ n.kind = h.kind /\ n.node = h.node

(* A handle at another pair.                                               *)
LEMMA WithAt ==
  ASSUME NEW h, Hand(h), NEW p, NEW n, n = SetAt(h, p)
  PROVE  LikeHand(n, h) /\ n.pair = p /\ n.id = h.id
BY DEF Hand, LikeHand, SetAt

(* A handle at another entry.                                              *)
LEMMA WithId ==
  ASSUME NEW h, Hand(h), NEW i, NEW n, n = SetId(h, i)
  PROVE  /\ LikeHand(n, h) /\ n.pair = h.pair /\ n.id = i /\ n.count = h.count
         /\ n.tail = h.tail /\ n.split = h.split
BY DEF Hand, LikeHand, SetId

(* A handle with another number of entries.                                *)
LEMMA WithCount ==
  ASSUME NEW h, Hand(h), NEW i, NEW n, n = SetCount(h, i)
  PROVE  LikeHand(n, h) /\ n.pair = h.pair /\ n.id = h.id /\ n.count = i
BY DEF Hand, LikeHand, SetCount

(* A handle with another tail.                                             *)
LEMMA WithNext ==
  ASSUME NEW h, Hand(h), NEW i, NEW n, n = SetNext(h, i)
  PROVE  LikeHand(n, h) /\ n.pair = h.pair /\ n.id = h.id /\ n.count = h.count /\ n.tail = i
BY DEF Hand, LikeHand, SetNext

(* A handle with another split flag.                                       *)
LEMMA WithGoes ==
  ASSUME NEW h, Hand(h), NEW i, NEW n, n = SetGoes(h, i)
  PROVE  /\ LikeHand(n, h) /\ n.pair = h.pair /\ n.id = h.id /\ n.count = h.count
         /\ n.tail = h.tail /\ n.split = i
BY DEF Hand, LikeHand, SetGoes

(* A handle takes over what a fetch of p finds.                            *)
LEMMA CopyIs ==
  ASSUME NEW h, Hand(h), NEW d, NEW p, NEW n, n = Copy(h, d, p)
  PROVE  /\ LikeHand(n, h) /\ n.pair = h.pair /\ n.id = h.id
         /\ n.count = Len(d[p].ents) /\ n.tail = d[p].tail /\ n.split = d[p].split
<1>1. PICK a : a = SetCount(h, Len(d[p].ents))
  OBVIOUS
<1>2. PICK b : b = SetNext(a, d[p].tail)
  OBVIOUS
<1>3. n = SetGoes(b, d[p].split)
  BY <1>1, <1>2, Zenon DEF Copy, SetCount, SetNext, SetGoes
<1>4. LikeHand(a, h) /\ a.pair = h.pair /\ a.id = h.id /\ a.count = Len(d[p].ents)
  BY <1>1, WithCount
<1>5. LikeHand(b, h) /\ b.pair = h.pair /\ b.id = h.id /\ b.count = Len(d[p].ents) /\ b.tail = d[p].tail
  BY <1>2, <1>4, WithNext DEF LikeHand
<1> QED BY <1>3, <1>5, WithGoes DEF LikeHand

(* A handle past the end of a pair that has been split goes on in the      *)
(* tail; any other stays.                                                  *)
LEMMA CrossedIs ==
  ASSUME NEW h, Hand(h), NEW d, NEW n, n = Crossed(h, d)
  PROVE  /\ LikeHand(n, h)
         /\ ~(h.id > h.count /\ h.split) => n = h
         /\ h.id > h.count /\ h.split =>
              /\ n.pair = h.tail /\ n.id = h.id - h.count /\ n.count = Len(d[h.tail].ents)
              /\ n.tail = d[h.tail].tail /\ n.split = d[h.tail].split
<1>1. CASE ~(h.id > h.count /\ h.split)
  BY <1>1 DEF Crossed, LikeHand
<1>2. CASE h.id > h.count /\ h.split
  <2>1. PICK a : a = SetAt(h, h.tail)
    OBVIOUS
  <2>2. PICK b : b = SetId(a, h.id - h.count)
    OBVIOUS
  <2>3. LikeHand(a, h) /\ a.pair = h.tail
    BY <2>1, WithAt
  <2>4. LikeHand(b, h) /\ b.pair = h.tail /\ b.id = h.id - h.count
    BY <2>2, <2>3, WithId DEF LikeHand
  <2>5. n = Copy(b, d, h.tail)
    <3>1. [h EXCEPT !.pair = h.tail, !.id = @ - h.count] = b
      BY <2>1, <2>2, WithAt, Zenon DEF SetAt, SetId
    <3>2. n = Copy([h EXCEPT !.pair = h.tail, !.id = @ - h.count], d, h.tail)
      BY <1>2, Zenon DEF Crossed
    <3> QED BY <3>1, <3>2, Zenon
  <2>6. Hand(b)
    BY <2>4 DEF LikeHand
  <2>7. /\ LikeHand(n, b) /\ n.pair = b.pair /\ n.id = b.id /\ n.count = Len(d[h.tail].ents)
        /\ n.tail = d[h.tail].tail /\ n.split = d[h.tail].split
    BY <2>5, <2>6, CopyIs
  <2>8. LikeHand(n, h)
    BY <2>4, <2>7 DEF LikeHand
  <2> QED BY <1>2, <2>4, <2>7, <2>8
<1> QED BY <1>1, <1>2

(* What an attribute of a commit does to a handle of the pair.             *)
LEMMA ShiftIs ==
  ASSUME NEW h, Hand(h), NEW a, NEW n, n = Shift(h, a)
  PROVE  /\ LikeHand(n, h)
         /\ a.op = "delete" /\ h.id = a.id => n.pair = NoPair
         /\ ~(a.op = "delete" /\ h.id = a.id) =>
              /\ n.pair = h.pair
              /\ n.id = IF a.op = "delete" /\ h.id > a.id THEN h.id - 1
                        ELSE IF a.op = "create" /\ h.id >= a.id THEN h.id + 1
                        ELSE h.id
<1>1. CASE a.op = "delete" /\ h.id = a.id
  <2>1. n = SetAt(h, NoPair)
    BY <1>1, Zenon DEF Shift, SetAt
  <2> QED BY <1>1, <2>1, WithAt
<1>2. CASE ~(a.op = "delete" /\ h.id = a.id)
  <2>1. CASE a.op = "delete" /\ h.id > a.id
    <3>1. n = SetId(h, h.id - 1)
      BY <1>2, <2>1, Zenon DEF Shift, SetId
    <3> QED BY <1>2, <2>1, <3>1, WithId
  <2>2. CASE ~(a.op = "delete" /\ h.id > a.id) /\ a.op = "create" /\ h.id >= a.id
    <3>1. n = SetId(h, h.id + 1)
      BY <1>2, <2>2, Zenon DEF Shift, SetId
    <3> QED BY <1>2, <2>2, <3>1, WithId
  <2>3. CASE ~(a.op = "delete" /\ h.id > a.id) /\ ~(a.op = "create" /\ h.id >= a.id)
    BY <1>2, <2>3 DEF Shift, LikeHand
  <2> QED BY <2>1, <2>2, <2>3
<1> QED BY <1>1, <1>2

(* The attributes of a commit are taken one by one.                        *)
LEMMA ShiftedIs ==
  ASSUME NEW h, NEW attrs, Len(attrs) \in Nat
  PROVE  /\ Len(attrs) = 0 => Shifted(h, attrs) = h
         /\ Len(attrs) = 1 => Shifted(h, attrs) = Shift(h, attrs[1])
         /\ Len(attrs) = 2 => Shifted(h, attrs) = Shift(Shift(h, attrs[1]), attrs[2])
         /\ Len(attrs) = 3 => Shifted(h, attrs) =
              Shift(Shift(Shift(h, attrs[1]), attrs[2]), attrs[3])
         /\ Hand(h) => LikeHand(Shifted(h, attrs), h)
<1> DEFINE n == Len(attrs)
           Steps(g, k) == g[0] = h /\ \A j \in 1 .. k : g[j] = Shift(g[j - 1], attrs[j])
           at == CHOOSE g : g = [j \in 0 .. n |-> IF j = 0 THEN h ELSE Shift(g[j - 1], attrs[j])]
           T == {k \in 0 .. n : \E g : Steps(g, k)}
<1>1. n \in T
  <2>1. 0 \in T
    <3>1. Steps([j \in {0} |-> h], 0)
      OBVIOUS
    <3>2. \E g : Steps(g, 0)
      BY <3>1, Zenon
    <3> HIDE DEF Steps
    <3> QED BY <3>2
  <2>2. ASSUME NEW k \in 1 .. n, k - 1 \in T PROVE k \in T
    <3>1. PICK g : Steps(g, k - 1)
      BY <2>2
    <3>2. Steps([j \in 0 .. k |-> IF j = k THEN Shift(g[k - 1], attrs[k]) ELSE g[j]], k)
      BY <3>1
    <3>3. \E f : Steps(f, k)
      <4> HIDE DEF Steps
      <4> QED BY <3>2, Zenon
    <3> HIDE DEF Steps
    <3> QED BY <3>3
  <2> HIDE DEF T
  <2>3. T \in SUBSET (0 .. n)
    BY DEF T
  <2>4. T = 0 .. n
    BY <2>1, <2>2, <2>3, UpTo
  <2> QED BY <2>4
<1>2. PICK g : Steps(g, n)
  BY <1>1
<1>3. [j \in 0 .. n |-> g[j]] = [j \in 0 .. n |-> IF j = 0 THEN h ELSE Shift([i \in 0 .. n |-> g[i]][j - 1], attrs[j])]
  BY <1>2
<1>4. at = [j \in 0 .. n |-> IF j = 0 THEN h ELSE Shift(at[j - 1], attrs[j])]
  <2>1. \E f : f = [j \in 0 .. n |-> IF j = 0 THEN h ELSE Shift(f[j - 1], attrs[j])]
    BY <1>3, Zenon
  <2> QED BY <2>1, Zenon
<1>5. Shifted(h, attrs) = at[n]
  BY Zenon DEF Shifted
<1> HIDE DEF at
<1>6. at[0] = h /\ \A j \in 1 .. n : at[j] = Shift(at[j - 1], attrs[j])
  BY <1>4
<1>7. Hand(h) => LikeHand(at[n], h)
  <2> SUFFICES ASSUME Hand(h) PROVE LikeHand(at[n], h)
    OBVIOUS
  <2> DEFINE L == {k \in 0 .. n : LikeHand(at[k], h)}
  <2>1. 0 \in L
    BY <1>6 DEF LikeHand
  <2>2. ASSUME NEW k \in 1 .. n, k - 1 \in L PROVE k \in L
    <3>1. LikeHand(at[k - 1], h)
      BY <2>2
    <3>2. LikeHand(Shift(at[k - 1], attrs[k]), at[k - 1])
      <4>1. Hand(at[k - 1])
        BY <3>1 DEF LikeHand
      <4>2. PICK s : s = Shift(at[k - 1], attrs[k])
        OBVIOUS
      <4>3. LikeHand(s, at[k - 1])
        BY <4>1, <4>2, ShiftIs
      <4> QED BY <4>2, <4>3
    <3> QED BY <1>6, <3>1, <3>2 DEF LikeHand
  <2> HIDE DEF L
  <2>3. L \in SUBSET (0 .. n)
    BY DEF L
  <2>4. L = 0 .. n
    BY <2>1, <2>2, <2>3, UpTo
  <2> QED BY <2>4 DEF L
<1>8. n = 0 => at[n] = h
  BY <1>6
<1>9. n >= 1 => at[1] = Shift(h, attrs[1])
  BY <1>6
<1>10. n >= 2 => at[2] = Shift(at[1], attrs[2])
  BY <1>6
<1>11. n >= 3 => at[3] = Shift(at[2], attrs[3])
  BY <1>6
<1>12. n = 2 => at[n] = Shift(Shift(h, attrs[1]), attrs[2])
  BY <1>9, <1>10
<1>13. n = 3 => at[n] = Shift(Shift(Shift(h, attrs[1]), attrs[2]), attrs[3])
  BY <1>9, <1>10, <1>11
<1>14. n = 1 => at[n] = Shift(h, attrs[1])
  BY <1>9
<1> QED BY <1>5, <1>7, <1>8, <1>12, <1>13, <1>14, Zenon

(* The handle points at an entry of the list that names what it is for.    *)
Points(h, d) ==
  /\ h.pair \in Listed(d) /\ h.id \in 1 .. Len(d[h.pair].ents)
  /\ d[h.pair].ents[h.id].node = h.node
Kinds == {"none", "reg", "dir", "astray"}
Follows(h, d) ==
  /\ Hand(h) /\ h.kind \in Kinds
  /\ h.kind = "reg" /\ h.pair # NoPair => Points(h, d)

(* A handle that points at its entry in the contents of a commit points at *)
(* it on the card when the commit has been written, split or not.          *)
LEMMA Settles ==
  ASSUME NEW d \in Disks, NEW e \in Disks, NEW p \in Listed(d), NEW F, Spread(d, e, p, F),
         NEW g, Hand(g), Points(g, d), g.pair = p,
         NEW n, n = Crossed(Crossed(Copy(g, e, p), e), e)
  PROVE  LikeHand(n, g) /\ Points(n, e)
<1>1. PICK c : c = Copy(g, e, p)
  OBVIOUS
<1>2. /\ LikeHand(c, g) /\ c.pair = p /\ c.id = g.id /\ Hand(c)
      /\ c.count = Len(e[p].ents) /\ c.tail = e[p].tail /\ c.split = e[p].split
  <2>1. /\ LikeHand(c, g) /\ c.pair = g.pair /\ c.id = g.id
        /\ c.count = Len(e[p].ents) /\ c.tail = e[p].tail /\ c.split = e[p].split
    BY <1>1, CopyIs
  <2> QED BY <2>1 DEF LikeHand
<1>3. PICK b : b = Crossed(c, e)
  OBVIOUS
<1>4. n = Crossed(b, e)
  BY <1>1, <1>3
<1>5. g.id \in 1 .. Len(d[p].ents) /\ d[p].ents[g.id].node = g.node /\ Len(d[p].ents) \in Nat
  <2>1. p \in Pair
    BY ListCloses
  <2> QED BY <2>1, DiskType DEF Points
<1>6. LikeHand(b, c) /\ Hand(b)
  BY <1>2, <1>3, CrossedIs DEF LikeHand
<1>7. CASE Listed(e) = Listed(d) /\ e[p].ents = d[p].ents
  <2>1. ~(c.id > c.count)
    BY <1>2, <1>5, <1>7
  <2>2. b = c
    BY <1>2, <1>3, <2>1, CrossedIs
  <2>3. n = c
    BY <1>2, <1>4, <2>1, <2>2, CrossedIs
  <2> QED BY <1>2, <1>5, <1>7, <2>3 DEF Points, LikeHand
<1>8. ASSUME NEW q \in Pair, Listed(e) = Listed(d) \cup {q}, e[p].tail = q, e[p].split = TRUE,
             Halved(e[p].ents, e[q].ents, d[p].ents, Len(d[p].ents) \div 2)
      PROVE  LikeHand(n, g) /\ Points(n, e)
  <2>0. PICK hh : hh = Len(d[p].ents) \div 2
    OBVIOUS
  <2>1. hh \in 0 .. Len(d[p].ents)
    BY <1>5, <2>0, HalfIs
  <2>2. /\ Len(e[p].ents) = hh /\ Len(e[q].ents) = Len(d[p].ents) - hh
        /\ \A j \in 1 .. hh : e[p].ents[j] = d[p].ents[j]
        /\ \A j \in 1 .. (Len(d[p].ents) - hh) : e[q].ents[j] = d[p].ents[hh + j]
    BY <1>8, <2>0 DEF Halved
  <2>3. CASE ~(c.id > c.count /\ c.split)
    <3>1. b = c
      BY <1>2, <1>3, <2>3, CrossedIs
    <3>2. n = c
      BY <1>2, <1>4, <2>3, <3>1, CrossedIs
    <3>3. c.id <= hh
      BY <1>2, <1>5, <1>8, <2>1, <2>2, <2>3
    <3>4. g.id \in 1 .. hh /\ e[p].ents[g.id].node = g.node
      BY <1>2, <1>5, <2>1, <2>2, <3>3, SMTT(30)
    <3>5. LikeHand(n, g) /\ n.pair = p /\ n.id = g.id
      BY <1>2, <3>2
    <3>6. p \in Listed(e)
      BY <1>8
    <3> QED BY <2>2, <3>4, <3>5, <3>6 DEF Points, LikeHand
  <2>4. CASE c.id > c.count /\ c.split
    <3>1. b.pair = q /\ b.id = g.id - hh /\ b.count = Len(d[p].ents) - hh
      BY <1>2, <1>3, <1>8, <2>2, <2>4, CrossedIs
    <3>2. g.id - hh \in 1 .. (Len(d[p].ents) - hh) /\ hh + (g.id - hh) = g.id
      BY <1>2, <1>5, <2>1, <2>2, <2>4, SMTT(30)
    <3>3. ~(b.id > b.count)
      BY <1>5, <2>1, <3>1, <3>2
    <3>4. n = b
      BY <1>4, <1>6, <3>3, CrossedIs
    <3>5. e[q].ents[g.id - hh].node = g.node
      BY <1>5, <2>2, <3>2
    <3> QED BY <1>2, <1>6, <1>8, <2>2, <3>1, <3>2, <3>4, <3>5 DEF Points, LikeHand
  <2> QED BY <2>3, <2>4
<1> QED BY <1>7, <1>8 DEF Spread

(* A commit does not change what a handle is of.                           *)
LEMMA FixUpKind ==
  ASSUME NEW h, Hand(h), NEW o, NEW p, NEW attrs, Len(attrs) \in Nat,
         NEW n, n = FixUp(h, o, p, attrs)
  PROVE  LikeHand(n, h)
<1>1. PICK m : m = IF h.pair = p THEN Shifted(h, attrs) ELSE h
  OBVIOUS
<1>2. LikeHand(m, h)
  BY <1>1, ShiftedIs DEF LikeHand
<1>3. PICK f : f = Copy(m, o.disk, h.pair)
  OBVIOUS
<1>4. LikeHand(f, h)
  <2>1. Hand(m)
    BY <1>2 DEF LikeHand
  <2>2. LikeHand(f, m)
    BY <1>3, <2>1, CopyIs
  <2> QED BY <1>2, <2>2 DEF LikeHand
<1>5. PICK c : c = Crossed(f, o.disk)
  OBVIOUS
<1>6. PICK b : b = Crossed(c, o.disk)
  OBVIOUS
<1>7. LikeHand(c, h)
  <2>1. Hand(f)
    BY <1>4 DEF LikeHand
  <2>2. LikeHand(c, f)
    BY <1>5, <2>1, CrossedIs
  <2> QED BY <1>4, <2>2 DEF LikeHand
<1>8. LikeHand(b, h)
  <2>1. Hand(c)
    BY <1>7 DEF LikeHand
  <2>2. LikeHand(b, c)
    BY <1>6, <2>1, CrossedIs
  <2> QED BY <1>7, <2>2 DEF LikeHand
<1>9. n \in {h, f, b}
  BY <1>1, <1>3, <1>5, <1>6, Zenon DEF FixUp
<1>10. LikeHand(h, h)
  BY DEF LikeHand
<1> QED BY <1>4, <1>8, <1>9, <1>10

(* A handle that the attributes have moved with its entry points at it     *)
(* when the commit has been written, or at nothing.                        *)
LEMMA FixedUp ==
  ASSUME NEW d \in Disks, NEW e \in Disks, NEW r \in Listed(d), NEW F, Spread(d, e, r, F),
         NEW h, Hand(h), h.kind = "reg", NEW o, o.disk = e, NEW p, NEW attrs,
         NEW m, m = IF h.pair = p THEN Shifted(h, attrs) ELSE h, LikeHand(m, h),
         m.pair # NoPair => m.pair = h.pair /\ Points(m, d),
         p \in o.told, r \in o.told, h.pair \in o.told /\ m.pair # NoPair => h.pair = r,
         NEW n, n = FixUp(h, o, p, attrs)
  PROVE  Follows(n, e)
<1>1. PICK f : f = Copy(m, e, h.pair)
  OBVIOUS
<1>2. Hand(m) /\ m.kind = "reg"
  BY DEF LikeHand
<1>3. LikeHand(f, m) /\ f.pair = m.pair
  BY <1>1, <1>2, CopyIs
<1>4. n = IF h.pair \notin o.told THEN h ELSE IF m.pair = NoPair THEN f ELSE Crossed(Crossed(f, e), e)
  BY <1>1, Zenon DEF FixUp
<1>5. CASE h.pair \notin o.told
  <2>1. n = h /\ m = h
    BY <1>4, <1>5
  <2>2. ASSUME h.pair # NoPair PROVE Points(h, e)
    <3>1. Points(h, d) /\ h.pair \in Listed(d) \ {r}
      BY <1>5, <2>1, <2>2 DEF Points
    <3>2. e[h.pair] = d[h.pair] /\ h.pair \in Listed(e)
      BY <3>1 DEF Spread
    <3> QED BY <3>1, <3>2 DEF Points
  <2> QED BY <2>1, <2>2 DEF Follows, Kinds
<1>6. CASE h.pair \in o.told /\ m.pair = NoPair
  BY <1>2, <1>3, <1>4, <1>6 DEF Follows, Kinds, LikeHand
<1>7. CASE h.pair \in o.told /\ m.pair # NoPair
  <2>1. m.pair = r /\ h.pair = r /\ Points(m, d)
    BY <1>7
  <2>2. n = Crossed(Crossed(Copy(m, e, r), e), e)
    BY <1>1, <1>4, <1>7, <2>1
  <2>3. LikeHand(n, m) /\ Points(n, e)
    BY <1>2, <2>1, <2>2, Settles
  <2> QED BY <1>2, <2>3 DEF Follows, Kinds, LikeHand
<1> QED BY <1>5, <1>6, <1>7

(* The handle points at an entry of p, or at nothing any more.             *)
Tracks(h, d, p) ==
  Hand(h) /\ h.kind = "reg" /\ (h.pair = NoPair \/ (h.pair = p /\ Points(h, d)))

(* A handle keeps to its file when another entry is deleted, and points at *)
(* nothing when its own is.                                                *)
LEMMA DelTracks ==
  ASSUME NEW d \in Disks, NEW e \in Disks, Listed(e) = Listed(d), NEW p \in Listed(d),
         NEW i \in 1 .. Len(d[p].ents), HasLess(e[p].ents, d[p].ents, i),
         NEW h, Tracks(h, d, p), NEW n, n = Shift(h, Del(i))
  PROVE  Tracks(n, e, p)
<1>1. Hand(h) /\ h.kind = "reg" /\ (h.pair = NoPair \/ (h.pair = p /\ Points(h, d)))
  BY DEF Tracks
<1>2. Del(i).op = "delete" /\ Del(i).id = i
  BY DEF Del
<1>3. /\ LikeHand(n, h)
      /\ h.id = i => n.pair = NoPair
      /\ h.id # i => n.pair = h.pair /\ n.id = IF h.id > i THEN h.id - 1 ELSE h.id
  BY <1>1, <1>2, ShiftIs
<1>4. Len(d[p].ents) \in Nat
  BY DiskType, ListCloses
<1>5. CASE h.pair = NoPair \/ h.id = i
  BY <1>1, <1>3, <1>5 DEF Tracks, LikeHand
<1>6. CASE h.pair = p /\ Points(h, d) /\ h.id # i
  <2>1. h.id \in 1 .. Len(d[p].ents) /\ d[p].ents[h.id].node = h.node
    BY <1>6 DEF Points
  <2>2. Len(e[p].ents) = Len(d[p].ents) - 1
    BY DEF HasLess
  <2>3. n.id \in 1 .. (Len(d[p].ents) - 1) /\ e[p].ents[n.id] = d[p].ents[h.id]
    <3>1. CASE h.id > i
      <4>1. n.id = h.id - 1 /\ n.id \in 1 .. (Len(d[p].ents) - 1) /\ ~(n.id < i) /\ n.id + 1 = h.id
        BY <1>3, <1>4, <1>6, <2>1, <3>1
      <4> QED BY <4>1 DEF HasLess
    <3>2. CASE ~(h.id > i)
      <4>1. n.id = h.id /\ n.id \in 1 .. (Len(d[p].ents) - 1) /\ n.id < i
        BY <1>3, <1>4, <1>6, <2>1, <3>2
      <4> QED BY <4>1 DEF HasLess
    <3> QED BY <3>1, <3>2
  <2>4. n.pair = p /\ n.node = h.node /\ n.kind = "reg" /\ Hand(n)
    BY <1>1, <1>3, <1>6 DEF LikeHand
  <2> QED BY <2>1, <2>2, <2>3, <2>4 DEF Tracks, Points
<1> QED BY <1>1, <1>5, <1>6

(* A handle keeps to its file when an entry is created.                    *)
LEMMA CreateTracks ==
  ASSUME NEW d \in Disks, NEW e \in Disks, Listed(e) = Listed(d), NEW p \in Listed(d),
         NEW i \in 1 .. (Len(d[p].ents) + 1), NEW x, HasMore(e[p].ents, d[p].ents, i, x),
         NEW h, Tracks(h, d, p), NEW n, n = Shift(h, Create(i))
  PROVE  Tracks(n, e, p)
<1>1. Hand(h) /\ h.kind = "reg" /\ (h.pair = NoPair \/ (h.pair = p /\ Points(h, d)))
  BY DEF Tracks
<1>2. Create(i).op = "create" /\ Create(i).id = i
  BY DEF Create
<1>3. /\ LikeHand(n, h)
      /\ n.pair = h.pair /\ n.id = IF h.id >= i THEN h.id + 1 ELSE h.id
  BY <1>1, <1>2, ShiftIs
<1>4. Len(d[p].ents) \in Nat
  BY DiskType, ListCloses
<1>5. CASE h.pair = NoPair
  BY <1>1, <1>3, <1>5 DEF Tracks, LikeHand
<1>6. CASE h.pair = p /\ Points(h, d)
  <2>1. h.id \in 1 .. Len(d[p].ents) /\ d[p].ents[h.id].node = h.node
    BY <1>6 DEF Points
  <2>2. Len(e[p].ents) = Len(d[p].ents) + 1
    BY DEF HasMore
  <2>3. n.id \in 1 .. (Len(d[p].ents) + 1) /\ e[p].ents[n.id] = d[p].ents[h.id]
    <3>1. CASE h.id >= i
      <4>1. n.id = h.id + 1 /\ n.id \in 1 .. (Len(d[p].ents) + 1) /\ ~(n.id < i) /\ n.id # i /\ n.id - 1 = h.id
        BY <1>3, <1>4, <2>1, <3>1
      <4> QED BY <4>1 DEF HasMore
    <3>2. CASE ~(h.id >= i)
      <4>1. n.id = h.id /\ n.id \in 1 .. (Len(d[p].ents) + 1) /\ n.id < i
        BY <1>3, <1>4, <2>1, <3>2
      <4> QED BY <4>1 DEF HasMore
    <3> QED BY <3>1, <3>2
  <2>4. n.pair = p /\ n.node = h.node /\ n.kind = "reg" /\ Hand(n)
    BY <1>1, <1>3, <1>6 DEF LikeHand
  <2> QED BY <2>1, <2>2, <2>3, <2>4 DEF Tracks, Points
<1> QED BY <1>1, <1>5, <1>6

------------------------------------------------------------------------------
(* Commits of other entries, drops and deletions.                          *)

(* e is d with other entries in p.                                         *)
Edited(d, e, p) ==
  /\ e[p].tail = d[p].tail /\ e[p].split = d[p].split /\ e[p].delta = d[p].delta
  /\ \A r \in Pair \ {p} : e[r] = d[r]

(* Other entries in a pair leave the tail list and the global state alone. *)
LEMMA EditedIs ==
  ASSUME NEW d \in Disks, NEW e \in Disks, Threaded(d), NEW p \in Listed(d), Edited(d, e, p)
  PROVE  /\ Threaded(e) /\ Listed(e) = Listed(d) /\ Heads(e) = Heads(d)
         /\ OnCard(e) = OnCard(d)
<1>1. Listed(d) \in SUBSET Pair /\ p \in Pair
  BY ListCloses
<1>2. \A r \in Pair : e[r].tail = d[r].tail /\ e[r].split = d[r].split /\ e[r].delta = d[r].delta
  BY <1>1 DEF Edited
<1>3. TailsOK(e)
  BY <1>2 DEF TailsOK, Threaded
<1>4. \A r \in Listed(d) : e[r].tail = d[r].tail /\ e[r].split = d[r].split /\ e[r].delta = d[r].delta
  BY <1>1, <1>2
<1>5. Threaded(e) /\ Listed(e) = Listed(d) /\ Heads(e) = Heads(d)
  BY <1>3, <1>4, SameThread
<1>6. Sum(e, Listed(d)) = Sum(d, Listed(d))
  BY <1>1, <1>4, SumSame
<1> QED BY <1>5, <1>6 DEF OnCard

(* A state in which lfs_t knows the card's global state.                   *)
Clean(s) ==
  /\ s \in States /\ Threaded(s.disk) /\ Filled(s.disk)
  /\ OnCard(s.disk) = s.lfs.gdisk /\ s.lfs.gdelta = {}

(* The types of a clean state's parts.                                     *)
LEMMA CleanIs ==
  ASSUME NEW s, Clean(s)
  PROVE  /\ s \in States /\ s.disk \in Disks /\ s.lfs \in Globals /\ s.held \in SUBSET Pair
         /\ Listed(s.disk) \in SUBSET Pair /\ Short(s.disk)
         /\ \A p \in Listed(s.disk) : s.disk[p] \in Content
<1>1. s \in States
  BY DEF Clean
<1>2. s.disk \in Disks /\ s.lfs \in Globals /\ s.held \in SUBSET Pair
  BY <1>1, StateIs
<1>3. Listed(s.disk) \in SUBSET Pair
  BY <1>2, ListCloses
<1>4. \A p \in Pair : s.disk[p] \in Content
  BY <1>2, DiskType
<1>5. Short(s.disk)
  <2>1. \A p \in Pair : Len(s.disk[p].ents) \in Nat
    BY <1>2, DiskType
  <2> QED BY <2>1, DirTreeAssumption DEF Clean, Filled, Short
<1> QED BY <1>1, <1>2, <1>3, <1>4, <1>5

(* A commit of other entries.                                              *)
EditTo(s, p, x, m, d) ==
  /\ Clean(s) /\ p \in Listed(s.disk) /\ x \in Seq(Entry) /\ Len(x) <= Full + 1
  /\ m = SetEnts(s.disk[p], x) /\ d = SetPair(s.disk, p, m)

(* A commit of other entries has contents that can be put.                 *)
LEMMA EditTarget ==
  ASSUME NEW s, NEW p, NEW x, NEW m, NEW d, EditTo(s, p, x, m, d)
  PROVE  /\ Target(s, p, m, d) /\ d \in Disks /\ d[p].ents = x /\ Edited(s.disk, d, p)
         /\ m \in Content
<1>0. /\ Clean(s) /\ p \in Listed(s.disk) /\ x \in Seq(Entry) /\ Len(x) <= Full + 1
      /\ m = SetEnts(s.disk[p], x) /\ d = SetPair(s.disk, p, m)
  BY DEF EditTo
<1> USE <1>0
<1>1. /\ s \in States /\ s.disk \in Disks /\ Listed(s.disk) \in SUBSET Pair
      /\ Short(s.disk) /\ s.disk[p] \in Content /\ p \in Pair
  BY CleanIs
<1>2. /\ m \in Content /\ m.ents = x /\ m.tail = s.disk[p].tail
      /\ m.split = s.disk[p].split /\ m.delta = s.disk[p].delta
  BY <1>1, WithEnts
<1>3. d \in Disks /\ d[p] = m /\ \A r \in Pair \ {p} : d[r] = s.disk[r]
  BY <1>1, <1>2, WithPair
<1>4. Edited(s.disk, d, p)
  BY <1>2, <1>3 DEF Edited
<1>5. Threaded(d) /\ Listed(d) = Listed(s.disk) /\ OnCard(d) = OnCard(s.disk)
  <2>1. Threaded(s.disk)
    BY DEF Clean
  <2> QED BY <1>1, <1>3, <1>4, <2>1, EditedIs
<1>6. Short(d)
  BY <1>1, <1>2, <1>3 DEF Short
<1>7. \A r \in Pair \ {p} : Len(d[r].ents) <= Full
  BY <1>3 DEF Clean, Filled
<1>8. OnCard(d) = Xor(s.lfs.gdisk, s.lfs.gdelta)
  BY <1>5, XorIs, ZenonT(60) DEF Clean
<1>9. Target(s, p, m, d)
  BY <1>1, <1>2, <1>5, <1>6, <1>7, <1>8 DEF Target
<1> QED BY <1>2, <1>3, <1>4, <1>9

(* e is d without q behind p.                                              *)
Dropped(d, e, p, q) ==
  /\ q # Root /\ q # p /\ q \in Listed(d)
  /\ Threaded(e) /\ Listed(e) = Listed(d) \ {q}
  /\ e[p].tail = d[q].tail /\ e[p].split = d[q].split
  /\ e[p].ents = d[p].ents /\ \A r \in Pair \ {p} : e[r] = d[r]
  /\ d[p].split => Heads(e) = Heads(d)
  /\ ~d[p].split /\ ~d[q].split => Heads(e) = Heads(d) \ {q}

(* lfs_dir_drop commits, and takes one pair out of the tail list.          *)
LEMMA DropIs ==
  ASSUME Sure, NEW s, Clean(s), NEW p \in Listed(s.disk), NEW q,
         q = s.disk[p].tail, q # NoPair, NEW o \in Drop(s, p, q)
  PROVE  \E d \in Disks : Committed(s, p, d, o) /\ Dropped(s.disk, d, p, q)
<1>1. /\ s \in States /\ s.disk \in Disks /\ Listed(s.disk) \in SUBSET Pair /\ s.lfs \in Globals
      /\ Short(s.disk) /\ s.disk[p] \in Content /\ p \in Pair
  BY CleanIs
<1>2. q \in Listed(s.disk) /\ q \in Pair
  BY <1>1, ListCloses
<1>3. s.disk[q] \in Content
  BY <1>1, <1>2, DiskType
<1>4. /\ s.disk[q].tail \in Pair \cup {NoPair} /\ s.disk[q].split \in BOOLEAN
      /\ s.disk[q].delta \in SUBSET Token
  BY <1>3, ContentIs
<1>5. PICK l : l = Taken(s.lfs, s.disk[q].delta)
  OBVIOUS
<1>6. l \in Globals /\ l.gstate = s.lfs.gstate /\ l.gdisk = s.lfs.gdisk /\ l.gdelta = s.disk[q].delta
  <2>1. /\ l.gstate = s.lfs.gstate /\ l.gdisk = s.lfs.gdisk
        /\ l.gdelta = Xor(s.lfs.gdelta, s.disk[q].delta)
        /\ (Xor(s.lfs.gdelta, s.disk[q].delta) \in SUBSET Token => l \in Globals)
    BY <1>1, <1>5 DEF Taken, Globals
  <2>2. Xor(s.lfs.gdelta, s.disk[q].delta) = s.disk[q].delta
    BY XorIs DEF Clean
  <2> QED BY <1>4, <2>1, <2>2
<1>7. PICK t : t = SetLfs(s, l)
  OBVIOUS
<1>8. /\ t \in States /\ t.disk = s.disk /\ t.lfs = l /\ t.held = s.held
      /\ t.ok = s.ok /\ t.told = s.told
  BY <1>1, <1>6, <1>7, WithLfs
<1>9. PICK k : k = SetTail(s.disk[p], s.disk[q].tail)
  OBVIOUS
<1>10. PICK m : m = SetSplit(k, s.disk[q].split)
  OBVIOUS
<1>11. /\ m \in Content /\ m.ents = s.disk[p].ents /\ m.tail = s.disk[q].tail
       /\ m.split = s.disk[q].split /\ m.delta = s.disk[p].delta
  <2>1. /\ k \in Content /\ k.ents = s.disk[p].ents /\ k.tail = s.disk[q].tail
        /\ k.delta = s.disk[p].delta
    BY <1>1, <1>4, <1>9, WithTail
  <2> QED BY <1>4, <1>10, <2>1, WithSplit
<1>12. o \in Put(t, p, m)
  <2>1. t = [s EXCEPT !.lfs = Taken(@, s.disk[q].delta)]
    BY <1>5, <1>7, Zenon DEF SetLfs
  <2>2. m = [s.disk[p] EXCEPT !.tail = s.disk[q].tail, !.split = s.disk[q].split]
    BY <1>9, <1>10, Zenon DEF SetTail, SetSplit
  <2> QED BY <2>1, <2>2, Zenon DEF Drop
<1>13. PICK d : d = SetPair(s.disk, p, m)
  OBVIOUS
<1>14. d \in Disks /\ d[p] = m /\ \A r \in Pair \ {p} : d[r] = s.disk[r]
  BY <1>1, <1>11, <1>13, WithPair
<1>15. Threaded(s.disk) /\ Filled(s.disk)
  BY DEF Clean
<1>16. q # p
  BY <1>1, <1>15, NoSelfTail
<1>17. TailsOK(d)
  BY <1>1, <1>2, <1>11, <1>14, <1>15 DEF TailsOK, Threaded
<1>18. /\ q # Root /\ Threaded(d) /\ Listed(d) = Listed(s.disk) \ {q}
       /\ s.disk[p].split => Heads(d) = Heads(s.disk)
       /\ ~s.disk[p].split /\ ~s.disk[q].split => Heads(d) = Heads(s.disk) \ {q}
  <2>1. \A r \in Listed(s.disk) \ {p, q} : d[r].tail = s.disk[r].tail /\ d[r].split = s.disk[r].split
    BY <1>1, <1>14
  <2>2. d[p].tail = s.disk[q].tail /\ d[p].split = s.disk[q].split
    BY <1>11, <1>14
  <2> QED BY <1>1, <1>2, <1>14, <1>15, <1>17, <2>1, <2>2, Unlinked
<1>19. Dropped(s.disk, d, p, q)
  BY <1>2, <1>11, <1>14, <1>16, <1>18 DEF Dropped
<1>20. OnCard(d) = Xor(t.lfs.gdisk, t.lfs.gdelta)
  <2>1. \A r \in Listed(s.disk) \ {q} : d[r].delta = s.disk[r].delta
    BY <1>1, <1>11, <1>14
  <2>2. Listed(s.disk) \ {q} \in SUBSET Pair
    BY <1>1
  <2>3. Sum(d, Listed(s.disk) \ {q}) = Sum(s.disk, Listed(s.disk) \ {q})
    BY <1>1, <1>14, <2>1, <2>2, SumSame
  <2>4. Sum(s.disk, Listed(s.disk) \ {q}) = Xor(Sum(s.disk, Listed(s.disk)), s.disk[q].delta)
    BY <1>1, <1>2, SumRemove
  <2>5. OnCard(d) = Xor(OnCard(s.disk), s.disk[q].delta)
    BY <1>18, <2>3, <2>4 DEF OnCard
  <2> QED BY <1>6, <1>8, <2>5 DEF Clean
<1>21. Target(t, p, m, d)
  <2>1. Short(d) /\ \A r \in Pair \ {p} : Len(d[r].ents) <= Full
    BY <1>1, <1>11, <1>14, <1>15 DEF Short, Filled
  <2>2. p \in Listed(d) /\ Listed(d) \subseteq Listed(t.disk) \cup t.held
    BY <1>8, <1>16, <1>18
  <2> QED BY <1>1, <1>8, <1>11, <1>13, <1>18, <1>20, <2>1, <2>2 DEF Target
<1>22. Committed(t, p, d, o)
  BY <1>12, <1>21, PutCommits
<1>23. Committed(s, p, d, o)
  <2>1. Free(t) = Free(s)
    BY <1>8 DEF Free
  <2> QED BY <1>6, <1>8, <1>22, <2>1 DEF Committed
<1> QED BY <1>14, <1>19, <1>23

(* The handle after a commit to p, if it is where its entry has got to.    *)
LEMMA EditFollows ==
  ASSUME NEW d \in Disks, NEW e \in Disks, NEW u \in Disks, NEW p \in Listed(d), NEW F,
         Edited(d, u, p), Listed(u) = Listed(d), Spread(u, e, p, F),
         NEW h, Follows(h, d), NEW o, o.disk = e, o.told = {p}, NEW attrs, Len(attrs) \in Nat,
         Tracks(h, d, p) /\ h.pair # NoPair => Tracks(Shifted(h, attrs), u, p)
  PROVE  Follows(FixUp(h, o, p, attrs), e)
<1>1. Hand(h) /\ h.kind \in Kinds
  BY DEF Follows
<1>2. PICK n : n = FixUp(h, o, p, attrs)
  OBVIOUS
<1>3. LikeHand(n, h)
  BY <1>1, <1>2, FixUpKind
<1>4. CASE h.kind # "reg"
  BY <1>1, <1>2, <1>3, <1>4 DEF Follows, LikeHand
<1>5. CASE h.kind = "reg" /\ h.pair = NoPair
  <2>1. p \in Pair /\ NoPair # p
    BY ListCloses, DirTreeAssumption
  <2>2. n = h
    BY <1>2, <1>5, <2>1, Zenon DEF FixUp
  <2> QED BY <1>1, <1>2, <1>5, <2>2 DEF Follows
<1>6. CASE h.kind = "reg" /\ h.pair # NoPair
  <2>1. Points(h, d)
    BY <1>6 DEF Follows
  <2>2. PICK m : m = IF h.pair = p THEN Shifted(h, attrs) ELSE h
    OBVIOUS
  <2>3. LikeHand(m, h)
    BY <1>1, <2>2, ShiftedIs DEF LikeHand
  <2>4. m.pair # NoPair => m.pair = h.pair /\ Points(m, u)
    <3>1. CASE h.pair = p
      <4>1. Tracks(m, u, p)
        BY <1>1, <1>6, <2>1, <2>2, <3>1 DEF Tracks
      <4> QED BY <3>1, <4>1 DEF Tracks
    <3>2. CASE h.pair # p
      <4>1. h.pair \in Pair /\ u[h.pair] = d[h.pair]
        BY <2>1, <3>2, ListCloses DEF Edited, Points
      <4> QED BY <2>1, <2>2, <3>2, <4>1 DEF Points
    <3> QED BY <3>1, <3>2
  <2>5. p \in o.told /\ (h.pair \in o.told /\ m.pair # NoPair => h.pair = p)
    OBVIOUS
  <2>6. p \in Listed(u) /\ h.kind = "reg"
    BY <1>6
  <2>7. Follows(n, e)
    BY <1>1, <1>2, <2>2, <2>3, <2>4, <2>5, <2>6, FixedUp
  <2> QED BY <1>2, <2>7
<1> QED BY <1>4, <1>5, <1>6

Bare(d, q) == d[q].ents = <<>> /\ ~d[q].split
Deleted(s, p, i, o) ==
  /\ Clean(o) /\ o.lfs.gstate = s.lfs.gstate /\ o.lfs.gdisk = s.lfs.gstate
  /\ o.ok /\ o.held = s.held
  /\ Heads(o.disk) = Heads(s.disk)
  /\ \A x : NameCount(s.disk, x) = NameCount(o.disk, x) + (IF s.disk[p].ents[i].node = x THEN 1 ELSE 0)
  /\ \A q \in Listed(s.disk) : Bare(s.disk, q) => Bare(o.disk, q)
  /\ \A h : Follows(h, s.disk) => Follows(FixUp(h, o, p, <<Del(i)>>), o.disk)

(* After a commit lfs_t knows the card's global state.                     *)
LEMMA CommittedClean ==
  ASSUME NEW s, NEW p, NEW d, NEW o, Committed(s, p, d, o)
  PROVE  Clean(o) /\ o.disk \in Disks
<1>1. Clean(o)
  BY DEF Committed, Clean
<1> QED BY <1>1, CleanIs

(* A commit that deletes an entry, with the drop of a pair left empty      *)
(* before it: one name less, the same directories, empty ones stay empty,  *)
(* and the handles keep to their files.                                    *)
LEMMA DeleteIs ==
  ASSUME Sure, NEW s, Clean(s), s.told = {}, s.ok = TRUE, NEW p \in Listed(s.disk),
         NEW i \in 1 .. Len(s.disk[p].ents), NEW o \in Delete(s, p, i)
  PROVE  Deleted(s, p, i, o)
<1>1. /\ s \in States /\ s.disk \in Disks /\ Listed(s.disk) \in SUBSET Pair
      /\ Short(s.disk) /\ s.disk[p] \in Content /\ p \in Pair
  BY CleanIs
<1>2. s.disk[p].ents \in Seq(Entry) /\ Len(s.disk[p].ents) \in Nat /\ Len(s.disk[p].ents) <= Full
  BY <1>1, ContentIs DEF Clean, Filled
<1>3. PICK x : x = RemoveAt(s.disk[p].ents, i)
  OBVIOUS
<1>4. HasLess(x, s.disk[p].ents, i)
  BY <1>2, <1>3, RemoveIs
<1>5. x \in Seq(Entry) /\ Len(x) = Len(s.disk[p].ents) - 1 /\ Len(x) <= Full + 1
  BY <1>2, <1>4, DirTreeAssumption DEF HasLess
<1>6. PICK m : m = SetEnts(s.disk[p], x)
  OBVIOUS
<1>7. PICK d : d = SetPair(s.disk, p, m)
  OBVIOUS
<1>8. Target(s, p, m, d) /\ d \in Disks /\ d[p].ents = x /\ Edited(s.disk, d, p) /\ m \in Content
  <2>1. EditTo(s, p, x, m, d)
    BY <1>5, <1>6, <1>7 DEF EditTo
  <2> QED BY <2>1, EditTarget
<1>9. Threaded(s.disk)
  BY DEF Clean
<1>10. Listed(d) = Listed(s.disk) /\ Heads(d) = Heads(s.disk)
  BY <1>1, <1>8, <1>9, EditedIs
<1>11. ASSUME NEW y
       PROVE  NameCount(s.disk, y) = NameCount(d, y) + (IF s.disk[p].ents[i].node = y THEN 1 ELSE 0)
  <2>1. \A r \in Listed(s.disk) \ {p} : d[r].ents = s.disk[r].ents
    BY <1>1, <1>8 DEF Edited
  <2>2. HasLess(d[p].ents, s.disk[p].ents, i)
    BY <1>4, <1>8
  <2> QED BY <1>1, <1>8, <1>10, <2>1, <2>2, RemoveNames
<1>12. ASSUME NEW h, Tracks(h, s.disk, p), h.pair # NoPair
       PROVE  Tracks(Shifted(h, <<Del(i)>>), d, p)
  <2>1. Shifted(h, <<Del(i)>>) = Shift(h, Del(i))
    <3>1. Len(<<Del(i)>>) = 1 /\ <<Del(i)>>[1] = Del(i)
      OBVIOUS
    <3> QED BY <3>1, ShiftedIs
  <2>2. HasLess(d[p].ents, s.disk[p].ents, i)
    BY <1>4, <1>8
  <2>3. PICK n : n = Shift(h, Del(i))
    OBVIOUS
  <2>4. Tracks(n, d, p)
    BY <1>1, <1>8, <1>10, <1>12, <2>2, <2>3, DelTracks
  <2> QED BY <2>1, <2>3, <2>4
<1>13. ASSUME NEW q \in Listed(s.disk), Bare(s.disk, q) PROVE q # p /\ q \in Pair
  <2>1. Len(s.disk[p].ents) # 0
    BY <1>2
  <2> QED BY <1>1, <1>13, <2>1 DEF Bare
<1> DEFINE r == Pred(s.disk, p)
           emptied == x = <<>> /\ p # Root /\ s.disk[r].split
<1>14. o \in IF ~emptied THEN Put(s, p, m)
             ELSE UNION {IF o1.ok THEN Put(o1, p, m) ELSE {o1} : o1 \in Drop(s, r, p)}
  <2>1. m = [s.disk[p] EXCEPT !.ents = RemoveAt(@, i)]
    BY <1>3, <1>6, Zenon DEF SetEnts
  <2>2. m.ents = x
    BY <1>5, <1>6, <1>1, WithEnts
  <2> QED BY <2>1, <2>2, Zenon DEF Delete
<1>15. CASE ~emptied
  <2>1. o \in Put(s, p, m)
    BY <1>14, <1>15
  <2>2. Committed(s, p, d, o)
    BY <1>8, <2>1, PutCommits
  <2>3. Clean(o) /\ o.disk \in Disks
    BY <2>2, CommittedClean
  <2>4. /\ o.lfs.gstate = s.lfs.gstate /\ o.lfs.gdisk = s.lfs.gstate /\ o.ok = s.ok
        /\ o.held = s.held /\ o.told = {p} /\ Alike(d, o.disk) /\ Spread(d, o.disk, p, Free(s))
    BY <2>2 DEF Committed
  <2>5. Heads(o.disk) = Heads(s.disk)
    BY <1>10, <2>4 DEF Alike
  <2>6. \A y : NameCount(s.disk, y) = NameCount(o.disk, y) + (IF s.disk[p].ents[i].node = y THEN 1 ELSE 0)
    BY <1>11, <2>4 DEF Alike
  <2>7. \A q \in Listed(s.disk) : Bare(s.disk, q) => Bare(o.disk, q)
    BY <1>8, <1>10, <1>13, <2>4 DEF Bare, Spread, Edited
  <2>8. ASSUME NEW h, Follows(h, s.disk) PROVE Follows(FixUp(h, o, p, <<Del(i)>>), o.disk)
    <3>1. Len(<<Del(i)>>) \in Nat
      OBVIOUS
    <3> QED BY <1>1, <1>8, <1>10, <1>12, <2>3, <2>4, <2>8, <3>1, EditFollows
  <2> QED BY <2>3, <2>4, <2>5, <2>6, <2>7, <2>8 DEF Deleted
<1>16. CASE emptied
  <2> DEFINE e == o.disk
  <2>1. r \in Listed(s.disk) /\ s.disk[r].tail = p
    BY <1>1, <1>9, <1>16, HasPred
  <2>2. PICK o1 \in Drop(s, r, p) : o \in IF o1.ok THEN Put(o1, p, m) ELSE {o1}
    BY <1>14, <1>16
  <2>3. p # NoPair
    BY <1>1, DirTreeAssumption
  <2>4. PICK u \in Disks : Committed(s, r, u, o1) /\ Dropped(s.disk, u, r, p)
    <3> HIDE DEF r
    <3> QED BY <2>1, <2>2, <2>3, DropIs
  <2>5. Clean(o1) /\ o1.disk \in Disks
    BY <2>4, CommittedClean
  <2>6. /\ o1 \in States
        /\ o1.lfs.gstate = s.lfs.gstate /\ o1.ok = s.ok /\ o1.held = s.held /\ o1.told = {r}
        /\ Alike(u, o1.disk) /\ Spread(u, o1.disk, r, Free(s))
    BY <2>4 DEF Committed
  <2>7. /\ p # r /\ Listed(u) = Listed(s.disk) \ {p}
        /\ u[r].ents = s.disk[r].ents /\ (\A b \in Pair \ {r} : u[b] = s.disk[b])
        /\ Heads(u) = Heads(s.disk)
    BY <1>16, <2>4 DEF Dropped
  <2>8. p \notin Listed(o1.disk)
    <3>1. p \notin Free(s) /\ p \notin Listed(u)
      BY <2>7 DEF Free
    <3> HIDE DEF r
    <3> QED BY <2>6, <3>1 DEF Spread
  <2>9. m.ents = x /\ m.tail = s.disk[p].tail /\ m.split = s.disk[p].split /\ Len(m.ents) = 0
    <3>1. m.ents = x /\ m.tail = s.disk[p].tail /\ m.split = s.disk[p].split
      BY <1>1, <1>5, <1>6, WithEnts
    <3> QED BY <1>16, <3>1
  <2>10. o \in Put(o1, p, m)
    BY <2>2, <2>6
  <2>11. /\ o \in States /\ o.lfs = Settled(o1.lfs) /\ o.held = o1.held
         /\ o.ok = o1.ok /\ o.told = o1.told \cup {p}
         /\ Whole(o1.disk, e, p, m, Pending(o1.lfs))
    <3>1. ~(Len(m.ents) > Capacity)
      BY <2>9, DirTreeAssumption
    <3>2. p \in Free(o1) => Len(m.ents) = 0
      BY <2>9
    <3> QED BY <1>1, <1>8, <2>6, <2>10, <3>1, <3>2, PutIs
  <2>12. e \in Disks
    BY <2>11, StateIs
  <2>13. /\ e[p].ents = x /\ e[p].tail = s.disk[p].tail /\ e[p].split = s.disk[p].split
         /\ \A b \in Pair \ {p} : e[b] = o1.disk[b]
    BY <2>9, <2>11 DEF Whole
  <2>14. Listed(o1.disk) \in SUBSET Pair
    BY <2>5, ListCloses
  <2>15. \A b \in Listed(o1.disk) : e[b] = o1.disk[b]
    BY <2>8, <2>13, <2>14
  <2>16. TailsOK(e)
    BY <1>1, <1>9, <2>5, <2>13 DEF TailsOK, Threaded, Clean
  <2>17. Threaded(e) /\ Listed(e) = Listed(o1.disk) /\ Heads(e) = Heads(o1.disk)
    <3>1. Threaded(o1.disk)
      BY <2>5 DEF Clean
    <3>2. \A b \in Listed(o1.disk) : e[b].tail = o1.disk[b].tail /\ e[b].split = o1.disk[b].split
      BY <2>15
    <3> QED BY <2>5, <2>12, <2>16, <3>1, <3>2, SameThread
  <2>18. Filled(e)
    BY <1>2, <1>5, <2>5, <2>13, <1>16, DirTreeAssumption DEF Clean, Filled
  <2>19. o.lfs.gstate = s.lfs.gstate /\ o.lfs.gdisk = s.lfs.gstate /\ o.lfs.gdelta = {}
    <3>1. o1.lfs \in Globals
      BY <2>6, StateIs
    <3> QED BY <2>6, <2>11, <3>1, GlobalsIs
  <2>20. OnCard(e) = s.lfs.gstate
    <3>1. Sum(e, Listed(o1.disk)) = Sum(o1.disk, Listed(o1.disk))
      <4>1. \A b \in Listed(o1.disk) : e[b].delta = o1.disk[b].delta
        BY <2>15
      <4> QED BY <2>5, <2>12, <2>14, <4>1, SumSame
    <3>2. OnCard(o1.disk) = s.lfs.gstate
      BY <2>4 DEF Committed
    <3> QED BY <2>17, <3>1, <3>2 DEF OnCard
  <2>21. Clean(o)
    BY <2>11, <2>17, <2>18, <2>19, <2>20 DEF Clean
  <2>22. Heads(e) = Heads(s.disk)
    BY <2>6, <2>7, <2>17 DEF Alike
  <2>23. ASSUME NEW y
         PROVE NameCount(s.disk, y) = NameCount(e, y) + (IF s.disk[p].ents[i].node = y THEN 1 ELSE 0)
    <3>1. NameCount(u, y) = NameCount(d, y)
      <4>1. \A b \in Listed(d) : b \in Listed(u) \/ d[b].ents = <<>>
        BY <1>8, <1>10, <1>16, <2>7
      <4>2. \A b \in Listed(u) : b \in Listed(d) \/ u[b].ents = <<>>
        BY <1>10, <2>7
      <4>3. \A b \in Listed(d) \cap Listed(u) : u[b].ents = d[b].ents
        BY <1>1, <1>8, <1>10, <2>1, <2>7 DEF Edited
      <4> QED BY <1>8, <4>1, <4>2, <4>3, SameNames
    <3>2. NameCount(o1.disk, y) = NameCount(u, y)
      BY <2>6 DEF Alike
    <3>3. NameCount(e, y) = NameCount(o1.disk, y)
      BY <2>5, <2>12, <2>15, <2>17, SameNames
    <3> QED BY <1>11, <3>1, <3>2, <3>3
  <2>24. ASSUME NEW q \in Listed(s.disk), Bare(s.disk, q) PROVE Bare(e, q)
    <3>1. q # p /\ q \in Pair
      BY <1>13, <2>24
    <3>2. q # r
      BY <1>16, <2>24 DEF Bare
    <3>3. q \in Listed(u) \ {r} /\ u[q] = s.disk[q]
      BY <2>7, <3>1, <3>2
    <3>4. o1.disk[q] = s.disk[q]
      BY <2>6, <3>3 DEF Spread
    <3>5. e[q] = s.disk[q]
      BY <2>13, <3>1, <3>4
    <3> QED BY <2>24, <3>5 DEF Bare
  <2>25. Spread(u, e, r, Free(s))
    <3>1. r \in Listed(u) /\ r \in Pair /\ r # p
      BY <1>1, <2>1, <2>7
    <3>2. \A b \in Listed(u) : b \in Pair \ {p} /\ e[b] = o1.disk[b]
      BY <1>1, <2>7, <2>13
    <3>3. \A b \in Free(s) : b \in Pair /\ b # p /\ e[b] = o1.disk[b]
      BY <2>13 DEF Free
    <3> HIDE DEF r, e
    <3> QED BY <2>6, <2>17, <3>1, <3>2, <3>3 DEF Spread
  <2>26. ASSUME NEW h, Follows(h, s.disk) PROVE Follows(FixUp(h, o, p, <<Del(i)>>), e)
    <3>1. Hand(h) /\ h.kind \in Kinds
      BY <2>26 DEF Follows
    <3>2. PICK n : n = FixUp(h, o, p, <<Del(i)>>)
      OBVIOUS
    <3>3. Len(<<Del(i)>>) \in Nat
      OBVIOUS
    <3>4. LikeHand(n, h)
      BY <3>1, <3>2, <3>3, FixUpKind
    <3>5. CASE h.kind # "reg"
      BY <3>1, <3>2, <3>4, <3>5 DEF Follows, LikeHand
    <3>6. CASE h.kind = "reg" /\ h.pair = NoPair
      <4>1. NoPair \notin o.told
        BY <2>11, DirTreeAssumption, StateIs
      <4>2. n = h
        BY <3>2, <3>6, <4>1, Zenon DEF FixUp
      <4> QED BY <3>1, <3>2, <3>6, <4>2 DEF Follows
    <3>7. CASE h.kind = "reg" /\ h.pair # NoPair
      <4>1. Points(h, s.disk)
        BY <2>26, <3>7 DEF Follows
      <4>2. PICK k : k = IF h.pair = p THEN Shifted(h, <<Del(i)>>) ELSE h
        OBVIOUS
      <4>3. LikeHand(k, h)
        BY <3>1, <3>3, <4>2, ShiftedIs DEF LikeHand
      <4>4. h.pair = p => k.pair = NoPair
        <5> SUFFICES ASSUME h.pair = p PROVE k.pair = NoPair
          OBVIOUS
        <5>1. Tracks(k, d, p)
          BY <1>12, <3>1, <3>7, <4>1, <4>2 DEF Tracks
        <5>2. Len(d[p].ents) = 0
          BY <1>8, <1>16
        <5> QED BY <5>1, <5>2 DEF Tracks, Points
      <4>5. k.pair # NoPair => k.pair = h.pair /\ Points(k, u)
        <5> SUFFICES ASSUME k.pair # NoPair PROVE k.pair = h.pair /\ Points(k, u)
          OBVIOUS
        <5>1. h.pair # p /\ k = h
          BY <4>2, <4>4
        <5>2. h.pair \in Listed(s.disk) /\ h.pair \in Pair
          BY <1>1, <4>1 DEF Points
        <5>3. u[h.pair].ents = s.disk[h.pair].ents /\ h.pair \in Listed(u)
          BY <2>7, <5>1, <5>2
        <5> QED BY <4>1, <5>1, <5>3 DEF Points
      <4>6. p \in o.told /\ r \in o.told /\ (h.pair \in o.told /\ k.pair # NoPair => h.pair = r)
        BY <2>6, <2>11, <4>4
      <4>7. r \in Listed(u)
        BY <2>1, <2>7
      <4> HIDE DEF r, e
      <4>8. o.disk = e /\ h.kind = "reg"
        BY <3>7 DEF e
      <4>9. Follows(n, e)
        BY <2>12, <2>25, <3>1, <3>2, <4>2, <4>3, <4>5, <4>6, <4>7, <4>8, FixedUp
      <4> QED BY <3>2, <4>9
    <3> QED BY <3>5, <3>6, <3>7
  <2>27. o.ok /\ o.held = s.held
    BY <2>6, <2>11
  <2> QED BY <2>19, <2>21, <2>22, <2>23, <2>24, <2>26, <2>27 DEF Deleted
<1> QED BY <1>15, <1>16

------------------------------------------------------------------------------
(* What calls look for: parents, directories, names.                       *)

(* lfs_fs_parent finds q if an entry that is not hidden names it.          *)
LEMMA HasParentIs ==
  ASSUME NEW d \in Disks, Short(d), NEW g, NEW q
  PROVE  HasParent(d, g, q) <=> \E t \in Namers(d, q) : t \notin g
<1>1. ASSUME HasParent(d, g, q) PROVE \E t \in Namers(d, q) : t \notin g
  <2>0. PICK p \in Listed(d) : \E e \in Shown(d, g, p) : e.node = q
    BY <1>1 DEF HasParent
  <2>1. PICK i \in DOMAIN d[p].ents : <<p, i>> \notin g /\ d[p].ents[i].node = q
    BY <2>0 DEF Shown, Visible
  <2>2. i \in 1 .. Len(d[p].ents)
    BY <2>1, DiskType, ListCloses
  <2>3. <<p, i>> \in Namers(d, q)
    BY <2>1, <2>2, NamerIs
  <2> QED BY <2>1, <2>3
<1>2. ASSUME NEW t \in Namers(d, q), t \notin g PROVE HasParent(d, g, q)
  <2>1. /\ t \in Slot /\ t[1] \in Listed(d) /\ t[2] \in 1 .. Len(d[t[1]].ents)
        /\ d[t[1]].ents[t[2]].node = q
    BY DEF Namers
  <2>2. t = <<t[1], t[2]>>
    BY <2>1 DEF Slot
  <2>3. t[2] \in DOMAIN d[t[1]].ents
    BY <2>1, DiskType, ListCloses
  <2>4. t[2] \in Visible(d, g, t[1])
    BY <1>2, <2>2, <2>3 DEF Visible
  <2> QED BY <2>1, <2>4 DEF HasParent, Shown
<1> QED BY <1>1, <1>2

(* The directories are on the tail list.                                   *)
LEMMA HeadsListed ==
  ASSUME NEW d \in Disks
  PROVE  Heads(d) \in SUBSET Listed(d)
BY ListCloses DEF Heads

(* The least of some naturals is one of them.                              *)
LEMMA MinIs ==
  ASSUME NEW T \in SUBSET Nat, T # {}
  PROVE  Min(T) \in T
<1>1. \E m \in T : \A j \in T : m <= j
  BY LeastNatural
<1> QED BY <1>1 DEF Min

(* Where lfs_dir_find looks: from pair to pair of a directory, up to one   *)
(* that holds the name or a greater one, or the last.                      *)
NotBelow(d, n, p) == {i \in DOMAIN d[p].ents : d[p].ents[i].name >= n}
Walks(d, h, n, f) ==
  /\ f[0] = h
  /\ \A k \in 1 .. Count :
       f[k] = IF ~d[f[k - 1]].split \/ NotBelow(d, n, f[k - 1]) # {} THEN f[k - 1] ELSE d[f[k - 1]].tail
Finds(d, g, n, p, w) ==
  LET hit == NotBelow(d, n, p) # {}
      i == IF hit THEN Min(NotBelow(d, n, p)) ELSE Len(d[p].ents) + 1
      found == hit /\ d[p].ents[i].name = n /\ <<p, i>> \notin g
      before == {j \in 1 .. (i - 1) : <<p, j>> \in g}
  IN w = [pair |-> p, found |-> found,
          id |-> IF hit THEN i - Cardinality(before) ELSE i,
          node |-> IF found THEN d[p].ents[i].node ELSE NoPair]

(* The pairs that lfs_dir_find goes over are of the list.                  *)
LEMMA LookupWalks ==
  ASSUME NEW d \in Disks, Threaded(d), NEW g, NEW h \in Listed(d), NEW n
  PROVE  \E f : /\ Walks(d, h, n, f) /\ \A k \in 0 .. Count : f[k] \in Listed(d)
                /\ Finds(d, g, n, f[Count], Lookup(d, g, h, n))
<1> DEFINE Is(f) == f = [k \in 0 .. Count |->
             IF k = 0 THEN h
             ELSE LET p == f[k - 1]
                  IN IF ~d[p].split \/ NotBelow(d, n, p) # {} THEN p ELSE d[p].tail]
           at == CHOOSE f : Is(f)
           S == Listed(d)
           F == [r \in S |-> IF ~d[r].split \/ NotBelow(d, n, r) # {} THEN r ELSE d[r].tail]
<1>1. Finds(d, g, n, at[Count], Lookup(d, g, h, n))
  BY DEF Lookup, Finds, NotBelow, Count
<1>2. F \in [S -> S] /\ h \in S
  <2>1. ASSUME NEW r \in S PROVE F[r] \in S
    <3>1. d[r].split => d[r].tail # NoPair
      BY ListCloses DEF Threaded, TailsOK
    <3>2. d[r].tail # NoPair => d[r].tail \in S
      BY ListCloses
    <3>3. F[r] = IF ~d[r].split \/ NotBelow(d, n, r) # {} THEN r ELSE d[r].tail
      OBVIOUS
    <3> HIDE DEF F, S
    <3> QED BY <3>1, <3>2, <3>3
  <2>2. F = [r \in S |-> F[r]]
    OBVIOUS
  <2> HIDE DEF F
  <2> QED BY <2>1, <2>2
<1>3. PICK f : Repeats(f, S, h, F, Count)
  <2> HIDE DEF F, S
  <2> QED BY <1>2, PairsAreFinite, Iterates
<1>4. f \in [0 .. Count -> S] /\ f[0] = h /\ \A k \in 1 .. Count : f[k] = F[f[k - 1]]
  <2> HIDE DEF F, S
  <2> QED BY <1>3 DEF Repeats
<1>5. ASSUME NEW k \in 0 .. Count
      PROVE  f[k] = IF k = 0 THEN h ELSE IF ~d[f[k - 1]].split \/ NotBelow(d, n, f[k - 1]) # {} THEN f[k - 1]
                                                                       ELSE d[f[k - 1]].tail
  <2>1. CASE k = 0
    BY <1>4, <2>1
  <2>2. CASE k # 0
    <3>1. k - 1 \in 0 .. Count /\ k \in 1 .. Count
      BY <2>2, PairsAreFinite
    <3>2. f[k] = F[f[k - 1]] /\ f[k - 1] \in S
      <4> HIDE DEF F, S
      <4> QED BY <1>4, <3>1
    <3>3. F[f[k - 1]] = IF ~d[f[k - 1]].split \/ NotBelow(d, n, f[k - 1]) # {} THEN f[k - 1] ELSE d[f[k - 1]].tail
      <4> HIDE DEF S
      <4> QED BY <3>2
    <3> HIDE DEF F, S
    <3> QED BY <2>2, <3>2, <3>3
  <2> QED BY <2>1, <2>2
<1>6. Is(at)
  <2>1. f = [k \in 0 .. Count |-> f[k]]
    BY <1>4
  <2>2. Is(f)
    <3> HIDE DEF F, S
    <3> QED BY <1>5, <2>1, ZenonT(60)
  <2> HIDE DEF Is
  <2> QED BY <2>2, Zenon
<1>7. \A k \in 0 .. Count : at[k] = IF k = 0 THEN h
         ELSE IF ~d[at[k - 1]].split \/ NotBelow(d, n, at[k - 1]) # {} THEN at[k - 1] ELSE d[at[k - 1]].tail
  <2>1. at = [k \in 0 .. Count |-> IF k = 0 THEN h
           ELSE IF ~d[at[k - 1]].split \/ NotBelow(d, n, at[k - 1]) # {} THEN at[k - 1] ELSE d[at[k - 1]].tail]
    <3> HIDE DEF at
    <3> QED BY <1>6
  <2> HIDE DEF at
  <2> QED BY <2>1
<1> HIDE DEF at
<1>8. Walks(d, h, n, at)
  <2>1. at[0] = h
    BY <1>7, PairsAreFinite
  <2>2. ASSUME NEW k \in 1 .. Count
        PROVE  at[k] = IF ~d[at[k - 1]].split \/ NotBelow(d, n, at[k - 1]) # {} THEN at[k - 1] ELSE d[at[k - 1]].tail
    <3>1. k \in 0 .. Count /\ k # 0
      BY PairsAreFinite
    <3> QED BY <1>7, <3>1
  <2> QED BY <2>1, <2>2 DEF Walks
<1>9. \A k \in 0 .. Count : at[k] \in S
  <2> DEFINE T == {k \in 0 .. Count : at[k] \in S}
  <2>1. 0 \in T /\ T \in SUBSET (0 .. Count)
    <3> HIDE DEF S
    <3> QED BY <1>2, <1>8, PairsAreFinite DEF Walks
  <2>2. ASSUME NEW k \in 1 .. Count, k - 1 \in T PROVE k \in T
    <3>1. at[k - 1] \in S /\ k \in 0 .. Count
      BY <2>2, PairsAreFinite
    <3>2. F[at[k - 1]] \in S
      <4> HIDE DEF F, S
      <4> QED BY <1>2, <3>1
    <3>3. at[k] = F[at[k - 1]]
      <4>1. at[k] = IF ~d[at[k - 1]].split \/ NotBelow(d, n, at[k - 1]) # {} THEN at[k - 1] ELSE d[at[k - 1]].tail
        BY <1>8 DEF Walks
      <4> HIDE DEF S
      <4> QED BY <3>1, <4>1
    <3> HIDE DEF F, S
    <3> QED BY <3>1, <3>2, <3>3
  <2>3. T = 0 .. Count
    <3> HIDE DEF T
    <3> QED BY <2>1, <2>2, UpTo, PairsAreFinite
  <2> QED BY <2>3
<1> QED BY <1>1, <1>8, <1>9

(* What it has at the pair it stops at, if it need not pass hidden entries.*)
StopsAt(d, n, p, w) ==
  /\ w.pair = p /\ w.found \in BOOLEAN
  /\ w.id = IF NotBelow(d, n, p) # {} THEN Min(NotBelow(d, n, p)) ELSE Len(d[p].ents) + 1
  /\ w.found <=> NotBelow(d, n, p) # {} /\ d[p].ents[w.id].name = n
  /\ NotBelow(d, n, p) # {} => w.id \in NotBelow(d, n, p) /\ w.id \in 1 .. Len(d[p].ents)
  /\ w.id \in 1 .. (Len(d[p].ents) + 1)
  /\ w.found => w.node = d[p].ents[w.id].node
  /\ ~w.found => w.node = NoPair

(* Where a lookup in one pair stops.                                       *)
LEMMA LookupAt ==
  ASSUME NEW d \in Disks, NEW g, g \subseteq {Orphans}, NEW p \in Listed(d),
         NEW n, NEW w, Finds(d, g, n, p, w)
  PROVE  StopsAt(d, n, p, w)
<1> DEFINE hit == NotBelow(d, n, p) # {}
           i == IF hit THEN Min(NotBelow(d, n, p)) ELSE Len(d[p].ents) + 1
           found == hit /\ d[p].ents[i].name = n /\ <<p, i>> \notin g
           before == {j \in 1 .. (i - 1) : <<p, j>> \in g}
<1>1. w = [pair |-> p, found |-> found, id |-> IF hit THEN i - Cardinality(before) ELSE i,
           node |-> IF found THEN d[p].ents[i].node ELSE NoPair]
  BY DEF Finds
<1>3. p \in Pair /\ DOMAIN d[p].ents = 1 .. Len(d[p].ents) /\ Len(d[p].ents) \in Nat
  BY ListCloses, DiskType
<1>4. hit => i \in NotBelow(d, n, p) /\ i \in 1 .. Len(d[p].ents)
  <2>1. NotBelow(d, n, p) \in SUBSET (1 .. Len(d[p].ents))
    BY <1>3 DEF NotBelow
  <2>2. NotBelow(d, n, p) \in SUBSET Nat
    BY <1>3, <2>1
  <2> QED BY <2>1, <2>2, MinIs
<1>5. ~hit => i = Len(d[p].ents) + 1
  OBVIOUS
<1>14. i = IF NotBelow(d, n, p) # {} THEN Min(NotBelow(d, n, p)) ELSE Len(d[p].ents) + 1
  OBVIOUS
<1>15. hit <=> NotBelow(d, n, p) # {}
  OBVIOUS
<1> HIDE DEF hit, i
<1>6. before = {} /\ <<p, i>> \notin g
  <2>1. ASSUME NEW j, <<p, j>> \in g PROVE FALSE
    BY <1>3, <2>1, DirTreeAssumption DEF Orphans
  <2> QED BY <2>1
<1>7. Cardinality(before) = 0
  BY <1>6, FS_EmptySet
<1> HIDE DEF before
<1>8. hit \in BOOLEAN
  BY DEF hit
<1>9. /\ w.pair = p /\ w.found = found /\ w.id = (IF hit THEN i - Cardinality(before) ELSE i)
      /\ w.node = IF found THEN d[p].ents[i].node ELSE NoPair
  BY <1>1
<1>10. w.id = i
  BY <1>3, <1>4, <1>7, <1>9
<1>11. i \in 1 .. (Len(d[p].ents) + 1)
  BY <1>3, <1>4, <1>5
<1>12. found <=> hit /\ d[p].ents[i].name = n
  BY <1>6
<1>13. found \in BOOLEAN
  BY <1>8
<1> HIDE DEF found
<1> QED BY <1>4, <1>9, <1>10, <1>11, <1>12, <1>13, <1>14, <1>15 DEF StopsAt

(* What lfs_dir_find returns.                                              *)
LEMMA LookupIs ==
  ASSUME NEW d \in Disks, Threaded(d), NEW g, g \subseteq {Orphans}, NEW h \in Listed(d),
         NEW n, NEW w, w = Lookup(d, g, h, n)
  PROVE  /\ w.pair \in Listed(d) /\ w.id \in 1 .. (Len(d[w.pair].ents) + 1)
         /\ w.found \in BOOLEAN
         /\ w.found => w.id \in 1 .. Len(d[w.pair].ents) /\ w.node = d[w.pair].ents[w.id].node
         /\ ~w.found => w.node = NoPair
<1>1. PICK f : /\ \A k \in 0 .. Count : f[k] \in Listed(d)
               /\ Finds(d, g, n, f[Count], Lookup(d, g, h, n))
  BY LookupWalks
<1>2. PICK p \in Listed(d) : Finds(d, g, n, p, w)
  <2>1. f[Count] \in Listed(d)
    BY <1>1, PairsAreFinite
  <2> QED BY <1>1, <2>1
<1>3. StopsAt(d, n, p, w)
  BY <1>2, LookupAt
<1> QED BY <1>3 DEF StopsAt

------------------------------------------------------------------------------
(* The invariant.  Whatever a call has got to, the card is in order but    *)
(* for what its global state says: at most one entry hidden and at most    *)
(* one empty orphan.  lfs_t knows that state, and the call what is left to *)
(* do.                                                                     *)

Moves(g) == g \ {Orphans}
Node(d, t) == d[t[1]].ents[t[2]].node
Orphaned(d) == {h \in Heads(d) \ {Root} : NameCount(d, h) = 0}

(* An entry that has been moved away exists, alone, and what it names has  *)
(* another entry.                                                          *)
MovesOK(d, g) ==
  \A t \in Moves(g) :
    /\ t[1] \in Listed(d) /\ t[2] \in 1 .. Len(d[t[1]].ents)
    /\ NameCount(d, Node(d, t)) >= 2 /\ \A u \in Moves(g) : u = t

(* Entries name directories of the list, each once, but for a move.        *)
NamesOK(d, g) ==
  \A x \in Pair :
    /\ NameCount(d, x) # 0 => x \in Heads(d) \ {Root}
    /\ NameCount(d, x) >= 2 => NameCount(d, x) = 2 /\ \E t \in Moves(g) : Node(d, t) = x

(* At most one directory is an orphan; it is empty, and the card says so.  *)
OrphansOK(d, g) ==
  \A h \in Orphaned(d) : Bare(d, h) /\ Orphans \in g /\ \A k \in Orphaned(d) : k = h

(* The card, with global state g.                                          *)
CardOK(d, g) ==
  /\ d \in Disks /\ Threaded(d) /\ Filled(d)
  /\ g \in SUBSET Token /\ MovesOK(d, g) /\ NamesOK(d, g) /\ OrphansOK(d, g)
GlobalOK ==
  /\ lfs \in Globals /\ lfs.gdelta = {}
  /\ Moves(lfs.gdisk) = Moves(OnCard(disk)) /\ Moves(lfs.gstate) = Moves(lfs.gdisk)
  /\ Orphans \in lfs.gstate => Orphans \in lfs.gdisk

(* lfs_t knows the card's global state.                                    *)
Known == lfs.gdisk = OnCard(disk)

(* The locals of lfs_mkdir after its first commit.                         *)
Settling == [at : {"mkdir_link", "mkdir_entry"}, dir : Pair, cwd : Pair, id : Nat,
             name : Name, last : Pair, split : BOOLEAN]

(* Where the running call is, and what it has left to do.  lfs_mkdir holds *)
(* a pair with the tail, and the delta, that the list is to get with it.   *)
OpOK ==
  \/ /\ op.at = "idle" /\ Known
     /\ Orphaned(disk) # {} => Orphans \in lfs.gstate
  \/ /\ op.at = "ready" /\ Known
     /\ lfs.gstate = {} /\ Orphaned(disk) = {}
  \/ /\ op.at = "deorphan" /\ Known /\ op.from \in Listed(disk)
     /\ lfs.gstate = {Orphans}
     /\ op.from # Root => Orphaned(disk) = {}
  \/ /\ op.at = "drop" /\ Known
     /\ Moves(lfs.gdisk) = {} /\ lfs.gstate = {} /\ Orphaned(disk) = {op.dir}
  \/ /\ op.at = "rename_delete" /\ Known
     /\ Moves(lfs.gdisk) = {<<op.pair, op.id>>} /\ lfs.gstate = lfs.gdisk
     /\ Orphaned(disk) = {op.dir} \ {NoPair}
  \/ /\ op.at = "mkdir_link" /\ op \in Settling
     /\ lfs.gdisk = {} /\ lfs.gstate = {} /\ Orphaned(disk) = {}
     /\ op.dir \notin Listed(disk) /\ Bare(disk, op.dir) /\ disk[op.dir].delta = OnCard(disk)
     /\ op.last \in Listed(disk) /\ ~disk[op.last].split /\ disk[op.dir].tail = disk[op.last].tail
     /\ op.cwd \in Listed(disk) /\ disk[op.cwd].split /\ op.split
     /\ op.id \in 1 .. (Len(disk[op.cwd].ents) + 1)
  \/ /\ op.at = "mkdir_entry" /\ op \in Settling /\ op.split /\ Known
     /\ Moves(lfs.gdisk) = {} /\ lfs.gstate = {} /\ Orphaned(disk) = {op.dir}
     /\ op.cwd \in Listed(disk) /\ op.id \in 1 .. (Len(disk[op.cwd].ents) + 1)
  \/ /\ op.at = "mkdir_entry" /\ op \in Settling /\ ~op.split
     /\ lfs.gdisk = {} /\ lfs.gstate = {} /\ Orphaned(disk) = {}
     /\ op.dir \notin Listed(disk) /\ Bare(disk, op.dir) /\ disk[op.dir].delta = OnCard(disk)
     /\ op.cwd \in Listed(disk) /\ ~disk[op.cwd].split /\ disk[op.dir].tail = disk[op.cwd].tail
     /\ op.id \in 1 .. (Len(disk[op.cwd].ents) + 1)

(* While a file is open, only a rename under way leaves an entry to be     *)
(* deleted: a power loss, which leaves one behind, closes all files.       *)
HandleOK ==
  /\ Follows(handle, disk)
  /\ handle.kind = "reg" => Moves(lfs.gdisk) = {} \/ op.at = "rename_delete"
OthersOK ==
  /\ result \in {"none", "ok", "error", "lost", "read", "end", "unreadable"}
  /\ calls \in 0 .. MaxCalls
Inv == CardOK(disk, OnCard(disk)) /\ GlobalOK /\ OpOK /\ HandleOK /\ OthersOK

(* What there is to say of a card that is in order.                        *)
LEMMA CardIs ==
  ASSUME NEW d, NEW g, CardOK(d, g)
  PROVE  /\ d \in Disks /\ Threaded(d) /\ Filled(d) /\ Short(d)
         /\ Listed(d) \in SUBSET Pair /\ Heads(d) \in SUBSET Listed(d)
         /\ Root \in Listed(d) /\ NoPair \notin Pair
         /\ \A p \in Pair : d[p] \in Content /\ Len(d[p].ents) \in Nat
         /\ \A x : NameCount(d, x) \in Nat
<1>1. d \in Disks /\ Threaded(d) /\ Filled(d)
  BY DEF CardOK
<1>2. Listed(d) \in SUBSET Pair /\ Heads(d) \in SUBSET Listed(d) /\ Root \in Listed(d)
  BY <1>1, ListCloses, HeadsListed
<1>3. \A p \in Pair : d[p] \in Content /\ Len(d[p].ents) \in Nat
  BY <1>1, DiskType
<1>4. Short(d)
  BY <1>1, <1>3, DirTreeAssumption DEF Filled, Short
<1> QED BY <1>1, <1>2, <1>3, <1>4, NamesType, DirTreeAssumption

(* Where no entry has been moved away.                                     *)
LEMMA CardIsOK ==
  ASSUME NEW o, Clean(o), Moves(o.lfs.gdisk) = {},
         \A x \in Pair : /\ NameCount(o.disk, x) # 0 => x \in Heads(o.disk) \ {Root}
                         /\ ~(NameCount(o.disk, x) >= 2),
         OrphansOK(o.disk, o.lfs.gdisk)
  PROVE  CardOK(o.disk, OnCard(o.disk)) /\ OnCard(o.disk) = o.lfs.gdisk
<1>1. o.disk \in Disks /\ Threaded(o.disk) /\ Filled(o.disk) /\ OnCard(o.disk) = o.lfs.gdisk
  BY CleanIs DEF Clean
<1>2. OnCard(o.disk) \in SUBSET Token
  <2>1. Listed(o.disk) \in SUBSET Pair
    BY <1>1, ListCloses
  <2> QED BY <1>1, <2>1, SumType DEF OnCard
<1>3. MovesOK(o.disk, OnCard(o.disk)) /\ NamesOK(o.disk, OnCard(o.disk))
  BY <1>1 DEF MovesOK, NamesOK
<1> QED BY <1>1, <1>2, <1>3 DEF CardOK

(* Where no entry has been moved away, a directory has at most one name.   *)
LEMMA OneNamed ==
  ASSUME NEW d, NEW g, CardOK(d, g), Moves(g) = {}, NEW x \in Pair
  PROVE  /\ NameCount(d, x) \in {0, 1}
         /\ NameCount(d, x) # 0 => x \in Heads(d) \ {Root}
<1>1. NameCount(d, x) \in Nat /\ ~(NameCount(d, x) >= 2)
  BY CardIs DEF CardOK, NamesOK
<1> QED BY <1>1 DEF CardOK, NamesOK

(* The entry at t, which has been moved away, is deleted.                  *)
LEMMA DemoveKeeps ==
  ASSUME NEW s, NEW g, CardOK(s.disk, g), NEW t \in Moves(g), NEW o,
         Deleted(s, t[1], t[2], o), Moves(s.lfs.gstate) = {},
         Orphaned(s.disk) # {} => Orphans \in s.lfs.gstate
  PROVE  /\ CardOK(o.disk, OnCard(o.disk)) /\ OnCard(o.disk) = s.lfs.gstate
         /\ Orphaned(o.disk) = Orphaned(s.disk)
<1> DEFINE d == s.disk
           e == o.disk
<1>1. /\ Clean(o) /\ o.lfs.gdisk = s.lfs.gstate /\ Heads(e) = Heads(d)
      /\ \A x : NameCount(d, x) = NameCount(e, x) + (IF Node(d, t) = x THEN 1 ELSE 0)
      /\ \A q \in Listed(d) : Bare(d, q) => Bare(e, q)
  BY DEF Deleted, Node
<1>2. /\ NameCount(d, Node(d, t)) >= 2 /\ \A u \in Moves(g) : u = t
  BY DEF CardOK, MovesOK
<1>3. \A x : NameCount(d, x) \in Nat /\ NameCount(e, x) \in Nat
  BY NamesType
<1>4. ASSUME NEW x \in Pair
      PROVE  /\ NameCount(e, x) # 0 => x \in Heads(e) \ {Root}
             /\ ~(NameCount(e, x) >= 2)
  <2>1. /\ NameCount(d, x) # 0 => x \in Heads(d) \ {Root}
        /\ NameCount(d, x) >= 2 => NameCount(d, x) = 2 /\ Node(d, t) = x
    BY <1>2 DEF CardOK, NamesOK
  <2> HIDE DEF d, e
  <2> QED BY <1>1, <1>3, <2>1
<1>5. ASSUME NEW x PROVE NameCount(e, x) = 0 <=> NameCount(d, x) = 0
  <2> HIDE DEF d, e
  <2>1. NameCount(d, x) = NameCount(e, x) + (IF Node(d, t) = x THEN 1 ELSE 0)
    BY <1>1
  <2>2. NameCount(d, x) \in Nat /\ NameCount(e, x) \in Nat
    BY <1>3
  <2> QED BY <1>2, <2>1, <2>2
<1>6. Orphaned(e) = Orphaned(d)
  BY <1>1, <1>5 DEF Orphaned
<1>7. OrphansOK(e, o.lfs.gdisk)
  <2>1. Orphaned(d) \in SUBSET Listed(d)
    BY CardIs DEF Orphaned
  <2> QED BY <1>1, <1>6, <2>1 DEF OrphansOK, CardOK
<1> QED BY <1>1, <1>4, <1>6, <1>7, CardIsOK

(* An entry is deleted where none has been moved away and no directory is  *)
(* an orphan: the directory it names becomes one.                          *)
LEMMA RemoveKeeps ==
  ASSUME NEW s, NEW g, CardOK(s.disk, g), Moves(g) = {}, Orphaned(s.disk) = {},
         NEW p \in Listed(s.disk), NEW i \in 1 .. Len(s.disk[p].ents), NEW x,
         x = s.disk[p].ents[i].node, x \in Pair => Bare(s.disk, x),
         NEW o, Deleted(s, p, i, o), Moves(s.lfs.gstate) = {},
         x \in Pair => Orphans \in s.lfs.gstate
  PROVE  /\ CardOK(o.disk, OnCard(o.disk)) /\ OnCard(o.disk) = s.lfs.gstate
         /\ Orphaned(o.disk) = {x} \cap Pair
<1> DEFINE d == s.disk
           e == o.disk
<1>1. /\ Clean(o) /\ o.lfs.gdisk = s.lfs.gstate /\ Heads(e) = Heads(d)
      /\ \A y : NameCount(d, y) = NameCount(e, y) + (IF x = y THEN 1 ELSE 0)
      /\ \A q \in Listed(d) : Bare(d, q) => Bare(e, q)
  BY DEF Deleted
<1>2. \A y : NameCount(d, y) \in Nat /\ NameCount(e, y) \in Nat
  BY NamesType
<1>3. \A y \in Pair : NameCount(d, y) \in {0, 1} /\ (NameCount(d, y) # 0 => y \in Heads(d) \ {Root})
  BY OneNamed
<1>4. ASSUME NEW y \in Pair
      PROVE  /\ NameCount(e, y) # 0 => y \in Heads(e) \ {Root}
             /\ ~(NameCount(e, y) >= 2)
  <2>1. NameCount(e, y) \in Nat /\ NameCount(e, y) <= NameCount(d, y)
    <3> HIDE DEF d, e
    <3> QED BY <1>1, <1>2
  <2> HIDE DEF d, e
  <2> QED BY <1>1, <1>3, <2>1
<1>5. NameCount(d, x) >= 1
  <2>1. <<p, i>> \in Namers(d, x)
    BY CardIs, NamerIs
  <2> QED BY <2>1, TwoNames
<1>6. Orphaned(e) = {x} \cap Pair
  <2>1. Heads(d) \in SUBSET Pair
    BY CardIs
  <2>2. ASSUME NEW h \in Orphaned(e) PROVE h = x
    <3>1. h \in Heads(d) \ {Root} /\ NameCount(e, h) = 0
      BY <1>1 DEF Orphaned
    <3>2. NameCount(d, h) # 0
      BY <3>1 DEF Orphaned
    <3> HIDE DEF d, e
    <3> QED BY <1>1, <3>1, <3>2
  <2>3. x \in Pair => x \in Orphaned(e)
    <3> SUFFICES ASSUME x \in Pair PROVE x \in Orphaned(e)
      OBVIOUS
    <3>1. NameCount(d, x) = 1 /\ x \in Heads(d) \ {Root}
      <4> HIDE DEF d, e
      <4> QED BY <1>3, <1>5
    <3>2. NameCount(e, x) = 0
      <4>1. NameCount(d, x) = NameCount(e, x) + 1
        BY <1>1
      <4>2. NameCount(e, x) \in Nat
        BY <1>2
      <4> HIDE DEF d, e
      <4> QED BY <3>1, <4>1, <4>2
    <3> QED BY <1>1, <3>1, <3>2 DEF Orphaned
  <2>4. Orphaned(e) \subseteq Pair
    BY <1>1, <2>1 DEF Orphaned
  <2> HIDE DEF d, e
  <2> QED BY <2>2, <2>3, <2>4
<1>7. OrphansOK(e, o.lfs.gdisk)
  <2>1. x \in Pair => x \in Listed(d)
    BY <1>3, <1>5, CardIs
  <2> QED BY <1>1, <1>6, <2>1 DEF OrphansOK
<1> QED BY <1>1, <1>4, <1>6, <1>7, CardIsOK

------------------------------------------------------------------------------
(* What commits keep of the invariant.                                     *)

(* Only an open file has an entry to follow.                               *)
LEMMA FollowsIf ==
  ASSUME NEW d, NEW e, NEW h, Follows(h, d), NEW o, o.told \in SUBSET Pair, NEW p, NEW attrs,
         Len(attrs) \in Nat, NEW n, n = FixUp(h, o, p, attrs),
         h.kind = "reg" /\ h.pair # NoPair => Follows(n, e)
  PROVE  Follows(n, e)
<1>1. Hand(h) /\ h.kind \in Kinds
  BY DEF Follows
<1>2. LikeHand(n, h)
  BY <1>1, FixUpKind
<1>3. CASE h.kind # "reg"
  BY <1>1, <1>2, <1>3 DEF Follows, LikeHand
<1>4. CASE h.kind = "reg" /\ h.pair = NoPair
  <2>1. NoPair \notin o.told
    BY DirTreeAssumption
  <2>2. n = h
    BY <1>4, <2>1, Zenon DEF FixUp
  <2> QED BY <1>1, <1>4, <2>2 DEF Follows
<1> QED BY <1>3, <1>4

(* An orphan is dropped.                                                   *)
LEMMA DropKeeps ==
  ASSUME NEW s, NEW g, CardOK(s.disk, g), Moves(g) = {}, s.told = {}, NEW q \in Orphaned(s.disk),
         NEW p \in Listed(s.disk), ~s.disk[p].split, NEW u \in Disks, NEW o,
         Committed(s, p, u, o), Dropped(s.disk, u, p, q), Moves(s.lfs.gstate) = {}
  PROVE  /\ CardOK(o.disk, OnCard(o.disk)) /\ OnCard(o.disk) = s.lfs.gstate
         /\ Orphaned(o.disk) = {} /\ p \in Listed(o.disk)
         /\ \A h : Follows(h, s.disk) => Follows(FixUp(h, o, p, <<>>), o.disk)
<1> DEFINE d == s.disk
           e == o.disk
<1>1. Clean(o) /\ e \in Disks
  BY CommittedClean
<1>2. /\ o.lfs.gdisk = s.lfs.gstate /\ o.told = {p} /\ Alike(u, e) /\ Spread(u, e, p, Free(s))
  BY DEF Committed
<1>3. q \in Listed(d) /\ q \in Pair /\ Bare(d, q) /\ \A k \in Orphaned(d) : k = q
  BY CardIs DEF Orphaned, CardOK, OrphansOK
<1>4. /\ q # p /\ Listed(u) = Listed(d) \ {q} /\ u[p].ents = d[p].ents
      /\ (\A r \in Pair \ {p} : u[r] = d[r]) /\ Heads(u) = Heads(d) \ {q}
  BY <1>3 DEF Dropped, Bare
<1>5. \A r \in Pair : u[r].ents = d[r].ents
  BY <1>4
<1>6. ASSUME NEW x PROVE NameCount(e, x) = NameCount(d, x)
  <2>1. \A r \in Listed(d) : r \in Listed(u) \/ d[r].ents = <<>>
    BY <1>3, <1>4 DEF Bare
  <2>2. \A r \in Listed(u) : r \in Listed(d) \/ u[r].ents = <<>>
    BY <1>4
  <2>3. \A r \in Listed(d) \cap Listed(u) : u[r].ents = d[r].ents
    BY <1>5, CardIs
  <2>4. d \in Disks
    BY CardIs
  <2>5. NameCount(u, x) = NameCount(d, x)
    <3> HIDE DEF d
    <3> QED BY <2>1, <2>2, <2>3, <2>4, SameNames
  <2> QED BY <1>2, <2>5 DEF Alike
<1>7. Heads(e) = Heads(d) \ {q}
  BY <1>2, <1>4 DEF Alike
<1>8. Orphaned(e) = {}
  BY <1>3, <1>6, <1>7 DEF Orphaned
<1>9. ASSUME NEW x \in Pair
      PROVE  /\ NameCount(e, x) # 0 => x \in Heads(e) \ {Root}
             /\ ~(NameCount(e, x) >= 2)
  <2>1. NameCount(d, x) \in {0, 1} /\ (NameCount(d, x) # 0 => x \in Heads(d) \ {Root})
    BY OneNamed
  <2>2. NameCount(d, q) = 0
    BY DEF Orphaned
  <2> HIDE DEF d, e
  <2> QED BY <1>6, <1>7, <2>1, <2>2
<1>10. OrphansOK(e, o.lfs.gdisk)
  BY <1>8 DEF OrphansOK
<1>11. CardOK(e, OnCard(e)) /\ OnCard(e) = o.lfs.gdisk
  BY <1>1, <1>2, <1>9, <1>10, CardIsOK
<1>12. ASSUME NEW h, Follows(h, d) PROVE Follows(FixUp(h, o, p, <<>>), e)
  <2>1. PICK n : n = FixUp(h, o, p, <<>>)
    OBVIOUS
  <2>2. Len(<<>>) \in Nat /\ Len(<<>>) = 0
    OBVIOUS
  <2>3. o.told \in SUBSET Pair
    BY <1>2, CardIs
  <2>4. ASSUME h.kind = "reg", h.pair # NoPair PROVE Follows(n, e)
    <3>1. Hand(h) /\ Points(h, d)
      BY <1>12, <2>4 DEF Follows
    <3>2. PICK m : m = IF h.pair = p THEN Shifted(h, <<>>) ELSE h
      OBVIOUS
    <3>3. m = h
      BY <2>2, <3>2, ShiftedIs
    <3>4. LikeHand(m, h)
      BY <3>1, <3>3 DEF LikeHand
    <3>5. Points(m, u)
      <4>1. h.pair \in Listed(d) /\ h.pair \in Pair /\ h.id \in 1 .. Len(d[h.pair].ents)
        BY <3>1, CardIs DEF Points
      <4>2. h.pair # q
        BY <1>3, <4>1 DEF Bare
      <4> QED BY <1>4, <1>5, <3>1, <3>3, <4>1, <4>2 DEF Points
    <3>6. p \in Listed(u) /\ p \in o.told /\ (h.pair \in o.told /\ m.pair # NoPair => h.pair = p)
      BY <1>2, <1>4
    <3>7. m.pair # NoPair => m.pair = h.pair /\ Points(m, u)
      BY <3>3, <3>5
    <3> HIDE DEF d
    <3>8. e = o.disk /\ h.kind = "reg"
      BY <2>4
    <3> HIDE DEF e
    <3> QED BY <1>1, <1>2, <2>1, <3>1, <3>2, <3>4, <3>6, <3>7, <3>8, FixedUp
  <2> HIDE DEF d, e
  <2>5. Follows(n, e)
    BY <1>12, <2>1, <2>2, <2>3, <2>4, FollowsIf
  <2> QED BY <2>1, <2>5
<1>13. p \in Listed(e)
  BY <1>2, <1>4 DEF Spread
<1> QED BY <1>2, <1>8, <1>11, <1>12, <1>13

(* What a commit of other entries leaves.                                  *)
EditDone(s, p, d, o) ==
  /\ Clean(o) /\ o.lfs.gstate = s.lfs.gstate /\ o.lfs.gdisk = s.lfs.gstate
  /\ o.ok = s.ok /\ o.held = s.held /\ o.told = {p}
  /\ Heads(o.disk) = Heads(s.disk) /\ Listed(d) = Listed(s.disk)
  /\ \A x : NameCount(o.disk, x) = NameCount(d, x)
  /\ Spread(d, o.disk, p, Free(s))
  /\ \A q \in Listed(s.disk) \ {p} : o.disk[q] = s.disk[q] /\ q \in Listed(o.disk)
Kept(s, p, d, o, h, attrs) ==
  /\ Follows(h, s.disk)
  /\ Tracks(h, s.disk, p) /\ h.pair # NoPair => Tracks(Shifted(h, attrs), d, p)

(* A commit of other entries to p changes nothing else, and a handle that  *)
(* keeps to its file through the attributes does through the commit.       *)
LEMMA EditCommits ==
  ASSUME Sure, NEW s, s.told = {}, NEW p, NEW x, NEW m, NEW d, EditTo(s, p, x, m, d),
         NEW o \in Put(s, p, m)
  PROVE  /\ EditDone(s, p, d, o) /\ d \in Disks /\ d[p].ents = x /\ Edited(s.disk, d, p)
         /\ \A h, attrs : Len(attrs) \in Nat /\ Kept(s, p, d, o, h, attrs) =>
              Follows(FixUp(h, o, p, attrs), o.disk)
<1>1. Target(s, p, m, d) /\ d \in Disks /\ d[p].ents = x /\ Edited(s.disk, d, p)
  BY EditTarget
<1>2. Committed(s, p, d, o)
  BY <1>1, PutCommits
<1>3. Clean(o) /\ o.disk \in Disks
  BY <1>2, CommittedClean
<1>4. /\ o.lfs.gstate = s.lfs.gstate /\ o.lfs.gdisk = s.lfs.gstate
      /\ o.ok = s.ok /\ o.held = s.held /\ o.told = {p}
      /\ Alike(d, o.disk) /\ Spread(d, o.disk, p, Free(s))
  BY <1>2 DEF Committed
<1>5. Clean(s) /\ p \in Listed(s.disk)
  BY DEF EditTo
<1>6. s.disk \in Disks /\ Listed(s.disk) \in SUBSET Pair /\ Threaded(s.disk)
  BY <1>5, CleanIs DEF Clean
<1>7. Listed(d) = Listed(s.disk) /\ Heads(d) = Heads(s.disk)
  BY <1>1, <1>5, <1>6, EditedIs
<1>8. \A q \in Listed(s.disk) \ {p} : o.disk[q] = s.disk[q] /\ q \in Listed(o.disk)
  BY <1>1, <1>4, <1>6, <1>7 DEF Spread, Edited
<1>9. EditDone(s, p, d, o)
  BY <1>3, <1>4, <1>7, <1>8 DEF EditDone, Alike
<1>10. ASSUME NEW h, NEW attrs, Len(attrs) \in Nat, Kept(s, p, d, o, h, attrs)
       PROVE  Follows(FixUp(h, o, p, attrs), o.disk)
  <2>1. /\ Follows(h, s.disk)
        /\ Tracks(h, s.disk, p) /\ h.pair # NoPair => Tracks(Shifted(h, attrs), d, p)
    BY <1>10 DEF Kept
  <2> QED BY <1>1, <1>3, <1>4, <1>5, <1>6, <1>7, <1>10, <2>1, EditFollows
<1> QED BY <1>1, <1>9, <1>10

(* What lfs_fs_prepmove and lfs_fs_preporphans make of the global state.   *)
LEMMA PrepIs ==
  ASSUME NEW l \in Globals, NEW M \in SUBSET Token
  PROVE  /\ PrepMove(l, M) \in Globals /\ PrepMove(l, M).gstate = (l.gstate \cap {Orphans}) \cup M
         /\ PrepMove(l, M).gdisk = l.gdisk /\ PrepMove(l, M).gdelta = l.gdelta
         /\ PrepOrphans(l, TRUE) \in Globals /\ PrepOrphans(l, TRUE).gstate = l.gstate \cup {Orphans}
         /\ PrepOrphans(l, TRUE).gdisk = l.gdisk /\ PrepOrphans(l, TRUE).gdelta = l.gdelta
         /\ PrepOrphans(l, FALSE) \in Globals /\ PrepOrphans(l, FALSE).gstate = l.gstate \ {Orphans}
         /\ PrepOrphans(l, FALSE).gdisk = l.gdisk /\ PrepOrphans(l, FALSE).gdelta = l.gdelta
<1>1. Orphans \in Token
  BY DEF Token
<1>2. PrepMove(l, M) \in Globals /\ PrepMove(l, M).gstate = (l.gstate \cap {Orphans}) \cup M
      /\ PrepMove(l, M).gdisk = l.gdisk /\ PrepMove(l, M).gdelta = l.gdelta
  BY <1>1 DEF Globals, PrepMove
<1>3. PrepOrphans(l, TRUE) \in Globals /\ PrepOrphans(l, TRUE).gstate = l.gstate \cup {Orphans}
      /\ PrepOrphans(l, TRUE).gdisk = l.gdisk /\ PrepOrphans(l, TRUE).gdelta = l.gdelta
  BY <1>1 DEF Globals, PrepOrphans
<1>4. PrepOrphans(l, FALSE) \in Globals /\ PrepOrphans(l, FALSE).gstate = l.gstate \ {Orphans}
      /\ PrepOrphans(l, FALSE).gdisk = l.gdisk /\ PrepOrphans(l, FALSE).gdelta = l.gdelta
  BY <1>1 DEF Globals, PrepOrphans
<1> QED BY <1>2, <1>3, <1>4

(* The types of the present state's parts.                                 *)
LEMMA NowIs ==
  ASSUME Inv, Held \in SUBSET Pair
  PROVE  /\ Now \in States /\ Now.disk = disk /\ Now.lfs = lfs /\ Now.held = Held
         /\ Now.ok = TRUE /\ Now.told = {}
BY DEF Now, States, Inv, CardOK, GlobalOK

(* Now, with other global state in lfs_t.                                  *)
LEMMA CleanNow ==
  ASSUME Inv, Held = {}, Known, NEW l \in Globals, l.gdisk = lfs.gdisk, l.gdelta = {},
         NEW s, s = SetLfs(Now, l)
  PROVE  /\ Clean(s) /\ s.disk = disk /\ s.lfs = l /\ s.held = {}
         /\ s.ok = TRUE /\ s.told = {}
<1>1. Held \in SUBSET Pair
  OBVIOUS
<1>3. /\ s \in States /\ s.disk = disk /\ s.lfs = l /\ s.held = {}
      /\ s.ok = TRUE /\ s.told = {}
  <2>1. /\ Now \in States /\ Now.disk = disk /\ Now.lfs = lfs /\ Now.held = {}
        /\ Now.ok = TRUE /\ Now.told = {}
    BY <1>1, NowIs
  <2> QED BY <2>1, WithLfs
<1>4. Threaded(disk) /\ Filled(disk) /\ lfs.gdisk = OnCard(disk)
  BY DEF Inv, CardOK, Known
<1> QED BY <1>3, <1>4 DEF Clean

SetSeen(h, x) == [h EXCEPT !.seen = x]
SetDue(h, x) == [h EXCEPT !.due = x]
SetKind(h, x) == [h EXCEPT !.kind = x]

(* A handle that has seen other entries.                                   *)
LEMMA WithSeen ==
  ASSUME NEW h, Hand(h), NEW x, NEW n, n = SetSeen(h, x)
  PROVE  LikeHand(n, h) /\ n.due = h.due
BY DEF Hand, LikeHand, SetSeen

(* A handle that has other entries to see.                                 *)
LEMMA WithDue ==
  ASSUME NEW h, Hand(h), NEW x, NEW n, n = SetDue(h, x)
  PROVE  LikeHand(n, h)
BY DEF Hand, LikeHand, SetDue

(* A handle of another kind.                                               *)
LEMMA WithKind ==
  ASSUME NEW h, Hand(h), NEW x, NEW n, n = SetKind(h, x)
  PROVE  Hand(n) /\ n.kind = x
BY DEF Hand, LikeHand, SetKind

(* History does not move a handle.                                         *)
LEMMA RememberIs ==
  ASSUME NEW h, NEW d, Follows(h, d), NEW o, NEW n, n = Remember(h, o)
  PROVE  Follows(n, d) /\ (n.kind = "reg" => h.kind = "reg")
<1>1. CASE h.kind # "dir"
  BY <1>1, Zenon DEF Remember
<1>2. CASE h.kind = "dir"
  <2>1. PICK S, D, K : n = [h EXCEPT !.seen = S, !.due = D, !.kind = K] /\ K \in {"dir", "astray"}
    <3> DEFINE S == h.seen \cap {<<e.name, e.node>> : e \in Inside(o.disk, o.lfs.gdisk, h.head)}
               D == h.due \cap {<<e.name, e.node>> : e \in Inside(o.disk, o.lfs.gdisk, h.head)}
               R == (Ahead(h) \ Listed(disk)) \cap (Listed(o.disk) \cup o.held)
               K == IF R = {} THEN h.kind ELSE "astray"
    <3>1. n = [h EXCEPT !.seen = S, !.due = D, !.kind = K]
      BY <1>2, Zenon DEF Remember
    <3>2. K \in {"dir", "astray"}
      BY <1>2
    <3> HIDE DEF S, D, K
    <3> QED BY <3>1, <3>2, Zenon
  <2>2. PICK a : a = SetSeen(h, S)
    OBVIOUS
  <2>3. PICK b : b = SetDue(a, D)
    OBVIOUS
  <2>4. n = SetKind(b, K)
    BY <2>1, <2>2, <2>3, Zenon DEF SetSeen, SetDue, SetKind
  <2>5. Hand(h)
    BY DEF Follows
  <2>6. Hand(a)
    BY <2>2, <2>5, WithSeen DEF LikeHand
  <2>7. Hand(b)
    BY <2>3, <2>6, WithDue DEF LikeHand
  <2>8. Hand(n) /\ n.kind = K
    BY <2>4, <2>7, WithKind
  <2> QED BY <2>1, <2>8 DEF Follows, Kinds
<1> QED BY <1>1, <1>2

(* A state that has come of a commit.                                      *)
Landed(o) ==
  /\ CardOK(o.disk, OnCard(o.disk)) /\ o.lfs \in Globals /\ o.lfs.gdisk = OnCard(o.disk)
  /\ o.lfs.gdelta = {} /\ Moves(o.lfs.gstate) = Moves(o.lfs.gdisk)
  /\ Orphans \in o.lfs.gstate => Orphans \in o.lfs.gdisk
Carried(o, p, attrs) ==
  /\ Len(attrs) \in Nat
  /\ \A h : Follows(h, disk) => Follows(FixUp(h, o, p, attrs), o.disk)

(* The handles after a step that has committed.                            *)
LEMMA AppliedHandle ==
  ASSUME Inv, NEW o, NEW p, NEW attrs, Carried(o, p, attrs), Apply(o, p, attrs)
  PROVE  Follows(handle', disk') /\ (handle'.kind = "reg" => handle.kind = "reg")
<1>1. disk' = o.disk
  BY DEF Apply
<1>2. Follows(handle, disk)
  BY DEF Inv, HandleOK
<1>3. PICK m : m = Remember(handle, o)
  OBVIOUS
<1>4. Follows(m, disk) /\ (m.kind = "reg" => handle.kind = "reg")
  BY <1>2, <1>3, RememberIs
<1>5. handle' = FixUp(m, o, p, attrs)
  BY <1>3, Zenon DEF Apply
<1>6. Follows(handle', disk')
  BY <1>1, <1>4, <1>5 DEF Carried
<1>7. LikeHand(handle', m)
  <2>1. Hand(m) /\ Len(attrs) \in Nat
    BY <1>4 DEF Follows, Carried
  <2>2. PICK n : n = FixUp(m, o, p, attrs)
    OBVIOUS
  <2>3. LikeHand(n, m)
    BY <2>1, <2>2, FixUpKind
  <2> QED BY <1>5, <2>2, <2>3
<1> QED BY <1>4, <1>6, <1>7 DEF LikeHand

(* A step that has committed leaves the card in order, lfs_t in the know,  *)
(* and the handles with their files.                                       *)
LEMMA Applied ==
  ASSUME Inv, NEW o, NEW p, NEW attrs, Landed(o), Carried(o, p, attrs), Apply(o, p, attrs)
  PROVE  /\ CardOK(disk', OnCard(disk')) /\ GlobalOK' /\ Known'
         /\ Follows(handle', disk') /\ (handle'.kind = "reg" => handle.kind = "reg")
<1>1. disk' = o.disk /\ lfs' = o.lfs
  BY DEF Apply
<1>2. CardOK(disk', OnCard(disk')) /\ GlobalOK' /\ Known'
  BY <1>1 DEF Landed, GlobalOK, Known
<1> QED BY <1>2, AppliedHandle

(* What becomes of a handle depends on the card alone.                     *)
LEMMA SameFixUp ==
  ASSUME NEW o, NEW k, k.disk = o.disk, k.told = o.told, NEW h, NEW p, NEW attrs
  PROVE  FixUp(h, k, p, attrs) = FixUp(h, o, p, attrs)
BY DEF FixUp

(* Its global state without an orphan, where there is no move.             *)
LEMMA LandedCleared ==
  ASSUME NEW o, o \in States, Landed(o), Moves(o.lfs.gdisk) = {}, NEW k,
         k = SetLfs(o, PrepOrphans(o.lfs, FALSE)), NEW p, NEW attrs, Carried(o, p, attrs)
  PROVE  /\ Landed(k) /\ Carried(k, p, attrs) /\ k.disk = o.disk
         /\ k.lfs.gstate = {} /\ k.lfs.gdisk = o.lfs.gdisk /\ k.ok = o.ok
<1>1. PICK l : l = PrepOrphans(o.lfs, FALSE)
  OBVIOUS
<1>2. o.lfs \in Globals
  BY DEF Landed
<1>3. l \in Globals /\ l.gstate = o.lfs.gstate \ {Orphans} /\ l.gdisk = o.lfs.gdisk /\ l.gdelta = o.lfs.gdelta
  BY <1>1, <1>2, PrepIs
<1>4. k = SetLfs(o, l)
  BY <1>1
<1>5. k.disk = o.disk /\ k.lfs = l /\ k.told = o.told /\ k.ok = o.ok
  <2>1. l \in Globals
    BY <1>3
  <2>2. o \in States
    OBVIOUS
  <2> QED BY ONLY <1>4, <2>1, <2>2, WithLfs
<1>6. l.gstate = {}
  BY <1>3 DEF Landed, Moves
<1>7. Landed(k)
  BY <1>3, <1>5, <1>6 DEF Landed, Moves
<1>8. Carried(k, p, attrs)
  <2>1. Len(attrs) \in Nat
    BY DEF Carried
  <2>2. ASSUME NEW h, Follows(h, disk) PROVE Follows(FixUp(h, k, p, attrs), k.disk)
    <3>1. Follows(FixUp(h, o, p, attrs), o.disk)
      BY <2>2 DEF Carried
    <3>2. FixUp(h, k, p, attrs) = FixUp(h, o, p, attrs)
      BY <1>5 DEF FixUp
    <3> QED BY <1>5, <3>1, <3>2
  <2> QED BY <2>1, <2>2 DEF Carried
<1> QED BY <1>3, <1>5, <1>6, <1>7, <1>8

------------------------------------------------------------------------------
(* The steps that commit nothing, and the power loss.                      *)

(* Whatever a path leads to is a directory of the list.                    *)
LEMMA BelowIs ==
  ASSUME NEW d, NEW c, CardOK(d, c), NEW g, NEW h \in Heads(d)
  PROVE  Below(d, g, h) \in SUBSET Heads(d)
<1> DEFINE S == SUBSET Heads(d)
           Step(r) == r \cup ({e.node : e \in UNION {Inside(d, g, p) : p \in r}} \cap Pair)
           F == [r \in S |-> Step(r)]
           Is(f) == f = [n \in 0 .. Count |-> IF n = 0 THEN {h} ELSE Step(f[n - 1])]
           at == CHOOSE f : Is(f)
<1>1. Below(d, g, h) = at[Count]
  BY DEF Below, Count
<1>2. /\ d \in Disks /\ Short(d) /\ Listed(d) \in SUBSET Pair /\ Heads(d) \in SUBSET Listed(d)
      /\ \A x : NameCount(d, x) \in Nat
  BY CardIs
<1>3. ASSUME NEW r \in S PROVE Step(r) \in S
  <2>1. ASSUME NEW p \in r, NEW e \in Inside(d, g, p), e.node \in Pair PROVE e.node \in Heads(d)
    <3>1. Chain(d, p) \subseteq Listed(d)
      BY <1>2, ChainIsListed
    <3>2. PICK q \in Chain(d, p) : e \in Shown(d, g, q)
      BY <2>1 DEF Inside
    <3>3. q \in Listed(d) /\ q \in Pair
      BY <1>2, <3>1, <3>2
    <3>4. PICK i \in DOMAIN d[q].ents : e = d[q].ents[i]
      BY <3>2 DEF Shown, Visible
    <3>5. i \in 1 .. Len(d[q].ents)
      BY <1>2, <3>3, <3>4, DiskType
    <3>6. <<q, i>> \in Namers(d, e.node)
      BY <1>2, <3>3, <3>4, <3>5, NamerIs
    <3>7. NameCount(d, e.node) # 0
      BY <3>6, NoNames
    <3> QED BY <1>2, <2>1, <3>7 DEF CardOK, NamesOK
  <2> QED BY <2>1
<1> HIDE DEF Step
<1>4. F \in [S -> S] /\ {h} \in S
  BY <1>3
<1>5. PICK f : Repeats(f, S, {h}, F, Count)
  <2> HIDE DEF S, F
  <2> QED BY <1>4, PairsAreFinite, Iterates
<1>6. f \in [0 .. Count -> S] /\ f[0] = {h} /\ \A k \in 1 .. Count : f[k] = F[f[k - 1]]
  <2> HIDE DEF S, F
  <2> QED BY <1>5 DEF Repeats
<1>7. ASSUME NEW k \in 0 .. Count PROVE f[k] = IF k = 0 THEN {h} ELSE Step(f[k - 1])
  <2>1. CASE k = 0
    BY <1>6, <2>1
  <2>2. CASE k # 0
    <3>1. k - 1 \in 0 .. Count /\ k \in 1 .. Count
      BY <2>2, PairsAreFinite
    <3>2. f[k] = F[f[k - 1]] /\ f[k - 1] \in S
      <4> HIDE DEF F, S
      <4> QED BY <1>6, <3>1
    <3>3. F[f[k - 1]] = Step(f[k - 1])
      <4> HIDE DEF S
      <4> QED BY <3>2
    <3> HIDE DEF F, S
    <3> QED BY <2>2, <3>2, <3>3
  <2> QED BY <2>1, <2>2
<1>8. Is(f)
  <2>1. f = [k \in 0 .. Count |-> f[k]]
    BY <1>6
  <2> HIDE DEF F, S
  <2> QED BY <1>7, <2>1, Zenon
<1>9. Is(at)
  <2> HIDE DEF Is
  <2> QED BY <1>8, Zenon
<1>10. \A k \in 0 .. Count : at[k] = IF k = 0 THEN {h} ELSE Step(at[k - 1])
  <2>1. at = [n \in 0 .. Count |-> IF n = 0 THEN {h} ELSE Step(at[n - 1])]
    <3> HIDE DEF at
    <3> QED BY <1>9
  <2> HIDE DEF at
  <2> QED BY <2>1
<1> DEFINE T == {k \in 0 .. Count : at[k] \in S}
<1> HIDE DEF at, F, S
<1>11. 0 \in T /\ T \in SUBSET (0 .. Count)
  BY <1>4, <1>10, PairsAreFinite
<1>12. ASSUME NEW k \in 1 .. Count, k - 1 \in T PROVE k \in T
  <2>1. k \in 0 .. Count /\ k # 0 /\ at[k - 1] \in S
    BY <1>12, PairsAreFinite
  <2> QED BY <1>3, <1>10, <2>1
<1>13. T = 0 .. Count
  <2> HIDE DEF T
  <2> QED BY <1>11, <1>12, UpTo, PairsAreFinite
<1>14. at[Count] \in S
  BY <1>13, PairsAreFinite
<1> QED BY <1>1, <1>14 DEF S

(* Any directory that a path leads to is one of the list.                  *)
LEMMA DirsIs ==
  ASSUME Inv
  PROVE  Dirs \in SUBSET Listed(disk) /\ Dirs \in SUBSET Heads(disk)
<1>1. /\ CardOK(disk, OnCard(disk)) /\ Root \in Heads(disk)
      /\ Heads(disk) \in SUBSET Listed(disk)
  BY CardIs DEF Inv, Heads
<1>2. Below(disk, lfs.gdisk, Root) \in SUBSET Heads(disk)
  BY <1>1, BelowIs
<1> QED BY <1>1, <1>2 DEF Dirs

(* A call may begin only when no entry has been moved away and no          *)
(* directory is an orphan.                                                 *)
LEMMA ReadyIs ==
  ASSUME Inv, Ready
  PROVE  /\ Known /\ Held = {} /\ Moves(lfs.gdisk) = {} /\ Moves(OnCard(disk)) = {}
         /\ lfs.gstate = {} /\ Orphaned(disk) = {} /\ lfs.gdisk \subseteq {Orphans}
<1>1. op.at \in {"idle", "ready"}
  BY DEF Ready
<1>2. Held = {}
  BY <1>1 DEF Held
<1>3. lfs.gstate \subseteq {Orphans} \cup Moves(lfs.gstate) /\ lfs.gdisk \subseteq {Orphans} \cup Moves(lfs.gdisk)
  BY DEF Moves
<1>4. Moves(lfs.gstate) = Moves(lfs.gdisk) /\ Moves(lfs.gdisk) = Moves(OnCard(disk))
  BY DEF Inv, GlobalOK
<1>5. CASE op.at = "ready"
  <2>1. Known /\ lfs.gstate = {} /\ Orphaned(disk) = {}
    BY <1>5 DEF Inv, OpOK
  <2>2. Moves(lfs.gstate) = {}
    BY <2>1 DEF Moves
  <2> QED BY <1>2, <1>3, <1>4, <2>1, <2>2
<1>6. CASE op.at = "idle" /\ Consistent
  <2>1. Known /\ (Orphaned(disk) # {} => Orphans \in lfs.gstate)
    BY <1>6 DEF Inv, OpOK
  <2>2. Moves(lfs.gdisk) = {} /\ Orphans \notin lfs.gstate
    BY <1>6 DEF Consistent, HasMove, Moves
  <2>3. lfs.gstate = {}
    BY <1>3, <1>4, <2>2
  <2> QED BY <1>2, <1>3, <1>4, <2>1, <2>2, <2>3
<1> QED BY <1>5, <1>6 DEF Ready

(* No handle follows anything.                                             *)
LEMMA FollowsNone ==
  ASSUME NEW d
  PROVE  Follows(NoHandle, d) /\ NoHandle.kind = "none"
BY DEF Follows, NoHandle, Hand, Kinds

(* A call that refuses its arguments keeps the invariant.                  *)
LEMMA RefuseInv ==
  ASSUME Inv, Refuse
  PROVE  Inv'
<1>1. op.at = "ready" /\ UNCHANGED <<disk, lfs, handle, calls>> /\ op' = Idle /\ result' = "error"
  BY DEF Refuse, Return
<1>2. Known /\ Orphaned(disk) = {}
  BY <1>1 DEF Inv, OpOK
<1>3. CardOK(disk', OnCard(disk')) /\ GlobalOK' /\ OthersOK'
  BY <1>1 DEF Inv, GlobalOK, OthersOK
<1>4. OpOK'
  BY <1>1, <1>2 DEF OpOK, Idle, Known
<1>5. HandleOK'
  BY <1>1, <1>2 DEF Inv, HandleOK
<1> QED BY <1>3, <1>4, <1>5 DEF Inv

(* A close keeps the invariant.                                            *)
LEMMA CloseInv ==
  ASSUME Inv, Close
  PROVE  Inv'
<1>1. op.at = "idle" /\ handle' = NoHandle /\ UNCHANGED <<disk, lfs, op, call, result, calls>>
  BY DEF Close
<1>2. CardOK(disk', OnCard(disk')) /\ GlobalOK' /\ OthersOK'
  BY <1>1 DEF Inv, GlobalOK, OthersOK
<1>3. OpOK'
  <2>1. op.at = "idle" /\ Known /\ (Orphaned(disk) # {} => Orphans \in lfs.gstate)
    BY <1>1 DEF Inv, OpOK
  <2> QED BY <1>1, <2>1 DEF OpOK, Known
<1>4. HandleOK'
  BY <1>1, FollowsNone DEF HandleOK
<1> QED BY <1>2, <1>3, <1>4 DEF Inv

(* An idle step that leaves the card and lfs_t alone.                      *)
LEMMA IdleKeeps ==
  ASSUME Inv, op.at = "idle", op'.at = "idle", UNCHANGED <<disk, lfs, calls>>,
         result' \in {"none", "ok", "error", "lost", "read", "end", "unreadable"},
         Follows(handle', disk'), handle'.kind # "reg"
  PROVE  Inv'
<1>1. UNCHANGED <<disk, lfs, calls>>
  OBVIOUS
<1>2. CardOK(disk', OnCard(disk')) /\ GlobalOK' /\ OthersOK'
  BY <1>1 DEF Inv, GlobalOK, OthersOK
<1>3. OpOK'
  <2>1. op.at = "idle" /\ Known /\ (Orphaned(disk) # {} => Orphans \in lfs.gstate)
    BY DEF Inv, OpOK
  <2> QED BY <1>1, <2>1 DEF OpOK, Known
<1>4. HandleOK'
  BY DEF HandleOK
<1> QED BY <1>2, <1>3, <1>4 DEF Inv

(* lfs_dir_open keeps the invariant.                                       *)
LEMMA OpenDirInv ==
  ASSUME Inv, OpenDir
  PROVE  Inv'
<1>1. op.at = "idle" /\ UNCHANGED <<disk, lfs, op, call, result, calls>>
  BY SMTT(30) DEF OpenDir
<1>2. PICK h \in Dirs : handle' = Copy([NoHandle EXCEPT
         !.kind = "dir", !.pair = h, !.head = h, !.id = 1,
         !.due = {<<e.name, e.node>> : e \in Inside(disk, lfs.gdisk, h)}],
         disk, h)
  BY DEF OpenDir
<1>3. PICK D : D = {<<e.name, e.node>> : e \in Inside(disk, lfs.gdisk, h)}
  OBVIOUS
<1>4. PICK a : a = [NoHandle EXCEPT !.kind = "dir", !.pair = h, !.head = h, !.id = 1, !.due = D]
  OBVIOUS
<1>5. Hand(a) /\ a.kind = "dir"
  BY <1>4 DEF NoHandle, Hand
<1>6. handle' = Copy(a, disk, h)
  BY <1>2, <1>3, <1>4, Zenon
<1>7. LikeHand(handle', a)
  BY <1>5, <1>6, CopyIs
<1>8. Follows(handle', disk') /\ handle'.kind # "reg"
  BY <1>5, <1>7 DEF Follows, LikeHand, Kinds
<1>9. result' \in {"none", "ok", "error", "lost", "read", "end", "unreadable"}
  BY <1>1 DEF Inv, OthersOK
<1>10. op'.at = "idle"
  BY <1>1
<1> QED BY <1>1, <1>8, <1>9, <1>10, IdleKeeps

(* A power loss, and the mount after it, keep the invariant: whatever the  *)
(* call had got to, what is on the card is a state in which the next one   *)
(* can begin.                                                              *)
LEMMA PowerLossInv ==
  ASSUME Inv, PowerLoss
  PROVE  Inv'
<1>1. /\ lfs' = [gstate |-> OnCard(disk), gdisk |-> OnCard(disk), gdelta |-> {}]
      /\ handle' = NoHandle /\ op' = Idle /\ result' = "lost" /\ UNCHANGED <<disk, calls>>
  BY DEF PowerLoss, Return
<1>2. CardOK(disk, OnCard(disk)) /\ OnCard(disk) \in SUBSET Token
  BY DEF Inv, CardOK
<1>3. CardOK(disk', OnCard(disk')) /\ OthersOK'
  BY <1>1, <1>2 DEF Inv, OthersOK
<1>4. GlobalOK' /\ Known'
  BY <1>1, <1>2 DEF GlobalOK, Known, Globals
<1>5. OpOK'
  BY <1>1, <1>2, <1>4 DEF OpOK, Idle, CardOK, OrphansOK
<1>6. HandleOK'
  BY <1>1, FollowsNone DEF HandleOK
<1> QED BY <1>3, <1>4, <1>5, <1>6 DEF Inv

(* The pairs that lfs_dir_read goes through.                               *)
Seeks(g, h) ==
  /\ g[0] = Crossed(h, disk)
  /\ \A j \in 1 .. Count : g[j] = Crossed(Skipped(g[j - 1]), disk)
LEMMA SoughtSteps ==
  ASSUME NEW h
  PROVE  \E g : Seeks(g, h) /\ Sought(h) = g[Count]
<1> DEFINE Step(r) == Crossed(Skipped(r), disk)
           Steps(g, k) == g[0] = Crossed(h, disk) /\ \A j \in 1 .. k : g[j] = Step(g[j - 1])
           at == CHOOSE g : g = [j \in 0 .. Count |-> IF j = 0 THEN Crossed(h, disk) ELSE Step(g[j - 1])]
           T == {k \in 0 .. Count : \E g : Steps(g, k)}
<1> HIDE DEF Step
<1>1. Count \in T
  <2>1. 0 \in T
    <3>1. Steps([j \in {0} |-> Crossed(h, disk)], 0)
      OBVIOUS
    <3>2. \E g : Steps(g, 0)
      BY <3>1, Zenon
    <3> HIDE DEF Steps
    <3> QED BY <3>2, PairsAreFinite
  <2>2. ASSUME NEW k \in 1 .. Count, k - 1 \in T PROVE k \in T
    <3>1. PICK g : Steps(g, k - 1)
      BY <2>2
    <3>2. Steps([j \in 0 .. k |-> IF j = k THEN Step(g[k - 1]) ELSE g[j]], k)
      BY <3>1, PairsAreFinite
    <3>3. \E f : Steps(f, k)
      <4> HIDE DEF Steps
      <4> QED BY <3>2, Zenon
    <3> HIDE DEF Steps
    <3> QED BY <3>3
  <2> HIDE DEF T
  <2>3. T \in SUBSET (0 .. Count)
    BY DEF T
  <2>4. T = 0 .. Count
    BY <2>1, <2>2, <2>3, PairsAreFinite, UpTo
  <2> QED BY <2>4, PairsAreFinite
<1>2. PICK g : Steps(g, Count)
  BY <1>1
<1>3. [j \in 0 .. Count |-> g[j]] = [j \in 0 .. Count |->
         IF j = 0 THEN Crossed(h, disk) ELSE Step([i \in 0 .. Count |-> g[i]][j - 1])]
  BY <1>2, PairsAreFinite
<1>4. at = [j \in 0 .. Count |-> IF j = 0 THEN Crossed(h, disk) ELSE Step(at[j - 1])]
  <2>1. \E f : f = [j \in 0 .. Count |-> IF j = 0 THEN Crossed(h, disk) ELSE Step(f[j - 1])]
    BY <1>3, Zenon
  <2> QED BY <2>1, Zenon
<1>5. Sought(h) = at[Count]
  BY Zenon DEF Sought, Step, Count
<1> HIDE DEF at
<1>6. at[0] = Crossed(h, disk) /\ \A j \in 1 .. Count : at[j] = Step(at[j - 1])
  BY <1>4, PairsAreFinite
<1>7. Seeks(at, h)
  BY <1>6 DEF Seeks, Step
<1> QED BY <1>5, <1>7

(* Seeking changes nothing but the place of an open directory.             *)
LEMMA SoughtIs ==
  ASSUME NEW h, Hand(h)
  PROVE  LikeHand(Sought(h), h)
<1>1. PICK g : Seeks(g, h) /\ Sought(h) = g[Count]
  BY SoughtSteps
<1>2. ASSUME NEW r, LikeHand(r, h) PROVE LikeHand(Crossed(Skipped(r), disk), h)
  <2>1. PICK s : s = Skipped(r)
    OBVIOUS
  <2>2. LikeHand(s, r)
    <3>1. s = r \/ s = SetId(r, r.id + 1)
      BY <2>1, Zenon DEF Skipped, SetId
    <3>2. Hand(r)
      BY <1>2 DEF LikeHand
    <3> QED BY <3>1, <3>2, WithId DEF LikeHand
  <2>3. PICK c : c = Crossed(s, disk)
    OBVIOUS
  <2>4. LikeHand(c, s)
    BY <2>2, <2>3, CrossedIs DEF LikeHand
  <2> QED BY <1>2, <2>1, <2>2, <2>3, <2>4 DEF LikeHand
<1> DEFINE L == {k \in 0 .. Count : LikeHand(g[k], h)}
<1>3. 0 \in L
  <2>1. PICK c : c = Crossed(h, disk)
    OBVIOUS
  <2>2. LikeHand(c, h)
    BY <2>1, CrossedIs
  <2> QED BY <1>1, <2>1, <2>2, PairsAreFinite DEF Seeks
<1>4. ASSUME NEW k \in 1 .. Count, k - 1 \in L PROVE k \in L
  BY <1>1, <1>2, <1>4, PairsAreFinite DEF Seeks
<1>5. L = 0 .. Count
  <2>1. L \in SUBSET (0 .. Count)
    OBVIOUS
  <2> HIDE DEF L
  <2> QED BY <1>3, <1>4, <2>1, PairsAreFinite, UpTo
<1> QED BY <1>1, <1>5, PairsAreFinite

(* lfs_dir_read keeps the invariant.                                       *)
LEMMA ReadDirInv ==
  ASSUME Inv, ReadDir
  PROVE  Inv'
<1>1. op.at = "idle" /\ handle.kind \in {"dir", "astray"} /\ UNCHANGED <<disk, lfs, calls>>
  BY DEF ReadDir
<1>2. PICK h : h = Sought(handle)
  OBVIOUS
<1>3. Hand(handle)
  BY DEF Inv, HandleOK, Follows
<1>4. LikeHand(h, handle)
  BY <1>2, <1>3, SoughtIs
<1>5. op' = Idle /\ result' \in {"end", "unreadable", "read"}
  BY DEF ReadDir, Return
<1>6. Hand(handle') /\ handle'.kind = handle.kind
  <2>1. \/ handle' = h
        \/ \E r : handle' = [h EXCEPT !.id = @ + 1, !.seen = @ \cup {r}, !.due = @ \ {r}]
    BY <1>2, Zenon DEF ReadDir
  <2>2. CASE handle' = h
    BY <1>4, <2>2 DEF LikeHand
  <2>3. ASSUME NEW r, handle' = [h EXCEPT !.id = @ + 1, !.seen = @ \cup {r}, !.due = @ \ {r}]
        PROVE  Hand(handle') /\ handle'.kind = handle.kind
    <3>1. PICK i, S, D : i = h.id + 1 /\ S = h.seen \cup {r} /\ D = h.due \ {r}
      OBVIOUS
    <3>2. PICK a : a = SetId(h, i)
      OBVIOUS
    <3>3. PICK b : b = SetSeen(a, S)
      OBVIOUS
    <3>4. LikeHand(a, h)
      BY <1>4, <3>2, WithId DEF LikeHand
    <3>5. LikeHand(b, a)
      BY <3>3, <3>4, WithSeen DEF LikeHand
    <3>6. a.seen = h.seen /\ b.due = h.due
      BY <1>4, <3>2, <3>3 DEF LikeHand, Hand, SetId, SetSeen
    <3>7. handle' = SetDue(b, D)
      BY <2>3, <3>1, <3>2, <3>3, <3>6, Zenon DEF SetId, SetSeen, SetDue
    <3>8. LikeHand(handle', b)
      BY <3>5, <3>7, WithDue DEF LikeHand
    <3> QED BY <1>4, <3>4, <3>5, <3>8 DEF LikeHand
  <2> QED BY <2>1, <2>2, <2>3
<1>7. Follows(handle', disk') /\ handle'.kind # "reg"
  BY <1>1, <1>6 DEF Follows, Kinds
<1> QED BY <1>1, <1>5, <1>7, IdleKeeps DEF Idle

(* The open file's entry is written again.                                 *)
LEMMA SyncFileInv ==
  ASSUME Sure, Inv, SyncFile
  PROVE  Inv'
<1>1. op.at = "idle" /\ handle.kind = "reg" /\ handle.pair # NoPair /\ UNCHANGED calls
  BY DEF SyncFile
<1>2. PICK o \in Put(Now, handle.pair, disk[handle.pair]) :
        Apply(o, handle.pair, <<>>) /\ Return(IF o.ok THEN "ok" ELSE "error")
  BY DEF SyncFile
<1> DEFINE p == handle.pair
<1>3. /\ Follows(handle, disk) /\ Moves(lfs.gdisk) = {} /\ Moves(lfs.gstate) = {}
      /\ Points(handle, disk) /\ p \in Listed(disk)
  BY <1>1 DEF Inv, HandleOK, Follows, GlobalOK, Points
<1>4. Known /\ Held = {} /\ (Orphaned(disk) # {} => Orphans \in lfs.gstate)
  BY <1>1 DEF Inv, OpOK, Held
<1>5. CardOK(disk, OnCard(disk)) /\ lfs \in Globals /\ lfs.gdelta = {} /\ lfs.gdisk = OnCard(disk)
  BY <1>4 DEF Inv, GlobalOK, Known
<1>6. /\ Now \in States /\ Now.disk = disk /\ Now.lfs = lfs /\ Now.held = {} /\ Now.ok = TRUE /\ Now.told = {}
  BY <1>4, NowIs
<1>7. Clean(Now)
  BY <1>5, <1>6 DEF Clean, CardOK
<1>8. /\ disk \in Disks /\ disk[p] \in Content /\ Short(disk) /\ Heads(disk) \in SUBSET Listed(disk)
      /\ Listed(disk) \in SUBSET Pair /\ p \in Pair
  BY <1>3, <1>5, CardIs
<1>9. PICK x, m, d : x = disk[p].ents /\ m = SetEnts(disk[p], x) /\ d = SetPair(disk, p, m)
  OBVIOUS
<1>10. EditTo(Now, p, x, m, d)
  <2>1. x \in Seq(Entry) /\ Len(x) <= Full + 1
    BY <1>8, <1>9, ContentIs DEF Short
  <2> QED BY <1>3, <1>6, <1>7, <1>9, <2>1 DEF EditTo
<1>11. o \in Put(Now, p, m)
  <2>1. m = disk[p]
    BY <1>8, <1>9 DEF Content, SetEnts
  <2> QED BY <1>2, <2>1
<1> HIDE DEF p
<1>12. /\ EditDone(Now, p, d, o) /\ d \in Disks /\ d[p].ents = x /\ Edited(disk, d, p)
       /\ \A h, attrs : Len(attrs) \in Nat /\ Kept(Now, p, d, o, h, attrs) =>
            Follows(FixUp(h, o, p, attrs), o.disk)
  BY <1>6, <1>10, <1>11, EditCommits
<1>13. /\ Clean(o) /\ o.lfs.gstate = lfs.gstate /\ o.lfs.gdisk = lfs.gstate /\ o.ok
       /\ Heads(o.disk) = Heads(disk) /\ Listed(d) = Listed(disk)
       /\ (\A y : NameCount(o.disk, y) = NameCount(d, y))
       /\ \A q \in Listed(disk) \ {p} : o.disk[q] = disk[q]
  BY <1>6, <1>12 DEF EditDone
<1>14. \A r \in Pair : d[r].ents = disk[r].ents
  BY <1>9, <1>12 DEF Edited
<1>15. ASSUME NEW y PROVE NameCount(o.disk, y) = NameCount(disk, y)
  BY <1>8, <1>12, <1>13, <1>14, SameNames
<1>16. Orphaned(o.disk) = Orphaned(disk)
  BY <1>13, <1>15 DEF Orphaned
<1>17. Landed(o) /\ OnCard(o.disk) = lfs.gstate
  <2>1. ASSUME NEW y \in Pair
        PROVE  /\ NameCount(o.disk, y) # 0 => y \in Heads(o.disk) \ {Root}
               /\ ~(NameCount(o.disk, y) >= 2)
    <3>1. NameCount(disk, y) \in {0, 1} /\ (NameCount(disk, y) # 0 => y \in Heads(disk) \ {Root})
      BY <1>3, <1>5, OneNamed
    <3> QED BY <1>13, <1>15, <3>1
  <2>2. OrphansOK(o.disk, o.lfs.gdisk)
    <3>1. ASSUME NEW h \in Orphaned(disk) PROVE Bare(o.disk, h)
      <4>1. h \in Listed(disk) /\ Bare(disk, h)
        BY <1>5, <1>8 DEF Orphaned, CardOK, OrphansOK
      <4>2. h # p
        <5>1. Len(disk[p].ents) # 0
          BY <1>3, <1>8, ContentIs DEF Points, p
        <5> QED BY <4>1, <5>1 DEF Bare
      <4> QED BY <1>13, <4>1, <4>2 DEF Bare
    <3> QED BY <1>4, <1>5, <1>13, <1>16, <3>1 DEF OrphansOK, CardOK
  <2>3. CardOK(o.disk, OnCard(o.disk)) /\ OnCard(o.disk) = o.lfs.gdisk
    BY <1>3, <1>13, <2>1, <2>2, CardIsOK
  <2>4. o.lfs \in Globals /\ o.lfs.gdelta = {}
    BY <1>13, CleanIs DEF Clean
  <2> QED BY <1>13, <2>3, <2>4 DEF Landed
<1>18. Carried(o, p, <<>>)
  <2>1. Len(<<>>) \in Nat /\ Len(<<>>) = 0
    OBVIOUS
  <2>2. ASSUME NEW h, Follows(h, disk) PROVE Kept(Now, p, d, o, h, <<>>)
    <3>1. ASSUME Tracks(h, disk, p), h.pair # NoPair PROVE Tracks(Shifted(h, <<>>), d, p)
      <4>1. Shifted(h, <<>>) = h
        BY <2>1, ShiftedIs
      <4>2. Hand(h) /\ h.kind = "reg" /\ h.pair = p /\ Points(h, disk)
        BY <3>1 DEF Tracks
      <4>3. Points(h, d)
        BY <1>8, <1>13, <1>14, <4>2 DEF Points
      <4> QED BY <4>1, <4>2, <4>3 DEF Tracks
    <3> QED BY <1>6, <2>2, <3>1 DEF Kept
  <2> QED BY <1>12, <2>1, <2>2 DEF Carried
<1>19. /\ CardOK(disk', OnCard(disk')) /\ GlobalOK' /\ Known'
       /\ Follows(handle', disk') /\ (handle'.kind = "reg" => handle.kind = "reg")
  BY <1>2, <1>17, <1>18, Applied DEF p
<1>20. disk' = o.disk /\ lfs' = o.lfs /\ op' = Idle /\ result' \in {"ok", "error"}
  BY <1>2 DEF Apply, Return
<1>21. OpOK'
  BY <1>4, <1>13, <1>16, <1>19, <1>20 DEF OpOK, Idle
<1>22. HandleOK'
  BY <1>3, <1>13, <1>19, <1>20 DEF HandleOK
<1>23. OthersOK'
  BY <1>1, <1>20 DEF Inv, OthersOK
<1> QED BY <1>19, <1>21, <1>22, <1>23 DEF Inv

------------------------------------------------------------------------------
(* Deletions, and the drops of orphans.                                    *)

(* A deletion leaves a state that a step can end in.                       *)
LEMMA DeletedLands ==
  ASSUME NEW s, s.disk = disk, NEW p, NEW i, NEW o, Deleted(s, p, i, o),
         CardOK(o.disk, OnCard(o.disk)), OnCard(o.disk) = s.lfs.gstate
  PROVE  /\ Landed(o) /\ Carried(o, p, <<Del(i)>>) /\ o \in States
         /\ o.lfs.gstate = s.lfs.gstate /\ o.lfs.gdisk = s.lfs.gstate /\ o.ok
<1>1. /\ Clean(o) /\ o.lfs.gstate = s.lfs.gstate /\ o.lfs.gdisk = s.lfs.gstate /\ o.ok
      /\ \A h : Follows(h, disk) => Follows(FixUp(h, o, p, <<Del(i)>>), o.disk)
  BY DEF Deleted
<1>2. o \in States /\ o.lfs \in Globals /\ o.lfs.gdelta = {}
  BY <1>1, CleanIs DEF Clean
<1>3. Landed(o)
  BY <1>1, <1>2 DEF Landed
<1>4. Len(<<Del(i)>>) \in Nat
  OBVIOUS
<1>5. Carried(o, p, <<Del(i)>>)
  BY <1>1, <1>4 DEF Carried
<1> QED BY <1>1, <1>2, <1>3, <1>5

(* What a step keeps of the invariant, and what is left to show.           *)
LEMMA InvIf ==
  ASSUME CardOK(disk', OnCard(disk')), GlobalOK', OpOK', Follows(handle', disk'),
         handle'.kind = "reg" => Moves(lfs'.gdisk) = {} \/ op'.at = "rename_delete",
         OthersOK'
  PROVE  Inv'
BY DEF Inv, HandleOK

(* lfs_fs_demove keeps the invariant.                                      *)
LEMMA DemoveInv ==
  ASSUME Sure, Inv, Demove
  PROVE  Inv'
<1>1. op.at = "idle" /\ HasMove(lfs.gdisk) /\ UNCHANGED calls
  BY DEF Demove
<1>2. PICK t \in lfs.gdisk \ {Orphans} :
        \E o \in Delete([Now EXCEPT !.lfs = PrepMove(@, {})], t[1], t[2]) :
         /\ Apply(o, t[1], <<Del(t[2])>>)
         /\ IF ~o.ok THEN Return("error")
            ELSE /\ op' = IF Orphans \in o.lfs.gstate
                          THEN [at |-> "deorphan", from |-> Root]
                          ELSE [at |-> "ready"]
                 /\ UNCHANGED <<call, result>>
  BY DEF Demove
<1>3. PICK o \in Delete([Now EXCEPT !.lfs = PrepMove(@, {})], t[1], t[2]) :
         /\ Apply(o, t[1], <<Del(t[2])>>)
         /\ IF ~o.ok THEN Return("error")
            ELSE /\ op' = IF Orphans \in o.lfs.gstate
                          THEN [at |-> "deorphan", from |-> Root]
                          ELSE [at |-> "ready"]
                 /\ UNCHANGED <<call, result>>
  BY <1>2
<1>4. Known /\ Held = {} /\ (Orphaned(disk) # {} => Orphans \in lfs.gstate)
  BY <1>1 DEF Inv, OpOK, Held
<1>5. /\ CardOK(disk, OnCard(disk)) /\ lfs \in Globals /\ lfs.gdelta = {} /\ lfs.gdisk = OnCard(disk)
      /\ OthersOK
  BY <1>4 DEF Inv, GlobalOK, Known
<1>6. t \in Moves(OnCard(disk)) /\ handle.kind # "reg"
  BY <1>1, <1>2, <1>5 DEF Moves, HasMove, Inv, HandleOK
<1>7. PICK l : l = PrepMove(lfs, {})
  OBVIOUS
<1>8. l \in Globals /\ l.gstate = lfs.gstate \cap {Orphans} /\ l.gdisk = lfs.gdisk /\ l.gdelta = {}
  <2>1. {} \in SUBSET Token
    OBVIOUS
  <2>2. /\ l \in Globals /\ l.gstate = (lfs.gstate \cap {Orphans}) \cup {}
        /\ l.gdisk = lfs.gdisk /\ l.gdelta = lfs.gdelta
    BY <1>5, <1>7, <2>1, PrepIs
  <2> QED BY <1>5, <2>2
<1>9. PICK s : s = SetLfs(Now, l)
  OBVIOUS
<1>10. Clean(s) /\ s.disk = disk /\ s.lfs = l /\ s.ok = TRUE /\ s.told = {}
  BY <1>4, <1>8, <1>9, CleanNow
<1>11. s = [Now EXCEPT !.lfs = PrepMove(@, {})]
  <2>1. Now.lfs = lfs
    BY DEF Now
  <2> QED BY <1>7, <1>9, <2>1, Zenon DEF SetLfs
<1>12. /\ t[1] \in Listed(disk) /\ t[2] \in 1 .. Len(disk[t[1]].ents)
  BY <1>5, <1>6 DEF CardOK, MovesOK
<1>13. Deleted(s, t[1], t[2], o)
  <2>1. o \in Delete(s, t[1], t[2])
    BY <1>3, <1>11
  <2> QED BY <1>10, <1>12, <2>1, DeleteIs
<1>14. Moves(l.gstate) = {} /\ (Orphaned(disk) # {} => Orphans \in l.gstate)
       /\ l.gstate \in {{}, {Orphans}}
  BY <1>4, <1>8 DEF Moves
<1>15. /\ CardOK(o.disk, OnCard(o.disk)) /\ OnCard(o.disk) = l.gstate
       /\ Orphaned(o.disk) = Orphaned(disk)
  BY <1>5, <1>6, <1>10, <1>13, <1>14, DemoveKeeps
<1>16. Landed(o) /\ Carried(o, t[1], <<Del(t[2])>>) /\ o.ok /\ o.lfs.gstate = l.gstate /\ o.lfs.gdisk = l.gstate
  BY <1>10, <1>13, <1>15, DeletedLands
<1>17. /\ CardOK(disk', OnCard(disk')) /\ GlobalOK' /\ Known'
       /\ Follows(handle', disk') /\ handle'.kind # "reg"
  BY <1>3, <1>6, <1>16, Applied
<1>18. disk' = o.disk /\ lfs' = o.lfs
  BY <1>3 DEF Apply
<1>19. OpOK'
  <2>1. CASE Orphans \in l.gstate
    <3>1. op' = [at |-> "deorphan", from |-> Root]
      BY <1>3, <1>16, <2>1
    <3>2. Root \in Listed(disk')
      BY <1>17, CardIs
    <3>3. lfs'.gstate = {Orphans}
      BY <1>14, <1>16, <1>18, <2>1
    <3> QED BY <1>17, <3>1, <3>2, <3>3 DEF OpOK
  <2>2. CASE Orphans \notin l.gstate
    <3>1. op' = [at |-> "ready"]
      BY <1>3, <1>16, <2>2
    <3>2. lfs'.gstate = {} /\ Orphaned(disk') = {}
      BY <1>14, <1>15, <1>16, <1>18, <2>2
    <3> QED BY <1>17, <3>1, <3>2 DEF OpOK
  <2> QED BY <2>1, <2>2
<1>20. OthersOK'
  BY <1>1, <1>3, <1>5, <1>16 DEF OthersOK
<1> QED BY <1>17, <1>19, <1>20, InvIf

(* Between calls, and where no pair is held back, the present state is     *)
(* clean.                                                                  *)
LEMMA NowClean ==
  ASSUME Inv, Held = {}, Known
  PROVE  /\ Clean(Now) /\ Now.disk = disk /\ Now.lfs = lfs /\ Now.held = {}
         /\ Now.ok = TRUE /\ Now.told = {} /\ Now \in States
<1>1. /\ Now \in States /\ Now.disk = disk /\ Now.lfs = lfs /\ Now.held = {}
      /\ Now.ok = TRUE /\ Now.told = {}
  BY NowIs
<1>2. CardOK(disk, OnCard(disk)) /\ lfs \in Globals /\ lfs.gdelta = {} /\ lfs.gdisk = OnCard(disk)
  BY DEF Inv, GlobalOK, Known
<1> QED BY <1>1, <1>2 DEF Clean, CardOK

(* The second commit of lfs_rename, which deletes the old entry, keeps the *)
(* invariant.                                                              *)
LEMMA RenameDeleteInv ==
  ASSUME Sure, Inv, RenameDelete
  PROVE  Inv'
<1>1. op.at = "rename_delete" /\ UNCHANGED calls
  BY DEF RenameDelete
<1>2. PICK o \in Delete([Now EXCEPT !.lfs = PrepMove(@, {})], op.pair, op.id) :
       IF o.ok /\ op.dir # NoPair
       THEN /\ Apply([o EXCEPT !.lfs = PrepOrphans(@, FALSE)], op.pair,
                     <<Del(op.id)>>)
            /\ op' = [at |-> "drop", dir |-> op.dir]
            /\ UNCHANGED <<call, result>>
       ELSE /\ Apply(o, op.pair, <<Del(op.id)>>)
            /\ Return(IF o.ok THEN "ok" ELSE "error")
  BY DEF RenameDelete
<1> DEFINE t == <<op.pair, op.id>>
<1>3. /\ Known /\ Moves(lfs.gdisk) = {t} /\ lfs.gstate = lfs.gdisk
      /\ Orphaned(disk) = {op.dir} \ {NoPair}
  BY <1>1 DEF Inv, OpOK
<1>4. Held = {}
  BY <1>1 DEF Held
<1>5. /\ CardOK(disk, OnCard(disk)) /\ lfs \in Globals /\ lfs.gdelta = {} /\ lfs.gdisk = OnCard(disk)
      /\ OthersOK
  BY <1>3 DEF Inv, GlobalOK, Known
<1>6. t \in Moves(OnCard(disk)) /\ t[1] = op.pair /\ t[2] = op.id
  BY <1>3, <1>5
<1>7. PICK l : l = PrepMove(lfs, {})
  OBVIOUS
<1>8. l \in Globals /\ l.gstate = lfs.gstate \cap {Orphans} /\ l.gdisk = lfs.gdisk /\ l.gdelta = {}
  <2>1. {} \in SUBSET Token
    OBVIOUS
  <2>2. /\ l \in Globals /\ l.gstate = (lfs.gstate \cap {Orphans}) \cup {}
        /\ l.gdisk = lfs.gdisk /\ l.gdelta = lfs.gdelta
    BY <1>5, <1>7, <2>1, PrepIs
  <2> QED BY <1>5, <2>2
<1>9. PICK s : s = SetLfs(Now, l)
  OBVIOUS
<1>10. Clean(s) /\ s.disk = disk /\ s.lfs = l /\ s.ok = TRUE /\ s.told = {}
  BY <1>3, <1>4, <1>8, <1>9, CleanNow
<1>11. s = [Now EXCEPT !.lfs = PrepMove(@, {})]
  <2>1. Now.lfs = lfs
    BY DEF Now
  <2> QED BY <1>7, <1>9, <2>1, Zenon DEF SetLfs
<1>12. /\ t[1] \in Listed(disk) /\ t[2] \in 1 .. Len(disk[t[1]].ents)
  <2> HIDE DEF t
  <2> QED BY <1>5, <1>6 DEF CardOK, MovesOK
<1>13. Deleted(s, t[1], t[2], o)
  <2>1. o \in Delete(s, t[1], t[2])
    BY <1>2, <1>6, <1>11
  <2> HIDE DEF t
  <2> QED BY <1>10, <1>12, <2>1, DeleteIs
<1>14. Moves(l.gstate) = {} /\ (Orphaned(disk) # {} => Orphans \in l.gstate)
  BY <1>3, <1>5, <1>8 DEF Moves, CardOK, OrphansOK
<1>15. /\ CardOK(o.disk, OnCard(o.disk)) /\ OnCard(o.disk) = l.gstate
       /\ Orphaned(o.disk) = Orphaned(disk)
  <2> HIDE DEF t
  <2> QED BY <1>5, <1>6, <1>10, <1>13, <1>14, DemoveKeeps
<1>16. /\ Landed(o) /\ Carried(o, op.pair, <<Del(op.id)>>) /\ o \in States
       /\ o.ok /\ o.lfs.gstate = l.gstate /\ o.lfs.gdisk = l.gstate
  BY <1>6, <1>10, <1>13, <1>15, DeletedLands
<1> HIDE DEF t
<1>17. CASE op.dir = NoPair
  <2>1. Apply(o, op.pair, <<Del(op.id)>>) /\ Return("ok")
    BY <1>2, <1>16, <1>17
  <2>2. /\ CardOK(disk', OnCard(disk')) /\ GlobalOK' /\ Known' /\ Follows(handle', disk')
    BY <1>16, <2>1, Applied
  <2>3. disk' = o.disk /\ lfs' = o.lfs /\ op' = Idle /\ result' = "ok"
    BY <2>1 DEF Apply, Return
  <2>4. Orphaned(disk') = {} /\ Moves(lfs'.gdisk) = {}
    BY <1>3, <1>14, <1>15, <1>16, <1>17, <2>3
  <2>5. OpOK'
    BY <2>2, <2>3, <2>4 DEF OpOK, Idle
  <2>6. OthersOK'
    BY <1>1, <1>5, <2>3 DEF OthersOK
  <2> QED BY <2>2, <2>4, <2>5, <2>6, InvIf
<1>18. CASE op.dir # NoPair
  <2>1. PICK k : k = SetLfs(o, PrepOrphans(o.lfs, FALSE))
    OBVIOUS
  <2>2. k = [o EXCEPT !.lfs = PrepOrphans(@, FALSE)]
    BY <2>1, Zenon DEF SetLfs
  <2>3. Apply(k, op.pair, <<Del(op.id)>>) /\ op' = [at |-> "drop", dir |-> op.dir] /\ result' = result
    BY <1>2, <1>16, <1>18, <2>2
  <2>4. /\ Landed(k) /\ Carried(k, op.pair, <<Del(op.id)>>) /\ k.disk = o.disk
        /\ k.lfs.gstate = {} /\ k.lfs.gdisk = o.lfs.gdisk
    <3>1. Moves(o.lfs.gdisk) = {}
      BY <1>14, <1>16
    <3>2. PICK r, attrs : r = op.pair /\ attrs = <<Del(op.id)>>
      OBVIOUS
    <3>3. /\ o \in States /\ Landed(o) /\ Carried(o, r, attrs)
      BY <1>16, <3>2
    <3>4. /\ Landed(k) /\ Carried(k, r, attrs) /\ k.disk = o.disk
          /\ k.lfs.gstate = {} /\ k.lfs.gdisk = o.lfs.gdisk
      BY ONLY <2>1, <3>1, <3>3, LandedCleared, ZenonT(40)
    <3> QED BY <3>2, <3>4
  <2>5. /\ CardOK(disk', OnCard(disk')) /\ GlobalOK' /\ Known' /\ Follows(handle', disk')
    BY <2>3, <2>4, Applied
  <2>6. disk' = o.disk /\ lfs' = k.lfs
    BY <2>3, <2>4 DEF Apply
  <2>7. Orphaned(disk') = {op.dir} /\ Moves(lfs'.gdisk) = {} /\ lfs'.gstate = {}
    BY <1>3, <1>14, <1>15, <1>16, <1>18, <2>4, <2>6
  <2>8. OpOK'
    BY <2>3, <2>5, <2>7 DEF OpOK
  <2>9. OthersOK'
    BY <1>1, <1>5, <2>3 DEF OthersOK
  <2> QED BY <2>5, <2>7, <2>8, <2>9, InvIf
<1> QED BY <1>17, <1>18

(* A drop of the orphan leaves a card without one.                         *)
LEMMA DropLands ==
  ASSUME Sure, Inv, Held = {}, Known, Moves(lfs.gdisk) = {}, NEW p \in Listed(disk),
         ~disk[p].split, NEW q, q = disk[p].tail, q \in Orphaned(disk), NEW o \in Drop(Now, p, q)
  PROVE  /\ Landed(o) /\ Carried(o, p, <<>>) /\ o.ok
         /\ o.lfs.gstate = lfs.gstate /\ o.lfs.gdisk = lfs.gstate
         /\ Orphaned(o.disk) = {} /\ p \in Listed(o.disk)
<1>1. /\ Clean(Now) /\ Now.disk = disk /\ Now.lfs = lfs /\ Now.held = {}
      /\ Now.ok = TRUE /\ Now.told = {} /\ Now \in States
  BY NowClean
<1>2. /\ CardOK(disk, OnCard(disk)) /\ Moves(OnCard(disk)) = {} /\ Moves(lfs.gstate) = {}
  BY DEF Inv, GlobalOK
<1>3. q # NoPair
  BY <1>2, CardIs DEF Orphaned
<1>4. PICK d \in Disks : Committed(Now, p, d, o) /\ Dropped(disk, d, p, q)
  BY <1>1, <1>3, DropIs
<1>5. /\ CardOK(o.disk, OnCard(o.disk)) /\ OnCard(o.disk) = lfs.gstate
      /\ Orphaned(o.disk) = {} /\ p \in Listed(o.disk)
      /\ \A h : Follows(h, disk) => Follows(FixUp(h, o, p, <<>>), o.disk)
  <2>1. PICK s, g : s = Now /\ g = OnCard(disk)
    OBVIOUS
  <2>2. /\ CardOK(s.disk, g) /\ Moves(g) = {} /\ s.told = {} /\ q \in Orphaned(s.disk)
        /\ p \in Listed(s.disk) /\ ~s.disk[p].split /\ d \in Disks
        /\ Committed(s, p, d, o) /\ Dropped(s.disk, d, p, q) /\ Moves(s.lfs.gstate) = {}
        /\ s.disk = disk /\ s.lfs = lfs
    BY <1>1, <1>2, <1>4, <2>1
  <2>3. /\ CardOK(o.disk, OnCard(o.disk)) /\ OnCard(o.disk) = s.lfs.gstate
        /\ Orphaned(o.disk) = {} /\ p \in Listed(o.disk)
        /\ \A h : Follows(h, s.disk) => Follows(FixUp(h, o, p, <<>>), o.disk)
    BY ONLY <2>2, DropKeeps
  <2> QED BY ONLY <2>2, <2>3
<1>6. /\ o \in States /\ o.ok /\ o.lfs.gstate = lfs.gstate /\ o.lfs.gdisk = lfs.gstate /\ o.lfs.gdelta = {}
  BY <1>1, <1>4 DEF Committed
<1>7. Landed(o)
  BY <1>5, <1>6, StateIs DEF Landed
<1>8. Len(<<>>) \in Nat
  OBVIOUS
<1> QED BY <1>5, <1>6, <1>7, <1>8 DEF Carried

(* The drop at the end of lfs_remove and lfs_rename keeps the invariant.   *)
LEMMA DropRemovedInv ==
  ASSUME Sure, Inv, DropRemoved
  PROVE  Inv'
<1>1. op.at = "drop" /\ UNCHANGED calls
  BY DEF DropRemoved
<1>2. /\ Known /\ Moves(lfs.gdisk) = {} /\ lfs.gstate = {} /\ Orphaned(disk) = {op.dir}
  BY <1>1 DEF Inv, OpOK
<1>3. Held = {}
  BY <1>1 DEF Held
<1>4. CardOK(disk, OnCard(disk)) /\ OthersOK
  BY DEF Inv
<1>5. disk \in Disks /\ Threaded(disk) /\ Heads(disk) \in SUBSET Listed(disk)
  BY <1>4, CardIs
<1> DEFINE q == op.dir
           p == Pred(disk, q)
<1>6. q \in Listed(disk) /\ q # Root /\ q \in Heads(disk) /\ q \in Orphaned(disk)
  BY <1>2, <1>5 DEF Orphaned
<1>7. /\ p \in Listed(disk) /\ disk[p].tail = q
      /\ \A r \in Listed(disk) : disk[r].tail = q => r = p
  <2> HIDE DEF q
  <2> QED BY <1>5, <1>6, HasPred
<1>8. ~disk[p].split
  <2>1. PICK r \in Listed(disk) : ~disk[r].split /\ disk[r].tail = q
    BY <1>6 DEF Heads
  <2> QED BY <1>7, <2>1
<1>9. PICK o \in Drop(Now, p, q) :
        Apply(o, p, <<>>) /\ Return(IF o.ok THEN "ok" ELSE "error")
  BY <1>6 DEF DropRemoved
<1> HIDE DEF q, p
<1>10. /\ Landed(o) /\ Carried(o, p, <<>>) /\ o.ok
       /\ o.lfs.gstate = lfs.gstate /\ o.lfs.gdisk = lfs.gstate
       /\ Orphaned(o.disk) = {}
  BY <1>2, <1>3, <1>6, <1>7, <1>8, DropLands
<1>11. /\ CardOK(disk', OnCard(disk')) /\ GlobalOK' /\ Known' /\ Follows(handle', disk')
  BY <1>9, <1>10, Applied
<1>12. disk' = o.disk /\ lfs' = o.lfs /\ op' = Idle /\ result' = "ok"
  BY <1>9, <1>10 DEF Apply, Return
<1>13. Orphaned(disk') = {} /\ Moves(lfs'.gdisk) = {}
  BY <1>2, <1>10, <1>12 DEF Moves
<1>14. OpOK'
  BY <1>11, <1>12, <1>13 DEF OpOK, Idle
<1>15. OthersOK'
  BY <1>1, <1>4, <1>12 DEF OthersOK
<1> QED BY <1>11, <1>13, <1>14, <1>15, InvIf

(* What lfs_fs_deorphan starts from.                                       *)
LEMMA DeorphaningIs ==
  ASSUME Inv, Deorphaning
  PROVE  /\ op.at \in {"idle", "deorphan"} /\ Held = {} /\ Known /\ Moves(lfs.gdisk) = {}
         /\ lfs.gstate = {Orphans} /\ From \in Listed(disk)
         /\ From # Root => Orphaned(disk) = {}
         /\ \A q : NameCount(disk, q) = 0 <=> ~HasParent(disk, lfs.gdisk, q)
<1>1. op.at \in {"idle", "deorphan"} /\ Held = {}
  BY DEF Deorphaning, Held
<1>2. CardOK(disk, OnCard(disk)) /\ Moves(lfs.gstate) = Moves(lfs.gdisk)
  BY DEF Inv, GlobalOK
<1>3. Root \in Listed(disk) /\ disk \in Disks /\ Short(disk) /\ NoPair \notin Pair
  BY <1>2, CardIs
<1>4. /\ Known /\ Moves(lfs.gdisk) = {} /\ lfs.gstate = {Orphans}
      /\ From \in Listed(disk) /\ (From # Root => Orphaned(disk) = {})
  <2>1. CASE op.at = "idle"
    <3>1. Known /\ ~HasMove(lfs.gdisk) /\ Orphans \in lfs.gstate
      BY <2>1 DEF Inv, OpOK, Deorphaning
    <3>2. Moves(lfs.gdisk) = {}
      BY <3>1 DEF HasMove, Moves
    <3>3. lfs.gstate = {Orphans}
      BY <1>2, <3>1, <3>2 DEF Moves
    <3> QED BY <1>3, <2>1, <3>1, <3>2, <3>3 DEF From
  <2>2. CASE op.at = "deorphan"
    <3>1. /\ Known /\ op.from \in Listed(disk) /\ lfs.gstate = {Orphans}
          /\ (op.from # Root => Orphaned(disk) = {})
      BY <2>2 DEF Inv, OpOK
    <3>2. Moves(lfs.gdisk) = {}
      BY <1>2, <3>1 DEF Moves
    <3> QED BY <2>2, <3>1, <3>2 DEF From
  <2> QED BY <1>1, <2>1, <2>2
<1>5. ASSUME NEW q PROVE NameCount(disk, q) = 0 <=> ~HasParent(disk, lfs.gdisk, q)
  <2>1. HasParent(disk, lfs.gdisk, q) <=> \E t \in Namers(disk, q) : t \notin lfs.gdisk
    BY <1>3, HasParentIs
  <2>2. ASSUME NEW t \in Namers(disk, q) PROVE t \notin lfs.gdisk
    <3>1. t \in Slot
      BY NamesType
    <3>2. t # Orphans
      BY <1>3, <3>1 DEF Slot, Orphans
    <3> QED BY <1>4, <3>2 DEF Moves
  <2> QED BY <2>1, <2>2, NoNames
<1> QED BY <1>1, <1>4, <1>5

(* A drop by lfs_fs_deorphan keeps the invariant.                          *)
LEMMA DropOrphanInv ==
  ASSUME Sure, Inv, DropOrphan
  PROVE  Inv'
<1>1. Deorphaning /\ UNCHANGED calls
  BY DEF DropOrphan
<1>2. PICK p \in Lost(From) :
         \E o \in Drop(Now, p, disk[p].tail) :
            /\ Apply(o, p, <<>>)
            /\ IF ~o.ok THEN Return("error")
               ELSE op' = [at |-> "deorphan", from |-> p]
                    /\ UNCHANGED <<call, result>>
  BY DEF DropOrphan
<1>3. PICK o \in Drop(Now, p, disk[p].tail) :
            /\ Apply(o, p, <<>>)
            /\ IF ~o.ok THEN Return("error")
               ELSE op' = [at |-> "deorphan", from |-> p]
                    /\ UNCHANGED <<call, result>>
  BY <1>2
<1>4. /\ Held = {} /\ Known /\ Moves(lfs.gdisk) = {} /\ lfs.gstate = {Orphans} /\ From \in Listed(disk)
      /\ \A q : NameCount(disk, q) = 0 <=> ~HasParent(disk, lfs.gdisk, q)
  BY <1>1, DeorphaningIs
<1>5. CardOK(disk, OnCard(disk)) /\ OthersOK
  BY DEF Inv
<1>6. disk \in Disks /\ Threaded(disk) /\ Listed(disk) \in SUBSET Pair
  BY <1>5, CardIs
<1> DEFINE q == disk[p].tail
<1>7. p \in Listed(disk)
  <2>1. \A r \in Listed(disk) \cap Pair : Goes(disk, r, FALSE) => disk[r].tail \in Listed(disk)
    BY <1>6, ListCloses DEF Goes
  <2>2. Closure(disk, {From}, FALSE) \subseteq Listed(disk)
    <3>1. From \in Pair
      BY <1>4, <1>6
    <3> QED BY <1>4, <1>6, <2>1, <3>1, ClosureIsLeast
  <2> QED BY <2>2 DEF Lost, Scanned
<1>8. ~disk[p].split /\ q # NoPair /\ ~HasParent(disk, lfs.gdisk, q)
  BY DEF Lost
<1>9. q \in Orphaned(disk)
  <2>1. q \in Heads(disk)
    BY <1>7, <1>8 DEF Heads
  <2>2. q # Root
    BY <1>6, <1>7 DEF Threaded, TailsOK
  <2> QED BY <1>4, <1>8, <2>1, <2>2 DEF Orphaned
<1> HIDE DEF q
<1>10. /\ Landed(o) /\ Carried(o, p, <<>>) /\ o.ok
       /\ o.lfs.gstate = lfs.gstate /\ o.lfs.gdisk = lfs.gstate
       /\ Orphaned(o.disk) = {} /\ p \in Listed(o.disk)
  <2>1. o \in Drop(Now, p, q)
    BY <1>3 DEF q
  <2>2. q = disk[p].tail
    BY DEF q
  <2> QED BY <1>4, <1>7, <1>8, <1>9, <2>1, <2>2, DropLands
<1>11. /\ CardOK(disk', OnCard(disk')) /\ GlobalOK' /\ Known' /\ Follows(handle', disk')
  BY <1>3, <1>10, Applied
<1>12. /\ disk' = o.disk /\ lfs' = o.lfs /\ op' = [at |-> "deorphan", from |-> p] /\ result' = result
  BY <1>3, <1>10 DEF Apply
<1>13. /\ Orphaned(disk') = {} /\ Moves(lfs'.gdisk) = {} /\ lfs'.gstate = {Orphans}
       /\ p \in Listed(disk')
  BY <1>4, <1>10, <1>12 DEF Moves
<1>14. OpOK'
  BY <1>11, <1>12, <1>13 DEF OpOK
<1>15. OthersOK'
  BY <1>1, <1>5, <1>12 DEF OthersOK
<1> QED BY <1>11, <1>13, <1>14, <1>15, InvIf

(* The end of lfs_fs_deorphan keeps the invariant: there is no orphan      *)
(* left.                                                                   *)
LEMMA DeorphanedInv ==
  ASSUME Inv, Deorphaned
  PROVE  Inv'
<1>1. /\ Deorphaning /\ Lost(From) = {} /\ lfs' = PrepOrphans(lfs, FALSE)
      /\ op' = [at |-> "ready"] /\ UNCHANGED <<disk, call, result, handle, calls>>
  BY DEF Deorphaned
<1>2. /\ Held = {} /\ Known /\ Moves(lfs.gdisk) = {} /\ lfs.gstate = {Orphans} /\ From \in Listed(disk)
      /\ From # Root => Orphaned(disk) = {}
      /\ \A q : NameCount(disk, q) = 0 <=> ~HasParent(disk, lfs.gdisk, q)
  BY <1>1, DeorphaningIs
<1>3. /\ CardOK(disk, OnCard(disk)) /\ OthersOK /\ lfs \in Globals /\ lfs.gdelta = {}
      /\ Follows(handle, disk)
  BY DEF Inv, GlobalOK, HandleOK
<1>4. Orphaned(disk) = {}
  <2>1. CASE From # Root
    BY <1>2, <2>1
  <2>2. CASE From = Root
    <3> SUFFICES ASSUME NEW h \in Orphaned(disk) PROVE FALSE
      OBVIOUS
    <3>1. h \in Heads(disk) /\ h # Root /\ NameCount(disk, h) = 0
      BY DEF Orphaned
    <3>2. PICK p \in Listed(disk) : ~disk[p].split /\ disk[p].tail = h /\ h # NoPair
      BY <3>1 DEF Heads
    <3>3. p \in Lost(From)
      BY <1>2, <2>2, <3>1, <3>2 DEF Lost, Scanned, Listed
    <3> QED BY <1>1, <3>3
  <2> QED BY <2>1, <2>2
<1>5. lfs' \in Globals /\ lfs'.gstate = {} /\ lfs'.gdisk = lfs.gdisk /\ lfs'.gdelta = {}
  <2>1. {} \in SUBSET Token
    OBVIOUS
  <2>2. /\ lfs' \in Globals /\ lfs'.gstate = lfs.gstate \ {Orphans}
        /\ lfs'.gdisk = lfs.gdisk /\ lfs'.gdelta = lfs.gdelta
    BY <1>1, <1>3, <2>1, PrepIs
  <2> QED BY <1>2, <1>3, <2>2
<1>6. CardOK(disk', OnCard(disk')) /\ OthersOK' /\ Follows(handle', disk')
  BY <1>1, <1>3 DEF OthersOK
<1>7. Known'
  BY <1>1, <1>2, <1>5 DEF Known
<1>8. GlobalOK'
  BY <1>2, <1>5, <1>7 DEF GlobalOK, Known, Moves
<1>9. OpOK'
  BY <1>1, <1>4, <1>5, <1>7 DEF OpOK
<1> QED BY <1>2, <1>5, <1>6, <1>8, <1>9, InvIf

------------------------------------------------------------------------------
(* lfs_remove, and the creation of files.                                  *)

(* What lfs_dir_find tells a call that has found the file system           *)
(* consistent.                                                             *)
Found(w) ==
  /\ w.pair \in Listed(disk) /\ w.pair \in Pair /\ disk[w.pair] \in Content
  /\ Len(disk[w.pair].ents) \in Nat
  /\ w.id \in 1 .. (Len(disk[w.pair].ents) + 1) /\ w.found \in BOOLEAN
  /\ w.found => w.id \in 1 .. Len(disk[w.pair].ents) /\ w.node = disk[w.pair].ents[w.id].node
  /\ ~w.found => w.node = NoPair

(* lfs_dir_find finds an entry of the list, or a place for one.            *)
LEMMA FoundIs ==
  ASSUME Inv, Ready, NEW h \in Dirs, NEW n, NEW w, w = Lookup(disk, lfs.gdisk, h, n)
  PROVE  Found(w)
<1>1. lfs.gdisk \subseteq {Orphans}
  BY ReadyIs
<1>2. /\ disk \in Disks /\ Threaded(disk) /\ Listed(disk) \in SUBSET Pair
      /\ \A p \in Pair : disk[p] \in Content /\ Len(disk[p].ents) \in Nat
  BY CardIs DEF Inv
<1>3. h \in Listed(disk)
  BY DirsIs
<1>4. /\ w.pair \in Listed(disk) /\ w.id \in 1 .. (Len(disk[w.pair].ents) + 1)
      /\ w.found \in BOOLEAN
      /\ w.found => w.id \in 1 .. Len(disk[w.pair].ents) /\ w.node = disk[w.pair].ents[w.id].node
      /\ ~w.found => w.node = NoPair
  BY <1>1, <1>2, <1>3, LookupIs
<1> QED BY <1>2, <1>4 DEF Found

Clearing(o, k, p, attrs) ==
  /\ o \in States /\ Landed(o) /\ Moves(o.lfs.gdisk) = {}
  /\ k = SetLfs(o, PrepOrphans(o.lfs, FALSE)) /\ Carried(o, p, attrs)

(* The same after the bit for the orphan has been cleared in lfs_t.        *)
LEMMA Cleared ==
  ASSUME NEW o, NEW k, NEW p, NEW attrs, Clearing(o, k, p, attrs)
  PROVE  /\ Landed(k) /\ Carried(k, p, attrs) /\ k.disk = o.disk
         /\ k.lfs.gstate = {} /\ k.lfs.gdisk = o.lfs.gdisk /\ k.ok = o.ok
BY ZenonT(40), LandedCleared DEF Clearing

(* lfs_remove, up to its commit, keeps the invariant.                      *)
LEMMA RemoveEntryInv ==
  ASSUME Sure, Inv, RemoveEntry
  PROVE  Inv'
<1>1. Ready /\ Begin
  BY DEF RemoveEntry
<1>2. PICK h \in Dirs, n \in Name :
       LET w == Lookup(disk, lfs.gdisk, h, n)
           isDir == w.node \in Pair
       IN /\ w.found /\ (isDir => Empty(w.node))
          /\ Removes(w.pair, w.id)
          /\ \E o \in Delete([Now EXCEPT !.lfs =
                              IF isDir THEN PrepOrphans(@, TRUE) ELSE @],
                            w.pair, w.id) :
               IF o.ok /\ isDir
               THEN /\ Apply([o EXCEPT !.lfs = PrepOrphans(@, FALSE)],
                             w.pair, <<Del(w.id)>>)
                    /\ op' = [at |-> "drop", dir |-> w.node]
                    /\ Running([op |-> "remove", dir |-> h, name |-> n,
                                found |-> Tree(disk, lfs.gdisk)])
               ELSE /\ Apply(o, w.pair, <<Del(w.id)>>)
                    /\ Return(IF o.ok THEN "ok" ELSE "error")
  BY Zenon DEF RemoveEntry
<1>3. PICK w : w = Lookup(disk, lfs.gdisk, h, n)
  OBVIOUS
<1> DEFINE isDir == w.node \in Pair
<1>4. /\ w.found /\ (isDir => Empty(w.node))
      /\ \E o \in Delete([Now EXCEPT !.lfs =
                              IF isDir THEN PrepOrphans(@, TRUE) ELSE @],
                            w.pair, w.id) :
               IF o.ok /\ isDir
               THEN /\ Apply([o EXCEPT !.lfs = PrepOrphans(@, FALSE)],
                             w.pair, <<Del(w.id)>>)
                    /\ op' = [at |-> "drop", dir |-> w.node]
                    /\ Running([op |-> "remove", dir |-> h, name |-> n,
                                found |-> Tree(disk, lfs.gdisk)])
               ELSE /\ Apply(o, w.pair, <<Del(w.id)>>)
                    /\ Return(IF o.ok THEN "ok" ELSE "error")
  BY <1>2, <1>3
<1>5. PICK o :
        /\ o \in Delete([Now EXCEPT !.lfs = IF isDir THEN PrepOrphans(@, TRUE) ELSE @],
                        w.pair, w.id)
        /\ IF o.ok /\ isDir
           THEN /\ Apply([o EXCEPT !.lfs = PrepOrphans(@, FALSE)],
                         w.pair, <<Del(w.id)>>)
                /\ op' = [at |-> "drop", dir |-> w.node]
                /\ Running([op |-> "remove", dir |-> h, name |-> n,
                            found |-> Tree(disk, lfs.gdisk)])
           ELSE /\ Apply(o, w.pair, <<Del(w.id)>>)
                /\ Return(IF o.ok THEN "ok" ELSE "error")
  BY <1>4
<1>6. /\ Known /\ Held = {} /\ Moves(lfs.gdisk) = {} /\ Moves(OnCard(disk)) = {}
      /\ lfs.gstate = {} /\ Orphaned(disk) = {} /\ lfs.gdisk \subseteq {Orphans}
  BY <1>1, ReadyIs
<1>7. /\ CardOK(disk, OnCard(disk)) /\ lfs \in Globals /\ lfs.gdelta = {} /\ OthersOK
  BY DEF Inv, GlobalOK
<1>8. Found(w)
  BY <1>1, <1>3, FoundIs
<1> DEFINE p == w.pair
           i == w.id
           x == w.node
<1>9. /\ p \in Listed(disk) /\ i \in 1 .. Len(disk[p].ents) /\ x = disk[p].ents[i].node
      /\ x \in Pair => Bare(disk, x)
  BY <1>4, <1>8 DEF Found, Empty, Bare
<1>10. PICK l : l = IF isDir THEN PrepOrphans(lfs, TRUE) ELSE lfs
  OBVIOUS
<1>11. /\ l \in Globals /\ l.gstate = (IF isDir THEN {Orphans} ELSE {})
       /\ l.gdisk = lfs.gdisk /\ l.gdelta = {}
  <2>1. {} \in SUBSET Token
    OBVIOUS
  <2>2. /\ PrepOrphans(lfs, TRUE) \in Globals /\ PrepOrphans(lfs, TRUE).gstate = lfs.gstate \cup {Orphans}
        /\ PrepOrphans(lfs, TRUE).gdisk = lfs.gdisk /\ PrepOrphans(lfs, TRUE).gdelta = lfs.gdelta
    BY <1>7, <2>1, PrepIs
  <2> QED BY <1>6, <1>7, <1>10, <2>2
<1>12. PICK s : s = SetLfs(Now, l)
  OBVIOUS
<1>13. Clean(s) /\ s.disk = disk /\ s.lfs = l /\ s.ok = TRUE /\ s.told = {}
  BY <1>6, <1>11, <1>12, CleanNow
<1>14. s = [Now EXCEPT !.lfs = IF isDir THEN PrepOrphans(@, TRUE) ELSE @]
  <2>1. Now.lfs = lfs
    BY DEF Now
  <2> QED BY <1>10, <1>12, <2>1, Zenon DEF SetLfs
<1>15. Moves(l.gstate) = {} /\ (x \in Pair => Orphans \in l.gstate)
  BY <1>11 DEF Moves
<1>16. Deleted(s, p, i, o)
  <2>1. o \in Delete(s, p, i)
    BY <1>5, <1>14
  <2> HIDE DEF p, i, x
  <2> QED BY <1>9, <1>13, <2>1, DeleteIs
<1>17. /\ CardOK(o.disk, OnCard(o.disk)) /\ OnCard(o.disk) = l.gstate
       /\ Orphaned(o.disk) = {x} \cap Pair
  <2> HIDE DEF p, i, x
  <2>1. PICK g : g = OnCard(disk)
    OBVIOUS
  <2>2. /\ CardOK(s.disk, g) /\ Moves(g) = {} /\ Orphaned(s.disk) = {}
        /\ p \in Listed(s.disk) /\ i \in 1 .. Len(s.disk[p].ents)
        /\ x = s.disk[p].ents[i].node /\ (x \in Pair => Bare(s.disk, x))
        /\ Deleted(s, p, i, o) /\ Moves(s.lfs.gstate) = {}
        /\ (x \in Pair => Orphans \in s.lfs.gstate) /\ s.lfs = l
    BY <1>6, <1>7, <1>9, <1>13, <1>15, <1>16, <2>1
  <2> QED BY ONLY <2>2, RemoveKeeps, SMTT(30)
<1>18. /\ Landed(o) /\ Carried(o, p, <<Del(i)>>) /\ o \in States
       /\ o.ok /\ o.lfs.gstate = l.gstate /\ o.lfs.gdisk = l.gstate
  <2> HIDE DEF p, i
  <2> QED BY <1>13, <1>16, <1>17, DeletedLands
<1>19. calls' = calls + 1 /\ calls + 1 \in 0 .. MaxCalls
  BY <1>1, <1>7, DirTreeAssumption DEF Begin, OthersOK
<1>20. CASE ~isDir
  <2>1. Apply(o, p, <<Del(i)>>) /\ Return("ok")
    BY <1>5, <1>18, <1>20
  <2>2. /\ CardOK(disk', OnCard(disk')) /\ GlobalOK' /\ Known' /\ Follows(handle', disk')
    <3> HIDE DEF p, i
    <3> QED BY <1>18, <2>1, Applied
  <2>3. disk' = o.disk /\ lfs' = o.lfs /\ op' = Idle /\ result' = "ok"
    BY <2>1 DEF Apply, Return
  <2>4. Orphaned(disk') = {} /\ Moves(lfs'.gdisk) = {}
    BY <1>15, <1>17, <1>18, <1>20, <2>3
  <2>5. OpOK'
    BY <2>2, <2>3, <2>4 DEF OpOK, Idle
  <2>6. OthersOK'
    BY <1>19, <2>3 DEF OthersOK
  <2> QED BY <2>2, <2>4, <2>5, <2>6, InvIf
<1>21. CASE isDir
  <2>1. PICK k : k = SetLfs(o, PrepOrphans(o.lfs, FALSE))
    OBVIOUS
  <2>2. k = [o EXCEPT !.lfs = PrepOrphans(@, FALSE)]
    BY <2>1, Zenon DEF SetLfs
  <2>3. Apply(k, p, <<Del(i)>>) /\ op' = [at |-> "drop", dir |-> x] /\ result' = result
    BY <1>5, <1>18, <1>21, <2>2 DEF Running
  <2>4. /\ Landed(k) /\ Carried(k, p, <<Del(i)>>) /\ k.disk = o.disk
        /\ k.lfs.gstate = {} /\ k.lfs.gdisk = o.lfs.gdisk
    <3>1. Moves(o.lfs.gdisk) = {}
      BY <1>15, <1>18
    <3>2. Clearing(o, k, p, <<Del(i)>>)
      BY <1>18, <2>1, <3>1 DEF Clearing
    <3> HIDE DEF p, i
    <3> QED BY <3>2, Cleared
  <2>5. /\ CardOK(disk', OnCard(disk')) /\ GlobalOK' /\ Known' /\ Follows(handle', disk')
    <3> HIDE DEF p, i
    <3> QED BY <2>3, <2>4, Applied
  <2>6. disk' = o.disk /\ lfs' = k.lfs
    BY <2>3, <2>4 DEF Apply
  <2>7. Orphaned(disk') = {x} /\ Moves(lfs'.gdisk) = {} /\ lfs'.gstate = {}
    BY <1>15, <1>17, <1>18, <1>21, <2>4, <2>6
  <2>8. OpOK'
    BY <2>3, <2>5, <2>7 DEF OpOK
  <2>9. OthersOK'
    BY <1>7, <1>19, <2>3 DEF OthersOK
  <2> QED BY <2>5, <2>7, <2>8, <2>9, InvIf
<1> QED BY <1>20, <1>21

(* An entry has been put in at i of p.                                     *)
Added(s, p, i, y, d, o) ==
  /\ Clean(o) /\ o.lfs.gstate = s.lfs.gstate /\ o.lfs.gdisk = s.lfs.gstate /\ o.ok = s.ok
  /\ o.told = {p} /\ Heads(o.disk) = Heads(s.disk)
  /\ \A x : NameCount(o.disk, x) = NameCount(s.disk, x) + (IF y.node = x THEN 1 ELSE 0)
  /\ \A q \in Listed(s.disk) \ {p} : o.disk[q] = s.disk[q]
  /\ d \in Disks /\ Listed(d) = Listed(s.disk) /\ HasMore(d[p].ents, s.disk[p].ents, i, y)
  /\ Spread(d, o.disk, p, Free(s))
  /\ \A h : Follows(h, s.disk) => Follows(FixUp(h, o, p, <<Create(i)>>), o.disk)

(* A commit that puts an entry in at i: one name more, and nothing else.   *)
LEMMA AddedIs ==
  ASSUME Sure, NEW s, Clean(s), s.told = {}, NEW p \in Listed(s.disk),
         NEW i \in 1 .. (Len(s.disk[p].ents) + 1), NEW y \in Entry, NEW x,
         x = InsertAt(s.disk[p].ents, i, y), NEW o \in Put(s, p, SetEnts(s.disk[p], x))
  PROVE  \E d : Added(s, p, i, y, d, o)
<1> DEFINE c == s.disk
<1>1. /\ c \in Disks /\ Short(c) /\ Listed(c) \in SUBSET Pair /\ c[p] \in Content
      /\ Threaded(c) /\ Filled(c)
  BY CleanIs DEF Clean
<1>2. /\ p \in Pair /\ c[p].ents \in Seq(Entry) /\ Len(c[p].ents) \in Nat /\ Len(c[p].ents) <= Full
  BY <1>1, ContentIs DEF Filled
<1>3. HasMore(x, c[p].ents, i, y)
  <2>1. i \in 1 .. (Len(c[p].ents) + 1)
    OBVIOUS
  <2>2. PICK a : a = c[p].ents
    OBVIOUS
  <2>3. a \in Seq(Entry) /\ i \in 1 .. (Len(a) + 1) /\ x = InsertAt(a, i, y)
    BY <1>2, <2>1, <2>2
  <2>4. HasMore(x, a, i, y)
    BY ONLY <2>3, y \in Entry, InsertIs
  <2> QED BY <2>2, <2>4
<1>4. PICK m, d : m = SetEnts(c[p], x) /\ d = SetPair(c, p, m)
  OBVIOUS
<1>5. EditTo(s, p, x, m, d)
  <2>1. x \in Seq(Entry) /\ Len(x) = Len(c[p].ents) + 1
    BY <1>3 DEF HasMore
  <2>2. Len(x) <= Full + 1
    BY <1>2, <2>1, DirTreeAssumption
  <2> QED BY <1>4, <2>1, <2>2 DEF EditTo
<1>6. o \in Put(s, p, m)
  BY <1>4
<1> HIDE DEF c
<1>7. /\ EditDone(s, p, d, o) /\ d \in Disks /\ d[p].ents = x /\ Edited(s.disk, d, p)
      /\ \A h, attrs : Len(attrs) \in Nat /\ Kept(s, p, d, o, h, attrs) =>
           Follows(FixUp(h, o, p, attrs), o.disk)
  BY <1>5, <1>6, EditCommits
<1>8. /\ Clean(o) /\ o.lfs.gstate = s.lfs.gstate /\ o.lfs.gdisk = s.lfs.gstate
      /\ o.ok = s.ok /\ o.told = {p} /\ Heads(o.disk) = Heads(c) /\ Listed(d) = Listed(c)
      /\ (\A z : NameCount(o.disk, z) = NameCount(d, z)) /\ Spread(d, o.disk, p, Free(s))
      /\ \A q \in Listed(c) \ {p} : o.disk[q] = c[q]
  BY <1>7 DEF EditDone, c
<1>9. Short(d)
  BY <1>5, EditTarget DEF Target
<1>10. p \in Listed(c) /\ i \in 1 .. (Len(c[p].ents) + 1) /\ HasMore(d[p].ents, c[p].ents, i, y)
  BY <1>3, <1>7 DEF c
<1>11. \A r \in Listed(c) \ {p} : d[r].ents = c[r].ents
  BY <1>1, <1>7 DEF Edited, c
<1>12. ASSUME NEW z PROVE NameCount(o.disk, z) = NameCount(c, z) + (IF y.node = z THEN 1 ELSE 0)
  <2>1. NameCount(d, z) = NameCount(c, z) + (IF y.node = z THEN 1 ELSE 0)
    BY <1>1, <1>7, <1>8, <1>9, <1>10, <1>11, InsertNames
  <2> QED BY <1>8, <2>1
<1>13. ASSUME NEW h, Follows(h, c)
       PROVE  Follows(FixUp(h, o, p, <<Create(i)>>), o.disk)
  <2> DEFINE attrs == <<Create(i)>>
  <2>1. Len(attrs) = 1 /\ Len(attrs) \in Nat /\ attrs[1] = Create(i)
    OBVIOUS
  <2>2. ASSUME Tracks(h, c, p), h.pair # NoPair PROVE Tracks(Shifted(h, attrs), d, p)
    <3>1. Shifted(h, attrs) = Shift(h, Create(i))
      <4> HIDE DEF attrs
      <4> QED BY <2>1, ShiftedIs
    <3>2. PICK n : n = Shift(h, Create(i))
      OBVIOUS
    <3>3. Tracks(n, d, p)
      BY <1>1, <1>7, <1>8, <1>10, <2>2, <3>2, CreateTracks
    <3> QED BY <3>1, <3>2, <3>3
  <2> HIDE DEF attrs
  <2>3. Kept(s, p, d, o, h, attrs)
    BY <1>13, <2>2 DEF Kept, c
  <2> QED BY <1>7, <2>1, <2>3 DEF attrs
<1>14. Added(s, p, i, y, d, o)
  BY <1>7, <1>8, <1>10, <1>12, <1>13 DEF Added, c
<1> QED BY <1>14

(* A file is named, where no directory is an orphan.                       *)
LEMMA FileLands ==
  ASSUME NEW s, CardOK(s.disk, OnCard(s.disk)), s.disk = disk, Moves(OnCard(s.disk)) = {}, Moves(s.lfs.gstate) = {},
         Orphaned(s.disk) = {}, NEW p, NEW i, NEW y, y.node \notin Pair, NEW d, NEW o,
         Added(s, p, i, y, d, o)
  PROVE  /\ Landed(o) /\ Carried(o, p, <<Create(i)>>) /\ Orphaned(o.disk) = {}
<1>1. /\ Clean(o) /\ o.lfs.gstate = s.lfs.gstate /\ o.lfs.gdisk = s.lfs.gstate
      /\ Heads(o.disk) = Heads(disk)
      /\ \A x : NameCount(o.disk, x) = NameCount(disk, x) + (IF y.node = x THEN 1 ELSE 0)
      /\ \A h : Follows(h, disk) => Follows(FixUp(h, o, p, <<Create(i)>>), o.disk)
  BY DEF Added
<1>2. ASSUME NEW x \in Pair PROVE NameCount(o.disk, x) = NameCount(disk, x)
  <2>1. NameCount(disk, x) \in Nat
    BY NamesType
  <2> QED BY <1>1, <2>1
<1>3. Heads(disk) \in SUBSET Pair
  BY CardIs
<1>4. Orphaned(o.disk) = {}
  BY <1>1, <1>2, <1>3 DEF Orphaned
<1>5. ASSUME NEW x \in Pair
      PROVE  /\ NameCount(o.disk, x) # 0 => x \in Heads(o.disk) \ {Root}
             /\ ~(NameCount(o.disk, x) >= 2)
  <2>1. NameCount(disk, x) \in {0, 1} /\ (NameCount(disk, x) # 0 => x \in Heads(disk) \ {Root})
    <3>1. PICK g : g = OnCard(disk)
      OBVIOUS
    <3>2. CardOK(disk, g) /\ Moves(g) = {}
      BY <3>1
    <3> QED BY ONLY <3>2, x \in Pair, OneNamed
  <2> QED BY <1>1, <1>2, <2>1
<1>6. OrphansOK(o.disk, o.lfs.gdisk)
  BY <1>4 DEF OrphansOK
<1>7. CardOK(o.disk, OnCard(o.disk)) /\ OnCard(o.disk) = o.lfs.gdisk
  <2>1. Clean(o) /\ Moves(o.lfs.gdisk) = {}
    BY <1>1
  <2> QED BY ONLY <1>5, <1>6, <2>1, CardIsOK
<1>8. o.lfs \in Globals /\ o.lfs.gdelta = {}
  BY <1>1, CleanIs DEF Clean
<1>9. Landed(o)
  BY <1>1, <1>7, <1>8 DEF Landed
<1>10. Len(<<Create(i)>>) \in Nat
  OBVIOUS
<1> QED BY <1>1, <1>4, <1>9, <1>10 DEF Carried

(* The commit of lfs_file_open that creates a file keeps the invariant.    *)
LEMMA CreateFileInv ==
  ASSUME Sure, Inv, CreateFile
  PROVE  Inv'
<1>1. Ready /\ Begin
  BY DEF CreateFile, Sure
<1>2. PICK h \in Dirs, n \in Name, f \in File, keep \in BOOLEAN :
       LET w == Lookup(disk, lfs.gdisk, h, n)
           m == disk[w.pair]
           mine == [NoHandle EXCEPT !.kind = "reg", !.pair = w.pair,
                                    !.id = w.id, !.node = f]
       IN /\ ~w.found
          /\ f \notin {e[3] : e \in Tree(disk, lfs.gdisk)}
          /\ keep => handle = NoHandle /\ "files" \in Uses
          /\ handle.node # f
          /\ \E o \in Put(Now, w.pair,
                [m EXCEPT !.ents = InsertAt(@, w.id,
                                            [name |-> n, node |-> f])]) :
               /\ Return(IF o.ok THEN "ok" ELSE "error")
               /\ IF keep /\ o.ok
                  THEN /\ disk' = o.disk /\ lfs' = o.lfs
                       /\ handle' = FixUp(mine, o, w.pair, <<>>)
                  ELSE Apply(o, w.pair, <<Create(w.id)>>)
  BY Zenon DEF CreateFile
<1>3. PICK w : w = Lookup(disk, lfs.gdisk, h, n)
  OBVIOUS
<1>4. PICK y : y = [name |-> n, node |-> f]
  OBVIOUS
<1>5. PICK mine : mine = [NoHandle EXCEPT !.kind = "reg", !.pair = w.pair, !.id = w.id, !.node = f]
  OBVIOUS
<1>6. PICK x : x = InsertAt(disk[w.pair].ents, w.id, y)
  OBVIOUS
<1>7. /\ ~w.found
      /\ \E o \in Put(Now, w.pair, [disk[w.pair] EXCEPT !.ents = InsertAt(@, w.id, y)]) :
               /\ Return(IF o.ok THEN "ok" ELSE "error")
               /\ IF keep /\ o.ok
                  THEN /\ disk' = o.disk /\ lfs' = o.lfs
                       /\ handle' = FixUp(mine, o, w.pair, <<>>)
                  ELSE Apply(o, w.pair, <<Create(w.id)>>)
  BY <1>2, <1>3, <1>4, <1>5, Zenon
<1>8. SetEnts(disk[w.pair], x) = [disk[w.pair] EXCEPT !.ents = InsertAt(@, w.id, y)]
  BY <1>6, Zenon DEF SetEnts
<1>9. PICK o :
        /\ o \in Put(Now, w.pair, SetEnts(disk[w.pair], x))
        /\ Return(IF o.ok THEN "ok" ELSE "error")
        /\ IF keep /\ o.ok
           THEN /\ disk' = o.disk /\ lfs' = o.lfs
                /\ handle' = FixUp(mine, o, w.pair, <<>>)
           ELSE Apply(o, w.pair, <<Create(w.id)>>)
  BY <1>7, <1>8, Zenon
<1> DEFINE p == w.pair
           i == w.id
<1>10. /\ Known /\ Held = {} /\ Moves(lfs.gdisk) = {} /\ Moves(OnCard(disk)) = {}
       /\ lfs.gstate = {} /\ Orphaned(disk) = {}
  BY <1>1, ReadyIs
<1>11. CardOK(disk, OnCard(disk)) /\ OthersOK /\ Moves(lfs.gstate) = {}
  BY <1>10 DEF Inv, GlobalOK
<1>12. Found(w)
  BY <1>1, <1>3, FoundIs
<1>13. /\ Clean(Now) /\ Now.disk = disk /\ Now.lfs = lfs /\ Now.ok = TRUE /\ Now.told = {}
  BY <1>10, NowClean
<1>14. y \in Entry /\ y.node = f /\ y.node \notin Pair
  BY <1>4, DirTreeAssumption DEF Entry
<1>15. p \in Listed(disk) /\ i \in 1 .. (Len(disk[p].ents) + 1) /\ p \in Pair
  BY <1>12 DEF Found
<1>16. PICK d : Added(Now, p, i, y, d, o)
  <2>1. o \in Put(Now, p, SetEnts(disk[p], x)) /\ x = InsertAt(disk[p].ents, i, y)
    BY <1>6, <1>9
  <2> HIDE DEF p, i
  <2>2. PICK s : s = Now
    OBVIOUS
  <2>3. /\ Clean(s) /\ s.told = {} /\ p \in Listed(s.disk) /\ i \in 1 .. (Len(s.disk[p].ents) + 1)
        /\ x = InsertAt(s.disk[p].ents, i, y) /\ o \in Put(s, p, SetEnts(s.disk[p], x))
    BY <1>13, <1>15, <2>1, <2>2
  <2>4. \E d : Added(s, p, i, y, d, o)
    BY ONLY Sure, <2>3, <1>14, AddedIs
  <2> QED BY <2>2, <2>4
<1> HIDE DEF p, i
<1>17. Landed(o) /\ Carried(o, p, <<Create(i)>>) /\ Orphaned(o.disk) = {}
  <2>1. PICK s : s = Now
    OBVIOUS
  <2>2. /\ CardOK(s.disk, OnCard(s.disk)) /\ s.disk = disk /\ Moves(OnCard(s.disk)) = {}
        /\ Moves(s.lfs.gstate) = {} /\ Orphaned(s.disk) = {} /\ y.node \notin Pair
        /\ Added(s, p, i, y, d, o)
    BY <1>10, <1>11, <1>13, <1>14, <1>16, <2>1
  <2> QED BY ONLY <2>2, FileLands
<1>18. o.ok /\ o.lfs.gstate = {} /\ o.lfs.gdisk = {}
  BY <1>10, <1>13, <1>16 DEF Added
<1>19. calls' = calls + 1 /\ calls + 1 \in 0 .. MaxCalls
  BY <1>1, <1>11, DirTreeAssumption DEF Begin, OthersOK
<1>20. op' = Idle /\ result' = "ok"
  BY <1>9, <1>18 DEF Return
<1>21. /\ CardOK(disk', OnCard(disk')) /\ GlobalOK' /\ Known' /\ Follows(handle', disk')
       /\ disk' = o.disk /\ lfs' = o.lfs
  <2>1. CASE ~keep
    <3>1. Apply(o, p, <<Create(i)>>)
      BY <1>9, <2>1 DEF p, i
    <3> QED BY <1>17, <3>1, Applied DEF Apply
  <2>2. CASE keep
    <3>1. disk' = o.disk /\ lfs' = o.lfs /\ handle' = FixUp(mine, o, p, <<>>)
      BY <1>9, <1>18, <2>2 DEF p
    <3>2. /\ d \in Disks /\ Listed(d) = Listed(disk) /\ HasMore(d[p].ents, disk[p].ents, i, y)
          /\ Spread(d, o.disk, p, Free(Now)) /\ o.told = {p} /\ Clean(o)
      BY <1>13, <1>16 DEF Added
    <3>3. Hand(mine) /\ mine.kind = "reg" /\ mine.pair = p /\ mine.id = i /\ mine.node = f
      BY <1>5 DEF Hand, NoHandle, p, i
    <3>4. Points(mine, d)
      <4>1. disk[p] \in Content /\ Len(disk[p].ents) \in Nat
        BY <1>12 DEF Found, p
      <4>2. i \in 1 .. Len(d[p].ents) /\ d[p].ents[i] = y
        BY <1>15, <3>2, <4>1 DEF HasMore
      <4> QED BY <1>14, <1>15, <3>2, <3>3, <4>2 DEF Points
    <3>5. Len(<<>>) \in Nat /\ Len(<<>>) = 0
      OBVIOUS
    <3>6. mine = IF mine.pair = p THEN Shifted(mine, <<>>) ELSE mine
      BY <3>5, ShiftedIs
    <3>7. LikeHand(mine, mine)
      BY <3>3 DEF LikeHand
    <3>8. PICK e, F, m, nn : e = o.disk /\ F = Free(Now) /\ m = mine /\ nn = FixUp(mine, o, p, <<>>)
      OBVIOUS
    <3>9. e \in Disks
      BY <3>2, <3>8, CleanIs
    <3>10. Follows(nn, e)
      <4>1. /\ d \in Disks /\ e \in Disks /\ p \in Listed(d) /\ Spread(d, e, p, F)
            /\ Hand(mine) /\ mine.kind = "reg" /\ o.disk = e
            /\ m = (IF mine.pair = p THEN Shifted(mine, <<>>) ELSE mine) /\ LikeHand(m, mine)
            /\ (m.pair # NoPair => m.pair = mine.pair /\ Points(m, d))
            /\ p \in o.told /\ (mine.pair \in o.told /\ m.pair # NoPair => mine.pair = p)
            /\ nn = FixUp(mine, o, p, <<>>)
        BY <1>15, <3>2, <3>3, <3>4, <3>6, <3>7, <3>8, <3>9
      <4> QED BY ONLY <4>1, FixedUp
    <3>11. CardOK(disk', OnCard(disk')) /\ GlobalOK' /\ Known'
      BY <1>17, <3>1 DEF Landed, GlobalOK, Known
    <3> QED BY <3>1, <3>8, <3>10, <3>11
  <2> QED BY <2>1, <2>2
<1>22. Orphaned(disk') = {} /\ Moves(lfs'.gdisk) = {}
  BY <1>17, <1>18, <1>21 DEF Moves
<1>23. OpOK'
  BY <1>20, <1>21, <1>22 DEF OpOK, Idle
<1>24. OthersOK'
  BY <1>19, <1>20 DEF OthersOK
<1> QED BY <1>21, <1>22, <1>23, <1>24, InvIf

------------------------------------------------------------------------------
(* lfs_mkdir.                                                              *)

(* Handles after a commit that puts d on the card, but for a split of p.   *)
LEMMA CommitCarries ==
  ASSUME NEW s, s.told = {}, NEW p, NEW d \in Disks, NEW o, Committed(s, p, d, o),
         p \in Listed(d), NEW attrs, Len(attrs) \in Nat,
         \A h : Follows(h, disk) /\ Points(h, disk) /\ h.pair # p => Points(h, d),
         \A h : Tracks(h, disk, p) /\ h.pair # NoPair => Tracks(Shifted(h, attrs), d, p)
  PROVE  Carried(o, p, attrs)
<1>1. /\ Clean(o) /\ o.disk \in Disks /\ o.told = {p} /\ Spread(d, o.disk, p, Free(s))
  BY CommittedClean DEF Committed
<1>2. ASSUME NEW h, Follows(h, disk) PROVE Follows(FixUp(h, o, p, attrs), o.disk)
  <2>1. PICK n : n = FixUp(h, o, p, attrs)
    OBVIOUS
  <2>2. o.told \in SUBSET Pair
    BY <1>1, ListCloses
  <2>3. ASSUME h.kind = "reg", h.pair # NoPair PROVE Follows(n, o.disk)
    <3>1. Hand(h) /\ Points(h, disk)
      BY <1>2, <2>3 DEF Follows
    <3>2. PICK m : m = IF h.pair = p THEN Shifted(h, attrs) ELSE h
      OBVIOUS
    <3>3. LikeHand(m, h)
      <4>1. LikeHand(h, h)
        BY <3>1 DEF LikeHand
      <4>2. LikeHand(Shifted(h, attrs), h)
        BY <3>1, ShiftedIs
      <4> QED BY <3>2, <4>1, <4>2
    <3>4. m.pair # NoPair => m.pair = h.pair /\ Points(m, d)
      <4>1. CASE h.pair # p
        BY <1>2, <3>1, <3>2, <4>1
      <4>2. CASE h.pair = p
        <5>1. Tracks(h, disk, p)
          BY <2>3, <3>1, <4>2 DEF Tracks
        <5>2. Tracks(m, d, p)
          BY <2>3, <3>2, <4>2, <5>1
        <5> QED BY <4>2, <5>2 DEF Tracks
      <4> QED BY <4>1, <4>2
    <3>5. PICK e, F : e = o.disk /\ F = Free(s)
      OBVIOUS
    <3>6. /\ d \in Disks /\ e \in Disks /\ p \in Listed(d) /\ Spread(d, e, p, F)
          /\ Hand(h) /\ h.kind = "reg" /\ o.disk = e
          /\ m = (IF h.pair = p THEN Shifted(h, attrs) ELSE h) /\ LikeHand(m, h)
          /\ (m.pair # NoPair => m.pair = h.pair /\ Points(m, d))
          /\ p \in o.told /\ (h.pair \in o.told /\ m.pair # NoPair => h.pair = p)
          /\ n = FixUp(h, o, p, attrs)
      BY <1>1, <2>1, <2>3, <3>1, <3>2, <3>3, <3>4, <3>5
    <3>7. Follows(n, e)
      BY ONLY <3>6, FixedUp
    <3> QED BY <3>5, <3>7
  <2>4. PICK e : e = o.disk
    OBVIOUS
  <2>5. Follows(n, e)
    BY ONLY <1>2, <2>1, <2>2, <2>3, <2>4, Len(attrs) \in Nat, FollowsIf
  <2> QED BY <2>1, <2>4, <2>5
<1> QED BY <1>2 DEF Carried

(* A directory of one pair ends where it starts.                           *)
LEMMA LastOfOne ==
  ASSUME NEW d \in Disks, NEW p \in Pair, ~d[p].split
  PROVE  LastOf(d, p) = p
<1>1. Chain(d, p) \subseteq {p}
  <2>1. \A r \in {p} \cap Pair : Goes(d, r, TRUE) => d[r].tail \in {p}
    BY DEF Goes
  <2> QED BY <2>1, ClosureIsLeast DEF Chain
<1>2. p \in Chain(d, p)
  BY ClosureCloses DEF Chain
<1> QED BY <1>1, <1>2 DEF LastOf

(* The first commit of lfs_mkdir, to the new pair, keeps the invariant.    *)
LEMMA MkdirInv ==
  ASSUME Sure, Inv, Mkdir
  PROVE  Inv'
<1>1. Ready /\ Begin
  BY DEF Mkdir
<1>2. PICK h \in Dirs, n \in Name, q \in Free(Now) :
       LET w == Lookup(disk, lfs.gdisk, h, n)
           last == LastOf(disk, w.pair)
       IN /\ ~w.found
          /\ \E o \in Put([Now EXCEPT !.held = {q}], q, NewPair(disk, last)) :
               /\ Apply(o, q, <<>>)
               /\ IF ~o.ok THEN Return("error")
                  ELSE /\ op' = [at |-> IF disk[w.pair].split
                                        THEN "mkdir_link" ELSE "mkdir_entry",
                                 dir |-> q, cwd |-> w.pair, id |-> w.id,
                                 name |-> n, last |-> last,
                                 split |-> disk[w.pair].split]
                       /\ Running([op |-> "make", dir |-> h, name |-> n,
                                   node |-> q,
                                   found |-> Tree(disk, lfs.gdisk)])
  BY Zenon DEF Mkdir
<1>3. PICK w : w = Lookup(disk, lfs.gdisk, h, n)
  OBVIOUS
<1>4. PICK last : last = LastOf(disk, w.pair)
  OBVIOUS
<1>5. PICK s, m : s = SetHeld(Now, {q}) /\ m = SetTail(Blank, disk[last].tail)
  OBVIOUS
<1>6. s = [Now EXCEPT !.held = {q}] /\ m = NewPair(disk, last)
  BY <1>5, Zenon DEF SetHeld, SetTail, NewPair
<1>7. PICK o :
        /\ o \in Put(s, q, m) /\ Apply(o, q, <<>>)
        /\ IF ~o.ok THEN Return("error")
                  ELSE /\ op' = [at |-> IF disk[w.pair].split
                                        THEN "mkdir_link" ELSE "mkdir_entry",
                                 dir |-> q, cwd |-> w.pair, id |-> w.id,
                                 name |-> n, last |-> last,
                                 split |-> disk[w.pair].split]
                       /\ result' = result
  BY <1>2, <1>3, <1>4, <1>6 DEF Running
<1>8. /\ Known /\ Held = {} /\ Moves(lfs.gdisk) = {} /\ Moves(OnCard(disk)) = {}
      /\ lfs.gstate = {} /\ Orphaned(disk) = {}
  BY <1>1, ReadyIs
<1>9. CardOK(disk, OnCard(disk)) /\ OthersOK /\ lfs \in Globals /\ lfs.gdelta = {} /\ lfs.gdisk = OnCard(disk)
  BY <1>8 DEF Inv, GlobalOK, Known
<1>10. Found(w)
  BY <1>1, <1>3, FoundIs
<1>11. /\ Now \in States /\ Now.disk = disk /\ Now.lfs = lfs /\ Now.held = {} /\ Now.ok = TRUE /\ Now.told = {}
  BY <1>8, NowClean
<1>12. q \in Pair \ Listed(disk)
  BY <1>11 DEF Free
<1>13. /\ disk \in Disks /\ Threaded(disk) /\ Filled(disk) /\ Listed(disk) \in SUBSET Pair
  BY <1>9, CardIs
<1>14. /\ last \in Listed(disk) /\ disk[last].split = FALSE /\ last \in Pair
       /\ (~disk[w.pair].split => last = w.pair)
       /\ w.pair \in Listed(disk) /\ w.pair \in Pair /\ w.id \in 1 .. (Len(disk[w.pair].ents) + 1)
       /\ Len(disk[w.pair].ents) \in Nat
  <2>1. w.pair \in Listed(disk) /\ w.pair \in Pair /\ w.id \in 1 .. (Len(disk[w.pair].ents) + 1)
        /\ Len(disk[w.pair].ents) \in Nat
    BY <1>10 DEF Found
  <2> QED BY <1>4, <1>13, <2>1, ChainEnds, LastOfOne
<1>15. /\ s \in States /\ s.disk = disk /\ s.lfs = lfs /\ s.held = {q} /\ s.ok = TRUE /\ s.told = {}
  BY <1>5, <1>11, <1>12, WithHeld
<1>16. disk[last].tail \in Pair \cup {NoPair} /\ disk[last].tail # Root
  BY <1>13, <1>14, DiskType DEF Threaded, TailsOK
<1>17. m \in Content /\ m.ents = <<>> /\ m.tail = disk[last].tail /\ m.split = FALSE /\ m.delta = {}
  <2>1. Blank \in Content /\ Blank.ents = <<>> /\ Blank.split = FALSE /\ Blank.delta = {}
    BY DEF Blank, Content
  <2> QED BY <1>5, <1>16, <2>1, WithTail
<1>18. /\ o \in States /\ o.lfs = Settled(lfs) /\ o.ok /\ o.told = {q}
       /\ Whole(disk, o.disk, q, m, Pending(lfs))
  <2>1. q \notin Free(s)
    BY <1>15 DEF Free
  <2>2. Len(m.ents) = 0 /\ ~(Len(m.ents) > Capacity)
    BY <1>17, DirTreeAssumption
  <2>3. q \in Pair
    BY <1>12
  <2>4. q \in Free(s) => Len(m.ents) = 0
    BY <2>1
  <2>5. o \in Put(s, q, m)
    BY <1>7
  <2>6. /\ o \in States /\ o.lfs = Settled(s.lfs) /\ o.held = s.held
         /\ o.ok = s.ok /\ o.told = s.told \cup {q}
         /\ \/ /\ Len(m.ents) <= Full
               /\ Whole(s.disk, o.disk, q, m, Pending(s.lfs))
            \/ \E r \in Free(s) :
                 /\ Len(m.ents) > Capacity
                 /\ Halves(s.disk, o.disk, q, r, m, Pending(s.lfs))
    BY ONLY Sure, <1>15, <1>17, <2>3, <2>4, <2>5, PutIs
  <2> QED BY <1>15, <2>2, <2>6
<1>19. PICK e : e = o.disk
  OBVIOUS
<1>20. /\ e \in Disks /\ e[q].ents = <<>> /\ e[q].tail = disk[last].tail /\ e[q].split = FALSE
       /\ e[q].delta = OnCard(disk)
       /\ \A r \in Pair \ {q} : e[r] = disk[r]
  <2>1. Pending(lfs) = OnCard(disk)
    <3>1. Pending(lfs) = Xor(Xor({}, lfs.gdisk), {})
      BY <1>8, <1>9 DEF Pending
    <3> QED BY <1>9, <3>1, XorIs
  <2>2. Xor(m.delta, Pending(lfs)) = OnCard(disk)
    BY <1>17, <2>1, XorIs
  <2>3. e \in Disks
    BY <1>18, <1>19, StateIs
  <2> QED BY <1>17, <1>18, <1>19, <2>2, <2>3 DEF Whole
<1>21. \A r \in Listed(disk) : e[r] = disk[r] /\ r \in Pair /\ r # q
  BY <1>12, <1>13, <1>20
<1>22. Threaded(e) /\ Listed(e) = Listed(disk) /\ Heads(e) = Heads(disk)
  <2>1. TailsOK(e)
    BY <1>12, <1>13, <1>16, <1>20 DEF Threaded, TailsOK
  <2> QED BY <1>13, <1>20, <1>21, <2>1, SameThread
<1>23. OnCard(e) = OnCard(disk)
  BY <1>13, <1>20, <1>21, <1>22, SumSame DEF OnCard
<1>24. ASSUME NEW x PROVE NameCount(e, x) = NameCount(disk, x)
  BY <1>13, <1>20, <1>21, <1>22, SameNames
<1>25. Orphaned(e) = {}
  BY <1>8, <1>22, <1>24 DEF Orphaned
<1>26. CardOK(e, OnCard(e))
  <2>1. Filled(e)
    BY <1>12, <1>13, <1>20, DirTreeAssumption DEF Filled
  <2>2. MovesOK(e, OnCard(e))
    BY <1>8, <1>23 DEF MovesOK
  <2>3. NamesOK(e, OnCard(e))
    <3>1. NamesOK(disk, OnCard(disk))
      BY <1>9 DEF CardOK
    <3>2. \A x \in Pair : ~(NameCount(disk, x) >= 2)
      BY <1>8, <3>1 DEF NamesOK
    <3> QED BY <1>22, <1>24, <3>1, <3>2 DEF NamesOK
  <2>4. OrphansOK(e, OnCard(e))
    BY <1>25 DEF OrphansOK
  <2> QED BY <1>9, <1>20, <1>22, <1>23, <2>1, <2>2, <2>3, <2>4 DEF CardOK
<1>27. /\ disk' = e /\ lfs' \in Globals /\ lfs'.gstate = {} /\ lfs'.gdisk = {} /\ lfs'.gdelta = {}
  BY <1>7, <1>8, <1>9, <1>18, <1>19, GlobalsIs DEF Apply
<1>28. GlobalOK'
  BY <1>8, <1>23, <1>27 DEF GlobalOK, Moves
<1>29. Carried(o, q, <<>>)
  <2>1. Len(<<>>) \in Nat
    OBVIOUS
  <2>2. ASSUME NEW g, Follows(g, disk) PROVE Follows(FixUp(g, o, q, <<>>), o.disk)
    <3>1. PICK k : k = FixUp(g, o, q, <<>>)
      OBVIOUS
    <3>2. ASSUME g.kind = "reg", g.pair # NoPair PROVE Follows(k, e)
      <4>1. Points(g, disk) /\ g.pair \in Listed(disk)
        BY <2>2, <3>2 DEF Follows, Points
      <4>2. g.pair \notin o.told
        BY <1>12, <1>18, <4>1
      <4>3. k = g
        BY <3>1, <4>2, Zenon DEF FixUp
      <4>4. Points(g, e)
        BY <1>21, <1>22, <4>1 DEF Points
      <4> QED BY <2>2, <4>3, <4>4 DEF Follows
    <3>3. o.told \in SUBSET Pair
      BY <1>12, <1>18
    <3>4. PICK attrs : attrs = <<>>
      OBVIOUS
    <3>5. Len(attrs) \in Nat /\ k = FixUp(g, o, q, attrs)
      BY <2>1, <3>1, <3>4
    <3>6. Follows(k, e)
      BY ONLY <2>2, <3>2, <3>3, <3>5, FollowsIf
    <3> QED BY <1>19, <3>1, <3>6
  <2> QED BY <2>1, <2>2 DEF Carried
<1>30. Follows(handle', disk')
  BY <1>7, <1>29, AppliedHandle
<1>31. op' = [at |-> IF disk[w.pair].split THEN "mkdir_link" ELSE "mkdir_entry",
              dir |-> q, cwd |-> w.pair, id |-> w.id, name |-> n, last |-> last,
              split |-> disk[w.pair].split] /\ result' = result
  BY <1>7, <1>18
<1>32. disk[w.pair].split \in BOOLEAN
  BY <1>13, <1>14, DiskType
<1>33. op' \in Settling
  BY <1>12, <1>14, <1>31, <1>32 DEF Settling
<1>34. /\ q \notin Listed(e) /\ Bare(e, q) /\ e[q].delta = OnCard(e)
       /\ last \in Listed(e) /\ ~e[last].split /\ e[q].tail = e[last].tail
       /\ w.pair \in Listed(e) /\ e[w.pair] = disk[w.pair]
       /\ w.id \in 1 .. (Len(e[w.pair].ents) + 1)
  BY <1>12, <1>14, <1>20, <1>21, <1>22, <1>23 DEF Bare
<1>35. OpOK'
  <2>1. CASE disk[w.pair].split
    <3>1. op'.at = "mkdir_link" /\ op'.dir = q /\ op'.cwd = w.pair /\ op'.id = w.id /\ op'.last = last /\ op'.split
      BY <1>31, <2>1
    <3> QED BY <1>25, <1>27, <1>33, <1>34, <2>1, <3>1 DEF OpOK
  <2>2. CASE ~disk[w.pair].split
    <3>1. op'.at = "mkdir_entry" /\ op'.dir = q /\ op'.cwd = w.pair /\ op'.id = w.id /\ ~op'.split
      BY <1>31, <2>2
    <3> QED BY <1>14, <1>25, <1>27, <1>33, <1>34, <2>2, <3>1 DEF OpOK
  <2> QED BY <2>1, <2>2
<1>36. OthersOK'
  BY <1>1, <1>9, <1>31, DirTreeAssumption DEF Begin, OthersOK
<1>37. Moves(lfs'.gdisk) = {}
  BY <1>27 DEF Moves
<1> QED BY <1>26, <1>27, <1>28, <1>30, <1>35, <1>36, <1>37, InvIf

(* q, a new directory, is linked behind p, where a directory ends.         *)
Linking(c, p, q, m, d) ==
  /\ c \in Disks /\ Threaded(c) /\ p \in Listed(c) /\ ~c[p].split
  /\ q \in Pair \ Listed(c) /\ Bare(c, q) /\ c[q].tail = c[p].tail /\ c[q].delta = OnCard(c)
  /\ m \in Content /\ m.tail = q /\ m.split = FALSE /\ m.delta = c[p].delta
  /\ d = SetPair(c, p, m)
Linked(c, p, q, m, d) ==
  /\ d \in Disks /\ Threaded(d) /\ Listed(d) = Listed(c) \cup {q} /\ Heads(d) = Heads(c) \cup {q}
  /\ OnCard(d) = {} /\ d[p] = m /\ (\A r \in Pair \ {p} : d[r] = c[r]) /\ q # Root /\ q # p

(* A pair that has been written ahead of its predecessor joins the list    *)
(* where the list went on.                                                 *)
LEMMA LinkedIs ==
  ASSUME NEW c, NEW p, NEW q, NEW m, NEW d, Linking(c, p, q, m, d)
  PROVE  Linked(c, p, q, m, d)
<1>1. /\ c \in Disks /\ Threaded(c) /\ p \in Listed(c) /\ ~c[p].split
      /\ q \in Pair \ Listed(c) /\ Bare(c, q) /\ c[q].tail = c[p].tail /\ c[q].delta = OnCard(c)
      /\ m \in Content /\ m.tail = q /\ m.split = FALSE /\ m.delta = c[p].delta
      /\ d = SetPair(c, p, m)
  BY DEF Linking
<1>2. Listed(c) \in SUBSET Pair /\ Root \in Listed(c)
  BY <1>1, ListCloses
<1>3. p \in Pair /\ q # Root /\ q # p /\ ~c[q].split
  BY <1>1, <1>2 DEF Bare
<1>4. d \in Disks /\ d[p] = m /\ \A r \in Pair \ {p} : d[r] = c[r]
  BY <1>1, <1>3, WithPair
<1>5. d[q] = c[q]
  BY <1>1, <1>3, <1>4
<1>6. TailsOK(d)
  <2>1. ASSUME NEW r \in Pair PROVE d[r].tail # Root /\ (d[r].split => d[r].tail # NoPair)
    <3>1. c[r].tail # Root /\ (c[r].split => c[r].tail # NoPair)
      BY <1>1 DEF Threaded, TailsOK
    <3> QED BY <1>1, <1>3, <1>4, <3>1
  <2> QED BY <2>1 DEF TailsOK
<1>7. \A r \in Listed(c) \ {p} : d[r].tail = c[r].tail /\ d[r].split = c[r].split
  BY <1>2, <1>4
<1>8. Threaded(d) /\ Listed(d) = Listed(c) \cup {q} /\ Heads(d) = Heads(c) \cup {q}
  <2>1. d[p].tail = q /\ d[q].tail = c[p].tail /\ ~d[p].split /\ ~d[q].split
    BY <1>1, <1>3, <1>4, <1>5
  <2> QED BY <1>1, <1>4, <1>6, <1>7, <2>1, Inserted
<1>9. OnCard(d) = {}
  <2>1. \A r \in Listed(c) : d[r].delta = c[r].delta
    BY <1>1, <1>2, <1>4
  <2>2. Sum(d, Listed(c)) = OnCard(c)
    BY <1>1, <1>2, <1>4, <2>1, SumSame DEF OnCard
  <2>3. q \in Pair \ Listed(c)
    BY <1>1
  <2>4. Sum(d, Listed(c) \cup {q}) = Xor(Sum(d, Listed(c)), d[q].delta)
    BY <1>2, <1>4, <2>3, SumAdd
  <2>5. OnCard(d) = Xor(OnCard(c), OnCard(c))
    BY <1>1, <1>5, <1>8, <2>2, <2>4 DEF OnCard
  <2> QED BY <2>5, XorIs
<1> QED BY <1>3, <1>4, <1>8, <1>9 DEF Linked

(* Handles of the commit that links.                                       *)
LEMMA LinkPoints ==
  ASSUME CardOK(disk, OnCard(disk)), NEW p, NEW q, NEW m, NEW d, Linked(disk, p, q, m, d),
         NEW h, Points(h, disk), h.pair # p \/ m.ents = disk[p].ents
  PROVE  Points(h, d)
<1>1. h.pair \in Listed(disk) /\ h.pair \in Pair
  BY CardIs DEF Points
<1>2. h.pair \in Listed(d) /\ d[h.pair].ents = disk[h.pair].ents
  BY <1>1 DEF Linked
<1> QED BY <1>2 DEF Points

(* The commit of lfs_mkdir that links the new pair q behind the last, p,   *)
(* of a split directory.                                                   *)
LinkCommit(s, p, q, m, d, o) ==
  /\ p = op.last /\ q = op.dir /\ s.disk = disk /\ s.lfs.gstate = {Orphans}
  /\ s.ok = TRUE /\ s.told = {}
  /\ m.ents = disk[p].ents /\ m.split = FALSE /\ Linked(disk, p, q, m, d) /\ Committed(s, p, d, o)
  /\ Apply([o EXCEPT !.lfs = PrepOrphans(@, FALSE)], p, <<>>)
  /\ op' = [op EXCEPT !.at = "mkdir_entry"] /\ UNCHANGED <<call, result>>

(* The commit by which mkdir puts its pair onto the list.                  *)
LEMMA MkdirLinks ==
  ASSUME Sure, Inv, MkdirLink
  PROVE  \E s, p, q, m, d, o : LinkCommit(s, p, q, m, d, o)
<1>1. op.at = "mkdir_link" /\ UNCHANGED calls
  BY DEF MkdirLink
<1> DEFINE p == op.last
           q == op.dir
<1>2. /\ op \in Settling
      /\ lfs.gdisk = {} /\ lfs.gstate = {} /\ Orphaned(disk) = {}
      /\ q \notin Listed(disk) /\ Bare(disk, q) /\ disk[q].delta = OnCard(disk)
      /\ p \in Listed(disk) /\ ~disk[p].split /\ disk[q].tail = disk[p].tail
      /\ op.cwd \in Listed(disk) /\ disk[op.cwd].split /\ op.split
      /\ op.id \in 1 .. (Len(disk[op.cwd].ents) + 1)
  BY <1>1 DEF Inv, OpOK
<1>3. /\ q \in Pair /\ p \in Pair /\ Held = {q}
  BY <1>1, <1>2 DEF Settling, Held
<1>4. CardOK(disk, OnCard(disk)) /\ OthersOK /\ lfs \in Globals /\ lfs.gdelta = {} /\ Moves(OnCard(disk)) = {}
  BY <1>2 DEF Inv, GlobalOK, Moves
<1>5. /\ disk \in Disks /\ Threaded(disk) /\ Filled(disk) /\ Listed(disk) \in SUBSET Pair
      /\ disk[p] \in Content /\ Short(disk) /\ Heads(disk) \in SUBSET Listed(disk)
  BY <1>2, <1>4, CardIs
<1>6. /\ Now \in States /\ Now.disk = disk /\ Now.lfs = lfs /\ Now.held = {q} /\ Now.ok = TRUE /\ Now.told = {}
  BY <1>3, NowIs
<1>7. PICK l : l = PrepOrphans(lfs, TRUE)
  OBVIOUS
<1>8. l \in Globals /\ l.gstate = {Orphans} /\ l.gdisk = {} /\ l.gdelta = {}
  <2>1. {} \in SUBSET Token
    OBVIOUS
  <2>2. /\ l \in Globals /\ l.gstate = lfs.gstate \cup {Orphans}
        /\ l.gdisk = lfs.gdisk /\ l.gdelta = lfs.gdelta
    BY <1>4, <1>7, <2>1, PrepIs
  <2> QED BY <1>2, <1>4, <2>2
<1>9. PICK s : s = SetLfs(Now, l)
  OBVIOUS
<1>10. /\ s \in States /\ s.disk = disk /\ s.lfs = l /\ s.held = {q} /\ s.ok = TRUE /\ s.told = {}
  BY <1>6, <1>8, <1>9, WithLfs
<1>11. PICK n : n = SetTail(disk[p], q)
  OBVIOUS
<1>12. PICK m, d : m = SetSplit(n, FALSE) /\ d = SetPair(disk, p, m)
  OBVIOUS
<1>13. /\ m \in Content /\ m.ents = disk[p].ents /\ m.tail = q /\ m.split = FALSE /\ m.delta = disk[p].delta
  <2>1. /\ n \in Content /\ n.ents = disk[p].ents /\ n.tail = q /\ n.delta = disk[p].delta
    BY <1>3, <1>5, <1>11, WithTail
  <2>2. PICK b : b = FALSE
    OBVIOUS
  <2>3. b \in BOOLEAN /\ m = SetSplit(n, b)
    BY <1>12, <2>2
  <2>4. /\ m \in Content /\ m.ents = n.ents /\ m.tail = n.tail /\ m.split = b /\ m.delta = n.delta
    BY <2>1, <2>3, WithSplit
  <2> QED BY <2>1, <2>2, <2>4
<1>14. s = [Now EXCEPT !.lfs = PrepOrphans(@, TRUE)]
  <2>1. Now.lfs = lfs
    BY DEF Now
  <2> QED BY <1>7, <1>9, <2>1, Zenon DEF SetLfs
<1>15. m = [disk[op.last] EXCEPT !.tail = op.dir, !.split = FALSE]
  BY <1>11, <1>12, Zenon DEF SetTail, SetSplit
<1>16. PICK o :
        /\ o \in Put(s, p, m)
        /\ IF ~o.ok THEN Apply(o, p, <<>>) /\ Return("error")
           ELSE /\ Apply([o EXCEPT !.lfs = PrepOrphans(@, FALSE)], p, <<>>)
                /\ op' = [op EXCEPT !.at = "mkdir_entry"]
                /\ UNCHANGED <<call, result>>
  BY <1>14, <1>15 DEF MkdirLink
<1>17. Linked(disk, p, q, m, d)
  <2> HIDE DEF p, q
  <2>1. Linking(disk, p, q, m, d)
    BY <1>2, <1>3, <1>5, <1>12, <1>13 DEF Linking
  <2> QED BY <2>1, LinkedIs
<1> HIDE DEF p, q
<1>18. /\ d \in Disks /\ Threaded(d) /\ Listed(d) = Listed(disk) \cup {q} /\ Heads(d) = Heads(disk) \cup {q}
       /\ OnCard(d) = {} /\ d[p] = m /\ (\A r \in Pair \ {p} : d[r] = disk[r]) /\ q # Root /\ q # p
  BY <1>17 DEF Linked
<1>19. \A r \in Pair : d[r].ents = disk[r].ents
  BY <1>13, <1>18
<1>20. Target(s, p, m, d)
  <2>1. OnCard(d) = Xor(s.lfs.gdisk, s.lfs.gdelta)
    BY <1>8, <1>10, <1>18, XorIs
  <2>2. Short(d) /\ \A r \in Pair \ {p} : Len(d[r].ents) <= Full
    BY <1>5, <1>19 DEF Short, Filled
  <2>3. p \in Listed(d) /\ Listed(d) \subseteq Listed(s.disk) \cup s.held
    BY <1>2, <1>10, <1>18
  <2> QED BY <1>3, <1>10, <1>12, <1>13, <1>18, <2>1, <2>2, <2>3 DEF Target
<1>21. Committed(s, p, d, o)
  BY <1>16, <1>20, PutCommits
<1>22. o.ok
  BY <1>10, <1>21 DEF Committed
<1>23. LinkCommit(s, p, q, m, d, o)
  BY <1>8, <1>10, <1>13, <1>16, <1>17, <1>21, <1>22 DEF LinkCommit, p, q
<1> QED BY <1>23

(* It keeps the invariant.                                                 *)
LEMMA MkdirLinkInv ==
  ASSUME Sure, Inv, MkdirLink
  PROVE  Inv'
<1>1. op.at = "mkdir_link" /\ UNCHANGED calls
  BY DEF MkdirLink
<1>2. PICK s, p, q, m, d, o : LinkCommit(s, p, q, m, d, o)
  BY MkdirLinks
<1>3. /\ op \in Settling /\ p = op.last /\ q = op.dir
      /\ lfs.gdisk = {} /\ lfs.gstate = {} /\ Orphaned(disk) = {}
      /\ q \notin Listed(disk) /\ Bare(disk, q) /\ disk[q].delta = OnCard(disk)
      /\ p \in Listed(disk) /\ ~disk[p].split /\ disk[q].tail = disk[p].tail
      /\ op.cwd \in Listed(disk) /\ disk[op.cwd].split /\ op.split
      /\ op.id \in 1 .. (Len(disk[op.cwd].ents) + 1)
  BY <1>1, <1>2 DEF Inv, OpOK, LinkCommit
<1>4. /\ q \in Pair /\ p \in Pair
  BY <1>1, <1>3 DEF Settling
<1>5. CardOK(disk, OnCard(disk)) /\ OthersOK /\ lfs \in Globals /\ lfs.gdelta = {} /\ Moves(OnCard(disk)) = {}
  BY <1>3 DEF Inv, GlobalOK, Moves
<1>6. /\ disk \in Disks /\ Threaded(disk) /\ Filled(disk) /\ Listed(disk) \in SUBSET Pair
      /\ disk[p] \in Content /\ Short(disk) /\ Heads(disk) \in SUBSET Listed(disk)
  BY <1>3, <1>5, CardIs
<1>7. /\ Linked(disk, p, q, m, d) /\ Committed(s, p, d, o) /\ m.ents = disk[p].ents
       /\ s.lfs.gstate = {Orphans} /\ s.ok = TRUE /\ s.told = {}
  BY <1>2 DEF LinkCommit
<1>8. /\ d \in Disks /\ Threaded(d) /\ Listed(d) = Listed(disk) \cup {q} /\ Heads(d) = Heads(disk) \cup {q}
       /\ OnCard(d) = {} /\ d[p] = m /\ (\A r \in Pair \ {p} : d[r] = disk[r]) /\ q # Root /\ q # p
  BY <1>7 DEF Linked
<1>9. \A r \in Pair : d[r].ents = disk[r].ents
  BY <1>7, <1>8
<1>10. /\ Clean(o) /\ o.disk \in Disks /\ o \in States /\ o.lfs.gstate = {Orphans} /\ o.lfs.gdisk = {Orphans} /\ o.ok
       /\ Alike(d, o.disk) /\ Spread(d, o.disk, p, Free(s))
  <2>1. Clean(o) /\ o.disk \in Disks
    BY <1>7, CommittedClean
  <2> QED BY <1>7, <2>1 DEF Committed
<1>11. ASSUME NEW x PROVE NameCount(o.disk, x) = NameCount(disk, x)
  <2>1. \A r \in Listed(d) : r \in Listed(disk) \/ d[r].ents = <<>>
    BY <1>3, <1>4, <1>8, <1>9 DEF Bare
  <2>2. \A r \in Listed(disk) : r \in Listed(d)
    BY <1>8
  <2>3. \A r \in Listed(disk) \cap Listed(d) : d[r].ents = disk[r].ents
    BY <1>6, <1>9
  <2>4. NameCount(d, x) = NameCount(disk, x)
    BY <1>6, <1>8, <2>1, <2>2, <2>3, SameNames
  <2> QED BY <1>10, <2>4 DEF Alike
<1>12. Heads(o.disk) = Heads(disk) \cup {q}
  BY <1>8, <1>10 DEF Alike
<1>13. \A x \in Pair : NameCount(disk, x) \in {0, 1} /\ (NameCount(disk, x) # 0 => x \in Heads(disk) \ {Root})
  BY <1>5, OneNamed
<1>14. Orphaned(o.disk) = {q}
  <2>1. NameCount(disk, q) = 0
    BY <1>3, <1>4, <1>6, <1>13
  <2>2. \A h \in Heads(disk) \ {Root} : NameCount(disk, h) # 0
    BY <1>3 DEF Orphaned
  <2> QED BY <1>8, <1>11, <1>12, <2>1, <2>2 DEF Orphaned
<1>15. \A r \in Listed(disk) \cup {q} : r # p => o.disk[r] = disk[r] /\ r \in Listed(o.disk)
  BY <1>4, <1>6, <1>8, <1>10 DEF Spread
<1>16. CardOK(o.disk, OnCard(o.disk)) /\ OnCard(o.disk) = o.lfs.gdisk
  <2>1. ASSUME NEW x \in Pair
        PROVE  /\ NameCount(o.disk, x) # 0 => x \in Heads(o.disk) \ {Root}
               /\ ~(NameCount(o.disk, x) >= 2)
    BY <1>11, <1>12, <1>13
  <2>2. OrphansOK(o.disk, o.lfs.gdisk)
    BY <1>3, <1>8, <1>10, <1>14, <1>15 DEF OrphansOK, Bare
  <2>3. Clean(o) /\ Moves(o.lfs.gdisk) = {}
    BY <1>10 DEF Moves
  <2> QED BY ONLY <2>1, <2>2, <2>3, CardIsOK
<1>17. Landed(o)
  <2>1. o.lfs \in Globals /\ o.lfs.gdelta = {}
    BY <1>10, CleanIs DEF Clean
  <2> QED BY <1>10, <1>16, <2>1 DEF Landed
<1>18. Carried(o, p, <<>>)
  <2>1. PICK attrs : attrs = <<>>
    OBVIOUS
  <2>2. Len(attrs) \in Nat /\ Len(attrs) = 0
    BY <2>1
  <2>3. ASSUME NEW h, Points(h, disk) PROVE Points(h, d)
    BY <1>5, <1>7, <2>3, LinkPoints
  <2>4. ASSUME NEW h, Tracks(h, disk, p), h.pair # NoPair PROVE Tracks(Shifted(h, attrs), d, p)
    BY <2>2, <2>3, <2>4, ShiftedIs DEF Tracks
  <2>5. p \in Listed(d)
    BY <1>3, <1>8
  <2>6. Carried(o, p, attrs)
    BY ONLY <1>7, <1>8, <2>2, <2>3, <2>4, <2>5, CommitCarries
  <2> QED BY <2>1, <2>6
<1>19. PICK k : k = SetLfs(o, PrepOrphans(o.lfs, FALSE))
  OBVIOUS
<1>20. k = [o EXCEPT !.lfs = PrepOrphans(@, FALSE)]
  BY <1>19, Zenon DEF SetLfs
<1>21. Apply(k, p, <<>>) /\ op' = [op EXCEPT !.at = "mkdir_entry"] /\ result' = result
  BY <1>2, <1>20 DEF LinkCommit
<1>22. /\ Landed(k) /\ Carried(k, p, <<>>) /\ k.disk = o.disk
       /\ k.lfs.gstate = {} /\ k.lfs.gdisk = o.lfs.gdisk
  <2>1. Clearing(o, k, p, <<>>)
    BY <1>10, <1>17, <1>18, <1>19 DEF Clearing, Moves
  <2> QED BY <2>1, Cleared
<1>23. /\ CardOK(disk', OnCard(disk')) /\ GlobalOK' /\ Known' /\ Follows(handle', disk')
  BY <1>21, <1>22, Applied
<1>24. disk' = o.disk /\ lfs' = k.lfs
  BY <1>21, <1>22 DEF Apply
<1>25. /\ op' \in Settling /\ op'.at = "mkdir_entry" /\ op'.dir = op.dir /\ op'.cwd = op.cwd
       /\ op'.id = op.id /\ op'.split
  BY <1>3, <1>21 DEF Settling
<1>26. op.cwd \in Listed(disk') /\ disk'[op.cwd] = disk[op.cwd]
  <2>1. op.cwd \in Listed(disk) /\ op.cwd # p
    BY <1>3
  <2> QED BY <1>15, <1>24, <2>1
<1>27. /\ Moves(lfs'.gdisk) = {} /\ lfs'.gstate = {} /\ Orphaned(disk') = {op'.dir}
  BY <1>3, <1>10, <1>14, <1>22, <1>24, <1>25 DEF Moves
<1>28. OpOK'
  BY <1>3, <1>23, <1>25, <1>26, <1>27 DEF OpOK
<1>29. OthersOK'
  BY <1>1, <1>5, <1>21 DEF OthersOK
<1> QED BY <1>23, <1>27, <1>28, <1>29, InvIf

(* The entry of a new directory, in the last pair of its parent, which     *)
(* also links it.                                                          *)
LEMMA LinkNames ==
  ASSUME CardOK(disk, OnCard(disk)), NEW p, NEW q, NEW i \in 1 .. (Len(disk[p].ents) + 1),
         NEW y \in Entry, NEW m, NEW d, Linking(disk, p, q, m, d), Short(d),
         HasMore(m.ents, disk[p].ents, i, y)
  PROVE  /\ \A z : NameCount(d, z) = NameCount(disk, z) + (IF y.node = z THEN 1 ELSE 0)
         /\ \A h : Tracks(h, disk, p) => Tracks(Shift(h, Create(i)), d, p)
<1>1. Linked(disk, p, q, m, d)
  BY LinkedIs
<1>2. /\ d \in Disks /\ Listed(d) = Listed(disk) \cup {q} /\ d[p] = m
      /\ (\A r \in Pair \ {p} : d[r] = disk[r]) /\ q # p
  BY <1>1 DEF Linked
<1>3. /\ p \in Listed(disk) /\ q \in Pair /\ Bare(disk, q) /\ m \in Content
  BY DEF Linking
<1>4. /\ disk \in Disks /\ Threaded(disk) /\ Filled(disk) /\ Listed(disk) \in SUBSET Pair
      /\ p \in Pair /\ disk[p] \in Content
  BY <1>3, CardIs
<1>5. PICK n, c : n = SetEnts(disk[p], m.ents) /\ c = SetPair(disk, p, n)
  OBVIOUS
<1>6. n \in Content /\ n.ents = m.ents /\ n.tail = disk[p].tail /\ n.split = disk[p].split /\ n.delta = disk[p].delta
  <2>1. m.ents \in Seq(Entry)
    BY <1>3, ContentIs
  <2> QED BY <1>4, <1>5, <2>1, WithEnts
<1>7. c \in Disks /\ c[p] = n /\ \A r \in Pair \ {p} : c[r] = disk[r]
  BY <1>4, <1>5, <1>6, WithPair
<1>8. Listed(c) = Listed(disk)
  <2>1. Edited(disk, c, p)
    BY <1>6, <1>7 DEF Edited
  <2> QED BY <1>3, <1>4, <1>7, <2>1, EditedIs
<1>9. \A r \in Pair : c[r].ents = d[r].ents
  BY <1>2, <1>6, <1>7
<1>10. Short(c)
  BY <1>9 DEF Short
<1>11. HasMore(c[p].ents, disk[p].ents, i, y)
  BY <1>6, <1>7
<1>12. ASSUME NEW z PROVE NameCount(d, z) = NameCount(disk, z) + (IF y.node = z THEN 1 ELSE 0)
  <2>1. NameCount(c, z) = NameCount(disk, z) + (IF y.node = z THEN 1 ELSE 0)
    <3>1. \A r \in Listed(disk) \ {p} : c[r].ents = disk[r].ents
      BY <1>4, <1>7
    <3> QED BY <1>3, <1>4, <1>7, <1>8, <1>10, <1>11, <3>1, InsertNames
  <2>2. \A r \in Listed(d) : r \in Listed(c) \/ d[r].ents = <<>>
    BY <1>2, <1>3, <1>8 DEF Bare
  <2>3. \A r \in Listed(c) : r \in Listed(d)
    BY <1>2, <1>8
  <2>4. \A r \in Listed(c) \cap Listed(d) : d[r].ents = c[r].ents
    BY <1>4, <1>8, <1>9
  <2>5. NameCount(d, z) = NameCount(c, z)
    BY ONLY <1>2, <1>7, <2>2, <2>3, <2>4, SameNames
  <2> QED BY <2>1, <2>5
<1>13. ASSUME NEW h, Tracks(h, disk, p) PROVE Tracks(Shift(h, Create(i)), d, p)
  <2>1. PICK g : g = Shift(h, Create(i))
    OBVIOUS
  <2>2. Tracks(g, c, p)
    BY <1>3, <1>4, <1>7, <1>8, <1>11, <1>13, <2>1, CreateTracks
  <2>3. Tracks(g, d, p)
    BY <1>2, <1>4, <1>8, <1>9, <2>2 DEF Tracks, Points
  <2> QED BY <2>1, <2>3
<1> QED BY <1>12, <1>13

(* What the new entry needs of the commit that writes it.                  *)
Named(q, y, o) ==
  /\ Clean(o) /\ o.lfs.gstate = {} /\ o.lfs.gdisk = {} /\ o.ok
  /\ \A x : NameCount(o.disk, x) = NameCount(disk, x) + (IF y.node = x THEN 1 ELSE 0)
  /\ Heads(o.disk) = Heads(disk) \cup {q}

(* An entry for the new directory, linked before or in the same commit,    *)
(* leaves no orphan.                                                       *)
LEMMA NamedLands ==
  ASSUME CardOK(disk, OnCard(disk)), Moves(OnCard(disk)) = {}, NEW q \in Pair, NEW y, y.node = q,
         Orphaned(disk) \subseteq {q}, q \in Orphaned(disk) \/ q \notin Listed(disk), NEW o, Named(q, y, o)
  PROVE  Landed(o) /\ Orphaned(o.disk) = {}
<1>1. /\ Clean(o) /\ o.lfs.gstate = {} /\ o.lfs.gdisk = {}
      /\ (\A x : NameCount(o.disk, x) = NameCount(disk, x) + (IF q = x THEN 1 ELSE 0))
      /\ Heads(o.disk) = Heads(disk) \cup {q}
  BY DEF Named
<1>2. \A x \in Pair : NameCount(disk, x) \in {0, 1} /\ (NameCount(disk, x) # 0 => x \in Heads(disk) \ {Root})
  <2>1. PICK g : g = OnCard(disk)
    OBVIOUS
  <2>2. CardOK(disk, g) /\ Moves(g) = {}
    BY <2>1
  <2> QED BY ONLY <2>2, OneNamed
<1>3. NameCount(disk, q) = 0 /\ q # Root
  <2>1. Heads(disk) \in SUBSET Listed(disk) /\ Root \in Listed(disk)
    BY CardIs
  <2> QED BY <1>2, <2>1 DEF Orphaned
<1>4. Heads(disk) \in SUBSET Pair
  BY CardIs
<1>5. NameCount(o.disk, q) = 1 /\ \A x \in Pair : x # q => NameCount(o.disk, x) = NameCount(disk, x)
  BY <1>1, <1>2, <1>3
<1>6. Orphaned(o.disk) = {}
  BY <1>1, <1>4, <1>5 DEF Orphaned
<1>7. ASSUME NEW x \in Pair
      PROVE  /\ NameCount(o.disk, x) # 0 => x \in Heads(o.disk) \ {Root}
             /\ ~(NameCount(o.disk, x) >= 2)
  BY <1>1, <1>2, <1>3, <1>5
<1>8. OrphansOK(o.disk, o.lfs.gdisk)
  BY <1>6 DEF OrphansOK
<1>9. CardOK(o.disk, OnCard(o.disk)) /\ OnCard(o.disk) = o.lfs.gdisk
  <2>1. Clean(o) /\ Moves(o.lfs.gdisk) = {}
    BY <1>1 DEF Moves
  <2> QED BY ONLY <1>7, <1>8, <2>1, CardIsOK
<1>10. o.lfs \in Globals /\ o.lfs.gdelta = {}
  BY <1>1, CleanIs DEF Clean
<1> QED BY <1>1, <1>6, <1>9, <1>10 DEF Landed

(* The commit of lfs_mkdir that writes the entry y of the new directory q  *)
(* at i of p, and links q unless that has been done.                       *)
EntryCommit(s, p, q, i, y, x, m, d, o) ==
  /\ p = op.cwd /\ q = op.dir /\ i = op.id /\ y = [name |-> op.name, node |-> op.dir]
  /\ s \in States /\ s.disk = disk /\ s.lfs = lfs /\ s.ok = TRUE /\ s.told = {} /\ y \in Entry
  /\ x = InsertAt(disk[p].ents, i, y) /\ HasMore(x, disk[p].ents, i, y)
  /\ x \in Seq(Entry) /\ Len(x) <= Full + 1 /\ o \in Put(s, p, m)
  /\ Apply(o, p, <<Create(i)>>) /\ Return(IF o.ok THEN "ok" ELSE "error")
  /\ op.split => Clean(s) /\ m = SetEnts(disk[p], x)
  /\ ~op.split => /\ m.ents = x /\ m.split = FALSE
                  /\ Linking(disk, p, q, m, d) /\ Linked(disk, p, q, m, d)
                  /\ Committed(s, p, d, o)

(* The commit by which mkdir creates its entry.                            *)
LEMMA MkdirEnters ==
  ASSUME Sure, Inv, MkdirEntry
  PROVE  \E s, p, q, i, y, x, m, d, o : EntryCommit(s, p, q, i, y, x, m, d, o)
<1>1. op.at = "mkdir_entry" /\ UNCHANGED calls
  BY DEF MkdirEntry
<1> DEFINE p == op.cwd
           q == op.dir
           i == op.id
<1>2. /\ op \in Settling /\ lfs.gstate = {} /\ p \in Listed(disk)
      /\ i \in 1 .. (Len(disk[p].ents) + 1)
      /\ op.split => Known /\ Moves(lfs.gdisk) = {} /\ Orphaned(disk) = {q}
      /\ ~op.split => /\ lfs.gdisk = {} /\ Orphaned(disk) = {}
                      /\ q \notin Listed(disk) /\ Bare(disk, q) /\ disk[q].delta = OnCard(disk)
                      /\ ~disk[p].split /\ disk[q].tail = disk[p].tail
  BY <1>1 DEF Inv, OpOK
<1>3. /\ q \in Pair /\ p \in Pair /\ Held = {q} /\ op.name \in Name /\ op.split \in BOOLEAN
  BY <1>1, <1>2 DEF Settling, Held
<1>4. CardOK(disk, OnCard(disk)) /\ OthersOK /\ lfs \in Globals /\ lfs.gdelta = {} /\ Moves(OnCard(disk)) = {}
  BY <1>2 DEF Inv, GlobalOK, Moves
<1>5. /\ disk \in Disks /\ Threaded(disk) /\ Filled(disk) /\ Listed(disk) \in SUBSET Pair
      /\ disk[p] \in Content /\ Short(disk) /\ Heads(disk) \in SUBSET Listed(disk)
      /\ disk[p].ents \in Seq(Entry) /\ Len(disk[p].ents) \in Nat /\ Len(disk[p].ents) <= Full
  BY <1>3, <1>4, CardIs, ContentIs DEF Filled
<1>6. /\ Now \in States /\ Now.disk = disk /\ Now.lfs = lfs /\ Now.held = {q} /\ Now.ok = TRUE /\ Now.told = {}
  BY <1>3, NowIs
<1>7. PICK s, y : s = Now /\ y = [name |-> op.name, node |-> op.dir]
  OBVIOUS
<1>8. y \in Entry /\ y.node = q
  BY <1>3, <1>7 DEF Entry
<1>9. PICK x : x = InsertAt(disk[p].ents, i, y)
  OBVIOUS
<1>10. HasMore(x, disk[p].ents, i, y)
  <2>1. PICK a : a = disk[p].ents
    OBVIOUS
  <2>2. a \in Seq(Entry) /\ i \in 1 .. (Len(a) + 1) /\ x = InsertAt(a, i, y)
    BY <1>2, <1>5, <1>9, <2>1
  <2> HIDE DEF i
  <2>3. HasMore(x, a, i, y)
    BY ONLY <1>8, <2>2, InsertIs
  <2> QED BY <2>1, <2>3
<1>11. x \in Seq(Entry) /\ Len(x) <= Full + 1
  BY <1>5, <1>10, DirTreeAssumption DEF HasMore
<1>12. PICK n : n = SetEnts(disk[p], x)
  OBVIOUS
<1>13. /\ n \in Content /\ n.ents = x /\ n.tail = disk[p].tail /\ n.split = disk[p].split
       /\ n.delta = disk[p].delta
  BY <1>5, <1>11, <1>12, WithEnts
<1>14. PICK t, m : t = (IF op.split THEN n.tail ELSE op.dir) /\ m = SetTail(n, t)
  OBVIOUS
<1>15. m = [disk[op.cwd] EXCEPT !.ents = InsertAt(@, op.id, y), !.tail = IF op.split THEN @ ELSE op.dir]
  <2>1. n = [disk[op.cwd] EXCEPT !.ents = InsertAt(@, op.id, y)]
    BY <1>9, <1>12, Zenon DEF SetEnts
  <2>2. m = [n EXCEPT !.tail = IF op.split THEN @ ELSE op.dir]
    BY <1>14, Zenon DEF SetTail
  <2> QED BY <2>1, <2>2, Zenon
<1>16. PICK o :
        /\ o \in Put(s, p, m) /\ Apply(o, p, <<Create(i)>>)
        /\ Return(IF o.ok THEN "ok" ELSE "error")
  <2>1. \E o \in Put(Now, op.cwd, [disk[op.cwd] EXCEPT !.ents = InsertAt(@, op.id, y),
                                    !.tail = IF op.split THEN @ ELSE op.dir]) :
          /\ Apply(o, op.cwd, <<Create(op.id)>>)
          /\ Return(IF o.ok THEN "ok" ELSE "error")
    BY <1>7, Zenon DEF MkdirEntry
  <2> QED BY <1>7, <1>15, <2>1, Zenon
<1> HIDE DEF p, q, i
<1>17. s \in States /\ s.disk = disk /\ s.lfs = lfs /\ s.held = {q} /\ s.ok = TRUE /\ s.told = {}
  BY <1>6, <1>7
<1>18. PICK d : d = SetPair(disk, p, m)
  OBVIOUS
<1>19. CASE op.split
  <2>1. m = n
    <3>1. m = SetTail(n, n.tail)
      BY <1>14, <1>19
    <3> QED BY <1>13, <3>1 DEF Content, SetTail
  <2>2. Clean(s)
    BY <1>2, <1>4, <1>17, <1>19 DEF Clean, CardOK, Known
  <2>3. EntryCommit(s, p, q, i, y, x, m, d, o)
    BY <1>7, <1>8, <1>9, <1>10, <1>11, <1>12, <1>16, <1>17, <1>19, <2>1, <2>2
       DEF EntryCommit, p, q, i
  <2> QED BY <2>3
<1>20. CASE ~op.split
  <2>1. m \in Content /\ m.ents = x /\ m.tail = q /\ m.split = FALSE /\ m.delta = disk[p].delta
    <3>1. t = q
      BY <1>14, <1>20 DEF q
    <3>2. q \in Pair \cup {NoPair}
      BY <1>3
    <3>3. /\ m \in Content /\ m.ents = n.ents /\ m.tail = q /\ m.split = n.split /\ m.delta = n.delta
      BY <1>13, <1>14, <3>1, <3>2, WithTail
    <3>4. disk[p].split = FALSE
      BY <1>2, <1>3, <1>5, <1>20, DiskType
    <3> QED BY <1>13, <3>3, <3>4
  <2>2. Linking(disk, p, q, m, d)
    BY <1>2, <1>3, <1>5, <1>18, <1>20, <2>1 DEF Linking
  <2>3. Linked(disk, p, q, m, d)
    BY <2>2, LinkedIs
  <2>4. /\ d \in Disks /\ Threaded(d) /\ Listed(d) = Listed(disk) \cup {q}
        /\ OnCard(d) = {} /\ d[p] = m /\ \A r \in Pair \ {p} : d[r] = disk[r]
    BY <2>3 DEF Linked
  <2>5. Short(d) /\ \A r \in Pair \ {p} : Len(d[r].ents) <= Full
    BY <1>3, <1>5, <1>11, <2>1, <2>4 DEF Short, Filled
  <2>6. Target(s, p, m, d)
    <3>1. OnCard(d) = Xor(s.lfs.gdisk, s.lfs.gdelta)
      BY <1>2, <1>4, <1>17, <1>20, <2>4, XorIs
    <3>2. p \in Listed(d) /\ Listed(d) \subseteq Listed(s.disk) \cup s.held
      BY <1>2, <1>17, <2>4
    <3> QED BY <1>3, <1>17, <1>18, <2>1, <2>4, <2>5, <3>1, <3>2 DEF Target
  <2>7. Committed(s, p, d, o)
    BY <1>16, <2>6, PutCommits
  <2>8. EntryCommit(s, p, q, i, y, x, m, d, o)
    BY <1>7, <1>8, <1>9, <1>10, <1>11, <1>16, <1>17, <1>20, <2>1, <2>2, <2>3, <2>7
       DEF EntryCommit, p, q, i
  <2> QED BY <2>8
<1> QED BY <1>3, <1>19, <1>20

(* It keeps the invariant.                                                 *)
LEMMA MkdirEntryInv ==
  ASSUME Sure, Inv, MkdirEntry
  PROVE  Inv'
<1>1. op.at = "mkdir_entry" /\ UNCHANGED calls
  BY DEF MkdirEntry
<1>2. PICK s, p, q, i, y, x, m, d, o : EntryCommit(s, p, q, i, y, x, m, d, o)
  BY MkdirEnters
<1>3. /\ op \in Settling /\ lfs.gstate = {} /\ p \in Listed(disk)
      /\ i \in 1 .. (Len(disk[p].ents) + 1)
      /\ op.split => Known /\ Moves(lfs.gdisk) = {} /\ Orphaned(disk) = {q}
      /\ ~op.split => /\ lfs.gdisk = {} /\ Orphaned(disk) = {} /\ q \notin Listed(disk)
  BY <1>1, <1>2 DEF Inv, OpOK, EntryCommit
<1>4. /\ q \in Pair /\ p \in Pair /\ op.split \in BOOLEAN
  BY <1>3, <1>2 DEF Settling, EntryCommit
<1>5. CardOK(disk, OnCard(disk)) /\ OthersOK /\ lfs \in Globals /\ lfs.gdelta = {} /\ Moves(OnCard(disk)) = {}
  BY <1>3, <1>4 DEF Inv, GlobalOK, Moves
<1>6. /\ disk \in Disks /\ Threaded(disk) /\ Filled(disk) /\ Listed(disk) \in SUBSET Pair
      /\ Short(disk) /\ Heads(disk) \in SUBSET Listed(disk)
  BY <1>5, CardIs
<1>7. /\ s \in States /\ s.disk = disk /\ s.lfs = lfs /\ s.ok = TRUE /\ s.told = {}
       /\ y \in Entry /\ y.node = q /\ x = InsertAt(disk[p].ents, i, y) /\ o \in Put(s, p, m)
       /\ Len(x) <= Full + 1
  BY <1>2 DEF EntryCommit
<1>8. Named(q, y, o) /\ Carried(o, p, <<Create(i)>>)
  <2>1. CASE op.split
    <3>2. Clean(s) /\ m = SetEnts(disk[p], x)
      BY <1>2, <2>1 DEF EntryCommit
    <3>3. /\ Clean(s) /\ s.told = {} /\ p \in Listed(s.disk) /\ i \in 1 .. (Len(s.disk[p].ents) + 1)
          /\ x = InsertAt(s.disk[p].ents, i, y) /\ o \in Put(s, p, SetEnts(s.disk[p], x))
      BY <1>3, <1>7, <3>2
    <3>4. PICK t : Added(s, p, i, y, t, o)
      <4>1. \E t : Added(s, p, i, y, t, o)
        BY ONLY Sure, <3>3, <1>7, AddedIs
      <4> QED BY <4>1
    <3>5. /\ Clean(o) /\ o.lfs.gstate = {} /\ o.lfs.gdisk = {} /\ o.ok
          /\ Heads(o.disk) = Heads(disk)
          /\ (\A z : NameCount(o.disk, z) = NameCount(disk, z) + (IF y.node = z THEN 1 ELSE 0))
          /\ \A h : Follows(h, disk) => Follows(FixUp(h, o, p, <<Create(i)>>), o.disk)
      BY <1>3, <1>7, <3>4 DEF Added
    <3>6. Heads(disk) \cup {q} = Heads(disk)
      BY <1>3, <2>1 DEF Orphaned
    <3>7. Len(<<Create(i)>>) \in Nat
      OBVIOUS
    <3> QED BY <3>5, <3>6, <3>7 DEF Named, Carried
  <2>2. CASE ~op.split
    <3>4. /\ m.ents = x /\ Linking(disk, p, q, m, d) /\ Linked(disk, p, q, m, d) /\ Committed(s, p, d, o)
      BY <1>2, <2>2 DEF EntryCommit
    <3>5. /\ d \in Disks /\ Threaded(d) /\ Listed(d) = Listed(disk) \cup {q} /\ Heads(d) = Heads(disk) \cup {q}
          /\ OnCard(d) = {} /\ d[p] = m /\ (\A r \in Pair \ {p} : d[r] = disk[r]) /\ q # Root /\ q # p
      BY <3>4 DEF Linked
    <3>6. Short(d)
      <4>1. \A r \in Pair : d[r].ents = disk[r].ents \/ Len(d[r].ents) <= Full + 1
        BY <1>7, <3>4, <3>5
      <4> QED BY <1>6, <4>1 DEF Short
    <3>9. /\ Clean(o) /\ o.lfs.gstate = {} /\ o.lfs.gdisk = {} /\ o.ok /\ Alike(d, o.disk)
      <4>1. Clean(o)
        BY <3>4, CommittedClean
      <4> QED BY <1>3, <1>7, <3>4, <4>1 DEF Committed
    <3>10. /\ \A z : NameCount(d, z) = NameCount(disk, z) + (IF y.node = z THEN 1 ELSE 0)
           /\ \A h : Tracks(h, disk, p) => Tracks(Shift(h, Create(i)), d, p)
      <4>1. HasMore(m.ents, disk[p].ents, i, y)
        BY <1>2, <3>4 DEF EntryCommit
      <4> QED BY ONLY <1>3, <1>5, <1>7, <3>4, <3>6, <4>1, LinkNames
    <3>11. Named(q, y, o)
      BY <3>5, <3>9, <3>10 DEF Named, Alike
    <3>12. PICK attrs : attrs = <<Create(i)>>
      OBVIOUS
    <3>13. Len(attrs) \in Nat /\ Len(attrs) = 1 /\ attrs[1] = Create(i)
      BY <3>12
    <3>14. ASSUME NEW h, Points(h, disk), h.pair # p PROVE Points(h, d)
      BY <1>5, <3>4, <3>14, LinkPoints
    <3>15. ASSUME NEW h, Tracks(h, disk, p), h.pair # NoPair PROVE Tracks(Shifted(h, attrs), d, p)
      <4>1. Shifted(h, attrs) = Shift(h, Create(i))
        BY <3>13, ShiftedIs
      <4> QED BY <3>10, <3>15, <4>1
    <3>16. p \in Listed(d)
      BY <1>3, <3>5
    <3>17. Carried(o, p, attrs)
      BY ONLY <1>7, <3>4, <3>5, <3>13, <3>14, <3>15, <3>16, CommitCarries
    <3> QED BY <3>11, <3>12, <3>17
  <2> QED BY <1>4, <2>1, <2>2
<1>9. Landed(o) /\ Orphaned(o.disk) = {}
  <2>1. Orphaned(disk) \subseteq {q} /\ (q \in Orphaned(disk) \/ q \notin Listed(disk))
    BY <1>3, <1>4
  <2> QED BY ONLY <1>4, <1>5, <1>7, <1>8, <2>1, NamedLands
<1>10. /\ CardOK(disk', OnCard(disk')) /\ GlobalOK' /\ Known' /\ Follows(handle', disk')
  BY <1>2, <1>8, <1>9, Applied DEF EntryCommit
<1>11. disk' = o.disk /\ lfs' = o.lfs /\ op' = Idle /\ result' = "ok" /\ lfs'.gdisk = {}
  BY <1>2, <1>8 DEF Apply, Return, Named, EntryCommit
<1>12. OpOK'
  BY <1>9, <1>10, <1>11 DEF OpOK, Idle
<1>13. Moves(lfs'.gdisk) = {}
  BY <1>11 DEF Moves
<1>14. OthersOK'
  BY <1>1, <1>5, <1>11 DEF OthersOK
<1> QED BY <1>10, <1>12, <1>13, <1>14, InvIf

------------------------------------------------------------------------------
(* lfs_rename.                                                             *)

(* The card, with entries x in p.                                          *)
With(p, x) == SetPair(disk, p, SetEnts(disk[p], x))
Fitting(p, x) == p \in Listed(disk) /\ x \in Seq(Entry) /\ Len(x) <= Full + 1

(* The card with other entries in p has the same list.                     *)
LEMMA WithIs ==
  ASSUME CardOK(disk, OnCard(disk)), NEW p, NEW x, Fitting(p, x)
  PROVE  /\ With(p, x) \in Disks /\ Listed(With(p, x)) = Listed(disk) /\ Short(With(p, x))
         /\ With(p, x)[p].ents = x /\ p \in Listed(With(p, x)) /\ p \in Pair /\ Len(x) \in Nat
         /\ \A r \in Pair \ {p} : With(p, x)[r] = disk[r]
<1>1. p \in Listed(disk) /\ x \in Seq(Entry) /\ Len(x) <= Full + 1 /\ Len(x) \in Nat
  BY DEF Fitting
<1>2. /\ disk \in Disks /\ Threaded(disk) /\ Filled(disk) /\ p \in Pair /\ disk[p] \in Content /\ Short(disk)
  BY <1>1, CardIs
<1>3. PICK n, d : n = SetEnts(disk[p], x) /\ d = SetPair(disk, p, n)
  OBVIOUS
<1>4. n \in Content /\ n.ents = x /\ n.tail = disk[p].tail /\ n.split = disk[p].split /\ n.delta = disk[p].delta
  BY <1>1, <1>2, <1>3, WithEnts
<1>5. d \in Disks /\ d[p] = n /\ \A r \in Pair \ {p} : d[r] = disk[r]
  BY <1>2, <1>3, <1>4, WithPair
<1>6. Listed(d) = Listed(disk)
  <2>1. Edited(disk, d, p)
    BY <1>4, <1>5 DEF Edited
  <2> QED BY <1>1, <1>2, <1>5, <2>1, EditedIs
<1>7. Short(d)
  BY <1>1, <1>2, <1>4, <1>5 DEF Short
<1>8. d = With(p, x)
  BY <1>3 DEF With
<1> QED BY <1>1, <1>2, <1>4, <1>5, <1>6, <1>7, <1>8

(* An entry more in p is a name more, and handles follow.                  *)
LEMMA WithMore ==
  ASSUME CardOK(disk, OnCard(disk)), NEW p, NEW a, NEW b, Fitting(p, a), Fitting(p, b),
         NEW i \in 1 .. (Len(a) + 1), NEW y \in Entry, HasMore(b, a, i, y)
  PROVE  /\ \A z : NameCount(With(p, b), z) = NameCount(With(p, a), z) + (IF y.node = z THEN 1 ELSE 0)
         /\ \A h : Tracks(h, With(p, a), p) => Tracks(Shift(h, Create(i)), With(p, b), p)
<1>1. PICK d, e : d = With(p, a) /\ e = With(p, b)
  OBVIOUS
<1>2. /\ d \in Disks /\ Listed(d) = Listed(disk) /\ d[p].ents = a /\ p \in Listed(d)
      /\ \A r \in Pair \ {p} : d[r] = disk[r]
  BY <1>1, WithIs
<1>3. /\ e \in Disks /\ Listed(e) = Listed(disk) /\ Short(e) /\ e[p].ents = b
      /\ \A r \in Pair \ {p} : e[r] = disk[r]
  BY <1>1, WithIs
<1>4. \A r \in Listed(d) \ {p} : e[r].ents = d[r].ents
  BY <1>2, <1>3, ListCloses
<1>5. Listed(e) = Listed(d) /\ i \in 1 .. (Len(d[p].ents) + 1) /\ HasMore(e[p].ents, d[p].ents, i, y)
  BY <1>2, <1>3
<1>6. ASSUME NEW z
      PROVE  NameCount(e, z) = NameCount(d, z) + (IF y.node = z THEN 1 ELSE 0)
  BY ONLY <1>2, <1>3, <1>4, <1>5, y \in Entry, InsertNames
<1>7. ASSUME NEW h, Tracks(h, d, p) PROVE Tracks(Shift(h, Create(i)), e, p)
  <2>1. PICK g : g = Shift(h, Create(i))
    OBVIOUS
  <2>2. Tracks(g, e, p)
    BY ONLY <1>2, <1>3, <1>5, <1>7, <2>1, CreateTracks
  <2> QED BY <2>1, <2>2
<1> QED BY <1>1, <1>6, <1>7

(* An entry less in p is a name less, and handles follow.                  *)
LEMMA WithLess ==
  ASSUME CardOK(disk, OnCard(disk)), NEW p, NEW a, NEW b, Fitting(p, a), Fitting(p, b),
         NEW i \in 1 .. Len(a), HasLess(b, a, i)
  PROVE  /\ \A z : NameCount(With(p, a), z) = NameCount(With(p, b), z) + (IF a[i].node = z THEN 1 ELSE 0)
         /\ \A h : Tracks(h, With(p, a), p) => Tracks(Shift(h, Del(i)), With(p, b), p)
<1>1. PICK d, e : d = With(p, a) /\ e = With(p, b)
  OBVIOUS
<1>2. /\ d \in Disks /\ Listed(d) = Listed(disk) /\ Short(d) /\ d[p].ents = a /\ p \in Listed(d)
      /\ \A r \in Pair \ {p} : d[r] = disk[r]
  BY <1>1, WithIs
<1>3. /\ e \in Disks /\ Listed(e) = Listed(disk) /\ e[p].ents = b
      /\ \A r \in Pair \ {p} : e[r] = disk[r]
  BY <1>1, WithIs
<1>4. \A r \in Listed(d) \ {p} : e[r].ents = d[r].ents
  BY <1>2, <1>3, ListCloses
<1>5. Listed(e) = Listed(d) /\ i \in 1 .. Len(d[p].ents) /\ HasLess(e[p].ents, d[p].ents, i)
  BY <1>2, <1>3
<1>6. ASSUME NEW z
      PROVE  NameCount(d, z) = NameCount(e, z) + (IF a[i].node = z THEN 1 ELSE 0)
  BY <1>2, <1>3, <1>4, <1>5, RemoveNames
<1>7. ASSUME NEW h, Tracks(h, d, p) PROVE Tracks(Shift(h, Del(i)), e, p)
  <2>1. PICK g : g = Shift(h, Del(i))
    OBVIOUS
  <2>2. Tracks(g, e, p)
    BY ONLY <1>2, <1>3, <1>5, <1>7, <2>1, DelTracks
  <2> QED BY <2>1, <2>2
<1> QED BY <1>1, <1>6, <1>7

(* Nothing put in or taken out.                                            *)
LEMMA WithSame ==
  ASSUME CardOK(disk, OnCard(disk)), NEW p \in Listed(disk)
  PROVE  With(p, disk[p].ents) = disk /\ Fitting(p, disk[p].ents)
<1>1. /\ disk \in Disks /\ p \in Pair /\ disk[p] \in Content /\ Short(disk)
  BY CardIs
<1>2. SetEnts(disk[p], disk[p].ents) = disk[p]
  BY <1>1 DEF Content, SetEnts
<1>3. SetPair(disk, p, disk[p]) = disk
  BY <1>1 DEF Disks, SetPair
<1>4. disk[p].ents \in Seq(Entry)
  BY <1>1, ContentIs
<1> QED BY <1>1, <1>2, <1>3, <1>4 DEF With, Fitting, Short

(* The attributes of a rename, one by one.                                 *)
LEMMA AttrsAre ==
  ASSUME NEW S, NEW a \in S, NEW b \in S, NEW c \in S
  PROVE  /\ Len(<<>> \o <<b>> \o <<>>) = 1 /\ (<<>> \o <<b>> \o <<>>)[1] = b
         /\ Len(<<a>> \o <<b>> \o <<>>) = 2 /\ (<<a>> \o <<b>> \o <<>>)[1] = a /\ (<<a>> \o <<b>> \o <<>>)[2] = b
         /\ Len(<<>> \o <<b>> \o <<c>>) = 2 /\ (<<>> \o <<b>> \o <<c>>)[1] = b /\ (<<>> \o <<b>> \o <<c>>)[2] = c
         /\ Len(<<a>> \o <<b>> \o <<c>>) = 3 /\ (<<a>> \o <<b>> \o <<c>>)[1] = a
         /\ (<<a>> \o <<b>> \o <<c>>)[2] = b /\ (<<a>> \o <<b>> \o <<c>>)[3] = c
<1>1. <<a>> \in Seq(S) /\ <<b>> \in Seq(S) /\ <<c>> \in Seq(S) /\ <<>> \in Seq(S)
  OBVIOUS
<1>2. <<a>> \o <<b>> \in Seq(S) /\ <<>> \o <<b>> \in Seq(S)
  BY <1>1
<1>3. Len(<<>> \o <<b>> \o <<>>) = 1 /\ (<<>> \o <<b>> \o <<>>)[1] = b
  BY <1>1, <1>2
<1>4. Len(<<a>> \o <<b>> \o <<>>) = 2 /\ (<<a>> \o <<b>> \o <<>>)[1] = a /\ (<<a>> \o <<b>> \o <<>>)[2] = b
  BY <1>1, <1>2
<1>5. Len(<<>> \o <<b>> \o <<c>>) = 2 /\ (<<>> \o <<b>> \o <<c>>)[1] = b /\ (<<>> \o <<b>> \o <<c>>)[2] = c
  BY <1>1, <1>2
<1>6. Len(<<a>> \o <<b>> \o <<c>>) = 3 /\ (<<a>> \o <<b>> \o <<c>>)[1] = a
         /\ (<<a>> \o <<b>> \o <<c>>)[2] = b /\ (<<a>> \o <<b>> \o <<c>>)[3] = c
  BY <1>1, <1>2
<1> QED BY <1>3, <1>4, <1>5, <1>6

(* w is renamed to entry y at the place v.                                 *)
Renaming(w, v, y) ==
  /\ CardOK(disk, OnCard(disk)) /\ Found(w) /\ Found(v) /\ w.found
  /\ v.found => w.pair # v.pair \/ w.id # v.id
  /\ y \in Entry /\ y.node = w.node

(* What a rename does to the entries of the pair of the new name, one      *)
(* after the other: K without the old entry of that name, D with the new   *)
(* one, X without the one it came from if that was in the same pair.       *)
Edits(w, v, y, p, K, D, X, old) ==
  /\ v.found => v.id \in 1 .. Len(disk[p].ents) /\ HasLess(K, disk[p].ents, v.id)
                /\ v.node = disk[p].ents[v.id].node
  /\ ~v.found => K = disk[p].ents
  /\ v.id \in 1 .. (Len(K) + 1) /\ HasMore(D, K, v.id, y)
  /\ w.pair = p => /\ old \in 1 .. Len(D) /\ D[old] = disk[p].ents[w.id] /\ HasLess(X, D, old)
                   /\ D[old].node = w.node
  /\ w.pair # p => X = D
  /\ old = IF ~v.found /\ v.id <= w.id THEN w.id + 1 ELSE w.id
  /\ Fitting(p, disk[p].ents) /\ Fitting(p, K) /\ Fitting(p, D) /\ Fitting(p, X)
  /\ With(p, disk[p].ents) = disk /\ y \in Entry /\ y.node = w.node

(* The commit of a rename writes the last of these.                        *)
LEMMA RenameEdits ==
  ASSUME NEW w, NEW v, NEW n, NEW y, Renaming(w, v, y), y = [name |-> n, node |-> w.node],
         NEW p, p = v.pair
  PROVE  \E K, D, X, old :
           Edits(w, v, y, p, K, D, X, old) /\ Renamed(disk, w, v, n) = SetEnts(disk[p], X)
<1> DEFINE A == disk[p].ents
           K == IF v.found THEN RemoveAt(A, v.id) ELSE A
           D == InsertAt(K, v.id, y)
           same == w.pair = p
           old == IF ~v.found /\ v.id <= w.id THEN w.id + 1 ELSE w.id
           X == IF same THEN RemoveAt(D, old) ELSE D
<1>1. /\ CardOK(disk, OnCard(disk)) /\ p \in Listed(disk) /\ p \in Pair /\ disk[p] \in Content
      /\ v.id \in 1 .. (Len(A) + 1) /\ v.found \in BOOLEAN
      /\ (v.found => v.id \in 1 .. Len(A) /\ v.node = A[v.id].node)
      /\ w.pair \in Listed(disk) /\ w.id \in 1 .. Len(disk[w.pair].ents)
      /\ w.node = disk[w.pair].ents[w.id].node
      /\ (v.found => w.pair # p \/ w.id # v.id) /\ y \in Entry /\ y.node = w.node
  BY DEF Renaming, Found
<1>2. A \in Seq(Entry) /\ Len(A) \in Nat /\ Len(A) <= Full /\ Full \in Nat
  BY <1>1, CardIs, ContentIs, DirTreeAssumption DEF Filled
<1>3. old = IF ~v.found /\ v.id <= w.id THEN w.id + 1 ELSE w.id
  OBVIOUS
<1>4. Renamed(disk, w, v, n) = SetEnts(disk[p], X)
  BY Zenon DEF Renamed, SetEnts
<1> HIDE DEF A
<1>5. /\ K \in Seq(Entry) /\ Len(K) \in Nat /\ Len(K) <= Full /\ v.id \in 1 .. (Len(K) + 1)
      /\ v.found => HasLess(K, A, v.id)
      /\ ~v.found => K = A
  <2>1. CASE v.found
    <3>1. PICK j : j = v.id
      OBVIOUS
    <3>2. HasLess(RemoveAt(A, j), A, j)
      BY <1>1, <1>2, <2>1, <3>1, RemoveIs
    <3>3. HasLess(K, A, v.id)
      BY <2>1, <3>1, <3>2
    <3>4. K \in Seq(Entry) /\ Len(K) = Len(A) - 1
      BY <3>3 DEF HasLess
    <3> HIDE DEF K
    <3> QED BY <1>1, <1>2, <2>1, <3>3, <3>4
  <2>2. CASE ~v.found
    BY <1>1, <1>2, <2>2
  <2> QED BY <2>1, <2>2
<1>6. HasMore(D, K, v.id, y)
  <2> HIDE DEF K
  <2>1. PICK j : j = v.id
    OBVIOUS
  <2>2. HasMore(InsertAt(K, j, y), K, j, y)
    BY <1>1, <1>5, <2>1, InsertIs
  <2> QED BY <2>1, <2>2
<1> HIDE DEF K, D
<1>7. D \in Seq(Entry) /\ Len(D) = Len(K) + 1 /\ Len(D) <= Full + 1
  BY <1>2, <1>5, <1>6 DEF HasMore
<1>8. same => old \in 1 .. Len(D) /\ D[old].node = w.node /\ D[old] = A[w.id]
  <2> SUFFICES ASSUME same PROVE old \in 1 .. Len(D) /\ D[old].node = w.node /\ D[old] = A[w.id]
    OBVIOUS
  <2>1. w.id \in 1 .. Len(A) /\ w.node = A[w.id].node
    BY <1>1 DEF A
  <2>2. PICK i, j, k, lenA : i = v.id /\ j = w.id /\ k = old /\ lenA = Len(A)
    OBVIOUS
  <2>3. CASE v.found
    <3>1. k = j /\ i # j /\ Len(K) = lenA - 1
      BY <1>1, <1>5, <2>2, <2>3 DEF HasLess
    <3>2. i \in 1 .. lenA /\ j \in 1 .. lenA /\ lenA \in Nat
      BY <1>1, <1>2, <2>1, <2>2, <2>3
    <3>3. \A r \in 1 .. lenA : D[r] = IF r < i THEN K[r] ELSE IF r = i THEN y ELSE K[r - 1]
      BY <1>6, <2>2, <3>1, <3>2 DEF HasMore
    <3>4. \A r \in 1 .. (lenA - 1) : K[r] = IF r < i THEN A[r] ELSE A[r + 1]
      BY <1>5, <2>2, <2>3 DEF HasLess
    <3>5. D[j] = A[j]
      <4>1. CASE j < i
        <5>1. j \in 1 .. (lenA - 1)
          BY <3>2, <4>1
        <5> QED BY <3>2, <3>3, <3>4, <4>1, <5>1
      <4>2. CASE j > i
        <5>1. j - 1 \in 1 .. (lenA - 1) /\ ~(j - 1 < i) /\ (j - 1) + 1 = j /\ ~(j < i)
          BY <3>2, <4>2
        <5>2. D[j] = K[j - 1]
          BY <3>1, <3>2, <3>3, <5>1
        <5>3. K[j - 1] = A[(j - 1) + 1]
          BY <3>4, <5>1
        <5> QED BY <5>1, <5>2, <5>3
      <4> QED BY <3>1, <3>2, <4>1, <4>2
    <3>6. k \in 1 .. Len(D)
      BY <1>7, <3>1, <3>2
    <3> QED BY <2>1, <2>2, <3>1, <3>5, <3>6
  <2>4. CASE ~v.found
    <3>1. K = A /\ k = (IF i <= j THEN j + 1 ELSE j)
      BY <1>5, <2>2, <2>4
    <3>2. i \in 1 .. (lenA + 1) /\ j \in 1 .. lenA /\ lenA \in Nat
      BY <1>1, <1>2, <2>1, <2>2
    <3>3. \A r \in 1 .. (lenA + 1) : D[r] = IF r < i THEN A[r] ELSE IF r = i THEN y ELSE A[r - 1]
      BY <1>6, <2>2, <3>1 DEF HasMore
    <3>4. Len(D) = lenA + 1
      BY <1>7, <2>2, <3>1
    <3>5. k \in 1 .. (lenA + 1) /\ D[k] = A[j]
      <4>1. CASE i <= j
        <5>1. k = j + 1 /\ k \in 1 .. (lenA + 1) /\ ~(k < i) /\ k # i /\ k - 1 = j
          BY <3>1, <3>2, <4>1
        <5>2. D[k] = A[k - 1]
          BY <3>3, <5>1
        <5> QED BY <5>1, <5>2
      <4>2. CASE ~(i <= j)
        <5>1. k = j /\ k \in 1 .. (lenA + 1) /\ k < i
          BY <3>1, <3>2, <4>2
        <5> QED BY <3>3, <5>1
      <4> QED BY <4>1, <4>2
    <3> QED BY <2>1, <2>2, <3>4, <3>5
  <2> QED BY <1>1, <2>3, <2>4
<1>9. /\ X \in Seq(Entry) /\ Len(X) <= Full + 1
      /\ same => HasLess(X, D, old)
      /\ ~same => X = D
  <2>1. CASE same
    <3>1. PICK j : j = old
      OBVIOUS
    <3>2. HasLess(RemoveAt(D, j), D, j)
      BY <1>7, <1>8, <2>1, <3>1, RemoveIs
    <3>3. HasLess(X, D, old)
      BY <2>1, <3>1, <3>2
    <3>4. X \in Seq(Entry) /\ Len(X) = Len(D) - 1
      BY <3>3 DEF HasLess
    <3>5. Len(D) \in Nat
      BY <1>7
    <3> HIDE DEF X
    <3> QED BY <1>2, <1>7, <2>1, <3>3, <3>4, <3>5
  <2>2. CASE ~same
    BY <1>7, <2>2
  <2> QED BY <2>1, <2>2
<1> HIDE DEF X, old
<1>10. Fitting(p, A) /\ Fitting(p, K) /\ Fitting(p, D) /\ Fitting(p, X) /\ With(p, A) = disk
  <2>1. Fitting(p, A) /\ With(p, A) = disk
    BY <1>1, WithSame DEF A
  <2> QED BY <1>1, <1>2, <1>5, <1>7, <1>9, <2>1 DEF Fitting
<1>11. Edits(w, v, y, p, K, D, X, old)
  <2>1. /\ v.found => v.id \in 1 .. Len(disk[p].ents) /\ HasLess(K, disk[p].ents, v.id)
                      /\ v.node = disk[p].ents[v.id].node
        /\ ~v.found => K = disk[p].ents
    BY <1>1, <1>5 DEF A
  <2>2. /\ v.id \in 1 .. (Len(K) + 1) /\ HasMore(D, K, v.id, y)
        /\ w.pair # p => X = D
        /\ old = IF ~v.found /\ v.id <= w.id THEN w.id + 1 ELSE w.id
    BY <1>3, <1>5, <1>6, <1>9
  <2>3. w.pair = p => /\ old \in 1 .. Len(D) /\ D[old] = disk[p].ents[w.id] /\ HasLess(X, D, old)
                      /\ D[old].node = w.node
    BY <1>8, <1>9 DEF A
  <2>4. /\ Fitting(p, disk[p].ents) /\ Fitting(p, K) /\ Fitting(p, D) /\ Fitting(p, X)
        /\ With(p, disk[p].ents) = disk /\ y \in Entry /\ y.node = w.node
    BY <1>1, <1>10 DEF A
  <2> QED BY <2>1, <2>2, <2>3, <2>4, Zenon DEF Edits
<1> QED BY <1>4, <1>11

(* Names are counted, and handles follow the attributes.                   *)
LEMMA RenamedIs ==
  ASSUME NEW w, NEW v, NEW n, NEW y, Renaming(w, v, y), y = [name |-> n, node |-> w.node],
         NEW p, p = v.pair, NEW attrs, attrs = RenameAttrs(w, v)
  PROVE  \E x :
           /\ Fitting(p, x) /\ Renamed(disk, w, v, n) = SetEnts(disk[p], x)
           /\ \A z : NameCount(With(p, x), z) + (IF v.found /\ v.node = z THEN 1 ELSE 0)
                       = NameCount(disk, z) + (IF w.pair # p /\ w.node = z THEN 1 ELSE 0)
           /\ \A h : Tracks(h, disk, p) => Tracks(Shifted(h, attrs), With(p, x), p)
           /\ Len(attrs) \in Nat
<1>1. CardOK(disk, OnCard(disk))
  BY DEF Renaming
<1>2. PICK K, D, X, old :
        Edits(w, v, y, p, K, D, X, old) /\ Renamed(disk, w, v, n) = SetEnts(disk[p], X)
  BY RenameEdits
<1> DEFINE same == w.pair = p
           t1 == IF v.found THEN <<Del(v.id)>> ELSE <<>>
           t2 == IF ~same THEN <<>> ELSE <<Del(old)>>
<1>3. PICK A : A = disk[p].ents
  OBVIOUS
<1>4. attrs = t1 \o <<Create(v.id)>> \o t2
  BY <1>2 DEF RenameAttrs, Edits
<1>5. /\ v.id \in 1 .. (Len(K) + 1)
      /\ v.found => v.id \in 1 .. Len(A) /\ HasLess(K, A, v.id) /\ v.node = A[v.id].node
      /\ ~v.found => K = A
  BY <1>2, <1>3 DEF Edits
<1>6. HasMore(D, K, v.id, y) /\ y \in Entry /\ y.node = w.node
  BY <1>2 DEF Edits
<1>7. same => old \in 1 .. Len(D) /\ D[old].node = w.node
  BY <1>2 DEF Edits
<1>8. (same => HasLess(X, D, old)) /\ (~same => X = D)
  BY <1>2 DEF Edits
<1>9. Fitting(p, A) /\ Fitting(p, K) /\ Fitting(p, D) /\ Fitting(p, X) /\ With(p, A) = disk
  BY <1>2, <1>3 DEF Edits
<1> HIDE DEF t1, t2
<1>10. /\ \A z : NameCount(disk, z) = NameCount(With(p, K), z) + (IF v.found /\ v.node = z THEN 1 ELSE 0)
       /\ \A h : Tracks(h, disk, p) => Tracks(IF v.found THEN Shift(h, Del(v.id)) ELSE h, With(p, K), p)
  <2>1. CASE v.found
    <3>1. PICK i : i = v.id
      OBVIOUS
    <3>2. i \in 1 .. Len(A) /\ HasLess(K, A, i) /\ v.node = A[i].node
      BY <1>1, <1>5, <2>1, <3>1
    <3>3. /\ \A z : NameCount(With(p, A), z) = NameCount(With(p, K), z) + (IF A[i].node = z THEN 1 ELSE 0)
          /\ \A h : Tracks(h, With(p, A), p) => Tracks(Shift(h, Del(i)), With(p, K), p)
      BY <1>1, <1>9, <3>2, WithLess
    <3> QED BY <1>9, <2>1, <3>1, <3>2, <3>3
  <2>2. CASE ~v.found
    <3>1. With(p, K) = disk
      BY <1>5, <1>9, <2>2
    <3>2. \A z : NameCount(disk, z) \in Nat
      BY NamesType
    <3>3. \A z : NameCount(disk, z) = NameCount(disk, z) + 0
      BY <3>2
    <3> QED BY <2>2, <3>1, <3>3
  <2> QED BY <2>1, <2>2
<1>11. /\ \A z : NameCount(With(p, D), z) = NameCount(With(p, K), z) + (IF w.node = z THEN 1 ELSE 0)
       /\ \A h : Tracks(h, With(p, K), p) => Tracks(Shift(h, Create(v.id)), With(p, D), p)
  <2>1. PICK i : i = v.id
    OBVIOUS
  <2>2. i \in 1 .. (Len(K) + 1) /\ HasMore(D, K, i, y)
    BY <1>5, <1>6, <2>1
  <2>3. /\ \A z : NameCount(With(p, D), z) = NameCount(With(p, K), z) + (IF y.node = z THEN 1 ELSE 0)
        /\ \A h : Tracks(h, With(p, K), p) => Tracks(Shift(h, Create(i)), With(p, D), p)
    BY <1>1, <1>6, <1>9, <2>2, WithMore
  <2> QED BY <1>6, <2>1, <2>3
<1>12. /\ \A z : NameCount(With(p, D), z) = NameCount(With(p, X), z) + (IF same /\ w.node = z THEN 1 ELSE 0)
       /\ \A h : Tracks(h, With(p, D), p) => Tracks(IF same THEN Shift(h, Del(old)) ELSE h, With(p, X), p)
  <2>1. CASE same
    <3>1. PICK i : i = old
      OBVIOUS
    <3>2. i \in 1 .. Len(D) /\ HasLess(X, D, i) /\ D[i].node = w.node
      BY <1>7, <1>8, <2>1, <3>1
    <3>3. /\ \A z : NameCount(With(p, D), z) = NameCount(With(p, X), z) + (IF D[i].node = z THEN 1 ELSE 0)
          /\ \A h : Tracks(h, With(p, D), p) => Tracks(Shift(h, Del(i)), With(p, X), p)
      BY <1>1, <1>9, <3>2, WithLess
    <3> QED BY <2>1, <3>1, <3>2, <3>3
  <2>2. CASE ~same
    <3>1. \A z : NameCount(With(p, D), z) \in Nat
      BY NamesType
    <3>2. \A z : NameCount(With(p, D), z) = NameCount(With(p, D), z) + 0
      BY <3>1
    <3> QED BY <1>8, <2>2, <3>2
  <2> QED BY <2>1, <2>2
<1>13. ASSUME NEW z
       PROVE  NameCount(With(p, X), z) + (IF v.found /\ v.node = z THEN 1 ELSE 0)
                       = NameCount(disk, z) + (IF w.pair # p /\ w.node = z THEN 1 ELSE 0)
  <2>1. PICK a, b, c, e : /\ a = NameCount(disk, z) /\ b = NameCount(With(p, K), z)
                          /\ c = NameCount(With(p, D), z) /\ e = NameCount(With(p, X), z)
    OBVIOUS
  <2>2. a \in Nat /\ b \in Nat /\ c \in Nat /\ e \in Nat
    BY <2>1, NamesType
  <2>3. PICK i, j, k : /\ i = (IF v.found /\ v.node = z THEN 1 ELSE 0) /\ j = (IF w.node = z THEN 1 ELSE 0)
                       /\ k = (IF same /\ w.node = z THEN 1 ELSE 0)
    OBVIOUS
  <2>4. a = b + i /\ c = b + j /\ c = e + k
    BY <1>10, <1>11, <1>12, <2>1, <2>3
  <2>5. (IF w.pair # p /\ w.node = z THEN 1 ELSE 0) = j - k
    BY <2>3
  <2>6. i \in Nat /\ j \in Nat /\ k \in Nat
    BY <2>3
  <2>7. e + i = a + (j - k)
    BY <2>2, <2>4, <2>6
  <2> QED BY <2>1, <2>3, <2>5, <2>7
<1>14. Len(attrs) \in Nat /\ \A h : Shifted(h, attrs) =
         LET g == IF v.found THEN Shift(h, Del(v.id)) ELSE h
             f == Shift(g, Create(v.id))
         IN IF same THEN Shift(f, Del(old)) ELSE f
  <2>1. PICK a, b, c : a = Del(v.id) /\ b = Create(v.id) /\ c = Del(old)
    OBVIOUS
  <2>2. attrs = (IF v.found THEN <<a>> ELSE <<>>) \o <<b>> \o (IF ~same THEN <<>> ELSE <<c>>)
    BY <1>4, <2>1 DEF t1, t2
  <2>3. PICK S : S = {a, b, c}
    OBVIOUS
  <2>4. a \in S /\ b \in S /\ c \in S
    BY <2>3
  <2>5. /\ Len(<<>> \o <<b>> \o <<>>) = 1 /\ (<<>> \o <<b>> \o <<>>)[1] = b
        /\ Len(<<a>> \o <<b>> \o <<>>) = 2 /\ (<<a>> \o <<b>> \o <<>>)[1] = a /\ (<<a>> \o <<b>> \o <<>>)[2] = b
        /\ Len(<<>> \o <<b>> \o <<c>>) = 2 /\ (<<>> \o <<b>> \o <<c>>)[1] = b /\ (<<>> \o <<b>> \o <<c>>)[2] = c
        /\ Len(<<a>> \o <<b>> \o <<c>>) = 3 /\ (<<a>> \o <<b>> \o <<c>>)[1] = a
        /\ (<<a>> \o <<b>> \o <<c>>)[2] = b /\ (<<a>> \o <<b>> \o <<c>>)[3] = c
    BY <2>4, AttrsAre
  <2>6. /\ ~v.found /\ ~same => Len(attrs) = 1 /\ attrs[1] = b
        /\ v.found /\ ~same => Len(attrs) = 2 /\ attrs[1] = a /\ attrs[2] = b
        /\ ~v.found /\ same => Len(attrs) = 2 /\ attrs[1] = b /\ attrs[2] = c
        /\ v.found /\ same => Len(attrs) = 3 /\ attrs[1] = a /\ attrs[2] = b /\ attrs[3] = c
    BY <2>2, <2>5
  <2>7. Len(attrs) \in Nat
    BY <2>6
  <2>8. ASSUME NEW h
        PROVE  Shifted(h, attrs) =
                 LET g == IF v.found THEN Shift(h, a) ELSE h
                     f == Shift(g, b)
                 IN IF same THEN Shift(f, c) ELSE f
    <3>1. /\ Len(attrs) = 1 => Shifted(h, attrs) = Shift(h, attrs[1])
          /\ Len(attrs) = 2 => Shifted(h, attrs) = Shift(Shift(h, attrs[1]), attrs[2])
          /\ Len(attrs) = 3 => Shifted(h, attrs) = Shift(Shift(Shift(h, attrs[1]), attrs[2]), attrs[3])
      BY <2>7, ShiftedIs
    <3> HIDE DEF same
    <3> QED BY <2>6, <3>1
  <2> QED BY <2>1, <2>7, <2>8
<1>15. ASSUME NEW h, Tracks(h, disk, p) PROVE Tracks(Shifted(h, attrs), With(p, X), p)
  <2>1. PICK g : g = IF v.found THEN Shift(h, Del(v.id)) ELSE h
    OBVIOUS
  <2>2. Tracks(g, With(p, K), p)
    BY <1>10, <1>15, <2>1
  <2>3. PICK f : f = Shift(g, Create(v.id))
    OBVIOUS
  <2>4. Tracks(f, With(p, D), p)
    BY <1>11, <2>2, <2>3
  <2>5. Tracks(IF same THEN Shift(f, Del(old)) ELSE f, With(p, X), p)
    BY <1>12, <2>4
  <2> QED BY <1>14, <2>1, <2>3, <2>5
<1> QED BY <1>2, <1>9, <1>13, <1>14, <1>15

Moved(w) == <<w.pair, w.id>>

(* The commit of a rename.                                                 *)
RenameDone(w, v, o, G) ==
  /\ Clean(o) /\ o.lfs.gstate = G /\ o.lfs.gdisk = G /\ Heads(o.disk) = Heads(disk)
  /\ G = (IF v.found /\ v.node \in Pair THEN {Orphans} ELSE {})
         \cup (IF w.pair # v.pair THEN {Moved(w)} ELSE {})
  /\ \A z : NameCount(o.disk, z) + (IF v.found /\ v.node = z THEN 1 ELSE 0)
              = NameCount(disk, z) + (IF w.pair # v.pair /\ w.node = z THEN 1 ELSE 0)
  /\ \A q \in Listed(disk) \ {v.pair} : o.disk[q] = disk[q] /\ q \in Listed(o.disk)
RenameFrom(w, v) ==
  /\ CardOK(disk, OnCard(disk)) /\ Moves(OnCard(disk)) = {} /\ Orphaned(disk) = {}
  /\ Found(w) /\ Found(v) /\ w.found
  /\ v.found => w.pair # v.pair \/ w.id # v.id
  /\ v.found /\ v.node \in Pair => Bare(disk, v.node)

(* The commit of a rename leaves a card in order: across pairs the entry   *)
(* has two names, of which the global state hides one; a directory that    *)
(* has been renamed over is the orphan.                                    *)
LEMMA RenameLands ==
  ASSUME NEW w, NEW v, RenameFrom(w, v), NEW o, NEW G, RenameDone(w, v, o, G)
  PROVE  /\ Landed(o) /\ OnCard(o.disk) = G
         /\ Moves(G) = IF w.pair # v.pair THEN {Moved(w)} ELSE {}
         /\ Orphaned(o.disk) = IF v.found /\ v.node \in Pair THEN {v.node} ELSE {}
<1> DEFINE e == o.disk
           t == Moved(w)
           u == Moved(v)
           prev == v.found /\ v.node \in Pair
           cross == w.pair # v.pair
<1>1. /\ CardOK(disk, OnCard(disk)) /\ Moves(OnCard(disk)) = {} /\ Orphaned(disk) = {}
      /\ Found(w) /\ Found(v) /\ w.found
      /\ (v.found => w.pair # v.pair \/ w.id # v.id)
      /\ (v.found /\ v.node \in Pair => Bare(disk, v.node))
  BY DEF RenameFrom
<1>2. /\ Clean(o) /\ o.lfs.gstate = G /\ o.lfs.gdisk = G /\ Heads(e) = Heads(disk)
      /\ G = (IF prev THEN {Orphans} ELSE {}) \cup (IF cross THEN {t} ELSE {})
      /\ (\A z : NameCount(e, z) + (IF v.found /\ v.node = z THEN 1 ELSE 0)
                = NameCount(disk, z) + (IF cross /\ w.node = z THEN 1 ELSE 0))
      /\ \A q \in Listed(disk) \ {v.pair} : e[q] = disk[q] /\ q \in Listed(e)
  BY DEF RenameDone
<1>3. /\ disk \in Disks /\ Short(disk) /\ NoPair \notin Pair /\ Heads(disk) \in SUBSET Listed(disk)
      /\ Listed(disk) \in SUBSET Pair
      /\ w.pair \in Listed(disk) /\ w.id \in 1 .. Len(disk[w.pair].ents)
      /\ w.node = disk[w.pair].ents[w.id].node
      /\ (v.found => v.pair \in Listed(disk) /\ v.id \in 1 .. Len(disk[v.pair].ents)
                     /\ v.node = disk[v.pair].ents[v.id].node)
  BY <1>1, CardIs DEF Found
<1>4. /\ t \in Namers(disk, w.node) /\ (v.found => u \in Namers(disk, v.node) /\ u # t)
  <2>1. <<w.pair, w.id>> \in Namers(disk, disk[w.pair].ents[w.id].node)
    BY <1>3, NamerIs
  <2>2. v.found => <<v.pair, v.id>> \in Namers(disk, disk[v.pair].ents[v.id].node)
    BY <1>3, NamerIs
  <2>3. v.found => <<v.pair, v.id>> # <<w.pair, w.id>>
    BY <1>1
  <2> QED BY <1>3, <2>1, <2>2, <2>3 DEF Moved
<1>5. t \in Slot /\ t[1] = w.pair /\ t[2] = w.id /\ t # Orphans
  <2>1. t \in Slot
    BY <1>4, NamesType
  <2> QED BY <1>3, <2>1 DEF Slot, Orphans, Moved
<1> HIDE DEF t, u, e
<1>6. \A x : NameCount(disk, x) \in Nat /\ NameCount(e, x) \in Nat
  BY NamesType
<1>7. \A x \in Pair : NameCount(disk, x) \in {0, 1} /\ (NameCount(disk, x) # 0 => x \in Heads(disk) \ {Root})
  <2>1. PICK g : g = OnCard(disk)
    OBVIOUS
  <2>2. CardOK(disk, g) /\ Moves(g) = {}
    BY <1>1, <2>1
  <2> QED BY ONLY <2>2, OneNamed
<1>8. /\ NameCount(disk, w.node) >= 1 /\ (v.found => NameCount(disk, v.node) >= 1)
      /\ (v.found /\ v.node = w.node => NameCount(disk, w.node) >= 2)
  <2>1. NameCount(disk, w.node) >= 1
    BY <1>4, TwoNames
  <2>2. v.found => NameCount(disk, v.node) >= 1
    BY <1>4, TwoNames
  <2>3. v.found /\ v.node = w.node => NameCount(disk, w.node) # 1
    BY <1>4, TwoNames
  <2> QED BY <1>6, <2>1, <2>2, <2>3
<1>9. prev => v.node # w.node
  BY <1>7, <1>8
<1>10. Moves(G) = IF cross THEN {t} ELSE {}
  BY <1>2, <1>5 DEF Moves
<1>11. Orphaned(e) = IF prev THEN {v.node} ELSE {}
  <2>1. ASSUME NEW h \in Orphaned(e) PROVE prev /\ h = v.node
    <3>1. h \in Heads(disk) /\ h # Root /\ NameCount(e, h) = 0 /\ h \in Pair
      BY <1>2, <1>3 DEF Orphaned
    <3>2. NameCount(disk, h) # 0
      BY <1>1, <3>1 DEF Orphaned
    <3>3. v.found /\ v.node = h
      BY <1>2, <1>6, <3>1, <3>2
    <3> QED BY <3>1, <3>3
  <2>2. ASSUME prev PROVE v.node \in Orphaned(e)
    <3>1. v.node \in Pair /\ NameCount(disk, v.node) = 1 /\ v.node \in Heads(disk) \ {Root}
      BY <1>7, <1>8, <2>2
    <3>2. NameCount(e, v.node) = 0
      <4>1. NameCount(e, v.node) + 1 = NameCount(disk, v.node) + 0
        BY <1>2, <1>9, <2>2
      <4> QED BY <1>6, <3>1, <4>1
    <3> QED BY <1>2, <3>1, <3>2 DEF Orphaned
  <2> QED BY <2>1, <2>2
<1>12. ASSUME NEW x \in Pair
       PROVE  /\ NameCount(e, x) # 0 => x \in Heads(e) \ {Root}
              /\ NameCount(e, x) >= 2 => NameCount(e, x) = 2 /\ cross /\ w.node = x
  <2>1. NameCount(disk, x) \in {0, 1} /\ (NameCount(disk, x) # 0 => x \in Heads(disk) \ {Root})
    BY <1>7
  <2>2. NameCount(e, x) + (IF v.found /\ v.node = x THEN 1 ELSE 0)
                = NameCount(disk, x) + (IF cross /\ w.node = x THEN 1 ELSE 0)
    BY <1>2
  <2>3. w.node = x => NameCount(disk, x) # 0
    BY <1>6, <1>8
  <2>4. NameCount(e, x) \in Nat
    BY <1>6
  <2> QED BY <1>2, <2>1, <2>2, <2>3, <2>4
<1>13. cross => /\ NameCount(e, w.node) >= 2 /\ w.pair \in Listed(e) /\ e[w.pair] = disk[w.pair]
  <2> SUFFICES ASSUME cross
               PROVE  NameCount(e, w.node) >= 2 /\ w.pair \in Listed(e) /\ e[w.pair] = disk[w.pair]
    OBVIOUS
  <2>1. NameCount(e, w.node) + (IF v.found /\ v.node = w.node THEN 1 ELSE 0) = NameCount(disk, w.node) + 1
    BY <1>2
  <2>2. NameCount(e, w.node) >= 2
    BY <1>6, <1>8, <2>1
  <2> QED BY <1>2, <1>3, <2>2
<1>14. OnCard(e) = G /\ OnCard(e) \in SUBSET Token /\ e \in Disks /\ Threaded(e) /\ Filled(e)
       /\ o.lfs \in Globals /\ o.lfs.gdelta = {}
  <2>1. e \in Disks /\ Threaded(e) /\ Filled(e) /\ OnCard(e) = o.lfs.gdisk /\ o.lfs \in Globals /\ o.lfs.gdelta = {}
    BY <1>2, CleanIs DEF Clean, e
  <2>2. Listed(e) \in SUBSET Pair
    BY <2>1, ListCloses
  <2> QED BY <1>2, <2>1, <2>2, SumType DEF OnCard
<1>15. MovesOK(e, G)
  <2> SUFFICES ASSUME NEW r \in Moves(G)
               PROVE  /\ r[1] \in Listed(e) /\ r[2] \in 1 .. Len(e[r[1]].ents)
                      /\ NameCount(e, Node(e, r)) >= 2 /\ \A a \in Moves(G) : a = r
    BY DEF MovesOK
  <2>1. cross /\ r = t /\ \A a \in Moves(G) : a = r
    BY <1>10
  <2>2. Node(e, r) = w.node
    BY <1>3, <1>5, <1>13, <2>1 DEF Node
  <2> QED BY <1>3, <1>5, <1>13, <2>1, <2>2
<1>16. NamesOK(e, G)
  <2>1. cross => t \in Moves(G) /\ Node(e, t) = w.node
    BY <1>3, <1>5, <1>10, <1>13 DEF Node
  <2> QED BY <1>12, <2>1 DEF NamesOK
<1>17. OrphansOK(e, G)
  <2>1. ASSUME NEW h \in Orphaned(e) PROVE Bare(e, h) /\ Orphans \in G /\ \A k \in Orphaned(e) : k = h
    <3>1. prev /\ h = v.node /\ \A k \in Orphaned(e) : k = h
      BY <1>11
    <3>2. Bare(disk, h) /\ h \in Listed(disk)
      BY <1>1, <1>2, <1>3, <3>1 DEF Orphaned
    <3>3. h # v.pair
      <4>1. disk[v.pair].ents # <<>>
        BY <1>3, <3>1
      <4> QED BY <3>2, <4>1 DEF Bare
    <3>4. e[h] = disk[h]
      BY <1>2, <3>2, <3>3
    <3> QED BY <1>2, <3>1, <3>2, <3>4 DEF Bare
  <2> QED BY <2>1 DEF OrphansOK
<1>18. CardOK(e, OnCard(e))
  BY <1>14, <1>15, <1>16, <1>17 DEF CardOK
<1>19. Landed(o)
  BY <1>2, <1>14, <1>18 DEF Landed, e
<1> QED BY <1>10, <1>11, <1>14, <1>19 DEF e, t

(* A call of lfs_rename has found w and v, and prepared l.                 *)
RenameOf(w, v, l) ==
  /\ RenameFrom(w, v) /\ l \in Globals /\ l.gdisk = lfs.gdisk /\ l.gdelta = {}
  /\ l.gstate = (IF v.found /\ v.node \in Pair THEN {Orphans} ELSE {})
                \cup (IF w.pair # v.pair THEN {Moved(w)} ELSE {})

(* What the commit of lfs_rename does.                                     *)
LEMMA RenameCommits ==
  ASSUME Sure, Inv, Held = {}, Known, NEW w, NEW v, NEW l, RenameOf(w, v, l),
         NEW n \in Name, NEW p, p = v.pair, NEW attrs, attrs = RenameAttrs(w, v),
         NEW s, s = SetLfs(Now, l), NEW o \in Put(s, p, Renamed(disk, w, v, n))
  PROVE  RenameDone(w, v, o, l.gstate) /\ Carried(o, p, attrs) /\ o.ok /\ o \in States
<1>1. /\ CardOK(disk, OnCard(disk)) /\ Found(w) /\ Found(v) /\ w.found
      /\ (v.found => w.pair # v.pair \/ w.id # v.id)
      /\ l \in Globals /\ l.gdisk = lfs.gdisk /\ l.gdelta = {}
      /\ l.gstate = (IF v.found /\ v.node \in Pair THEN {Orphans} ELSE {})
                \cup (IF w.pair # v.pair THEN {Moved(w)} ELSE {})
  BY DEF RenameOf, RenameFrom
<1>2. Clean(s) /\ s.disk = disk /\ s.lfs = l /\ s.held = {} /\ s.ok = TRUE /\ s.told = {}
  BY <1>1, CleanNow
<1>3. PICK y : y = [name |-> n, node |-> w.node]
  OBVIOUS
<1>4. y \in Entry /\ y.node = w.node
  <2>1. /\ disk[w.pair] \in Content /\ w.id \in 1 .. Len(disk[w.pair].ents)
        /\ w.node = disk[w.pair].ents[w.id].node
    BY <1>1 DEF Found
  <2>2. PICK a, i : a = disk[w.pair].ents /\ i = w.id
    OBVIOUS
  <2>3. a \in Seq(Entry) /\ i \in 1 .. Len(a) /\ w.node = a[i].node
    BY <2>1, <2>2 DEF Content
  <2>4. a[i] \in Entry
    BY <2>3
  <2>5. w.node \in Pair \cup File
    BY <2>3, <2>4 DEF Entry
  <2> QED BY <1>3, <2>5 DEF Entry
<1>5. Renaming(w, v, y)
  BY <1>1, <1>4 DEF Renaming
<1>6. PICK x :
           /\ Fitting(p, x) /\ Renamed(disk, w, v, n) = SetEnts(disk[p], x)
           /\ \A z : NameCount(With(p, x), z) + (IF v.found /\ v.node = z THEN 1 ELSE 0)
                       = NameCount(disk, z) + (IF w.pair # p /\ w.node = z THEN 1 ELSE 0)
           /\ \A h : Tracks(h, disk, p) => Tracks(Shifted(h, attrs), With(p, x), p)
           /\ Len(attrs) \in Nat
  <2>1. /\ Renaming(w, v, y) /\ y = [name |-> n, node |-> w.node] /\ p = v.pair
        /\ attrs = RenameAttrs(w, v)
    BY <1>3, <1>5
  <2> QED BY ONLY <2>1, RenamedIs
<1>7. PICK m, d : m = SetEnts(disk[p], x) /\ d = With(p, x)
  OBVIOUS
<1>8. EditTo(s, p, x, m, d) /\ o \in Put(s, p, m) /\ s.told = {}
  BY <1>2, <1>6, <1>7 DEF EditTo, Fitting, With
<1>9. /\ EditDone(s, p, d, o)
      /\ \A h, as : Len(as) \in Nat /\ Kept(s, p, d, o, h, as) =>
           Follows(FixUp(h, o, p, as), o.disk)
  BY ONLY Sure, <1>8, EditCommits
<1>10. /\ Clean(o) /\ o.lfs.gstate = l.gstate /\ o.lfs.gdisk = l.gstate /\ o.ok
       /\ Heads(o.disk) = Heads(disk)
       /\ \A z : NameCount(o.disk, z) = NameCount(d, z)
       /\ \A q \in Listed(disk) \ {p} : o.disk[q] = disk[q] /\ q \in Listed(o.disk)
  BY <1>2, <1>9 DEF EditDone
<1>11. ASSUME NEW z
       PROVE  NameCount(o.disk, z) + (IF v.found /\ v.node = z THEN 1 ELSE 0)
                = NameCount(disk, z) + (IF w.pair # v.pair /\ w.node = z THEN 1 ELSE 0)
  <2>1. NameCount(o.disk, z) = NameCount(With(p, x), z)
    BY <1>7, <1>10
  <2>2. NameCount(With(p, x), z) + (IF v.found /\ v.node = z THEN 1 ELSE 0)
                       = NameCount(disk, z) + (IF w.pair # p /\ w.node = z THEN 1 ELSE 0)
    BY <1>6
  <2> QED BY <2>1, <2>2
<1>12. RenameDone(w, v, o, l.gstate)
  <2>1. PICK G : G = l.gstate
    OBVIOUS
  <2>2. /\ Clean(o) /\ o.lfs.gstate = G /\ o.lfs.gdisk = G /\ Heads(o.disk) = Heads(disk)
        /\ G = (IF v.found /\ v.node \in Pair THEN {Orphans} ELSE {})
                \cup (IF w.pair # v.pair THEN {Moved(w)} ELSE {})
        /\ \A q \in Listed(disk) \ {v.pair} : o.disk[q] = disk[q] /\ q \in Listed(o.disk)
    BY <1>1, <1>10, <2>1
  <2> QED BY <1>11, <2>1, <2>2, Zenon DEF RenameDone
<1>13. Carried(o, p, attrs)
  <2> SUFFICES ASSUME NEW h, Follows(h, disk) PROVE Follows(FixUp(h, o, p, attrs), o.disk)
    BY <1>6 DEF Carried
  <2>1. Kept(s, p, d, o, h, attrs)
    BY <1>2, <1>6, <1>7 DEF Kept
  <2> QED BY <1>6, <1>9, <2>1
<1>14. o \in States
  BY <1>10, CleanIs
<1> QED BY <1>10, <1>12, <1>13, <1>14

(* What lfs_rename puts in the global state before it.                     *)
LEMMA RenamePrepared ==
  ASSUME Inv, Ready, NEW w, NEW v, Found(w), Found(v), w.found,
         v.found => /\ (v.node \in Pair => Empty(v.node))
                    /\ w.pair # v.pair \/ w.id # v.id,
         NEW l, l = PrepMove(IF v.found /\ v.node \in Pair THEN PrepOrphans(lfs, TRUE) ELSE lfs,
                             IF w.pair # v.pair THEN {<<w.pair, w.id>>}
                             ELSE lfs.gstate \ {Orphans})
  PROVE  RenameOf(w, v, l)
<1> DEFINE prev == v.found /\ v.node \in Pair
           cross == w.pair # v.pair
<1>1. /\ Moves(OnCard(disk)) = {} /\ lfs.gstate = {} /\ Orphaned(disk) = {}
      /\ CardOK(disk, OnCard(disk)) /\ lfs \in Globals /\ lfs.gdelta = {}
  BY ReadyIs DEF Inv, GlobalOK
<1>2. RenameFrom(w, v)
  BY <1>1 DEF RenameFrom, Empty, Bare
<1>3. Moved(w) \in Token /\ Moved(w) # Orphans
  <2>1. w.pair \in Pair /\ w.id \in 1 .. Len(disk[w.pair].ents) /\ w.pair \in Listed(disk)
    BY DEF Found
  <2>2. Filled(disk) /\ disk[w.pair] \in Content /\ Len(disk[w.pair].ents) \in Nat /\ NoPair \notin Pair
    BY <1>1, <2>1, CardIs
  <2>3. Len(disk[w.pair].ents) <= Full /\ Full \in Nat
    BY <2>1, <2>2, DirTreeAssumption DEF Filled
  <2>4. w.id \in 1 .. (Full + 1)
    BY <2>1, <2>2, <2>3
  <2> QED BY <2>1, <2>2, <2>4 DEF Moved, Token, Orphans
<1>4. PICK k : k = IF prev THEN PrepOrphans(lfs, TRUE) ELSE lfs
  OBVIOUS
<1>5. /\ k \in Globals /\ k.gstate = (IF prev THEN {Orphans} ELSE {})
      /\ k.gdisk = lfs.gdisk /\ k.gdelta = {}
  <2>1. {} \in SUBSET Token
    OBVIOUS
  <2>2. /\ PrepOrphans(lfs, TRUE) \in Globals /\ PrepOrphans(lfs, TRUE).gstate = lfs.gstate \cup {Orphans}
        /\ PrepOrphans(lfs, TRUE).gdisk = lfs.gdisk /\ PrepOrphans(lfs, TRUE).gdelta = lfs.gdelta
    BY <1>1, <2>1, PrepIs
  <2> QED BY <1>1, <1>4, <2>2
<1>6. PICK M : M = IF cross THEN {Moved(w)} ELSE {}
  OBVIOUS
<1>7. M \in SUBSET Token /\ l = PrepMove(k, M)
  BY <1>1, <1>3, <1>4, <1>6 DEF Moved
<1>8. l \in Globals /\ l.gstate = (k.gstate \cap {Orphans}) \cup M /\ l.gdisk = k.gdisk /\ l.gdelta = k.gdelta
  <2>1. k \in Globals /\ M \in SUBSET Token
    BY <1>5, <1>7
  <2>2. /\ PrepMove(k, M) \in Globals /\ PrepMove(k, M).gstate = (k.gstate \cap {Orphans}) \cup M
        /\ PrepMove(k, M).gdisk = k.gdisk /\ PrepMove(k, M).gdelta = k.gdelta
    BY ONLY <2>1, PrepIs
  <2> QED BY <1>7, <2>2
<1>9. l.gstate = (IF prev THEN {Orphans} ELSE {}) \cup (IF cross THEN {Moved(w)} ELSE {})
  BY <1>5, <1>6, <1>8
<1> QED BY <1>2, <1>5, <1>8, <1>9 DEF RenameOf

(* What lfs_rename does once it has found w and v.                         *)
Renames(w, v, h, n, k, a) ==
  LET prev == v.found /\ v.node \in Pair
      cross == w.pair # v.pair
      prepared == PrepMove(IF prev THEN PrepOrphans(lfs, TRUE) ELSE lfs,
                           IF cross THEN {<<w.pair, w.id>>}
                           ELSE lfs.gstate \ {Orphans})
      attrs == RenameAttrs(w, v)
  IN /\ v.found => /\ (w.node \in Pair) = prev /\ (prev => Empty(v.node))
                   /\ w.pair # v.pair \/ w.id # v.id
                   /\ Removes(v.pair, v.id)
     /\ w.node \in Pair /\ "selfmove" \notin Uses =>
          k \notin Below(disk, lfs.gdisk, w.node)
     /\ \E o \in Put([Now EXCEPT !.lfs = prepared], v.pair, Renamed(disk, w, v, a)) :
          IF ~o.ok \/ ~(cross \/ prev)
          THEN /\ Apply(o, v.pair, attrs)
               /\ Return(IF o.ok THEN "ok" ELSE "error")
          ELSE /\ Apply(IF cross THEN o ELSE
                          [o EXCEPT !.lfs = PrepOrphans(@, FALSE)],
                        v.pair, attrs)
               /\ op' = IF cross
                    THEN [at |-> "rename_delete", pair |-> w.pair, id |-> w.id,
                          dir |-> IF prev THEN v.node ELSE NoPair]
                    ELSE [at |-> "drop", dir |-> v.node]
               /\ Running([op |-> "rename", dir |-> h, name |-> n, to |-> k, as |-> a,
                           found |-> Tree(disk, lfs.gdisk)])

(* The same, and what there is to know of it.                              *)
RenameCommit(w, v, h, n, k, a, l, o) ==
  LET prev  == v.found /\ v.node \in Pair
      cross == w.pair # v.pair
      attrs == RenameAttrs(w, v)
  IN
  /\ h \in Dirs /\ k \in Dirs /\ n \in Name /\ a \in Name /\ w.found
  /\ w = Lookup(disk, lfs.gdisk, h, n) /\ v = Lookup(disk, lfs.gdisk, k, a)
  /\ v.found => /\ (w.node \in Pair) = prev /\ (prev => Empty(v.node))
                /\ w.pair # v.pair \/ w.id # v.id
                /\ Removes(v.pair, v.id)
  /\ Removes(w.pair, w.id)
  /\ RenameOf(w, v, l) /\ o \in Put(SetLfs(Now, l), v.pair, Renamed(disk, w, v, a))
  /\ IF ~o.ok \/ ~(cross \/ prev)
     THEN /\ Apply(o, v.pair, attrs)
          /\ Return(IF o.ok THEN "ok" ELSE "error")
     ELSE /\ Apply(IF cross THEN o ELSE SetLfs(o, PrepOrphans(o.lfs, FALSE)), v.pair, attrs)
          /\ op' = IF cross
               THEN [at |-> "rename_delete", pair |-> w.pair, id |-> w.id,
                     dir |-> IF prev THEN v.node ELSE NoPair]
               ELSE [at |-> "drop", dir |-> v.node]
          /\ Running([op |-> "rename", dir |-> h, name |-> n, to |-> k, as |-> a,
                      found |-> Tree(disk, lfs.gdisk)])

(* The commit by which rename makes the new entry.                         *)
LEMMA RenameTakes ==
  ASSUME Inv, Rename
  PROVE  \E w, v, h, n, k, a, l, o : RenameCommit(w, v, h, n, k, a, l, o)
<1>1. Ready /\ Begin
  BY DEF Rename
<1>2. PICK h \in Dirs, n \in Name :
       LET w == Lookup(disk, lfs.gdisk, h, n)
           isDir == w.node \in Pair
       IN /\ w.found /\ Removes(w.pair, w.id)
          /\ \E k \in Dirs, a \in Name :
               LET v == Lookup(disk, lfs.gdisk, k, a)
                   prev == v.found /\ v.node \in Pair
                   cross == w.pair # v.pair
                   prepared == PrepMove(IF prev THEN PrepOrphans(lfs, TRUE)
                                                ELSE lfs,
                                        IF cross THEN {<<w.pair, w.id>>}
                                        ELSE lfs.gstate \ {Orphans})
                   attrs == RenameAttrs(w, v)
               IN /\ v.found => /\ isDir = prev /\ (prev => Empty(v.node))
                                /\ w.pair # v.pair \/ w.id # v.id
                                /\ Removes(v.pair, v.id)
                  /\ isDir /\ "selfmove" \notin Uses =>
                       k \notin Below(disk, lfs.gdisk, w.node)
                  /\ \E o \in Put([Now EXCEPT !.lfs = prepared], v.pair,
                                 Renamed(disk, w, v, a)) :
                       IF ~o.ok \/ ~(cross \/ prev)
                       THEN /\ Apply(o, v.pair, attrs)
                            /\ Return(IF o.ok THEN "ok" ELSE "error")
                       ELSE /\ Apply(IF cross THEN o ELSE
                                       [o EXCEPT !.lfs = PrepOrphans(@, FALSE)],
                                     v.pair, attrs)
                            /\ op' = IF cross
                                 THEN [at |-> "rename_delete", pair |-> w.pair,
                                       id |-> w.id, dir |->
                                         IF prev THEN v.node ELSE NoPair]
                                 ELSE [at |-> "drop", dir |-> v.node]
                            /\ Running([op |-> "rename", dir |-> h,
                                 name |-> n, to |-> k, as |-> a,
                                 found |-> Tree(disk, lfs.gdisk)])
  BY Zenon DEF Rename
<1>3. PICK k \in Dirs, a \in Name :
       LET w == Lookup(disk, lfs.gdisk, h, n)
           isDir == w.node \in Pair
       IN
               LET v == Lookup(disk, lfs.gdisk, k, a)
                   prev == v.found /\ v.node \in Pair
                   cross == w.pair # v.pair
                   prepared == PrepMove(IF prev THEN PrepOrphans(lfs, TRUE)
                                                ELSE lfs,
                                        IF cross THEN {<<w.pair, w.id>>}
                                        ELSE lfs.gstate \ {Orphans})
                   attrs == RenameAttrs(w, v)
               IN /\ v.found => /\ isDir = prev /\ (prev => Empty(v.node))
                                /\ w.pair # v.pair \/ w.id # v.id
                                /\ Removes(v.pair, v.id)
                  /\ isDir /\ "selfmove" \notin Uses =>
                       k \notin Below(disk, lfs.gdisk, w.node)
                  /\ \E o \in Put([Now EXCEPT !.lfs = prepared], v.pair,
                                 Renamed(disk, w, v, a)) :
                       IF ~o.ok \/ ~(cross \/ prev)
                       THEN /\ Apply(o, v.pair, attrs)
                            /\ Return(IF o.ok THEN "ok" ELSE "error")
                       ELSE /\ Apply(IF cross THEN o ELSE
                                       [o EXCEPT !.lfs = PrepOrphans(@, FALSE)],
                                     v.pair, attrs)
                            /\ op' = IF cross
                                 THEN [at |-> "rename_delete", pair |-> w.pair,
                                       id |-> w.id, dir |->
                                         IF prev THEN v.node ELSE NoPair]
                                 ELSE [at |-> "drop", dir |-> v.node]
                            /\ Running([op |-> "rename", dir |-> h,
                                 name |-> n, to |-> k, as |-> a,
                                 found |-> Tree(disk, lfs.gdisk)])
  BY <1>2, Zenon
<1>4. Renames(Lookup(disk, lfs.gdisk, h, n), Lookup(disk, lfs.gdisk, k, a), h, n, k, a)
  BY <1>3 DEF Renames
<1>5. /\ Lookup(disk, lfs.gdisk, h, n).found
      /\ Removes(Lookup(disk, lfs.gdisk, h, n).pair, Lookup(disk, lfs.gdisk, h, n).id)
  BY <1>2, Zenon
<1>6. PICK w : w = Lookup(disk, lfs.gdisk, h, n)
  OBVIOUS
<1>7. PICK v : v = Lookup(disk, lfs.gdisk, k, a)
  OBVIOUS
<1> DEFINE prev == v.found /\ v.node \in Pair
           cross == w.pair # v.pair
<1>8. PICK l : l = PrepMove(IF v.found /\ v.node \in Pair THEN PrepOrphans(lfs, TRUE) ELSE lfs,
                            IF w.pair # v.pair THEN {<<w.pair, w.id>>}
                            ELSE lfs.gstate \ {Orphans})
  OBVIOUS
<1>9. PICK attrs : attrs = RenameAttrs(w, v)
  OBVIOUS
<1>10. PICK s : s = SetLfs(Now, l)
  OBVIOUS
<1>11. PICK done : done = [op |-> "rename", dir |-> h, name |-> n, to |-> k, as |-> a,
                          found |-> Tree(disk, lfs.gdisk)]
  OBVIOUS
<1>12. s = [Now EXCEPT !.lfs = l]
  BY <1>10, Zenon DEF SetLfs
<1>13. /\ v.found => /\ (w.node \in Pair) = prev /\ (prev => Empty(v.node))
                     /\ w.pair # v.pair \/ w.id # v.id
                     /\ Removes(v.pair, v.id)
       /\ \E o \in Put(s, v.pair, Renamed(disk, w, v, a)) :
            IF ~o.ok \/ ~(cross \/ prev)
            THEN /\ Apply(o, v.pair, attrs)
                 /\ Return(IF o.ok THEN "ok" ELSE "error")
            ELSE /\ Apply(IF cross THEN o ELSE
                            [o EXCEPT !.lfs = PrepOrphans(@, FALSE)],
                          v.pair, attrs)
                 /\ op' = IF cross
                      THEN [at |-> "rename_delete", pair |-> w.pair,
                            id |-> w.id, dir |->
                              IF prev THEN v.node ELSE NoPair]
                      ELSE [at |-> "drop", dir |-> v.node]
                 /\ Running(done)
  BY <1>4, <1>6, <1>7, <1>8, <1>9, <1>11, <1>12, Zenon DEF Renames
<1>14. w.found /\ Removes(w.pair, w.id)
  BY <1>5, <1>6
<1>15. PICK o :
        /\ o \in Put(s, v.pair, Renamed(disk, w, v, a))
        /\ IF ~o.ok \/ ~(cross \/ prev)
            THEN /\ Apply(o, v.pair, attrs)
                 /\ Return(IF o.ok THEN "ok" ELSE "error")
            ELSE /\ Apply(IF cross THEN o ELSE
                            [o EXCEPT !.lfs = PrepOrphans(@, FALSE)],
                          v.pair, attrs)
                 /\ op' = IF cross
                      THEN [at |-> "rename_delete", pair |-> w.pair,
                            id |-> w.id, dir |->
                              IF prev THEN v.node ELSE NoPair]
                      ELSE [at |-> "drop", dir |-> v.node]
                 /\ Running(done)
  BY <1>13
<1>16. Found(w) /\ Found(v)
  BY <1>1, <1>6, <1>7, FoundIs
<1>17. RenameOf(w, v, l)
  BY <1>1, <1>8, <1>13, <1>14, <1>16, RenamePrepared
<1>18. SetLfs(o, PrepOrphans(o.lfs, FALSE)) = [o EXCEPT !.lfs = PrepOrphans(@, FALSE)]
  BY Zenon DEF SetLfs
<1>19. RenameCommit(w, v, h, n, k, a, l, o)
  <2>1. /\ h \in Dirs /\ k \in Dirs /\ n \in Name /\ a \in Name /\ w.found
        /\ w = Lookup(disk, lfs.gdisk, h, n) /\ v = Lookup(disk, lfs.gdisk, k, a)
        /\ v.found => /\ (w.node \in Pair) = prev /\ (prev => Empty(v.node))
                      /\ w.pair # v.pair \/ w.id # v.id
                      /\ Removes(v.pair, v.id)
        /\ Removes(w.pair, w.id)
    BY <1>2, <1>3, <1>6, <1>7, <1>13, <1>14
  <2>2. RenameOf(w, v, l) /\ o \in Put(SetLfs(Now, l), v.pair, Renamed(disk, w, v, a))
    BY <1>10, <1>15, <1>17
  <2>3. IF ~o.ok \/ ~(cross \/ prev)
        THEN /\ Apply(o, v.pair, attrs)
             /\ Return(IF o.ok THEN "ok" ELSE "error")
        ELSE /\ Apply(IF cross THEN o ELSE SetLfs(o, PrepOrphans(o.lfs, FALSE)), v.pair, attrs)
             /\ op' = IF cross
                  THEN [at |-> "rename_delete", pair |-> w.pair,
                        id |-> w.id, dir |->
                          IF prev THEN v.node ELSE NoPair]
                  ELSE [at |-> "drop", dir |-> v.node]
             /\ Running(done)
    BY <1>15, <1>18, Zenon
  <2> QED BY <1>9, <1>11, <2>1, <2>2, <2>3, Zenon DEF RenameCommit
<1> QED BY <1>19

(* What the commit of lfs_rename leaves.                                   *)
RenameLeft(w, v, l, o) ==
  /\ RenameDone(w, v, o, l.gstate) /\ Carried(o, v.pair, RenameAttrs(w, v)) /\ o.ok /\ o \in States
  /\ Landed(o) /\ OnCard(o.disk) = l.gstate
  /\ Moves(l.gstate) = IF w.pair # v.pair THEN {Moved(w)} ELSE {}
  /\ Orphaned(o.disk) = IF v.found /\ v.node \in Pair THEN {v.node} ELSE {}
  /\ o.lfs.gstate = l.gstate /\ o.lfs.gdisk = l.gstate

(* What the commit of a rename leaves, on the card and in memory.          *)
LEMMA RenameLeaves ==
  ASSUME Sure, Inv, Ready, NEW w, NEW v, NEW h, NEW n, NEW k, NEW a, NEW l, NEW o,
         RenameCommit(w, v, h, n, k, a, l, o)
  PROVE  RenameLeft(w, v, l, o)
<1>1. PICK p, s, attrs, G : /\ p = v.pair /\ s = SetLfs(Now, l) /\ attrs = RenameAttrs(w, v)
                            /\ G = l.gstate
  OBVIOUS
<1>2. RenameDone(w, v, o, G) /\ Carried(o, p, attrs) /\ o.ok /\ o \in States
  <2>1. Known /\ Held = {}
    BY ReadyIs
  <2>2. /\ Sure /\ Inv /\ Held = {} /\ Known /\ RenameOf(w, v, l) /\ a \in Name
        /\ p = v.pair /\ attrs = RenameAttrs(w, v) /\ s = SetLfs(Now, l)
        /\ o \in Put(s, p, Renamed(disk, w, v, a))
    BY <1>1, <2>1 DEF RenameCommit
  <2>3. RenameDone(w, v, o, l.gstate) /\ Carried(o, p, attrs) /\ o.ok /\ o \in States
    BY ONLY <2>2, RenameCommits
  <2> QED BY <1>1, <2>3
<1>3. /\ Landed(o) /\ OnCard(o.disk) = G
      /\ Moves(G) = IF w.pair # v.pair THEN {Moved(w)} ELSE {}
      /\ Orphaned(o.disk) = IF v.found /\ v.node \in Pair THEN {v.node} ELSE {}
  <2>1. RenameFrom(w, v)
    BY DEF RenameCommit, RenameOf
  <2> QED BY ONLY <1>2, <2>1, RenameLands
<1>4. o.lfs.gstate = G /\ o.lfs.gdisk = G
  BY <1>2 DEF RenameDone
<1> QED BY <1>1, <1>2, <1>3, <1>4 DEF RenameLeft

(* lfs_rename, up to its first commit, keeps the invariant.                *)
LEMMA RenameInv ==
  ASSUME Sure, Inv, Rename
  PROVE  Inv'
<1>1. Ready /\ Begin
  BY DEF Rename
<1>2. PICK w, v, h, n, k, a, l, o : RenameCommit(w, v, h, n, k, a, l, o)
  BY RenameTakes
<1> DEFINE prev == v.found /\ v.node \in Pair
           cross == w.pair # v.pair
<1>3. PICK attrs : attrs = RenameAttrs(w, v)
  OBVIOUS
<1>4. PICK done : done = [op |-> "rename", dir |-> h, name |-> n, to |-> k, as |-> a,
                          found |-> Tree(disk, lfs.gdisk)]
  OBVIOUS
<1>5. PICK k2 : k2 = SetLfs(o, PrepOrphans(o.lfs, FALSE))
  OBVIOUS
<1>6. IF ~o.ok \/ ~(cross \/ prev)
       THEN /\ Apply(o, v.pair, attrs)
            /\ Return(IF o.ok THEN "ok" ELSE "error")
       ELSE /\ Apply(IF cross THEN o ELSE k2, v.pair, attrs)
            /\ op' = IF cross
                 THEN [at |-> "rename_delete", pair |-> w.pair,
                       id |-> w.id, dir |->
                         IF prev THEN v.node ELSE NoPair]
                 ELSE [at |-> "drop", dir |-> v.node]
            /\ Running(done)
  BY <1>2, <1>3, <1>4, <1>5, Zenon DEF RenameCommit
<1>7. Known /\ Held = {} /\ OthersOK
  BY <1>1, ReadyIs DEF Inv
<1>8. PICK p, G : p = v.pair /\ G = l.gstate
  OBVIOUS
<1>9. RenameLeft(w, v, l, o)
  BY <1>1, <1>2, RenameLeaves
<1>10. /\ Carried(o, p, attrs) /\ o.ok /\ o \in States
       /\ Landed(o) /\ OnCard(o.disk) = G
       /\ Moves(G) = IF cross THEN {Moved(w)} ELSE {}
       /\ Orphaned(o.disk) = IF prev THEN {v.node} ELSE {}
       /\ o.lfs.gstate = G /\ o.lfs.gdisk = G
  BY <1>3, <1>8, <1>9 DEF RenameLeft
<1>11. calls' = calls + 1 /\ calls + 1 \in 0 .. MaxCalls
  BY <1>1, <1>7, DirTreeAssumption DEF Begin, OthersOK
<1>12. NoPair \notin Pair
  BY DirTreeAssumption
<1> HIDE DEF prev, cross
<1>13. CASE ~cross /\ ~prev
  <2>1. Apply(o, p, attrs) /\ Return("ok")
    BY <1>6, <1>8, <1>10, <1>13
  <2>2. /\ CardOK(disk', OnCard(disk')) /\ GlobalOK' /\ Known' /\ Follows(handle', disk')
    BY <1>10, <2>1, Applied
  <2>3. disk' = o.disk /\ lfs' = o.lfs /\ op' = Idle /\ result' = "ok"
    BY <2>1 DEF Apply, Return
  <2>4. Orphaned(disk') = {} /\ Moves(lfs'.gdisk) = {}
    BY <1>10, <1>13, <2>3
  <2>5. OpOK'
    BY <2>2, <2>3, <2>4 DEF OpOK, Idle
  <2>6. OthersOK'
    BY <1>11, <2>3 DEF OthersOK
  <2> QED BY <2>2, <2>4, <2>5, <2>6, InvIf
<1>14. CASE cross
  <2>1. /\ Apply(o, p, attrs) /\ result' = result
        /\ op' = [at |-> "rename_delete", pair |-> w.pair, id |-> w.id,
                  dir |-> IF prev THEN v.node ELSE NoPair]
    BY <1>6, <1>8, <1>10, <1>14 DEF Running
  <2>2. /\ CardOK(disk', OnCard(disk')) /\ GlobalOK' /\ Known' /\ Follows(handle', disk')
    BY <1>10, <2>1, Applied
  <2>3. disk' = o.disk /\ lfs' = o.lfs
    BY <2>1 DEF Apply
  <2>4. /\ Orphaned(disk') = (IF prev THEN {v.node} ELSE {}) /\ Moves(lfs'.gdisk) = {<<w.pair, w.id>>}
        /\ lfs'.gstate = lfs'.gdisk
    BY <1>10, <1>14, <2>3 DEF Moved
  <2>5. op'.at = "rename_delete" /\ op'.pair = w.pair /\ op'.id = w.id
        /\ op'.dir = IF prev THEN v.node ELSE NoPair
    BY <2>1
  <2>6. Orphaned(disk') = {op'.dir} \ {NoPair}
    BY <1>12, <2>4, <2>5 DEF prev
  <2>7. OpOK'
    BY <2>2, <2>4, <2>5, <2>6 DEF OpOK
  <2>8. OthersOK'
    BY <1>7, <1>11, <2>1 DEF OthersOK
  <2> QED BY <2>2, <2>5, <2>7, <2>8, InvIf
<1>15. CASE ~cross /\ prev
  <2>1. Apply(k2, p, attrs) /\ result' = result /\ op' = [at |-> "drop", dir |-> v.node]
    BY <1>6, <1>8, <1>10, <1>15 DEF Running
  <2>2. /\ Landed(k2) /\ Carried(k2, p, attrs) /\ k2.disk = o.disk
        /\ k2.lfs.gstate = {} /\ k2.lfs.gdisk = o.lfs.gdisk
    <3>1. Clearing(o, k2, p, attrs)
      BY <1>5, <1>10, <1>15 DEF Clearing
    <3> QED BY <3>1, Cleared
  <2>3. /\ CardOK(disk', OnCard(disk')) /\ GlobalOK' /\ Known' /\ Follows(handle', disk')
    BY <2>1, <2>2, Applied
  <2>4. disk' = o.disk /\ lfs' = k2.lfs
    BY <2>1, <2>2 DEF Apply
  <2>5. Orphaned(disk') = {v.node} /\ Moves(lfs'.gdisk) = {} /\ lfs'.gstate = {}
    BY <1>10, <1>15, <2>2, <2>4
  <2>6. OpOK'
    BY <2>1, <2>3, <2>5 DEF OpOK
  <2>7. OthersOK'
    BY <1>7, <1>11, <2>1 DEF OthersOK
  <2> QED BY <2>3, <2>5, <2>6, <2>7, InvIf
<1> QED BY <1>13, <1>14, <1>15

------------------------------------------------------------------------------
(* The pairs of a directory, from one of them on.                          *)
Card(d) == d \in Disks /\ Threaded(d)

(* What holds of every card the calls leave.                               *)
LEMMA CardHas ==
  ASSUME NEW d, Card(d)
  PROVE  /\ d \in Disks /\ Threaded(d) /\ Listed(d) \in SUBSET Pair
         /\ Heads(d) \in SUBSET Listed(d) /\ Root \in Heads(d)
         /\ \A p \in Listed(d) :
              /\ p \in Pair /\ d[p] \in Content /\ d[p].ents \in Seq(Entry)
              /\ Len(d[p].ents) \in Nat /\ d[p].split \in BOOLEAN
              /\ d[p].split => d[p].tail \in Listed(d) /\ d[p].tail # Root
<1>1. d \in Disks /\ Threaded(d) /\ Listed(d) \in SUBSET Pair /\ Root \in Listed(d)
  BY ListCloses DEF Card
<1>2. Heads(d) \in SUBSET Listed(d) /\ Root \in Heads(d)
  BY <1>1, HeadsListed DEF Heads
<1>3. ASSUME NEW p \in Listed(d)
      PROVE  /\ p \in Pair /\ d[p] \in Content /\ d[p].ents \in Seq(Entry)
             /\ Len(d[p].ents) \in Nat /\ d[p].split \in BOOLEAN
             /\ d[p].split => d[p].tail \in Listed(d) /\ d[p].tail # Root
  BY <1>1, DiskType, ListCloses DEF Threaded, TailsOK
<1> QED BY <1>1, <1>2, <1>3

(* A directory goes on for as long as its pairs say, and no further.       *)
LEMMA ChainCloses ==
  ASSUME NEW d, Card(d), NEW h \in Listed(d)
  PROVE  /\ Chain(d, h) \subseteq Listed(d) /\ h \in Chain(d, h)
         /\ \A p \in Chain(d, h) : d[p].split => d[p].tail \in Chain(d, h)
<1>1. Chain(d, h) \subseteq Listed(d) /\ h \in Chain(d, h)
  BY CardHas, ChainIsListed
<1>2. \A p \in Closure(d, {h}, TRUE) : Goes(d, p, TRUE) => d[p].tail \in Closure(d, {h}, TRUE)
  BY CardHas, ClosureCloses
<1>3. \A p \in Chain(d, h) : d[p].split => Goes(d, p, TRUE)
  BY <1>1, CardHas DEF Goes, Threaded, TailsOK
<1> QED BY <1>1, <1>2, <1>3 DEF Chain

(* A set that holds the first pair and follows the tails holds the whole   *)
(* directory.                                                              *)
LEMMA ChainIsLeast ==
  ASSUME NEW d, Card(d), NEW h \in Listed(d), NEW S, h \in S,
         \A p \in S \cap Chain(d, h) : d[p].split => d[p].tail \in S
  PROVE  Chain(d, h) \subseteq S
<1> DEFINE U == S \cap Chain(d, h)
<1>1. h \in U /\ \A p \in U \cap Pair : Goes(d, p, TRUE) => d[p].tail \in U
  BY ChainCloses DEF Goes
<1>2. Closure(d, {h}, TRUE) \subseteq U
  <2> HIDE DEF U
  <2> QED BY <1>1, CardHas, ClosureIsLeast
<1> QED BY <1>2 DEF Chain

(* What is further on is part of it.                                       *)
LEMMA ChainWithin ==
  ASSUME NEW d, Card(d), NEW h \in Listed(d), NEW p \in Chain(d, h)
  PROVE  Chain(d, p) \subseteq Chain(d, h)
BY ChainCloses, ChainIsLeast

(* A pair, and what follows it.                                            *)
LEMMA ChainFrom ==
  ASSUME NEW d, Card(d), NEW p \in Listed(d)
  PROVE  Chain(d, p) = {p} \cup (IF d[p].split THEN Chain(d, d[p].tail) ELSE {})
<1> DEFINE S == {p} \cup (IF d[p].split THEN Chain(d, d[p].tail) ELSE {})
<1>1. d[p].split => d[p].tail \in Listed(d)
  BY CardHas
<1>2. p \in S /\ \A r \in S \cap Chain(d, p) : d[r].split => d[r].tail \in S
  BY <1>1, ChainCloses
<1>3. Chain(d, p) \subseteq S
  <2> HIDE DEF S
  <2> QED BY <1>2, ChainIsLeast
<1>4. d[p].split => Chain(d, d[p].tail) \subseteq Chain(d, p)
  BY <1>1, ChainCloses, ChainWithin
<1> QED BY <1>3, <1>4, ChainCloses

(* Every pair of a directory but the first is where another goes on.       *)
LEMMA ChainPred ==
  ASSUME NEW d, Card(d), NEW h \in Listed(d), NEW q \in Chain(d, h), q # h
  PROVE  \E p \in Chain(d, h) : d[p].split /\ d[p].tail = q
<1> SUFFICES ASSUME \A p \in Chain(d, h) : d[p].split => d[p].tail # q PROVE FALSE
  OBVIOUS
<1> DEFINE S == Chain(d, h) \ {q}
<1>1. h \in S /\ \A r \in S \cap Chain(d, h) : d[r].split => d[r].tail \in S
  BY ChainCloses
<1>2. Chain(d, h) \subseteq S
  <2> HIDE DEF S
  <2> QED BY <1>1, ChainIsLeast
<1> QED BY <1>2

(* No directory comes back to a pair it has left: the root is not further  *)
(* on than its own tail, and if a tail were, so would be its predecessor.  *)
LEMMA ChainEndsOnce ==
  ASSUME NEW d, Card(d), NEW p \in Listed(d), d[p].split
  PROVE  p \notin Chain(d, d[p].tail)
<1> DEFINE S == {r \in Listed(d) : d[r].split => r \notin Chain(d, d[r].tail)}
<1>1. ASSUME NEW r \in Listed(d), d[r].split, r \in Chain(d, d[r].tail)
      PROVE  /\ d[r].tail \in Listed(d) /\ d[r].tail # r
             /\ \E q \in Listed(d) : /\ d[q].split /\ d[q].tail = r
                                     /\ q \in Chain(d, d[q].tail)
  <2>1. d[r].tail \in Listed(d) /\ d[r].tail # r
    BY <1>1, CardHas, NoSelfTail
  <2>2. PICK q \in Chain(d, d[r].tail) : d[q].split /\ d[q].tail = r
    BY <1>1, <2>1, ChainPred
  <2>3. q \in Listed(d)
    BY <2>1, <2>2, ChainCloses
  <2>4. Chain(d, r) = {r} \cup Chain(d, d[r].tail)
    BY <1>1, ChainFrom
  <2> QED BY <2>1, <2>2, <2>3, <2>4
<1>2. Root \in S
  <2> SUFFICES ASSUME d[Root].split, Root \in Chain(d, d[Root].tail) PROVE FALSE
    BY CardHas
  <2>1. Root \in Listed(d)
    BY CardHas
  <2>2. \E q \in Listed(d) : d[q].split /\ d[q].tail = Root
    BY <1>1, <2>1
  <2> QED BY <2>2, CardHas
<1>3. ASSUME NEW r \in S, d[r].tail # NoPair PROVE d[r].tail \in S
  <2>1. d[r].tail \in Listed(d) /\ d[r].tail # NoPair
    BY <1>3, CardHas, ListCloses
  <2> SUFFICES ASSUME d[d[r].tail].split, d[r].tail \in Chain(d, d[d[r].tail].tail) PROVE FALSE
    BY <2>1
  <2>2. PICK q \in Listed(d) : /\ d[q].split /\ d[q].tail = d[r].tail
                               /\ q \in Chain(d, d[q].tail)
    BY <1>1, <2>1
  <2>3. q = r
    BY <1>3, <2>2, CardHas DEF Threaded, ListOK
  <2> QED BY <1>3, <2>2, <2>3
<1>4. Listed(d) \subseteq S
  <2>1. \A r \in S \cap Listed(d) : d[r].tail # NoPair => d[r].tail \in S
    BY <1>3
  <2> HIDE DEF S
  <2> QED BY <1>2, <2>1, CardHas, ListIsLeast
<1> QED BY <1>4

(* Of two pairs one is further on, and of two different ones only one.     *)
LEMMA ChainTotal ==
  ASSUME NEW d, Card(d), NEW h \in Listed(d), NEW p \in Chain(d, h), NEW q \in Chain(d, h)
  PROVE  q \in Chain(d, p) \/ p \in Chain(d, q)
<1> DEFINE S == {r \in Chain(d, h) : r \in Chain(d, p) \/ p \in Chain(d, r)}
<1>0. Chain(d, h) \subseteq Listed(d) /\ p \in Listed(d)
  BY ChainCloses
<1>1. h \in S
  BY ChainCloses
<1>2. ASSUME NEW r \in S, d[r].split PROVE d[r].tail \in S
  <2>1. d[r].tail \in Chain(d, h)
    BY <1>2, ChainCloses
  <2>2. CASE r \in Chain(d, p)
    BY <1>0, <1>2, <2>1, <2>2, ChainCloses
  <2>3. CASE p \in Chain(d, r) /\ r # p
    <3>1. Chain(d, r) = {r} \cup Chain(d, d[r].tail)
      BY <1>0, <1>2, ChainFrom
    <3> QED BY <2>1, <2>3, <3>1
  <2>4. p \in Chain(d, p)
    BY <1>0, ChainCloses
  <2> QED BY <1>2, <2>2, <2>3, <2>4
<1>3. Chain(d, h) \subseteq S
  <2>1. \A r \in S \cap Chain(d, h) : d[r].split => d[r].tail \in S
    BY <1>2
  <2> HIDE DEF S
  <2> QED BY <1>1, <2>1, ChainIsLeast
<1> QED BY <1>3

(* A directory never comes back to a pair it has left.                     *)
LEMMA ChainOrder ==
  ASSUME NEW d, Card(d), NEW p \in Listed(d), NEW q \in Chain(d, p), p \in Chain(d, q)
  PROVE  p = q
<1> SUFFICES ASSUME p # q PROVE FALSE
  OBVIOUS
<1>1. d[p].split /\ q \in Chain(d, d[p].tail)
  BY ChainFrom
<1>2. d[p].tail \in Listed(d)
  BY <1>1, CardHas
<1>3. p \in Chain(d, d[p].tail)
  BY <1>1, <1>2, ChainWithin
<1> QED BY <1>1, <1>3, ChainEndsOnce

(* No directory goes on in the first pair of one, and two directories have *)
(* no pair in common.                                                      *)
LEMMA HeadIsFirst ==
  ASSUME NEW d, Card(d), NEW h \in Heads(d), NEW p \in Listed(d), d[p].split
  PROVE  d[p].tail # h
<1> SUFFICES ASSUME d[p].tail = h PROVE FALSE
  OBVIOUS
<1>1. h # Root
  BY CardHas
<1>2. PICK r \in Listed(d) : ~d[r].split /\ d[r].tail = h
  BY <1>1 DEF Heads
<1>3. r = p
  <2>1. d[p].tail # NoPair
    BY CardHas, DirTreeAssumption
  <2> QED BY <1>2, <2>1, CardHas DEF Threaded, ListOK
<1> QED BY <1>2, <1>3

(* No pair belongs to two directories.                                     *)
LEMMA ChainsApart ==
  ASSUME NEW d, Card(d), NEW h \in Heads(d), NEW k \in Heads(d),
         NEW p \in Chain(d, h), p \in Chain(d, k)
  PROVE  h = k
<1> SUFFICES ASSUME h # k PROVE FALSE
  OBVIOUS
<1> DEFINE S == Chain(d, h) \ Chain(d, k)
<1>0. h \in Listed(d) /\ k \in Listed(d)
  BY CardHas
<1>1. h \in S
  <2> SUFFICES ASSUME h \in Chain(d, k) PROVE FALSE
    BY <1>0, ChainCloses
  <2>1. PICK r \in Chain(d, k) : d[r].split /\ d[r].tail = h
    BY <1>0, ChainPred
  <2> QED BY <1>0, <2>1, ChainCloses, HeadIsFirst
<1>2. ASSUME NEW r \in S, d[r].split PROVE d[r].tail \in S
  <2>1. r \in Listed(d) /\ d[r].tail \in Chain(d, h) /\ d[r].tail # k
    BY <1>0, <1>2, ChainCloses, HeadIsFirst
  <2> SUFFICES ASSUME d[r].tail \in Chain(d, k) PROVE FALSE
    BY <2>1
  <2>2. PICK q \in Chain(d, k) : d[q].split /\ d[q].tail = d[r].tail
    BY <1>0, <2>1, ChainPred
  <2>3. q = r
    <3>1. q \in Listed(d) /\ d[r].tail # NoPair
      BY <1>0, <1>2, <2>1, <2>2, ChainCloses, CardHas, DirTreeAssumption
    <3> QED BY <2>1, <2>2, <3>1, CardHas DEF Threaded, ListOK
  <2> QED BY <2>2, <2>3
<1>3. Chain(d, h) \subseteq S
  <2>1. \A r \in S \cap Chain(d, h) : d[r].split => d[r].tail \in S
    BY <1>2
  <2> HIDE DEF S
  <2> QED BY <1>0, <1>1, <2>1, ChainIsLeast
<1> QED BY <1>3

(* Every pair of the list belongs to a directory.                          *)
LEMMA ListedIsInChain ==
  ASSUME NEW d, Card(d), NEW p \in Listed(d)
  PROVE  \E h \in Heads(d) : p \in Chain(d, h)
<1> DEFINE S == {r \in Listed(d) : \E h \in Heads(d) : r \in Chain(d, h)}
<1>1. Root \in S
  BY CardHas, ChainCloses
<1>2. ASSUME NEW r \in S, d[r].tail # NoPair PROVE d[r].tail \in S
  <2>1. d[r].tail \in Listed(d)
    BY <1>2, CardHas, ListCloses
  <2>2. CASE d[r].split
    BY <1>2, <2>1, <2>2, CardHas, ChainCloses
  <2>3. CASE ~d[r].split
    <3>1. d[r].tail \in Heads(d)
      BY <1>2, <2>3 DEF Heads
    <3> QED BY <2>1, <3>1, ChainCloses
  <2> QED BY <2>2, <2>3
<1>3. Listed(d) \subseteq S
  <2>1. \A r \in S \cap Listed(d) : d[r].tail # NoPair => d[r].tail \in S
    BY <1>2
  <2> HIDE DEF S
  <2> QED BY <1>1, <2>1, CardHas, ListIsLeast
<1> QED BY <1>3

------------------------------------------------------------------------------
(* The names of a directory, in order.                                     *)
Before(d, p, i, q, j) == (p = q /\ i < j) \/ (p # q /\ q \in Chain(d, p))
OrderOK(d) ==
  \A p, q \in Listed(d) : \A i \in 1 .. Len(d[p].ents), j \in 1 .. Len(d[q].ents) :
    Before(d, p, i, q, j) => d[p].ents[i].name < d[q].ents[j].name

(* Entry i of p is one of the directory at h.                              *)
Has(d, h, p, i) == h \in Heads(d) /\ p \in Chain(d, h) /\ i \in 1 .. Len(d[p].ents)
Triple(d, h, p, i) == <<h, d[p].ents[i].name, d[p].ents[i].node>>
All(d) == Tree(d, {})
Shows(d, g, x) == \E h, p, i : Has(d, h, p, i) /\ <<p, i>> \notin g /\ x = Triple(d, h, p, i)
Lists(d, x) == \E h, p, i : Has(d, h, p, i) /\ x = Triple(d, h, p, i)
Sorted(d) == Card(d) /\ OrderOK(d)

(* Where an entry of name n goes in the directory at h.                    *)
Place(d, h, p, i, n) ==
  /\ h \in Heads(d) /\ p \in Chain(d, h) /\ i \in 1 .. (Len(d[p].ents) + 1)
  /\ \A r \in Listed(d) : \A j \in 1 .. Len(d[r].ents) :
       /\ (r = p /\ j < i) \/ (r # p /\ p \in Chain(d, r)) => d[r].ents[j].name < n
       /\ (r = p /\ j >= i) \/ (r # p /\ r \in Chain(d, p)) => n < d[r].ents[j].name

(* The parts of an entry's place, and their types.                         *)
LEMMA HasIs ==
  ASSUME NEW d, Card(d), NEW h, NEW p, NEW i, Has(d, h, p, i)
  PROVE  /\ h \in Heads(d) /\ h \in Listed(d) /\ p \in Chain(d, h) /\ p \in Listed(d)
         /\ i \in 1 .. Len(d[p].ents) /\ d[p].ents[i] \in Entry
         /\ d[p].ents[i].name \in Nat /\ d[p].ents[i].name \in Name
         /\ h \in Pair /\ p \in Pair /\ d[p].ents[i].node \in Pair \cup File
<1>1. h \in Heads(d) /\ h \in Listed(d) /\ p \in Chain(d, h) /\ p \in Listed(d)
  BY CardHas, ChainCloses DEF Has
<1>2. i \in 1 .. Len(d[p].ents) /\ d[p].ents \in Seq(Entry)
  BY <1>1, CardHas DEF Has
<1>3. d[p].ents[i] \in Entry
  BY <1>2
<1>4. h \in Pair /\ p \in Pair
  BY <1>1, CardHas
<1> QED BY <1>1, <1>2, <1>3, <1>4, DirTreeAssumption DEF Entry

(* The names there are.                                                    *)
LEMMA TreeIs ==
  ASSUME NEW d, Card(d), NEW g, NEW x
  PROVE  x \in Tree(d, g) <=> Shows(d, g, x)
<1>0. \A h \in Heads(d) : \A p \in Chain(d, h) :
        p \in Listed(d) /\ DOMAIN d[p].ents = 1 .. Len(d[p].ents)
  BY CardHas, ChainCloses
<1>1. ASSUME x \in Tree(d, g)
      PROVE  Shows(d, g, x)
  <2>1. PICK h \in Heads(d) : x \in {<<h, e.name, e.node>> : e \in Inside(d, g, h)}
    BY <1>1 DEF Tree
  <2>2. PICK e \in Inside(d, g, h) : x = <<h, e.name, e.node>>
    BY <2>1
  <2>3. PICK p \in Chain(d, h) : e \in Shown(d, g, p)
    BY <2>2 DEF Inside
  <2>4. PICK i \in Visible(d, g, p) : e = d[p].ents[i]
    BY <2>3 DEF Shown
  <2>5. i \in DOMAIN d[p].ents /\ <<p, i>> \notin g
    BY <2>4 DEF Visible
  <2>6. Has(d, h, p, i)
    BY <1>0, <2>3, <2>5 DEF Has
  <2>7. x = Triple(d, h, p, i)
    BY <2>2, <2>4 DEF Triple
  <2> QED BY <2>5, <2>6, <2>7 DEF Shows
<1>2. ASSUME NEW h, NEW p, NEW i, Has(d, h, p, i), <<p, i>> \notin g, x = Triple(d, h, p, i)
      PROVE  x \in Tree(d, g)
  <2>1. h \in Heads(d) /\ p \in Chain(d, h) /\ i \in DOMAIN d[p].ents
    BY <1>0, <1>2 DEF Has
  <2>2. i \in Visible(d, g, p)
    BY <1>2, <2>1 DEF Visible
  <2>3. d[p].ents[i] \in Shown(d, g, p)
    BY <2>2 DEF Shown
  <2>4. d[p].ents[i] \in Inside(d, g, h)
    BY <2>1, <2>3 DEF Inside
  <2>5. x \in {<<h, e.name, e.node>> : e \in Inside(d, g, h)}
    BY <1>2, <2>4 DEF Triple
  <2> QED BY <2>1, <2>5 DEF Tree
<1> QED BY <1>1, <1>2 DEF Shows

(* The entries of a card are those of its places.                          *)
LEMMA AllIs ==
  ASSUME NEW d, Card(d), NEW x
  PROVE  x \in All(d) <=> Lists(d, x)
<1>1. x \in All(d) <=> Shows(d, {}, x)
  BY TreeIs DEF All
<1> QED BY <1>1 DEF Shows, Lists

(* The type of an entry of the tree.                                       *)
LEMMA AllType ==
  ASSUME NEW d, Card(d)
  PROVE  All(d) \in SUBSET (Pair \X Name \X (Pair \cup File))
<1>1. ASSUME NEW x \in All(d) PROVE x \in Pair \X Name \X (Pair \cup File)
  <2>1. PICK h, p, i : Has(d, h, p, i) /\ x = Triple(d, h, p, i)
    BY AllIs DEF Lists
  <2> QED BY <2>1, HasIs DEF Triple
<1> QED BY <1>1

(* In a sorted directory a name has one entry.                             *)
LEMMA OneEntry ==
  ASSUME NEW d, Sorted(d), NEW h, NEW p, NEW i, NEW k, NEW q, NEW j,
         Has(d, h, p, i), Has(d, k, q, j), h = k, d[p].ents[i].name = d[q].ents[j].name
  PROVE  p = q /\ i = j
<1>1. Card(d) /\ OrderOK(d)
  BY DEF Sorted
<1>2. /\ p \in Listed(d) /\ q \in Listed(d) /\ i \in 1 .. Len(d[p].ents) /\ j \in 1 .. Len(d[q].ents)
      /\ d[p].ents[i].name \in Nat /\ p \in Chain(d, h) /\ q \in Chain(d, h) /\ h \in Listed(d)
  BY <1>1, HasIs
<1>3. ~Before(d, p, i, q, j) /\ ~Before(d, q, j, p, i)
  BY <1>1, <1>2 DEF OrderOK
<1>4. q \in Chain(d, p) \/ p \in Chain(d, q)
  BY <1>1, <1>2, ChainTotal
<1>5. p = q
  BY <1>3, <1>4 DEF Before
<1> QED BY <1>2, <1>3, <1>5 DEF Before

(* An entry has one triple, and no other entry has it.                     *)
LEMMA OneTriple ==
  ASSUME NEW d, Sorted(d), NEW h, NEW p, NEW i, NEW k, NEW q, NEW j,
         Has(d, h, p, i), Has(d, k, q, j)
  PROVE  Triple(d, h, p, i) = Triple(d, k, q, j) <=> p = q /\ i = j
<1>1. Card(d)
  BY DEF Sorted
<1>2. ASSUME Triple(d, h, p, i) = Triple(d, k, q, j) PROVE p = q /\ i = j
  <2>1. h = k /\ d[p].ents[i].name = d[q].ents[j].name
    BY <1>2 DEF Triple
  <2> QED BY <2>1, OneEntry
<1>3. ASSUME p = q, i = j PROVE Triple(d, h, p, i) = Triple(d, k, q, j)
  <2>1. h = k
    BY <1>1, <1>3, HasIs, ChainsApart
  <2> QED BY <1>3, <2>1
<1> QED BY <1>2, <1>3

(* Where names are in order a directory has no name twice.                 *)
LEMMA OneName ==
  ASSUME NEW d, Sorted(d), NEW x \in All(d), NEW y \in All(d), x[1] = y[1], x[2] = y[2]
  PROVE  x = y
<1>1. Card(d)
  BY DEF Sorted
<1>2. PICK h, p, i : Has(d, h, p, i) /\ x = Triple(d, h, p, i)
  BY <1>1, AllIs DEF Lists
<1>3. PICK k, q, j : Has(d, k, q, j) /\ y = Triple(d, k, q, j)
  BY <1>1, AllIs DEF Lists
<1>4. h = k /\ d[p].ents[i].name = d[q].ents[j].name
  BY <1>2, <1>3 DEF Triple
<1>5. p = q /\ i = j
  BY <1>2, <1>3, <1>4, OneEntry
<1> QED BY <1>2, <1>3, <1>4, <1>5

(* What is hidden.                                                         *)
LEMMA NothingHidden ==
  ASSUME NEW d, Card(d), NEW g, Moves(g) = {}
  PROVE  Tree(d, g) = All(d)
<1>1. ASSUME NEW p, NEW i, NEW h, Has(d, h, p, i) PROVE <<p, i>> \notin g
  <2>1. <<p, i>> # Orphans
    BY <1>1, HasIs, DirTreeAssumption DEF Orphans
  <2> QED BY <2>1 DEF Moves
<1>2. ASSUME NEW x PROVE x \in Tree(d, g) <=> x \in All(d)
  <2>1. Shows(d, g, x) <=> Lists(d, x)
    BY <1>1 DEF Shows, Lists
  <2> QED BY <2>1, TreeIs, AllIs
<1> QED BY <1>2

(* A pending move hides one entry of the tree, the one it names            *)
(* (lfs.cpp:598-603).                                                      *)
LEMMA OneHidden ==
  ASSUME NEW d, Sorted(d), NEW g, NEW q, NEW j, Moves(g) = {<<q, j>>}, NEW k, Has(d, k, q, j)
  PROVE  Tree(d, g) = All(d) \ {Triple(d, k, q, j)}
<1>0. Card(d)
  BY DEF Sorted
<1>1. ASSUME NEW h, NEW p, NEW i, Has(d, h, p, i)
      PROVE  <<p, i>> \notin g <=> Triple(d, h, p, i) # Triple(d, k, q, j)
  <2>1. <<p, i>> # Orphans
    BY <1>0, <1>1, HasIs, DirTreeAssumption DEF Orphans
  <2>2. <<p, i>> \notin g <=> ~(p = q /\ i = j)
    BY <2>1 DEF Moves
  <2>3. Triple(d, h, p, i) = Triple(d, k, q, j) <=> p = q /\ i = j
    BY <1>1, OneTriple
  <2> QED BY <2>2, <2>3
<1>2. ASSUME NEW x PROVE x \in Tree(d, g) <=> x \in All(d) /\ x # Triple(d, k, q, j)
  <2>1. Shows(d, g, x) => Lists(d, x) /\ x # Triple(d, k, q, j)
    BY <1>1 DEF Shows, Lists
  <2>2. Lists(d, x) /\ x # Triple(d, k, q, j) => Shows(d, g, x)
    BY <1>1 DEF Shows, Lists
  <2> QED BY <1>0, <2>1, <2>2, TreeIs, AllIs
<1> QED BY <1>2

------------------------------------------------------------------------------
(* What changes of the card do to the names.                               *)

(* The same entries, in the same order.                                    *)
SameSlots(d, e) ==
  /\ Card(e)
  /\ \A p \in Listed(d) : p \in Listed(e) \/ d[p].ents = <<>>
  /\ \A p \in Listed(e) : p \in Listed(d) \/ e[p].ents = <<>>
  /\ \A p \in Listed(d) \cap Listed(e) : e[p].ents = d[p].ents
  /\ \A p, q \in Listed(d) \cap Listed(e) : q \in Chain(e, p) <=> q \in Chain(d, p)
  /\ \A h \in Heads(d) : h \in Heads(e) \/ \A p \in Chain(d, h) : d[p].ents = <<>>
  /\ \A h \in Heads(e) : h \in Heads(d) \/ \A p \in Chain(e, h) : e[p].ents = <<>>

(* Two cards with the same places have the same entries in the same order. *)
LEMMA SlotsKept ==
  ASSUME NEW d, Card(d), NEW e, SameSlots(d, e)
  PROVE  /\ \A h, p, i : Has(d, h, p, i) <=> Has(e, h, p, i)
         /\ \A h, p, i : Has(d, h, p, i) => Triple(e, h, p, i) = Triple(d, h, p, i)
         /\ All(e) = All(d)
         /\ OrderOK(d) => Sorted(e)
         /\ \A h \in Heads(e), p \in Listed(e) : \A i, n : Place(d, h, p, i, n) => Place(e, h, p, i, n)
<1>0. Card(e)
  BY DEF SameSlots
<1>1. ASSUME NEW h, NEW p, NEW i, Has(d, h, p, i) PROVE Has(e, h, p, i) /\ e[p].ents = d[p].ents
  <2>1. h \in Heads(d) /\ h \in Listed(d) /\ p \in Chain(d, h) /\ p \in Listed(d) /\ i \in 1 .. Len(d[p].ents)
    BY <1>1, HasIs
  <2>2. d[p].ents # <<>>
    BY <2>1
  <2>3. h \in Heads(e) /\ p \in Listed(e)
    BY <2>1, <2>2 DEF SameSlots
  <2>4. h \in Listed(e)
    BY <1>0, <2>3, CardHas
  <2> QED BY <2>1, <2>3, <2>4 DEF SameSlots, Has
<1>2. ASSUME NEW h, NEW p, NEW i, Has(e, h, p, i) PROVE Has(d, h, p, i) /\ e[p].ents = d[p].ents
  <2>1. h \in Heads(e) /\ h \in Listed(e) /\ p \in Chain(e, h) /\ p \in Listed(e) /\ i \in 1 .. Len(e[p].ents)
    BY <1>0, <1>2, HasIs
  <2>2. e[p].ents # <<>>
    BY <2>1
  <2>3. h \in Heads(d) /\ p \in Listed(d)
    BY <2>1, <2>2 DEF SameSlots
  <2>4. h \in Listed(d)
    BY <2>3, CardHas
  <2> QED BY <2>1, <2>3, <2>4 DEF SameSlots, Has
<1>3. \A h, p, i : Has(d, h, p, i) => Triple(e, h, p, i) = Triple(d, h, p, i)
  BY <1>1 DEF Triple
<1>4. \A x : x \in All(e) <=> x \in All(d)
  <2>1. \A x : Lists(e, x) <=> Lists(d, x)
    BY <1>1, <1>2, <1>3 DEF Lists
  <2> QED BY <1>0, <2>1, AllIs
<1>5. ASSUME OrderOK(d) PROVE OrderOK(e)
  <2> SUFFICES ASSUME NEW p \in Listed(e), NEW q \in Listed(e), NEW i \in 1 .. Len(e[p].ents),
                      NEW j \in 1 .. Len(e[q].ents), Before(e, p, i, q, j)
               PROVE  e[p].ents[i].name < e[q].ents[j].name
    BY DEF OrderOK
  <2>1. e[p].ents # <<>> /\ e[q].ents # <<>>
    OBVIOUS
  <2>2. p \in Listed(d) /\ q \in Listed(d)
    BY <2>1 DEF SameSlots
  <2>3. e[p].ents = d[p].ents /\ e[q].ents = d[q].ents /\ (q \in Chain(e, p) => q \in Chain(d, p))
    BY <2>2 DEF SameSlots
  <2>4. Before(d, p, i, q, j)
    BY <2>3 DEF Before
  <2> QED BY <1>5, <2>2, <2>3, <2>4 DEF OrderOK
<1>6. ASSUME NEW h \in Heads(e), NEW p \in Listed(e), NEW i, NEW n, Place(d, h, p, i, n)
      PROVE  Place(e, h, p, i, n)
  <2>1. h \in Heads(d) /\ h \in Listed(d) /\ h \in Listed(e) /\ p \in Chain(d, h) /\ p \in Listed(d)
    BY <1>0, <1>6, CardHas, ChainCloses DEF Place
  <2>2. p \in Chain(e, h) /\ e[p].ents = d[p].ents
    BY <2>1 DEF SameSlots
  <2>3. ASSUME NEW r \in Listed(e), NEW j \in 1 .. Len(e[r].ents)
        PROVE  /\ (r = p /\ j < i) \/ (r # p /\ p \in Chain(e, r)) => e[r].ents[j].name < n
               /\ (r = p /\ j >= i) \/ (r # p /\ r \in Chain(e, p)) => n < e[r].ents[j].name
    <3>1. e[r].ents # <<>>
      BY <2>3
    <3>2. r \in Listed(d)
      BY <3>1 DEF SameSlots
    <3>3. /\ e[r].ents = d[r].ents /\ (p \in Chain(e, r) => p \in Chain(d, r))
          /\ (r \in Chain(e, p) => r \in Chain(d, p))
      BY <2>1, <3>2 DEF SameSlots
    <3>4. j \in 1 .. Len(d[r].ents)
      BY <3>3
    <3> QED BY <1>6, <3>2, <3>3, <3>4 DEF Place
  <2> QED BY <1>6, <2>1, <2>2, <2>3 DEF Place
<1> QED BY <1>0, <1>1, <1>2, <1>3, <1>4, <1>5, <1>6 DEF Sorted

(* e threads the pairs of d as d does.                                     *)
LEMMA SameChains ==
  ASSUME NEW d, Card(d), NEW e, Card(e), Listed(e) = Listed(d),
         \A r \in Listed(d) : e[r].split = d[r].split /\ (d[r].split => e[r].tail = d[r].tail),
         NEW p \in Listed(d)
  PROVE  Chain(e, p) = Chain(d, p)
<1>1. Chain(e, p) \subseteq Chain(d, p)
  <2>1. p \in Chain(d, p) /\ \A r \in Chain(d, p) \cap Chain(e, p) : e[r].split => e[r].tail \in Chain(d, p)
    BY ChainCloses
  <2> QED BY <2>1, ChainIsLeast
<1>2. Chain(d, p) \subseteq Chain(e, p)
  <2>1. p \in Chain(e, p) /\ \A r \in Chain(e, p) \cap Chain(d, p) : d[r].split => d[r].tail \in Chain(e, p)
    BY ChainCloses
  <2> QED BY <2>1, ChainIsLeast
<1> QED BY <1>1, <1>2

(* q comes into a directory behind p.                                      *)
Extended(d, e, p, q) ==
  /\ Card(d) /\ Card(e) /\ p \in Listed(d) /\ q \in Pair \ Listed(d)
  /\ Listed(e) = Listed(d) \cup {q} /\ e[p].split /\ e[p].tail = q
  /\ e[q].split = d[p].split /\ e[q].tail = d[p].tail
  /\ \A r \in Listed(d) \ {p} : e[r].split = d[r].split /\ e[r].tail = d[r].tail

(* Splitting p puts q into the one directory that p is of.                 *)
LEMMA ExtendedChains ==
  ASSUME NEW d, NEW e, NEW p, NEW q, Extended(d, e, p, q)
  PROVE  /\ \A r \in Listed(d) : Chain(e, r) = Chain(d, r) \cup (IF p \in Chain(d, r) THEN {q} ELSE {})
         /\ Chain(e, q) = {q} \cup (Chain(d, p) \ {p})
<1>0. /\ Card(d) /\ Card(e) /\ p \in Listed(d) /\ p \in Listed(e) /\ q \in Listed(e)
      /\ q \notin Listed(d) /\ p # q
  BY DEF Extended
<1>1. ASSUME NEW r \in Listed(d)
      PROVE  Chain(e, r) = Chain(d, r) \cup (IF p \in Chain(d, r) THEN {q} ELSE {})
  <2> DEFINE S == Chain(d, r) \cup (IF p \in Chain(d, r) THEN {q} ELSE {})
  <2>0. r \in Listed(e) /\ Chain(d, r) \subseteq Listed(d) /\ r \in Chain(d, r)
    BY <1>0, ChainCloses DEF Extended
  <2>1. \A x \in Chain(d, r) : d[x].split => d[x].tail \in Chain(d, r)
    BY <1>0, ChainCloses
  <2>2. ASSUME NEW x \in S, e[x].split PROVE e[x].tail \in S
    <3>1. CASE x = p
      BY <1>0, <2>0, <2>2, <3>1 DEF Extended
    <3>2. CASE x = q
      BY <1>0, <2>0, <2>1, <2>2, <3>2 DEF Extended
    <3>3. CASE x # p /\ x # q
      BY <2>0, <2>1, <2>2, <3>3 DEF Extended
    <3> QED BY <3>1, <3>2, <3>3
  <2>3. Chain(e, r) \subseteq S
    <3>1. r \in S /\ \A x \in S \cap Chain(e, r) : e[x].split => e[x].tail \in S
      BY <2>0, <2>2
    <3> HIDE DEF S
    <3> QED BY <1>0, <2>0, <3>1, ChainIsLeast
  <2>4. ASSUME NEW x \in Chain(d, r), x \in Chain(e, r), d[x].split PROVE d[x].tail \in Chain(e, r)
    <3>1. \A y \in Chain(e, r) : e[y].split => e[y].tail \in Chain(e, r)
      BY <1>0, <2>0, ChainCloses
    <3>2. CASE x = p
      <4>1. q \in Chain(e, r)
        BY <2>4, <3>1, <3>2 DEF Extended
      <4> QED BY <2>4, <3>1, <3>2, <4>1 DEF Extended
    <3>3. CASE x # p
      BY <2>0, <2>4, <3>1, <3>3 DEF Extended
    <3> QED BY <3>2, <3>3
  <2>5. Chain(d, r) \subseteq Chain(e, r)
    <3>1. r \in Chain(e, r)
      BY <1>0, <2>0, ChainCloses
    <3> QED BY <1>0, <2>4, <3>1, ChainIsLeast
  <2>6. p \in Chain(d, r) => q \in Chain(e, r)
    <3>1. \A y \in Chain(e, r) : e[y].split => e[y].tail \in Chain(e, r)
      BY <1>0, <2>0, ChainCloses
    <3> QED BY <2>5, <3>1 DEF Extended
  <2> QED BY <2>3, <2>5, <2>6
<1>2. Chain(e, p) = {p} \cup Chain(e, q)
  BY <1>0, ChainFrom DEF Extended
<1>3. p \notin Chain(e, q)
  BY <1>0, ChainEndsOnce DEF Extended
<1>4. Chain(e, p) = Chain(d, p) \cup {q} /\ p \in Chain(d, p)
  BY <1>0, <1>1, ChainCloses
<1> QED BY <1>0, <1>1, <1>2, <1>3, <1>4

(* The pair that comes in, or goes, has no entries.                        *)
LEMMA ExtendedSlots ==
  ASSUME NEW d, NEW e, NEW p, NEW q, Extended(d, e, p, q), Heads(e) = Heads(d), e[q].ents = <<>>,
         \A r \in Listed(d) : e[r].ents = d[r].ents
  PROVE  SameSlots(d, e) /\ SameSlots(e, d)
<1>0. Card(d) /\ Card(e) /\ q \notin Listed(d) /\ Listed(e) = Listed(d) \cup {q}
  BY DEF Extended
<1>1. \A a, b \in Listed(d) : b \in Chain(e, a) <=> b \in Chain(d, a)
  BY <1>0, ExtendedChains
<1> QED BY <1>0, <1>1 DEF SameSlots

(* q, with no entries, comes in as a directory of its own.                 *)
Appended(d, e, p, q) ==
  /\ Card(d) /\ Card(e) /\ p \in Listed(d) /\ q \in Pair \ Listed(d)
  /\ Listed(e) = Listed(d) \cup {q} /\ Heads(e) = Heads(d) \cup {q}
  /\ ~e[p].split /\ ~d[p].split /\ ~e[q].split /\ e[q].ents = <<>>
  /\ \A r \in Listed(d) \ {p} : e[r].split = d[r].split /\ e[r].tail = d[r].tail
  /\ \A r \in Listed(d) : e[r].ents = d[r].ents

(* An empty directory put onto the list brings no entry.                   *)
LEMMA AppendedSlots ==
  ASSUME NEW d, NEW e, NEW p, NEW q, Appended(d, e, p, q)
  PROVE  /\ \A r \in Listed(d) : Chain(e, r) = Chain(d, r)
         /\ SameSlots(d, e) /\ SameSlots(e, d)
<1>0. /\ Card(d) /\ Card(e) /\ q \notin Listed(d) /\ Listed(e) = Listed(d) \cup {q}
      /\ Listed(d) \subseteq Listed(e) /\ q \in Listed(e) /\ e[q].ents = <<>>
  BY DEF Appended
<1>1. ASSUME NEW r \in Listed(d) PROVE Chain(e, r) = Chain(d, r)
  <2>0. r \in Chain(d, r) /\ r \in Chain(e, r) /\ Chain(d, r) \subseteq Listed(d)
    BY <1>0, ChainCloses
  <2>1. \A x \in Chain(d, r) \cap Chain(e, r) : e[x].split => e[x].tail \in Chain(d, r)
    BY <1>0, <2>0, ChainCloses DEF Appended
  <2>2. \A x \in Chain(e, r) \cap Chain(d, r) : d[x].split => d[x].tail \in Chain(e, r)
    <3>1. \A x \in Chain(e, r) : e[x].split => e[x].tail \in Chain(e, r)
      BY <1>0, ChainCloses
    <3> QED BY <2>0, <3>1 DEF Appended
  <2>3. Chain(e, r) \subseteq Chain(d, r)
    BY <1>0, <2>0, <2>1, ChainIsLeast
  <2>4. Chain(d, r) \subseteq Chain(e, r)
    BY <1>0, <2>0, <2>2, ChainIsLeast
  <2> QED BY <2>3, <2>4
<1>2. Chain(e, q) = {q}
  BY <1>0, ChainFrom DEF Appended
<1>3. /\ \A h \in Heads(d) : h \in Heads(e)
      /\ \A h \in Heads(e) : h \in Heads(d) \/ \A x \in Chain(e, h) : e[x].ents = <<>>
  BY <1>0, <1>2 DEF Appended
<1> QED BY <1>0, <1>1, <1>3 DEF SameSlots, Appended

(* A pair is split: its upper half goes on in q.                           *)
LEMMA SplitSlots ==
  ASSUME NEW d, NEW e, NEW p, NEW q, Extended(d, e, p, q), Heads(e) = Heads(d),
         NEW l \in 0 .. Len(d[p].ents), Halved(e[p].ents, e[q].ents, d[p].ents, l),
         \A r \in Listed(d) \ {p} : e[r].ents = d[r].ents
  PROVE  /\ All(e) = All(d)
         /\ OrderOK(d) => Sorted(e)
         /\ \A h, r, i, n : r # p /\ Place(d, h, r, i, n) => Place(e, h, r, i, n)
         /\ \A h, r, i : r # p /\ Has(d, h, r, i) => Has(e, h, r, i) /\ Triple(e, h, r, i) = Triple(d, h, r, i)
<1> DEFINE pair(x, i) == IF x = q THEN p ELSE x
           id(x, i)   == IF x = q THEN i + l ELSE i
<1>0. /\ Card(d) /\ Card(e) /\ q \notin Listed(d) /\ Listed(e) = Listed(d) \cup {q}
      /\ Listed(d) \subseteq Listed(e) /\ q \in Listed(e) /\ p \in Listed(d) /\ p # q
      /\ Len(d[p].ents) \in Nat /\ l \in Nat
  BY CardHas DEF Extended
<1>1. /\ \A r \in Listed(d) : Chain(e, r) = Chain(d, r) \cup (IF p \in Chain(d, r) THEN {q} ELSE {})
      /\ Chain(e, q) = {q} \cup (Chain(d, p) \ {p})
      /\ \A r \in Listed(d) : q \notin Chain(d, r) /\ Chain(d, r) \subseteq Listed(d) /\ r \in Chain(d, r)
  BY <1>0, ExtendedChains, ChainCloses
<1>2. /\ Len(e[p].ents) = l /\ Len(e[q].ents) = Len(d[p].ents) - l
      /\ \A j \in 1 .. l : e[p].ents[j] = d[p].ents[j]
      /\ \A j \in 1 .. (Len(d[p].ents) - l) : e[q].ents[j] = d[p].ents[j + l]
  <2>1. \A j \in 1 .. (Len(d[p].ents) - l) : j + l = l + j
    BY <1>0
  <2> QED BY <2>1 DEF Halved
<1>3. ASSUME NEW x \in Listed(e), NEW i \in 1 .. Len(e[x].ents)
      PROVE  /\ pair(x, i) \in Listed(d) /\ id(x, i) \in 1 .. Len(d[pair(x, i)].ents)
             /\ d[pair(x, i)].ents[id(x, i)] = e[x].ents[i]
             /\ x = p => i <= l
             /\ \A h \in Heads(e) : x \in Chain(e, h) <=> pair(x, i) \in Chain(d, h)
  <2>1. \A h \in Heads(e) : h \in Listed(d)
    BY <1>0, CardHas
  <2>2. CASE x = q
    BY <1>0, <1>1, <1>2, <1>3, <2>1, <2>2, SMTT(30)
  <2>3. CASE x = p
    BY <1>0, <1>1, <1>2, <1>3, <2>1, <2>3
  <2>4. CASE x # p /\ x # q
    BY <1>0, <1>1, <1>3, <2>1, <2>4
  <2> QED BY <2>2, <2>3, <2>4
<1>4. ASSUME NEW x \in Listed(d), NEW i \in 1 .. Len(d[x].ents)
      PROVE  \E y \in Listed(e) : \E j \in 1 .. Len(e[y].ents) : pair(y, j) = x /\ id(y, j) = i
  <2>1. CASE x = p /\ i > l
    <3>1. i - l \in 1 .. Len(e[q].ents) /\ (i - l) + l = i
      BY <1>0, <1>2, <1>4, <2>1
    <3>2. pair(q, i - l) = x /\ id(q, i - l) = i
      BY <2>1, <3>1
    <3> QED BY <1>0, <3>1, <3>2
  <2>2. CASE x = p /\ ~(i > l)
    <3>1. i \in 1 .. Len(e[p].ents)
      BY <1>0, <1>2, <1>4, <2>2
    <3>2. pair(p, i) = x /\ id(p, i) = i
      BY <1>0, <2>2
    <3> QED BY <1>0, <3>1, <3>2
  <2>3. CASE x # p
    <3>1. x \in Listed(e) /\ i \in 1 .. Len(e[x].ents) /\ x # q
      BY <1>0, <1>4, <2>3
    <3>2. pair(x, i) = x /\ id(x, i) = i
      BY <3>1
    <3> QED BY <3>1, <3>2
  <2> QED BY <2>1, <2>2, <2>3
<1>5. ASSUME NEW x \in Listed(e), NEW y \in Listed(e), NEW i \in 1 .. Len(e[x].ents),
             NEW j \in 1 .. Len(e[y].ents), Before(e, x, i, y, j)
      PROVE  Before(d, pair(x, i), id(x, i), pair(y, j), id(y, j))
  <2>0. i \in Nat /\ j \in Nat /\ i >= 1 /\ j >= 1 /\ (x = p => i <= l) /\ (y = p => j <= l)
    <3>1. Len(e[x].ents) \in Nat /\ Len(e[y].ents) \in Nat
      BY <1>0, CardHas
    <3> QED BY <1>3, <3>1
  <2>1. CASE x = y
    BY <1>0, <1>5, <2>0, <2>1 DEF Before
  <2>2. CASE x # y /\ x = q
    BY <1>0, <1>1, <1>5, <2>0, <2>2 DEF Before
  <2>3. CASE x # y /\ y = q /\ x # p
    BY <1>0, <1>1, <1>5, <2>0, <2>3 DEF Before
  <2>4. CASE y = q /\ x = p
    BY <1>0, <1>1, <1>5, <2>0, <2>4 DEF Before
  <2>5. CASE x # y /\ x # q /\ y # q
    BY <1>0, <1>1, <1>5, <2>0, <2>5 DEF Before
  <2> QED BY <2>1, <2>2, <2>3, <2>4, <2>5
<1> HIDE DEF pair, id
<1>6. ASSUME NEW h, NEW x, NEW i, Has(e, h, x, i)
      PROVE  Has(d, h, pair(x, i), id(x, i)) /\ Triple(d, h, pair(x, i), id(x, i)) = Triple(e, h, x, i)
  <2>1. h \in Heads(e) /\ x \in Listed(e) /\ x \in Chain(e, h) /\ i \in 1 .. Len(e[x].ents)
    BY <1>0, <1>6, HasIs
  <2> QED BY <1>3, <2>1 DEF Has, Triple
<1>7. ASSUME NEW h, NEW x, NEW i, Has(d, h, x, i)
      PROVE  \E y, j : Has(e, h, y, j) /\ pair(y, j) = x /\ id(y, j) = i /\ Triple(e, h, y, j) = Triple(d, h, x, i)
  <2>1. h \in Heads(e) /\ x \in Listed(d) /\ x \in Chain(d, h) /\ i \in 1 .. Len(d[x].ents)
    BY <1>0, <1>7, HasIs
  <2>2. PICK y \in Listed(e) : \E j \in 1 .. Len(e[y].ents) : pair(y, j) = x /\ id(y, j) = i
    BY <1>4, <2>1
  <2>3. PICK j \in 1 .. Len(e[y].ents) : pair(y, j) = x /\ id(y, j) = i
    BY <2>2
  <2>4. Has(e, h, y, j) /\ Triple(e, h, y, j) = Triple(d, h, x, i)
    BY <1>3, <2>1, <2>3 DEF Has, Triple
  <2> QED BY <2>3, <2>4
<1>8. All(e) = All(d)
  <2>1. ASSUME NEW z \in All(e) PROVE z \in All(d)
    <3>1. PICK h, x, i : Has(e, h, x, i) /\ z = Triple(e, h, x, i)
      BY <1>0, AllIs DEF Lists
    <3>2. Lists(d, z)
      BY <1>6, <3>1 DEF Lists
    <3> QED BY <1>0, <3>2, AllIs
  <2>2. ASSUME NEW z \in All(d) PROVE z \in All(e)
    <3>1. PICK h, x, i : Has(d, h, x, i) /\ z = Triple(d, h, x, i)
      BY <1>0, AllIs DEF Lists
    <3>2. Lists(e, z)
      BY <1>7, <3>1 DEF Lists
    <3> QED BY <1>0, <3>2, AllIs
  <2> QED BY <2>1, <2>2
<1>9. ASSUME OrderOK(d) PROVE Sorted(e)
  <2> SUFFICES ASSUME NEW x \in Listed(e), NEW y \in Listed(e), NEW i \in 1 .. Len(e[x].ents),
                      NEW j \in 1 .. Len(e[y].ents), Before(e, x, i, y, j)
               PROVE  e[x].ents[i].name < e[y].ents[j].name
    BY <1>0 DEF Sorted, OrderOK
  <2>1. Before(d, pair(x, i), id(x, i), pair(y, j), id(y, j))
    BY <1>5
  <2>2. d[pair(x, i)].ents[id(x, i)].name < d[pair(y, j)].ents[id(y, j)].name
    BY <1>3, <1>9, <2>1 DEF OrderOK
  <2> QED BY <1>3, <2>2
<1>10. ASSUME NEW h, NEW r, NEW i, r # p, h \in Heads(d), r \in Chain(d, h)
       PROVE  r \in Listed(d) /\ r \in Chain(e, h) /\ e[r].ents = d[r].ents /\ r # q /\ h \in Heads(e)
  <2>1. h \in Listed(d)
    BY <1>0, <1>10, CardHas
  <2> QED BY <1>0, <1>1, <1>10, <2>1
<1>11. ASSUME NEW h, NEW r, NEW i, r # p, Has(d, h, r, i)
       PROVE  Has(e, h, r, i) /\ Triple(e, h, r, i) = Triple(d, h, r, i)
  BY <1>10, <1>11 DEF Has, Triple
<1>12. ASSUME NEW h, NEW r, NEW i, NEW n, r # p, Place(d, h, r, i, n) PROVE Place(e, h, r, i, n)
  <2>1. /\ h \in Heads(e) /\ r \in Chain(e, h) /\ e[r].ents = d[r].ents /\ r \in Listed(d) /\ r # q
        /\ i \in 1 .. (Len(e[r].ents) + 1)
    BY <1>10, <1>12 DEF Place
  <2>2. ASSUME NEW x \in Listed(e), NEW j \in 1 .. Len(e[x].ents)
        PROVE  /\ (x = r /\ j < i) \/ (x # r /\ r \in Chain(e, x)) => e[x].ents[j].name < n
               /\ (x = r /\ j >= i) \/ (x # r /\ x \in Chain(e, r)) => n < e[x].ents[j].name
    <3>1. /\ pair(x, j) \in Listed(d) /\ id(x, j) \in 1 .. Len(d[pair(x, j)].ents)
          /\ d[pair(x, j)].ents[id(x, j)] = e[x].ents[j]
      BY <1>3
    <3>2. x # r => pair(x, j) # r
      BY <1>12 DEF pair
    <3>3. x = r => pair(x, j) = r /\ id(x, j) = j
      BY <2>1 DEF pair, id
    <3>4. x # r /\ r \in Chain(e, x) => r \in Chain(d, pair(x, j))
      BY <1>0, <1>1, <2>1 DEF pair
    <3>5. x # r /\ x \in Chain(e, r) => pair(x, j) \in Chain(d, r)
      BY <1>0, <1>1, <2>1 DEF pair
    <3>6. /\ (pair(x, j) = r /\ id(x, j) < i) \/ (pair(x, j) # r /\ r \in Chain(d, pair(x, j)))
                => d[pair(x, j)].ents[id(x, j)].name < n
          /\ (pair(x, j) = r /\ id(x, j) >= i) \/ (pair(x, j) # r /\ pair(x, j) \in Chain(d, r))
                => n < d[pair(x, j)].ents[id(x, j)].name
      BY <1>12, <3>1 DEF Place
    <3> QED BY <3>1, <3>2, <3>3, <3>4, <3>5, <3>6
  <2> QED BY <2>1, <2>2 DEF Place
<1> QED BY <1>8, <1>9, <1>11, <1>12

(* Only the entries of p are others.                                       *)
Alters(d, e, p) ==
  /\ Card(d) /\ Card(e) /\ Listed(e) = Listed(d) /\ Heads(e) = Heads(d) /\ p \in Listed(d)
  /\ \A r \in Listed(d) : Chain(e, r) = Chain(d, r)
  /\ \A r \in Listed(d) \ {p} : e[r].ents = d[r].ents

(* Altering the entries of one pair leaves the directories and the other   *)
(* pairs.                                                                  *)
LEMMA AltersHas ==
  ASSUME NEW d, NEW e, NEW p, Alters(d, e, p)
  PROVE  /\ Card(d) /\ Card(e) /\ p \in Listed(d) /\ p \in Listed(e) /\ Listed(e) = Listed(d)
         /\ Heads(e) = Heads(d)
         /\ \A h, q : h \in Heads(e) /\ q \in Chain(e, h) <=> h \in Heads(d) /\ q \in Chain(d, h)
         /\ \A h \in Heads(d) : h \in Listed(d) /\ Chain(d, h) \subseteq Listed(d)
         /\ \A h, q, j : q # p => (Has(e, h, q, j) <=> Has(d, h, q, j))
         /\ \A h, q, j : q # p /\ Has(d, h, q, j) => Triple(e, h, q, j) = Triple(d, h, q, j)
<1>1. \A h \in Heads(d) : h \in Listed(d) /\ Chain(d, h) \subseteq Listed(d)
  BY CardHas, ChainCloses DEF Alters
<1>2. \A h, q : h \in Heads(e) /\ q \in Chain(e, h) <=> h \in Heads(d) /\ q \in Chain(d, h)
  BY <1>1 DEF Alters
<1>3. \A h, q : h \in Heads(d) /\ q \in Chain(d, h) /\ q # p => e[q].ents = d[q].ents
  BY <1>1 DEF Alters
<1>4. \A h, q, j : q # p => (Has(e, h, q, j) <=> Has(d, h, q, j))
  BY <1>2, <1>3 DEF Has
<1>5. \A h, q, j : q # p /\ Has(d, h, q, j) => Triple(e, h, q, j) = Triple(d, h, q, j)
  BY <1>3 DEF Has, Triple
<1> QED BY <1>1, <1>2, <1>4, <1>5 DEF Alters

(* An entry comes in where it belongs.                                     *)
LEMMA InsertSlots ==
  ASSUME NEW d, NEW e, NEW p, Alters(d, e, p), OrderOK(d), NEW i, NEW y \in Entry,
         HasMore(e[p].ents, d[p].ents, i, y), NEW h, Place(d, h, p, i, y.name)
  PROVE  /\ Sorted(e) /\ All(e) = All(d) \cup {<<h, y.name, y.node>>}
         /\ Has(e, h, p, i) /\ Triple(e, h, p, i) = <<h, y.name, y.node>>
<1> DEFINE n == Len(d[p].ents)
           from(x, j) == IF x = p /\ j > i THEN j - 1 ELSE j
           to(x, j)   == IF x = p /\ j >= i THEN j + 1 ELSE j
<1>0. /\ Card(d) /\ Card(e) /\ p \in Listed(d) /\ p \in Listed(e) /\ Listed(e) = Listed(d)
      /\ Heads(e) = Heads(d)
      /\ \A k, q : k \in Heads(e) /\ q \in Chain(e, k) <=> k \in Heads(d) /\ q \in Chain(d, k)
  BY AltersHas
<1>1. /\ h \in Heads(d) /\ p \in Chain(d, h) /\ i \in 1 .. (n + 1) /\ n \in Nat
      /\ Len(e[p].ents) = n + 1 /\ e[p].ents[i] = y
  BY <1>0, CardHas DEF Place, HasMore
<1>2. ASSUME NEW x \in Listed(e), NEW j \in 1 .. Len(e[x].ents), ~(x = p /\ j = i)
      PROVE  from(x, j) \in 1 .. Len(d[x].ents) /\ e[x].ents[j] = d[x].ents[from(x, j)]
  <2>1. CASE x = p
    <3>1. j \in 1 .. (n + 1) /\ from(x, j) \in 1 .. n
      BY <1>1, <1>2, <2>1
    <3>2. e[x].ents[j] = IF j < i THEN d[x].ents[j] ELSE IF j = i THEN y ELSE d[x].ents[j - 1]
      BY <1>1, <2>1, <3>1 DEF HasMore
    <3> QED BY <1>1, <1>2, <2>1, <3>1, <3>2
  <2>2. CASE x # p
    BY <1>0, <1>2, <2>2 DEF Alters
  <2> QED BY <2>1, <2>2
<1>3. ASSUME NEW x \in Listed(d), NEW j \in 1 .. Len(d[x].ents)
      PROVE  /\ to(x, j) \in 1 .. Len(e[x].ents) /\ e[x].ents[to(x, j)] = d[x].ents[j]
             /\ ~(x = p /\ to(x, j) = i)
  <2>1. CASE x = p
    <3>1. j \in 1 .. n /\ to(x, j) \in 1 .. (n + 1) /\ to(x, j) # i
      BY <1>1, <1>3, <2>1
    <3>2. e[x].ents[to(x, j)] =
            IF to(x, j) < i THEN d[x].ents[to(x, j)]
            ELSE IF to(x, j) = i THEN y ELSE d[x].ents[to(x, j) - 1]
      BY <1>1, <2>1, <3>1 DEF HasMore
    <3> QED BY <1>1, <1>3, <2>1, <3>1, <3>2
  <2>2. CASE x # p
    BY <1>0, <1>3, <2>2 DEF Alters
  <2> QED BY <2>1, <2>2
<1>4. Has(e, h, p, i)
  BY <1>0, <1>1 DEF Has
<1>5. \A k : Has(e, k, p, i) => k = h /\ Triple(e, k, p, i) = <<h, y.name, y.node>>
  <2>1. \A k : Has(e, k, p, i) => k = h
    BY <1>0, <1>4, ChainsApart DEF Has
  <2> QED BY <1>1, <2>1 DEF Triple
<1>6. All(e) = All(d) \cup {<<h, y.name, y.node>>}
  <2>1. ASSUME NEW z \in All(e) PROVE z \in All(d) \cup {<<h, y.name, y.node>>}
    <3>1. PICK k, x, j : Has(e, k, x, j) /\ z = Triple(e, k, x, j)
      BY <1>0, AllIs DEF Lists
    <3>2. CASE x = p /\ j = i
      BY <1>5, <3>1, <3>2
    <3>3. CASE ~(x = p /\ j = i)
      <4>1. /\ k \in Heads(d) /\ x \in Chain(d, k) /\ x \in Listed(e) /\ j \in 1 .. Len(e[x].ents)
        BY <1>0, <3>1, HasIs
      <4>2. Has(d, k, x, from(x, j)) /\ z = Triple(d, k, x, from(x, j))
        BY <1>2, <3>1, <3>3, <4>1 DEF Has, Triple
      <4> HIDE DEF from
      <4>3. Lists(d, z)
        BY <4>2 DEF Lists
      <4> QED BY <1>0, <4>3, AllIs
    <3> QED BY <3>2, <3>3
  <2>2. ASSUME NEW z \in All(d) PROVE z \in All(e)
    <3>1. PICK k, x, j : Has(d, k, x, j) /\ z = Triple(d, k, x, j)
      BY <1>0, AllIs DEF Lists
    <3>2. k \in Heads(d) /\ x \in Chain(d, k) /\ x \in Listed(d) /\ j \in 1 .. Len(d[x].ents)
      BY <1>0, <3>1, HasIs
    <3>3. Has(e, k, x, to(x, j)) /\ z = Triple(e, k, x, to(x, j))
      BY <1>0, <1>3, <3>1, <3>2 DEF Has, Triple
    <3> HIDE DEF to
    <3>4. Lists(e, z)
      BY <3>3 DEF Lists
    <3> QED BY <1>0, <3>4, AllIs
  <2>3. <<h, y.name, y.node>> \in All(e)
    <3>1. Lists(e, <<h, y.name, y.node>>)
      BY <1>4, <1>5 DEF Lists
    <3> QED BY <1>0, <3>1, AllIs
  <2> QED BY <2>1, <2>2, <2>3
<1>7. OrderOK(e)
  <2> SUFFICES ASSUME NEW a \in Listed(e), NEW b \in Listed(e), NEW j \in 1 .. Len(e[a].ents),
                      NEW k \in 1 .. Len(e[b].ents), Before(e, a, j, b, k)
               PROVE  e[a].ents[j].name < e[b].ents[k].name
    BY DEF OrderOK
  <2>0. /\ Chain(e, a) = Chain(d, a) /\ a \in Listed(d) /\ b \in Listed(d)
        /\ j \in Nat /\ k \in Nat
    <3>1. Len(e[a].ents) \in Nat /\ Len(e[b].ents) \in Nat
      BY <1>0, CardHas
    <3> QED BY <1>0, <3>1 DEF Alters
  <2>1. CASE ~(a = p /\ j = i) /\ ~(b = p /\ k = i)
    <3>1. Before(d, a, from(a, j), b, from(b, k))
      BY <1>1, <2>0, <2>1 DEF Before
    <3>2. /\ from(a, j) \in 1 .. Len(d[a].ents) /\ e[a].ents[j] = d[a].ents[from(a, j)]
          /\ from(b, k) \in 1 .. Len(d[b].ents) /\ e[b].ents[k] = d[b].ents[from(b, k)]
      BY <1>2, <2>1
    <3> HIDE DEF from
    <3>3. d[a].ents[from(a, j)].name < d[b].ents[from(b, k)].name
      BY <2>0, <3>1, <3>2 DEF OrderOK
    <3> QED BY <3>2, <3>3
  <2>2. CASE a = p /\ j = i
    <3>1. ~(b = p /\ k = i)
      BY <2>0, <2>2 DEF Before
    <3>2. (b = p /\ from(b, k) >= i) \/ (b # p /\ b \in Chain(d, p))
      BY <1>1, <2>0, <2>2, <3>1 DEF Before
    <3>3. from(b, k) \in 1 .. Len(d[b].ents) /\ e[b].ents[k] = d[b].ents[from(b, k)]
      BY <1>2, <3>1
    <3> HIDE DEF from
    <3>4. y.name < d[b].ents[from(b, k)].name
      BY <2>0, <3>2, <3>3 DEF Place
    <3> QED BY <1>1, <2>2, <3>3, <3>4
  <2>3. CASE b = p /\ k = i
    <3>1. ~(a = p /\ j = i)
      BY <2>0, <2>3 DEF Before
    <3>2. (a = p /\ from(a, j) < i) \/ (a # p /\ p \in Chain(d, a))
      BY <1>1, <2>0, <2>3, <3>1 DEF Before
    <3>3. from(a, j) \in 1 .. Len(d[a].ents) /\ e[a].ents[j] = d[a].ents[from(a, j)]
      BY <1>2, <3>1
    <3> HIDE DEF from
    <3>4. d[a].ents[from(a, j)].name < y.name
      BY <2>0, <3>2, <3>3 DEF Place
    <3> QED BY <1>1, <2>3, <3>3, <3>4
  <2> QED BY <2>1, <2>2, <2>3
<1> QED BY <1>0, <1>4, <1>5, <1>6, <1>7 DEF Sorted

(* An entry goes; one of its name may take its place.                      *)
LEMMA RemoveSlots ==
  ASSUME NEW d, NEW e, NEW p, Alters(d, e, p), OrderOK(d), NEW i, NEW h, Has(d, h, p, i),
         HasLess(e[p].ents, d[p].ents, i)
  PROVE  /\ Sorted(e) /\ All(e) = All(d) \ {Triple(d, h, p, i)}
         /\ Place(e, h, p, i, d[p].ents[i].name)
<1> DEFINE n == Len(d[p].ents)
           from(x, j) == IF x = p /\ j >= i THEN j + 1 ELSE j
           to(x, j)   == IF x = p /\ j > i THEN j - 1 ELSE j
<1>0. /\ Card(d) /\ Card(e) /\ p \in Listed(d) /\ p \in Listed(e) /\ Listed(e) = Listed(d)
      /\ Heads(e) = Heads(d) /\ Sorted(d)
      /\ \A k, q : k \in Heads(e) /\ q \in Chain(e, k) <=> k \in Heads(d) /\ q \in Chain(d, k)
  BY AltersHas DEF Sorted
<1>1. /\ h \in Heads(d) /\ p \in Chain(d, h) /\ i \in 1 .. n /\ n \in Nat
      /\ Len(e[p].ents) = n - 1
  BY <1>0, CardHas DEF Has, HasLess
<1>2. ASSUME NEW x \in Listed(e), NEW j \in 1 .. Len(e[x].ents)
      PROVE  /\ from(x, j) \in 1 .. Len(d[x].ents) /\ e[x].ents[j] = d[x].ents[from(x, j)]
             /\ ~(x = p /\ from(x, j) = i)
  <2>1. CASE x = p
    BY <1>1, <1>2, <2>1 DEF HasLess
  <2>2. CASE x # p
    BY <1>0, <1>2, <2>2 DEF Alters
  <2> QED BY <2>1, <2>2
<1>3. ASSUME NEW x \in Listed(d), NEW j \in 1 .. Len(d[x].ents), ~(x = p /\ j = i)
      PROVE  to(x, j) \in 1 .. Len(e[x].ents) /\ e[x].ents[to(x, j)] = d[x].ents[j]
  <2>1. CASE x = p
    <3>1. to(x, j) \in 1 .. (n - 1)
      BY <1>1, <1>3, <2>1
    <3>2. e[x].ents[to(x, j)] = IF to(x, j) < i THEN d[x].ents[to(x, j)] ELSE d[x].ents[to(x, j) + 1]
      BY <1>1, <2>1, <3>1 DEF HasLess
    <3> QED BY <1>1, <1>3, <2>1, <3>1, <3>2
  <2>2. CASE x # p
    BY <1>0, <1>3, <2>2 DEF Alters
  <2> QED BY <2>1, <2>2
<1>4. All(e) = All(d) \ {Triple(d, h, p, i)}
  <2>1. ASSUME NEW z \in All(e) PROVE z \in All(d) /\ z # Triple(d, h, p, i)
    <3>1. PICK k, x, j : Has(e, k, x, j) /\ z = Triple(e, k, x, j)
      BY <1>0, AllIs DEF Lists
    <3>2. k \in Heads(d) /\ x \in Chain(d, k) /\ x \in Listed(e) /\ j \in 1 .. Len(e[x].ents)
      BY <1>0, <3>1, HasIs
    <3>3. /\ Has(d, k, x, from(x, j)) /\ z = Triple(d, k, x, from(x, j))
          /\ ~(x = p /\ from(x, j) = i)
      BY <1>2, <3>1, <3>2 DEF Has, Triple
    <3> HIDE DEF from
    <3>4. z # Triple(d, h, p, i)
      BY <1>0, <3>3, OneTriple
    <3>5. Lists(d, z)
      BY <3>3 DEF Lists
    <3> QED BY <1>0, <3>4, <3>5, AllIs
  <2>2. ASSUME NEW z \in All(d), z # Triple(d, h, p, i) PROVE z \in All(e)
    <3>1. PICK k, x, j : Has(d, k, x, j) /\ z = Triple(d, k, x, j)
      BY <1>0, AllIs DEF Lists
    <3>2. k \in Heads(d) /\ x \in Chain(d, k) /\ x \in Listed(d) /\ j \in 1 .. Len(d[x].ents)
      BY <1>0, <3>1, HasIs
    <3>3. ~(x = p /\ j = i)
      BY <1>0, <2>2, <3>1, OneTriple
    <3>4. Has(e, k, x, to(x, j)) /\ z = Triple(e, k, x, to(x, j))
      BY <1>0, <1>3, <3>1, <3>2, <3>3 DEF Has, Triple
    <3> HIDE DEF to
    <3>5. Lists(e, z)
      BY <3>4 DEF Lists
    <3> QED BY <1>0, <3>5, AllIs
  <2> QED BY <2>1, <2>2
<1>5. ASSUME NEW x \in Listed(e), NEW j \in 1 .. Len(e[x].ents) PROVE j \in Nat
  <2>1. Len(e[x].ents) \in Nat
    BY <1>0, CardHas
  <2> QED BY <2>1
<1>6. OrderOK(e)
  <2> SUFFICES ASSUME NEW a \in Listed(e), NEW b \in Listed(e), NEW j \in 1 .. Len(e[a].ents),
                      NEW k \in 1 .. Len(e[b].ents), Before(e, a, j, b, k)
               PROVE  e[a].ents[j].name < e[b].ents[k].name
    BY DEF OrderOK
  <2>0. Chain(e, a) = Chain(d, a) /\ a \in Listed(d) /\ b \in Listed(d) /\ j \in Nat /\ k \in Nat
    BY <1>0, <1>5 DEF Alters
  <2>1. Before(d, a, from(a, j), b, from(b, k))
    BY <1>1, <2>0 DEF Before
  <2>2. /\ from(a, j) \in 1 .. Len(d[a].ents) /\ e[a].ents[j] = d[a].ents[from(a, j)]
        /\ from(b, k) \in 1 .. Len(d[b].ents) /\ e[b].ents[k] = d[b].ents[from(b, k)]
    BY <1>2
  <2> HIDE DEF from
  <2>3. d[a].ents[from(a, j)].name < d[b].ents[from(b, k)].name
    BY <2>0, <2>1, <2>2 DEF OrderOK
  <2> QED BY <2>2, <2>3
<1>7. Place(e, h, p, i, d[p].ents[i].name)
  <2>1. h \in Heads(e) /\ p \in Chain(e, h) /\ i \in 1 .. (Len(e[p].ents) + 1)
    BY <1>0, <1>1
  <2>2. ASSUME NEW r \in Listed(e), NEW j \in 1 .. Len(e[r].ents)
        PROVE  /\ (r = p /\ j < i) \/ (r # p /\ p \in Chain(e, r)) => e[r].ents[j].name < d[p].ents[i].name
               /\ (r = p /\ j >= i) \/ (r # p /\ r \in Chain(e, p)) => d[p].ents[i].name < e[r].ents[j].name
    <3>0. Chain(e, r) = Chain(d, r) /\ Chain(e, p) = Chain(d, p) /\ r \in Listed(d) /\ j \in Nat
      BY <1>0, <1>5 DEF Alters
    <3>1. from(r, j) \in 1 .. Len(d[r].ents) /\ e[r].ents[j] = d[r].ents[from(r, j)]
      BY <1>2
    <3>2. (r = p /\ j < i) \/ (r # p /\ p \in Chain(e, r)) => Before(d, r, from(r, j), p, i)
      BY <1>1, <3>0 DEF Before
    <3>3. (r = p /\ j >= i) \/ (r # p /\ r \in Chain(e, p)) => Before(d, p, i, r, from(r, j))
      BY <1>1, <3>0 DEF Before
    <3> HIDE DEF from
    <3>4. /\ Before(d, r, from(r, j), p, i) => d[r].ents[from(r, j)].name < d[p].ents[i].name
          /\ Before(d, p, i, r, from(r, j)) => d[p].ents[i].name < d[r].ents[from(r, j)].name
      BY <1>0, <1>1, <3>0, <3>1 DEF OrderOK
    <3> QED BY <3>1, <3>2, <3>3, <3>4
  <2> QED BY <2>1, <2>2 DEF Place
<1> QED BY <1>0, <1>4, <1>6, <1>7 DEF Sorted

(* The pair committed to may be split; the names stay.                     *)
LEMMA SpreadSlots ==
  ASSUME NEW d, NEW e, NEW p, NEW F, Card(d), Card(e), p \in Listed(d), Heads(e) = Heads(d),
         Spread(d, e, p, F)
  PROVE  /\ All(e) = All(d)
         /\ OrderOK(d) => Sorted(e)
         /\ \A h, r, i, n : r # p /\ Place(d, h, r, i, n) => Place(e, h, r, i, n)
         /\ \A h, r, i : r # p /\ Has(d, h, r, i) =>
              Has(e, h, r, i) /\ Triple(e, h, r, i) = Triple(d, h, r, i)
<1>1. CASE Listed(e) = Listed(d) /\ e[p].ents = d[p].ents /\ e[p].tail = d[p].tail /\ e[p].split = d[p].split
  <2>1. \A r \in Listed(d) : e[r].ents = d[r].ents /\ e[r].tail = d[r].tail /\ e[r].split = d[r].split
    BY <1>1 DEF Spread
  <2>2. \A r \in Listed(d) : Chain(e, r) = Chain(d, r)
    BY <1>1, <2>1, SameChains
  <2>3. SameSlots(d, e)
    BY <1>1, <2>1, <2>2 DEF SameSlots
  <2>4. \A h, r, i, n : Place(d, h, r, i, n) => h \in Heads(e) /\ r \in Listed(e)
    <3>1. \A h \in Heads(d) : Chain(d, h) \subseteq Listed(e)
      BY <1>1, CardHas, ChainCloses
    <3> QED BY <3>1 DEF Place
  <2> QED BY <2>3, <2>4, SlotsKept
<1>2. CASE \E q \in F :
          /\ q \in Pair \ Listed(d) /\ Listed(e) = Listed(d) \cup {q}
          /\ Halved(e[p].ents, e[q].ents, d[p].ents, Len(d[p].ents) \div 2)
          /\ e[p].tail = q /\ e[p].split = TRUE
          /\ e[q].tail = d[p].tail /\ e[q].split = d[p].split
          /\ Len(d[p].ents) > Capacity
  <2>1. PICK q \in F :
          /\ q \in Pair \ Listed(d) /\ Listed(e) = Listed(d) \cup {q}
          /\ Halved(e[p].ents, e[q].ents, d[p].ents, Len(d[p].ents) \div 2)
          /\ e[p].tail = q /\ e[p].split = TRUE
          /\ e[q].tail = d[p].tail /\ e[q].split = d[p].split
    BY <1>2
  <2>2. \A r \in Listed(d) \ {p} : e[r] = d[r]
    BY DEF Spread
  <2>3. Extended(d, e, p, q)
    BY <2>1, <2>2 DEF Extended
  <2>4. PICK l : l = Len(d[p].ents) \div 2
    OBVIOUS
  <2>5. l \in 0 .. Len(d[p].ents)
    BY <2>4, CardHas, HalfIs
  <2>6. Halved(e[p].ents, e[q].ents, d[p].ents, l)
    BY <2>1, <2>4
  <2> QED BY <2>2, <2>3, <2>5, <2>6, SplitSlots
<1> QED BY <1>1, <1>2 DEF Spread

(* A commit to a pair that keeps its tail alters that pair alone.          *)
LEMMA EditAlters ==
  ASSUME NEW d, Card(d), NEW e \in Disks, NEW p \in Listed(d), Edited(d, e, p)
  PROVE  Alters(d, e, p)
<1>0. p \in Pair /\ Listed(d) \in SUBSET Pair
  BY CardHas
<1>1. Threaded(e) /\ Listed(e) = Listed(d) /\ Heads(e) = Heads(d) /\ Card(e)
  BY CardHas, EditedIs DEF Card
<1>2. \A r \in Listed(d) : e[r].split = d[r].split /\ e[r].tail = d[r].tail
  BY <1>0 DEF Edited
<1>3. \A r \in Listed(d) : Chain(e, r) = Chain(d, r)
  BY <1>1, <1>2, SameChains
<1>4. \A r \in Listed(d) \ {p} : e[r].ents = d[r].ents
  BY <1>0 DEF Edited
<1> QED BY <1>1, <1>3, <1>4 DEF Alters

(* A pair with no entries has gone, from its directory or as one.          *)
Gone(d, u, p, q) ==
  /\ Card(d) /\ Card(u) /\ p \in Listed(d) /\ q \in Listed(d) /\ q # p /\ d[p].tail = q
  /\ Listed(u) = Listed(d) \ {q} /\ d[q].ents = <<>> /\ (d[p].split \/ ~d[q].split)
  /\ u[p].tail = d[q].tail /\ u[p].split = d[q].split
  /\ \A r \in Listed(d) \ {p, q} : u[r].split = d[r].split /\ u[r].tail = d[r].tail
  /\ \A r \in Listed(d) \ {q} : u[r].ents = d[r].ents
  /\ d[p].split => Heads(u) = Heads(d)
  /\ ~d[p].split => Heads(u) = Heads(d) \ {q}

(* Taking an empty pair off the list takes no entry.                       *)
LEMMA GoneSlots ==
  ASSUME NEW d, NEW u, NEW p, NEW q, Gone(d, u, p, q)
  PROVE  SameSlots(d, u)
<1>0. q \in Pair /\ p \in Listed(u) /\ q \in Pair \ Listed(u) /\ Listed(d) = Listed(u) \cup {q}
  BY CardHas DEF Gone
<1>1. CASE d[p].split
  <2>1. Extended(u, d, p, q)
    BY <1>0, <1>1 DEF Gone, Extended
  <2>2. Heads(d) = Heads(u) /\ d[q].ents = <<>> /\ \A r \in Listed(u) : d[r].ents = u[r].ents
    BY <1>0, <1>1 DEF Gone
  <2> QED BY <2>1, <2>2, ExtendedSlots
<1>2. CASE ~d[p].split
  <2>1. q \in Heads(d)
    <3>1. q # NoPair
      BY <1>0, DirTreeAssumption
    <3> QED BY <1>2, <3>1 DEF Heads, Gone
  <2>2. Appended(u, d, p, q)
    BY <1>0, <1>2, <2>1 DEF Gone, Appended
  <2> QED BY <2>2, AppendedSlots
<1> QED BY <1>1, <1>2

(* What lfs_fs_drop commits takes the pair off the list.                   *)
LEMMA DroppedGone ==
  ASSUME NEW d, Card(d), NEW u \in Disks, NEW p \in Listed(d), NEW q, d[p].tail = q,
         d[q].ents = <<>>, d[p].split \/ ~d[q].split, Dropped(d, u, p, q)
  PROVE  Gone(d, u, p, q)
<1>0. Listed(d) \in SUBSET Pair
  BY CardHas
<1>1. \A r \in Listed(d) \ {p} : u[r] = d[r]
  BY <1>0 DEF Dropped
<1>2. /\ q # p /\ q \in Listed(d) /\ Card(u) /\ Listed(u) = Listed(d) \ {q}
      /\ u[p].tail = d[q].tail /\ u[p].split = d[q].split /\ u[p].ents = d[p].ents
      /\ d[p].split => Heads(u) = Heads(d)
      /\ ~d[p].split => Heads(u) = Heads(d) \ {q}
  BY DEF Dropped, Card
<1>3. /\ \A r \in Listed(d) \ {p, q} : u[r].split = d[r].split /\ u[r].tail = d[r].tail
      /\ \A r \in Listed(d) \ {q} : u[r].ents = d[r].ents
  BY <1>1, <1>2
<1> QED BY <1>2, <1>3 DEF Gone

------------------------------------------------------------------------------
(* What commits do to the names.                                           *)
LEMMA CleanCard ==
  ASSUME NEW s, Clean(s)
  PROVE  Card(s.disk)
BY CleanIs DEF Clean, Card

(* A commit of attributes that are no entries keeps the names.             *)
LEMMA CommitNames ==
  ASSUME NEW s, NEW p, NEW d, Card(d), p \in Listed(d), OrderOK(d), NEW o, Committed(s, p, d, o)
  PROVE  Sorted(o.disk) /\ All(o.disk) = All(d)
<1>1. Card(o.disk)
  BY CommittedClean, CleanCard
<1>2. Heads(o.disk) = Heads(d) /\ Spread(d, o.disk, p, Free(s))
  BY DEF Committed, Alike
<1> QED BY <1>1, <1>2, SpreadSlots

(* Entries of other pairs stay where they are, and so do the places there. *)
LEMMA CommitSlots ==
  ASSUME NEW s, NEW p, NEW d, Card(d), p \in Listed(d), OrderOK(d), NEW o, Committed(s, p, d, o)
  PROVE  /\ \A h, r, i, n : r # p /\ Place(d, h, r, i, n) => Place(o.disk, h, r, i, n)
         /\ \A h, r, i : r # p /\ Has(d, h, r, i) =>
              Has(o.disk, h, r, i) /\ Triple(o.disk, h, r, i) = Triple(d, h, r, i)
<1>1. Card(o.disk)
  BY CommittedClean, CleanCard
<1>2. Heads(o.disk) = Heads(d) /\ Spread(d, o.disk, p, Free(s))
  BY DEF Committed, Alike
<1> QED BY <1>1, <1>2, SpreadSlots

(* Dropping an empty pair keeps the names (lfs.cpp:4296-4309).             *)
LEMMA DropNames ==
  ASSUME Sure, NEW s, Clean(s), Sorted(s.disk), NEW p \in Listed(s.disk), NEW q,
         q = s.disk[p].tail, q # NoPair, s.disk[q].ents = <<>>,
         s.disk[p].split \/ ~s.disk[q].split, NEW o \in Drop(s, p, q)
  PROVE  Sorted(o.disk) /\ All(o.disk) = All(s.disk)
<1>1. PICK u \in Disks : Committed(s, p, u, o) /\ Dropped(s.disk, u, p, q)
  BY DropIs
<1>2. Card(s.disk) /\ OrderOK(s.disk)
  BY DEF Sorted
<1>3. Gone(s.disk, u, p, q)
  BY <1>1, <1>2, DroppedGone
<1>4. Sorted(u) /\ All(u) = All(s.disk)
  BY <1>2, <1>3, GoneSlots, SlotsKept
<1>5. Card(u) /\ p \in Listed(u) /\ OrderOK(u)
  BY <1>3, <1>4 DEF Gone, Sorted
<1>6. Committed(s, p, u, o)
  BY <1>1
<1>7. Sorted(o.disk) /\ All(o.disk) = All(u)
  BY <1>5, <1>6, CommitNames
<1> QED BY <1>4, <1>7

(* An entry less, in d; and on the card, whether the pair stays or, left   *)
(* empty, has been dropped before it was written.                          *)
Lessened(s, p, i, d) ==
  /\ Alters(s.disk, d, p) /\ HasLess(d[p].ents, s.disk[p].ents, i) /\ Edited(s.disk, d, p)
DroppedFirst(s, p, d, u, r, o) ==
  /\ d[p].ents = <<>> /\ d[r].tail = p /\ d[r].split /\ Gone(d, u, r, p)
  /\ \A b \in Pair \ {r} : u[b] = s.disk[b]
  /\ Card(o.disk) /\ Heads(o.disk) = Heads(u) /\ Spread(u, o.disk, r, Free(s))
  /\ o.disk[p].ents = <<>> /\ o.disk[p].tail = s.disk[p].tail /\ o.disk[p].split = s.disk[p].split
  /\ p \notin Listed(o.disk) /\ o.told = {r, p}

(* The commits that delete an entry (lfs.cpp:1779-1787, 4296-4309).        *)
LEMMA DeleteSteps ==
  ASSUME Sure, NEW s, Clean(s), s.ok = TRUE, s.told = {}, Card(s.disk), NEW p \in Listed(s.disk),
         NEW i \in 1 .. Len(s.disk[p].ents), NEW o \in Delete(s, p, i)
  PROVE  \E d : /\ Lessened(s, p, i, d)
                /\ Committed(s, p, d, o) \/ \E u, r : DroppedFirst(s, p, d, u, r, o)
<1>1. /\ s \in States /\ s.disk \in Disks /\ Listed(s.disk) \in SUBSET Pair
      /\ s.disk[p] \in Content /\ p \in Pair /\ p # NoPair
  BY CleanIs, DirTreeAssumption
<1>2. s.disk[p].ents \in Seq(Entry) /\ Len(s.disk[p].ents) \in Nat /\ Len(s.disk[p].ents) <= Full
  BY <1>1, ContentIs DEF Clean, Filled
<1>3. PICK x : x = RemoveAt(s.disk[p].ents, i)
  OBVIOUS
<1>4. HasLess(x, s.disk[p].ents, i)
  BY <1>1, <1>2, <1>3, RemoveIs
<1>5. x \in Seq(Entry) /\ Len(x) <= Full + 1
  BY <1>2, <1>4, DirTreeAssumption DEF HasLess
<1>6. PICK m : m = SetEnts(s.disk[p], x)
  OBVIOUS
<1>7. PICK d : d = SetPair(s.disk, p, m)
  OBVIOUS
<1>8. Target(s, p, m, d) /\ d \in Disks /\ d[p].ents = x /\ Edited(s.disk, d, p) /\ m \in Content
  <2>1. EditTo(s, p, x, m, d)
    BY <1>1, <1>5, <1>6, <1>7 DEF EditTo
  <2> QED BY <2>1, EditTarget
<1>9. Alters(s.disk, d, p)
  BY <1>1, <1>8, EditAlters
<1>10. Lessened(s, p, i, d)
  BY <1>4, <1>8, <1>9 DEF Lessened
<1>11. Card(d) /\ p \in Listed(d) /\ Listed(d) = Listed(s.disk) /\ Heads(d) = Heads(s.disk)
  BY <1>9 DEF Alters
<1> DEFINE r == Pred(s.disk, p)
           emptied == x = <<>> /\ p # Root /\ s.disk[r].split
<1>12. o \in IF ~emptied THEN Put(s, p, m)
             ELSE UNION {IF o1.ok THEN Put(o1, p, m) ELSE {o1} : o1 \in Drop(s, r, p)}
  <2>1. m = [s.disk[p] EXCEPT !.ents = RemoveAt(@, i)]
    BY <1>3, <1>6, Zenon DEF SetEnts
  <2>2. m.ents = x
    BY <1>5, <1>6, <1>1, WithEnts
  <2> QED BY <2>1, <2>2, Zenon DEF Delete
<1>13. CASE ~emptied
  <2>1. o \in Put(s, p, m)
    BY <1>12, <1>13
  <2>2. Committed(s, p, d, o)
    BY <1>8, <2>1, PutCommits
  <2> QED BY <1>10, <2>2
<1>14. CASE emptied
  <2>1. r \in Listed(s.disk) /\ s.disk[r].tail = p
    BY <1>1, <1>14, HasPred DEF Card
  <2>2. PICK o1 \in Drop(s, r, p) : o \in IF o1.ok THEN Put(o1, p, m) ELSE {o1}
    BY <1>12, <1>14
  <2>3. PICK u \in Disks : Committed(s, r, u, o1) /\ Dropped(s.disk, u, r, p)
    <3> HIDE DEF r
    <3> QED BY <1>1, <2>1, <2>2, DropIs
  <2>4. /\ Clean(o1) /\ o1.disk \in Disks /\ Card(o1.disk) /\ o1 \in States /\ o1.ok = TRUE
        /\ o1.told = {r} /\ o \in Put(o1, p, m)
    <3>1. Clean(o1) /\ o1.disk \in Disks /\ Card(o1.disk) /\ o1 \in States /\ o1.ok = s.ok
          /\ o1.told = s.told \cup {r}
      BY <2>3, CommittedClean, CleanCard DEF Committed
    <3> QED BY <2>2, <3>1
  <2>5. Gone(d, u, r, p) /\ d[p].ents = <<>> /\ d[r].tail = p /\ d[r].split
        /\ \A b \in Pair \ {r} : u[b] = s.disk[b]
    <3>1. /\ p # r /\ Listed(u) = Listed(d) \ {p} /\ Card(u)
          /\ u[r].tail = s.disk[p].tail /\ u[r].split = s.disk[p].split
          /\ u[r].ents = s.disk[r].ents /\ (\A b \in Pair \ {r} : u[b] = s.disk[b])
          /\ Heads(u) = Heads(d)
      BY <1>11, <1>14, <2>3 DEF Dropped, Card
    <3>2. /\ d[p].tail = s.disk[p].tail /\ d[p].split = s.disk[p].split
          /\ \A b \in Pair \ {p} : d[b] = s.disk[b]
      BY <1>8 DEF Edited
    <3>3. d[r] = s.disk[r] /\ r \in Pair /\ r \in Listed(d)
      BY <1>1, <1>11, <2>1, <3>1, <3>2
    <3>4. \A b \in Listed(d) \ {r, p} : u[b] = d[b]
      BY <1>1, <1>11, <3>1, <3>2
    <3>5. d[p].ents = <<>> /\ d[r].tail = p /\ d[r].split
      BY <1>8, <1>14, <2>1, <3>3
    <3> HIDE DEF r
    <3> QED BY <1>11, <3>1, <3>2, <3>3, <3>4, <3>5 DEF Gone
  <2>6. Card(u) /\ r \in Listed(u) /\ Spread(u, o1.disk, r, Free(s)) /\ Heads(o1.disk) = Heads(u)
    <3> HIDE DEF r
    <3> QED BY <2>1, <2>3, <2>5 DEF Gone, Committed, Alike
  <2>7. p \notin Listed(o1.disk)
    <3>1. p \notin Free(s) /\ p \notin Listed(u)
      BY <1>1, <2>3 DEF Free, Dropped
    <3> HIDE DEF r
    <3> QED BY <2>6, <3>1 DEF Spread
  <2>8. /\ o.disk \in Disks /\ Card(o.disk) /\ Listed(o.disk) = Listed(o1.disk)
        /\ Heads(o.disk) = Heads(o1.disk) /\ o.told = {r, p}
        /\ \A b \in Listed(o1.disk) : o.disk[b] = o1.disk[b]
        /\ o.disk[p].ents = <<>> /\ o.disk[p].tail = s.disk[p].tail /\ o.disk[p].split = s.disk[p].split
    <3>1. m.ents = x /\ m.tail = s.disk[p].tail /\ m.split = s.disk[p].split /\ Len(m.ents) = 0
      <4>1. m.ents = x /\ m.tail = s.disk[p].tail /\ m.split = s.disk[p].split
        BY <1>1, <1>5, <1>6, WithEnts
      <4> QED BY <1>14, <4>1
    <3>2. o \in States /\ Whole(o1.disk, o.disk, p, m, Pending(o1.lfs)) /\ o.told = o1.told \cup {p}
      <4>1. ~(Len(m.ents) > Capacity) /\ (p \in Free(o1) => Len(m.ents) = 0)
        BY <3>1, DirTreeAssumption
      <4> QED BY <1>1, <1>8, <2>4, <4>1, PutIs
    <3>3. o.disk \in Disks
      BY <3>2, StateIs
    <3>4. Listed(o1.disk) \in SUBSET Pair
      BY <2>4, CardHas
    <3>5. \A b \in Listed(o1.disk) : o.disk[b] = o1.disk[b]
      BY <2>7, <3>2, <3>4 DEF Whole
    <3>6. /\ o.disk[p].ents = <<>> /\ o.disk[p].tail = s.disk[p].tail /\ o.disk[p].split = s.disk[p].split
          /\ \A b \in Pair \ {p} : o.disk[b] = o1.disk[b]
      BY <1>14, <3>1, <3>2 DEF Whole
    <3>7. TailsOK(o.disk)
      BY <1>1, <2>4, <3>6 DEF TailsOK, Threaded, Card
    <3>8. Threaded(o.disk) /\ Listed(o.disk) = Listed(o1.disk) /\ Heads(o.disk) = Heads(o1.disk)
      <4>1. \A b \in Listed(o1.disk) : o.disk[b].tail = o1.disk[b].tail /\ o.disk[b].split = o1.disk[b].split
        BY <3>5
      <4>2. Threaded(o1.disk)
        BY <2>4 DEF Card
      <4> QED BY <2>4, <3>3, <3>7, <4>1, <4>2, SameThread
    <3> QED BY <2>4, <3>2, <3>3, <3>5, <3>6, <3>8 DEF Card
  <2>9. Spread(u, o.disk, r, Free(s))
    <3>1. Listed(u) \subseteq Listed(o1.disk)
      BY <2>6 DEF Spread
    <3>2. \A b \in Listed(u) \ {r} : o.disk[b] = u[b]
      BY <2>6, <2>8, <3>1 DEF Spread
    <3>3. o.disk[r] = o1.disk[r]
      BY <2>6, <2>8, <3>1
    <3> HIDE DEF r
    <3>4. CASE Listed(o1.disk) = Listed(u) /\ o1.disk[r].ents = u[r].ents
               /\ o1.disk[r].tail = u[r].tail /\ o1.disk[r].split = u[r].split
      BY <2>8, <3>2, <3>3, <3>4 DEF Spread
    <3>5. CASE \E q \in Free(s) :
          /\ q \in Pair \ Listed(u) /\ Listed(o1.disk) = Listed(u) \cup {q}
          /\ Halved(o1.disk[r].ents, o1.disk[q].ents, u[r].ents, Len(u[r].ents) \div 2)
          /\ o1.disk[r].tail = q /\ o1.disk[r].split = TRUE
          /\ o1.disk[q].tail = u[r].tail /\ o1.disk[q].split = u[r].split
          /\ Len(u[r].ents) > Capacity
      <4>1. PICK q \in Free(s) :
          /\ q \in Pair \ Listed(u) /\ Listed(o1.disk) = Listed(u) \cup {q}
          /\ Halved(o1.disk[r].ents, o1.disk[q].ents, u[r].ents, Len(u[r].ents) \div 2)
          /\ o1.disk[r].tail = q /\ o1.disk[r].split = TRUE
          /\ o1.disk[q].tail = u[r].tail /\ o1.disk[q].split = u[r].split
          /\ Len(u[r].ents) > Capacity
        BY <3>5
      <4>2. o.disk[q] = o1.disk[q] /\ Listed(o.disk) = Listed(u) \cup {q}
        BY <2>8, <4>1
      <4> QED BY <3>2, <3>3, <4>1, <4>2 DEF Spread
    <3> QED BY <2>6, <3>4, <3>5 DEF Spread
  <2>10. DroppedFirst(s, p, d, u, r, o)
    <3>1. Heads(o.disk) = Heads(u) /\ p \notin Listed(o.disk)
      BY <2>6, <2>7, <2>8
    <3> HIDE DEF r
    <3> QED BY <2>5, <2>8, <2>9, <3>1 DEF DroppedFirst
  <2> QED BY <1>10, <2>10
<1> QED BY <1>13, <1>14

(* An entry is deleted, and its pair may go with it.                       *)
LEMMA DeleteNames ==
  ASSUME Sure, NEW s, Clean(s), s.ok = TRUE, s.told = {}, Sorted(s.disk), NEW h, NEW p, NEW i,
         Has(s.disk, h, p, i), NEW o \in Delete(s, p, i)
  PROVE  Sorted(o.disk) /\ All(o.disk) = All(s.disk) \ {Triple(s.disk, h, p, i)}
<1>1. Card(s.disk) /\ OrderOK(s.disk) /\ p \in Listed(s.disk) /\ i \in 1 .. Len(s.disk[p].ents)
  BY HasIs DEF Sorted
<1>2. PICK d : /\ Lessened(s, p, i, d)
               /\ Committed(s, p, d, o) \/ \E u, r : DroppedFirst(s, p, d, u, r, o)
  BY <1>1, DeleteSteps
<1>3. Sorted(d) /\ All(d) = All(s.disk) \ {Triple(s.disk, h, p, i)}
  BY <1>1, <1>2, RemoveSlots DEF Lessened
<1>4. Card(d) /\ OrderOK(d) /\ p \in Listed(d)
  BY <1>2, <1>3 DEF Lessened, Alters, Sorted
<1>5. CASE Committed(s, p, d, o)
  BY <1>3, <1>4, <1>5, CommitNames
<1>6. CASE \E u, r : DroppedFirst(s, p, d, u, r, o)
  <2>1. PICK u, r : DroppedFirst(s, p, d, u, r, o)
    BY <1>6
  <2>2. /\ Gone(d, u, r, p) /\ Card(u) /\ r \in Listed(u) /\ Card(o.disk)
        /\ Heads(o.disk) = Heads(u) /\ Spread(u, o.disk, r, Free(s))
    BY <2>1 DEF DroppedFirst, Gone
  <2>3. Sorted(u) /\ All(u) = All(d)
    BY <1>4, <2>2, GoneSlots, SlotsKept
  <2>4. Sorted(o.disk) /\ All(o.disk) = All(u)
    BY <2>2, <2>3, SpreadSlots DEF Sorted
  <2> QED BY <1>3, <2>3, <2>4
<1> QED BY <1>2, <1>5, <1>6

------------------------------------------------------------------------------
(* What lfs_dir_find finds.                                                *)

(* The least of some naturals is below the others.                         *)
LEMMA MinLeast ==
  ASSUME NEW T \in SUBSET Nat, T # {}
  PROVE  Min(T) \in T /\ \A j \in T : Min(T) <= j
<1>1. \E m \in T : \A j \in T : m <= j
  BY LeastNatural
<1> QED BY <1>1 DEF Min

(* Whatever is in front of the pair the k-th step has come to is below the *)
(* name; if the walk still goes on, there are no more pairs than steps.    *)
Walked(d, h, n, k, p) ==
  /\ p \in Chain(d, h)
  /\ \A r \in Chain(d, h) : r # p /\ p \in Chain(d, r) => NotBelow(d, n, r) = {}
  /\ \/ ~d[p].split \/ NotBelow(d, n, p) # {}
     \/ Cardinality(Chain(d, p)) + k <= Count

(* A directory has no more pairs than the device.                          *)
LEMMA ChainsAreFinite ==
  ASSUME NEW d, Card(d), NEW p \in Listed(d)
  PROVE  /\ IsFiniteSet(Chain(d, p)) /\ Cardinality(Chain(d, p)) \in 1 .. Count
<1>1. Chain(d, p) \in SUBSET Pair /\ p \in Chain(d, p)
  BY CardHas, ChainCloses
<1>2. IsFiniteSet(Chain(d, p)) /\ Cardinality(Chain(d, p)) <= Count
  BY <1>1, FS_Subset, DirTreeAssumption DEF Count
<1>3. Cardinality(Chain(d, p)) \in Nat /\ Cardinality(Chain(d, p)) # 0
  BY <1>1, <1>2, FS_EmptySet, FS_CardinalityType
<1> QED BY <1>2, <1>3, PairsAreFinite

(* The walk of a lookup ends at the last pair, or at the first one with a  *)
(* name that is not below the one sought (lfs.cpp:1374-1427).              *)
LEMMA WalkEnds ==
  ASSUME NEW d, Card(d), NEW h \in Listed(d), NEW n, NEW f, Walks(d, h, n, f)
  PROVE  /\ f[Count] \in Chain(d, h) /\ (~d[f[Count]].split \/ NotBelow(d, n, f[Count]) # {})
         /\ \A r \in Chain(d, h) : r # f[Count] /\ f[Count] \in Chain(d, r) => NotBelow(d, n, r) = {}
<1> DEFINE T == {k \in 0 .. Count : Walked(d, h, n, k, f[k])}
<1>0. Count \in Nat /\ Chain(d, h) \subseteq Listed(d) /\ h \in Chain(d, h)
  BY PairsAreFinite, ChainCloses
<1>1. 0 \in T
  <2>1. f[0] = h /\ Cardinality(Chain(d, h)) \in 1 .. Count
    BY ChainsAreFinite DEF Walks
  <2>2. \A r \in Chain(d, h) : h \in Chain(d, r) => r = h
    BY ChainOrder
  <2>3. Walked(d, h, n, 0, h)
    BY <1>0, <2>1, <2>2 DEF Walked
  <2> QED BY <1>0, <2>1, <2>3
<1>2. ASSUME NEW k \in 1 .. Count, k - 1 \in T PROVE k \in T
  <2>0. PICK p : p = f[k - 1]
    OBVIOUS
  <2>1. Walked(d, h, n, k - 1, p) /\ p \in Chain(d, h) /\ p \in Listed(d)
    BY <1>0, <1>2, <2>0 DEF Walked
  <2>2. f[k] = IF ~d[p].split \/ NotBelow(d, n, p) # {} THEN p ELSE d[p].tail
    BY <2>0 DEF Walks
  <2>3. CASE ~d[p].split \/ NotBelow(d, n, p) # {}
    BY <1>0, <2>1, <2>2, <2>3 DEF Walked
  <2>4. CASE d[p].split /\ NotBelow(d, n, p) = {}
    <3>0. PICK q : q = d[p].tail
      OBVIOUS
    <3>1. f[k] = q /\ q \in Chain(d, h) /\ q \in Listed(d)
      BY <1>0, <2>1, <2>2, <2>4, <3>0, ChainCloses
    <3>2. Chain(d, p) = {p} \cup Chain(d, q) /\ p \notin Chain(d, q)
      BY <2>1, <2>4, <3>0, ChainFrom, ChainEndsOnce
    <3>3. Cardinality(Chain(d, p)) = Cardinality(Chain(d, q)) + 1
      <4>1. IsFiniteSet(Chain(d, q))
        BY <3>1, ChainsAreFinite
      <4>2. Cardinality(Chain(d, q) \cup {p}) = Cardinality(Chain(d, q)) + 1
        BY <3>2, <4>1, FS_AddElement
      <4> QED BY <3>2, <4>2
    <3>4. Cardinality(Chain(d, q)) + k <= Count
      <4>1. Cardinality(Chain(d, p)) + (k - 1) <= Count
        BY <2>1, <2>4 DEF Walked
      <4>2. Cardinality(Chain(d, q)) \in Nat
        BY <3>1, ChainsAreFinite
      <4> QED BY <1>0, <3>3, <4>1, <4>2
    <3>5. ASSUME NEW r \in Chain(d, h), r # q, q \in Chain(d, r) PROVE NotBelow(d, n, r) = {}
      <4>1. r \in Listed(d)
        BY <1>0
      <4>2. p \in Chain(d, r)
        <5>1. PICK s \in Chain(d, r) : d[s].split /\ d[s].tail = q
          BY <3>5, <4>1, ChainPred
        <5>2. s \in Listed(d) /\ q # NoPair
          BY <3>1, <4>1, <5>1, ChainCloses, CardHas, DirTreeAssumption
        <5>3. s = p
          BY <2>1, <3>0, <5>1, <5>2, CardHas DEF Threaded, ListOK
        <5> QED BY <5>1, <5>3
      <4> QED BY <2>1, <2>4, <4>2 DEF Walked
    <3> QED BY <1>0, <3>1, <3>4, <3>5 DEF Walked
  <2> QED BY <2>3, <2>4
<1>3. T = 0 .. Count
  <2>1. T \in SUBSET (0 .. Count)
    OBVIOUS
  <2> HIDE DEF T
  <2> QED BY <1>0, <1>1, <1>2, <2>1, UpTo
<1>4. Walked(d, h, n, Count, f[Count])
  BY <1>0, <1>3
<1>5. Cardinality(Chain(d, f[Count])) \in 1 .. Count
  BY <1>0, <1>4, ChainsAreFinite DEF Walked
<1> QED BY <1>0, <1>4, <1>5 DEF Walked

(* An entry that could go to a place has a name that is not there.         *)
LEMMA PlaceIsFree ==
  ASSUME NEW d, Card(d), NEW h, NEW p, NEW i, NEW n \in Nat, Place(d, h, p, i, n),
         NEW q, NEW j, Has(d, h, q, j)
  PROVE  d[q].ents[j].name # n
<1>1. /\ h \in Listed(d) /\ p \in Chain(d, h) /\ p \in Listed(d) /\ i \in 1 .. (Len(d[p].ents) + 1)
      /\ Len(d[p].ents) \in Nat
  BY CardHas, ChainCloses DEF Place
<1>2. /\ q \in Chain(d, h) /\ q \in Listed(d) /\ j \in 1 .. Len(d[q].ents) /\ d[q].ents[j].name \in Nat
  BY HasIs
<1>3. q \in Chain(d, p) \/ p \in Chain(d, q)
  BY <1>1, <1>2, ChainTotal
<1>4. (q = p /\ j < i) \/ (q # p /\ p \in Chain(d, q)) \/ (q = p /\ j >= i) \/ (q # p /\ q \in Chain(d, p))
  BY <1>1, <1>2, <1>3
<1>5. d[q].ents[j].name < n \/ n < d[q].ents[j].name
  BY <1>2, <1>4 DEF Place
<1> QED BY <1>2, <1>5

(* lfs_dir_find, while no entry is hidden: the entry of that name if there *)
(* is one, else the place for it.                                          *)
LEMMA LookupFinds ==
  ASSUME NEW d, Sorted(d), NEW g, g \subseteq {Orphans}, NEW h \in Heads(d), NEW n \in Name,
         NEW w, w = Lookup(d, g, h, n)
  PROVE  /\ w.found \in BOOLEAN
         /\ w.found => /\ Has(d, h, w.pair, w.id) /\ d[w.pair].ents[w.id].name = n
                       /\ w.node = d[w.pair].ents[w.id].node
         /\ ~w.found => /\ Place(d, h, w.pair, w.id, n) /\ w.node = NoPair
                        /\ d[w.pair].split => w.id \in 1 .. Len(d[w.pair].ents)
<1>0. Card(d) /\ OrderOK(d) /\ d \in Disks /\ Threaded(d) /\ h \in Listed(d) /\ n \in Nat
  BY CardHas, DirTreeAssumption DEF Sorted
<1>1. PICK f : Walks(d, h, n, f) /\ (\A k \in 0 .. Count : f[k] \in Listed(d))
               /\ Finds(d, g, n, f[Count], w)
  BY <1>0, LookupWalks
<1>2. PICK p : p = f[Count]
  OBVIOUS
<1>3. /\ p \in Chain(d, h) /\ p \in Listed(d) /\ (~d[p].split \/ NotBelow(d, n, p) # {})
      /\ \A r \in Chain(d, h) : r # p /\ p \in Chain(d, r) => NotBelow(d, n, r) = {}
  BY <1>0, <1>1, <1>2, WalkEnds, ChainCloses
<1>4. StopsAt(d, n, p, w)
  <2>1. Finds(d, g, n, p, w)
    BY <1>1, <1>2
  <2> QED BY <1>0, <1>3, <2>1, LookupAt
<1>5. \A r \in Listed(d) : /\ DOMAIN d[r].ents = 1 .. Len(d[r].ents) /\ Len(d[r].ents) \in Nat
                           /\ \A j \in 1 .. Len(d[r].ents) : d[r].ents[j].name \in Nat
  <2>1. ASSUME NEW r \in Listed(d), NEW j \in 1 .. Len(d[r].ents) PROVE d[r].ents[j].name \in Nat
    <3>1. d[r].ents \in Seq(Entry)
      BY <1>0, CardHas
    <3>2. d[r].ents[j] \in Entry
      BY <3>1
    <3> QED BY <3>2, DirTreeAssumption DEF Entry
  <2> QED BY <1>0, <2>1, CardHas
<1>6. w.found \in BOOLEAN /\ w.pair = p
  BY <1>4 DEF StopsAt
<1>7. ASSUME w.found
      PROVE  /\ Has(d, h, p, w.id) /\ d[p].ents[w.id].name = n
             /\ w.node = d[p].ents[w.id].node
  BY <1>3, <1>4, <1>7 DEF StopsAt, Has
<1>8. ASSUME ~w.found
      PROVE  /\ Place(d, h, p, w.id, n) /\ w.node = NoPair
             /\ d[p].split => w.id \in 1 .. Len(d[p].ents)
  <2>1. PICK i : i = w.id
    OBVIOUS
  <2>2. w.node = NoPair /\ i \in 1 .. (Len(d[p].ents) + 1)
    BY <1>4, <1>8, <2>1 DEF StopsAt
  <2>3. \A j \in 1 .. Len(d[p].ents) : j < i => d[p].ents[j].name < n
    <3>1. CASE NotBelow(d, n, p) = {}
      BY <1>0, <1>3, <1>5, <3>1 DEF NotBelow
    <3>2. CASE NotBelow(d, n, p) # {}
      <4>1. NotBelow(d, n, p) \in SUBSET Nat
        BY <1>3, <1>5 DEF NotBelow
      <4>2. i = Min(NotBelow(d, n, p))
        BY <1>4, <2>1, <3>2 DEF StopsAt
      <4>3. \A j \in NotBelow(d, n, p) : i <= j
        BY <3>2, <4>1, <4>2, MinLeast
      <4>4. ASSUME NEW j \in 1 .. Len(d[p].ents), j < i PROVE d[p].ents[j].name < n
        <5>1. j \notin NotBelow(d, n, p)
          BY <1>3, <1>5, <2>2, <4>3, <4>4
        <5> QED BY <1>0, <1>3, <1>5, <5>1 DEF NotBelow
      <4> QED BY <4>4
    <3> QED BY <3>1, <3>2
  <2>4. NotBelow(d, n, p) # {} => i \in 1 .. Len(d[p].ents) /\ n < d[p].ents[i].name
    <3> SUFFICES ASSUME NotBelow(d, n, p) # {} PROVE i \in 1 .. Len(d[p].ents) /\ n < d[p].ents[i].name
      OBVIOUS
    <3>1. i \in NotBelow(d, n, p) /\ i \in 1 .. Len(d[p].ents) /\ d[p].ents[i].name # n
      BY <1>4, <1>8, <2>1 DEF StopsAt
    <3> QED BY <1>0, <1>3, <1>5, <3>1 DEF NotBelow
  <2>5. NotBelow(d, n, p) = {} => i = Len(d[p].ents) + 1 /\ Chain(d, p) = {p}
    <3> SUFFICES ASSUME NotBelow(d, n, p) = {} PROVE i = Len(d[p].ents) + 1 /\ Chain(d, p) = {p}
      OBVIOUS
    <3>1. i = Len(d[p].ents) + 1
      BY <1>4, <2>1 DEF StopsAt
    <3>2. ~d[p].split
      BY <1>3
    <3> QED BY <1>0, <1>3, <3>1, <3>2, ChainFrom
  <2>6. ASSUME NEW r \in Listed(d), NEW j \in 1 .. Len(d[r].ents), r # p, p \in Chain(d, r)
        PROVE  d[r].ents[j].name < n
    <3>1. r \in Chain(d, h)
      <4>1. PICK k \in Heads(d) : r \in Chain(d, k)
        BY <1>0, ListedIsInChain
      <4>2. k \in Listed(d)
        BY <1>0, CardHas
      <4>3. p \in Chain(d, k)
        BY <1>0, <2>6, <4>1, <4>2, ChainWithin
      <4>4. k = h
        BY <1>0, <1>3, <4>3, ChainsApart
      <4> QED BY <4>1, <4>4
    <3>2. NotBelow(d, n, r) = {}
      BY <1>3, <2>6, <3>1
    <3> QED BY <1>0, <1>5, <3>2 DEF NotBelow
  <2>7. ASSUME NEW r \in Listed(d), NEW j \in 1 .. Len(d[r].ents),
               (r = p /\ j >= i) \/ (r # p /\ r \in Chain(d, p))
        PROVE  n < d[r].ents[j].name
    <3>1. NotBelow(d, n, p) # {}
      BY <1>3, <1>5, <2>5, <2>7
    <3>2. i \in 1 .. Len(d[p].ents) /\ n < d[p].ents[i].name
      BY <2>4, <3>1
    <3>3. CASE r = p /\ j = i
      BY <3>2, <3>3
    <3>4. CASE Before(d, p, i, r, j)
      <4>1. d[p].ents[i].name < d[r].ents[j].name
        BY <1>0, <1>3, <3>2, <3>4 DEF OrderOK
      <4> QED BY <1>0, <1>3, <1>5, <3>2, <4>1
    <3>5. (r = p /\ j = i) \/ Before(d, p, i, r, j)
      BY <2>7, <3>2 DEF Before
    <3> QED BY <3>3, <3>4, <3>5
  <2>8. Place(d, h, p, i, n)
    BY <1>3, <2>2, <2>3, <2>6, <2>7 DEF Place
  <2>9. d[p].split => i \in 1 .. Len(d[p].ents)
    BY <1>3, <2>4
  <2> QED BY <2>1, <2>2, <2>8, <2>9
<1> QED BY <1>6, <1>7, <1>8

------------------------------------------------------------------------------
(* The theorems.                                                           *)

(* A card that has been formatted satisfies the invariant.                 *)
LEMMA InitInv ==
  ASSUME Init
  PROVE  Inv
<1>1. /\ disk = [p \in Pair |-> Blank] /\ lfs = [gstate |-> {}, gdisk |-> {}, gdelta |-> {}]
      /\ op = Idle /\ result = "none" /\ handle = NoHandle /\ calls = 0
  BY DEF Init
<1>2. Root \in Pair /\ NoPair \notin Pair /\ Full \in Nat /\ MaxCalls \in Nat
  BY DirTreeAssumption
<1>3. Blank \in Content /\ Blank.ents = <<>> /\ Blank.tail = NoPair /\ Blank.split = FALSE /\ Blank.delta = {}
  BY DEF Blank, Content
<1>4. disk \in Disks /\ \A p \in Pair : /\ disk[p].ents = <<>> /\ disk[p].tail = NoPair
                                        /\ disk[p].split = FALSE /\ disk[p].delta = {}
  BY <1>1, <1>3 DEF Disks
<1>5. Listed(disk) \in SUBSET Pair
  BY <1>4, ListCloses
<1>6. Threaded(disk) /\ Filled(disk)
  <2>1. TailsOK(disk)
    BY <1>2, <1>4 DEF TailsOK
  <2>2. ListOK(disk)
    BY <1>4, <1>5 DEF ListOK
  <2>3. Filled(disk)
    <3>1. Len(<<>>) = 0
      OBVIOUS
    <3> QED BY <1>2, <1>4, <3>1 DEF Filled
  <2> QED BY <2>1, <2>2, <2>3 DEF Threaded
<1>7. OnCard(disk) = {}
  <2>1. UNION {disk[p].delta : p \in Listed(disk)} = {}
    BY <1>4, <1>5
  <2> QED BY <2>1 DEF OnCard, Sum
<1>8. \A x : NameCount(disk, x) = 0
  <2> SUFFICES ASSUME NEW x PROVE NameCount(disk, x) = 0
    OBVIOUS
  <2>1. \A t : t \notin Namers(disk, x)
    <3> SUFFICES ASSUME NEW t \in Namers(disk, x) PROVE FALSE
      OBVIOUS
    <3>1. t[1] \in Listed(disk) /\ t[2] \in 1 .. Len(disk[t[1]].ents)
      BY DEF Namers
    <3>2. disk[t[1]].ents = <<>>
      BY <1>4, <1>5, <3>1
    <3> QED BY <3>1, <3>2
  <2>2. Namers(disk, x) = {}
    BY <2>1
  <2> QED BY <2>2, NoNames
<1>9. Orphaned(disk) = {}
  <2>1. Heads(disk) = {Root}
    BY <1>4, <1>5 DEF Heads
  <2> QED BY <2>1 DEF Orphaned
<1>10. CardOK(disk, OnCard(disk))
  <2>1. MovesOK(disk, {})
    BY DEF MovesOK, Moves
  <2>2. NamesOK(disk, {})
    BY <1>8 DEF NamesOK
  <2>3. OrphansOK(disk, {})
    BY <1>9 DEF OrphansOK
  <2>4. {} \in SUBSET Token
    OBVIOUS
  <2> QED BY <1>4, <1>6, <1>7, <2>1, <2>2, <2>3, <2>4 DEF CardOK
<1>11. lfs.gstate = {} /\ lfs.gdisk = {} /\ lfs.gdelta = {} /\ lfs \in Globals
  BY <1>1 DEF Globals
<1>12. GlobalOK /\ Known
  BY <1>7, <1>11 DEF GlobalOK, Known, Moves
<1>13. OpOK
  BY <1>1, <1>9, <1>12 DEF OpOK, Idle
<1>14. HandleOK
  <2>1. Follows(NoHandle, disk) /\ NoHandle.kind = "none"
    BY FollowsNone
  <2> QED BY <1>1, <2>1 DEF HandleOK
<1>15. OthersOK
  BY <1>1, <1>2 DEF OthersOK
<1> QED BY <1>10, <1>12, <1>13, <1>14, <1>15 DEF Inv

(* So does any step that changes nothing.                                  *)
LEMMA StutterInv ==
  ASSUME Inv, UNCHANGED vars
  PROVE  Inv'
<1>1. disk' = disk /\ lfs' = lfs /\ op' = op /\ result' = result /\ handle' = handle /\ calls' = calls
  BY DEF vars
<1>2. CardOK(disk', OnCard(disk'))
  BY <1>1 DEF Inv
<1>3. GlobalOK'
  BY <1>1 DEF Inv, GlobalOK
<1>4. OpOK'
  <2>1. OpOK
    BY DEF Inv
  <2> QED BY <1>1, <2>1 DEF OpOK, Known
<1>5. Follows(handle', disk') /\ (handle'.kind = "reg" => Moves(lfs'.gdisk) = {} \/ op'.at = "rename_delete")
  BY <1>1 DEF Inv, HandleOK
<1>6. OthersOK'
  BY <1>1 DEF Inv, OthersOK
<1> QED BY <1>2, <1>3, <1>4, <1>5, <1>6, InvIf

(* Every step keeps the invariant.                                         *)
LEMMA NextInv ==
  ASSUME Sure, Inv, [Next]_vars
  PROVE  Inv'
<1>1. CASE Demove
  BY <1>1, DemoveInv
<1>2. CASE DropOrphan
  BY <1>2, DropOrphanInv
<1>3. CASE Deorphaned
  BY <1>3, DeorphanedInv
<1>4. CASE Refuse
  BY <1>4, RefuseInv
<1>5. CASE Mkdir
  BY <1>5, MkdirInv
<1>6. CASE MkdirLink
  BY <1>6, MkdirLinkInv
<1>7. CASE MkdirEntry
  BY <1>7, MkdirEntryInv
<1>8. CASE CreateFile
  BY <1>8, CreateFileInv
<1>9. CASE SyncFile
  BY <1>9, SyncFileInv
<1>10. CASE Close
  BY <1>10, CloseInv
<1>11. CASE OpenDir
  BY <1>11, OpenDirInv
<1>12. CASE ReadDir
  BY <1>12, ReadDirInv
<1>13. CASE RemoveEntry
  BY <1>13, RemoveEntryInv
<1>14. CASE DropRemoved
  BY <1>14, DropRemovedInv
<1>15. CASE Rename
  BY <1>15, RenameInv
<1>16. CASE RenameDelete
  BY <1>16, RenameDeleteInv
<1>17. CASE PowerLoss
  BY <1>17, PowerLossInv
<1>18. CASE UNCHANGED vars
  BY <1>18, StutterInv
<1> QED
  BY <1>1, <1>2, <1>3, <1>4, <1>5, <1>6, <1>7, <1>8, <1>9, <1>10, <1>11, <1>12,
     <1>13, <1>14, <1>15, <1>16, <1>17, <1>18 DEF Next

(* The invariant holds of every state, power losses between any two        *)
(* commits included.                                                       *)
THEOREM Invariance ==
  ASSUME Sure
  PROVE  Spec => []Inv
<1>1. Init => Inv
  BY InitInv
<1>2. Inv /\ [Next]_vars => Inv'
  BY NextInv
<1> QED BY <1>1, <1>2, PTL DEF Spec

(* The invariant gives the types.                                          *)
LEMMA InvTyped ==
  ASSUME Inv
  PROVE  TypeOK
<1>1. /\ CardOK(disk, OnCard(disk)) /\ lfs \in Globals /\ OpOK /\ OthersOK
  BY DEF Inv, GlobalOK
<1>2. ASSUME NEW p \in Pair
      PROVE  /\ disk[p].ents \in Seq(Entry) /\ Len(disk[p].ents) <= Full
             /\ disk[p].tail \in Pair \cup {NoPair} /\ disk[p].split \in BOOLEAN
             /\ disk[p].delta \subseteq Token
  <2>1. disk \in Disks /\ Filled(disk)
    BY <1>1, CardIs
  <2> QED BY <2>1, DiskType DEF Filled
<1>3. op.at \in {"idle", "ready", "deorphan", "mkdir_link", "mkdir_entry",
                 "rename_delete", "drop"}
  BY <1>1 DEF OpOK
<1> QED BY <1>1, <1>2, <1>3 DEF TypeOK, OthersOK, Globals

(* The invariant puts the tree on the tail list.                           *)
LEMMA InvListed ==
  ASSUME Inv
  PROVE  TreeIsListed
<1>1. disk \in Disks /\ Threaded(disk)
  BY CardIs DEF Inv
<1>2. ASSUME NEW h \in Dirs PROVE Chain(disk, h) \subseteq Listed(disk)
  <2>1. h \in Listed(disk)
    BY DirsIs
  <2> QED BY <1>1, <2>1, ChainIsListed
<1> QED BY <1>1, <1>2 DEF TreeIsListed, Threaded, ListOK

(* Where a directory has a name, one of them has not been moved away.      *)
LEMMA HiddenIsNamed ==
  ASSUME NEW d, NEW g, CardOK(d, g), NEW h \in Pair, ~HasParent(d, g, h)
  PROVE  NameCount(d, h) = 0
<1>1. d \in Disks /\ Short(d) /\ MovesOK(d, g)
  BY CardIs DEF CardOK
<1>2. \A t \in Namers(d, h) : t \in g
  BY <1>1, HasParentIs
<1>3. Orphans \notin Slot
  BY DirTreeAssumption DEF Orphans, Slot
<1>4. \A t \in Namers(d, h) : t \in Moves(g) /\ Node(d, t) = h
  <2>1. Namers(d, h) \in SUBSET Slot
    BY NamesType
  <2> QED BY <1>2, <1>3, <2>1 DEF Moves, Namers, Node
<1>5. Namers(d, h) = {}
  <2> SUFFICES ASSUME NEW t \in Namers(d, h) PROVE FALSE
    OBVIOUS
  <2>1. NameCount(d, h) >= 2 /\ \A u \in Moves(g) : u = t
    BY <1>1, <1>4 DEF MovesOK
  <2>2. PICK u \in Namers(d, h) : u # t
    BY <2>1, TwoNames
  <2> QED BY <1>4, <2>1, <2>2
<1> QED BY <1>5, NoNames

(* The invariant has orphans flagged.                                      *)
LEMMA InvFlagged ==
  ASSUME Inv
  PROVE  OrphansAreFlagged
<1>1. PICK g : g = OnCard(disk)
  OBVIOUS
<1>2. CardOK(disk, g)
  BY <1>1 DEF Inv
<1>3. Heads(disk) \in SUBSET Pair
  BY <1>2, CardIs
<1>4. ASSUME NEW h \in Heads(disk) \ {Root}, ~HasParent(disk, g, h)
      PROVE  Empty(h) /\ Orphans \in g
  <2>1. NameCount(disk, h) = 0
    BY <1>2, <1>3, <1>4, HiddenIsNamed
  <2>2. h \in Orphaned(disk)
    BY <2>1 DEF Orphaned
  <2>3. Bare(disk, h) /\ Orphans \in g
    BY <1>2, <2>2 DEF CardOK, OrphansOK
  <2> QED BY <2>3 DEF Bare, Empty
<1> QED BY <1>1, <1>4 DEF OrphansAreFlagged

(* The invariant has the global state in lfs_t add up, also while          *)
(* lfs_mkdir holds a pair that it has not linked.                          *)
LEMMA InvSum ==
  ASSUME Inv
  PROVE  lfs.gdisk = Sum(disk, Listed(disk) \cup Held)
<1>1. /\ disk \in Disks /\ Listed(disk) \in SUBSET Pair /\ Heads(disk) \in SUBSET Listed(disk)
  BY CardIs DEF Inv
<1>2. CASE Held \subseteq Listed(disk) /\ Known
  <2>1. Listed(disk) \cup Held = Listed(disk)
    BY <1>2
  <2> QED BY <1>2, <2>1 DEF Known, OnCard
<1>3. CASE /\ Held = {op.dir} /\ op.dir \in Pair \ Listed(disk) /\ lfs.gdisk = {}
           /\ disk[op.dir].delta = OnCard(disk)
  <2>1. PICK q, P : q = op.dir /\ P = Listed(disk)
    OBVIOUS
  <2>2. P \in SUBSET Pair /\ q \in Pair \ P /\ disk[q].delta = Sum(disk, P)
    BY <1>1, <1>3, <2>1 DEF OnCard
  <2>3. Sum(disk, P \cup {q}) = Xor(Sum(disk, P), disk[q].delta)
    BY <1>1, <2>2, SumAdd
  <2>4. Sum(disk, P \cup {q}) = {}
    BY <2>2, <2>3 DEF Xor
  <2> QED BY <1>3, <2>1, <2>4
<1>4. OpOK
  BY DEF Inv
<1>5. CASE op.at \in {"idle", "ready", "deorphan", "drop", "rename_delete"}
  <2>1. Known
    BY <1>4, <1>5 DEF OpOK
  <2>2. Held = {}
    BY <1>5 DEF Held
  <2> QED BY <1>2, <2>1, <2>2
<1>6. CASE op.at \in {"mkdir_link", "mkdir_entry"}
  <2>1. Held = {op.dir}
    BY <1>6 DEF Held
  <2>2. CASE Known /\ Orphaned(disk) = {op.dir}
    <3>1. op.dir \in Listed(disk)
      BY <1>1, <2>2 DEF Orphaned
    <3> QED BY <1>2, <2>1, <2>2, <3>1
  <2>3. CASE /\ op \in Settling /\ op.dir \notin Listed(disk) /\ lfs.gdisk = {}
             /\ disk[op.dir].delta = OnCard(disk)
    <3>1. op.dir \in Pair
      BY <2>3 DEF Settling
    <3> QED BY <1>3, <2>1, <2>3, <3>1
  <2> QED BY <1>4, <1>6, <2>2, <2>3 DEF OpOK
<1> QED BY <1>4, <1>5, <1>6 DEF OpOK

(* The invariant has the global state known, and a state.                  *)
LEMMA InvKnown ==
  ASSUME Inv
  PROVE  GlobalStateIsKnown
<1>1. PICK d, g : d = disk /\ g = OnCard(disk)
  OBVIOUS
<1>2. CardOK(d, g)
  BY <1>1 DEF Inv
<1>3. d \in Disks /\ Short(d) /\ MovesOK(d, g) /\ Listed(d) \in SUBSET Pair
  BY <1>2, CardIs DEF CardOK
<1>4. ASSUME NEW t \in g \ {Orphans}, NEW u \in g \ {Orphans}
      PROVE  /\ t = u
             /\ t[1] \in Listed(d) /\ t[2] \in DOMAIN d[t[1]].ents
             /\ \E p \in Listed(d) : \E i \in DOMAIN d[p].ents :
                  <<p, i>> # t /\ d[p].ents[i].node = d[t[1]].ents[t[2]].node
  <2>1. /\ t[1] \in Listed(d) /\ t[2] \in 1 .. Len(d[t[1]].ents) /\ t = u
        /\ NameCount(d, Node(d, t)) >= 2
    BY <1>3 DEF MovesOK, Moves
  <2>2. \A p \in Pair : DOMAIN d[p].ents = 1 .. Len(d[p].ents)
    BY <1>3, DiskType
  <2>3. PICK x : x = Node(d, t)
    OBVIOUS
  <2>4. PICK r : r \in Namers(d, x) /\ r # t
    <3>1. NameCount(d, x) >= 2 /\ NameCount(d, x) \in Nat
      BY <2>1, <2>3, NamesType
    <3>2. Namers(d, x) # {}
      BY <3>1, NoNames
    <3>3. PICK v : v \in Namers(d, x)
      BY <3>2
    <3>4. PICK w : w \in Namers(d, x) /\ w # v
      BY <3>1, <3>3, TwoNames
    <3> QED BY <3>3, <3>4
  <2>5. /\ r \in Slot /\ r[1] \in Listed(d) /\ r[2] \in 1 .. Len(d[r[1]].ents)
        /\ d[r[1]].ents[r[2]].node = x
    BY <2>4 DEF Namers
  <2>6. PICK p, i : p = r[1] /\ i = r[2]
    OBVIOUS
  <2>7. <<p, i>> = r
    BY <2>5, <2>6 DEF Slot
  <2>8. p \in Listed(d) /\ i \in DOMAIN d[p].ents /\ <<p, i>> # t /\ d[p].ents[i].node = x
    BY <1>3, <2>2, <2>4, <2>5, <2>6, <2>7
  <2>9. x = d[t[1]].ents[t[2]].node
    BY <2>3 DEF Node
  <2> QED BY <1>3, <2>1, <2>2, <2>8, <2>9
<1>5. lfs.gdisk = Sum(disk, Listed(disk) \cup Held)
  BY InvSum
<1> QED BY <1>1, <1>4, <1>5 DEF GlobalStateIsKnown

(* The invariant has handles follow their files.                           *)
LEMMA InvFollows ==
  ASSUME Inv
  PROVE  HandleFollowsFile
<1>1. Follows(handle, disk) /\ disk \in Disks /\ Listed(disk) \in SUBSET Pair
  BY CardIs DEF Inv, HandleOK
<1>2. \A p \in Pair : DOMAIN disk[p].ents = 1 .. Len(disk[p].ents)
  BY <1>1, DiskType
<1> QED BY <1>1, <1>2 DEF HandleFollowsFile, Follows, Points

(* The variables are of their types.                                       *)
THEOREM TypeCorrect ==
  ASSUME Sure
  PROVE  Spec => []TypeOK
BY Invariance, InvTyped, PTL

(* Every directory that a path leads to is on the tail list with all its   *)
(* pairs, and no pair is on it twice: the allocator does not hand out a    *)
(* pair in use (lfs_fs_traverse, lfs_dir_drop, lfs_mkdir).                 *)
THEOREM TheTreeIsListed ==
  ASSUME Sure
  PROVE  Spec => []TreeIsListed
BY Invariance, InvListed, PTL

(* A directory that has lost its only name is empty, and a mount would     *)
(* know that there is one to drop, at every point where power may be lost  *)
(* (lfs_mkdir, lfs_remove, lfs_rename, lfs_fs_deorphan).                   *)
THEOREM AnOrphanIsFlagged ==
  ASSUME Sure
  PROVE  Spec => []OrphansAreFlagged
BY Invariance, InvFlagged, PTL

(* lfs_t knows the global state that a mount would add up, and that state  *)
(* records at most one move, of an entry that exists and whose file or     *)
(* directory has another (lfs_dir_commitattr of LFS_TYPE_MOVESTATE,        *)
(* lfs_dir_drop).                                                          *)
THEOREM TheGlobalStateIsKnown ==
  ASSUME Sure
  PROVE  Spec => []GlobalStateIsKnown
BY Invariance, InvKnown, PTL

(* The handle of an open file points at the file's entry through all       *)
(* commits that create, delete, move or split off entries around it (the   *)
(* end of lfs_dir_commit).                                                 *)
THEOREM AnOpenFileIsFollowed ==
  ASSUME Sure
  PROVE  Spec => []HandleFollowsFile
BY Invariance, InvFollows, PTL
==============================================================================
