------------------------- MODULE MetadataPairProofs --------------------------
(***************************************************************************)
(* Theorems about MetadataPair, for every size of a block and of a commit, *)
(* every range of revision counts and any number of commits.               *)
(*                                                                         *)
(* The argument has two layers.  LogInv: the mdir in memory is a prefix of *)
(* the log in its block, and the running commit asks for the opposite of   *)
(* what lies behind it.  No write disturbs that, so a fetch always finds a *)
(* directory.  KeepInv: what else can be read is the running commit or a   *)
(* failed one, and both hold a promised value; a compaction that failed is *)
(* not complete unless a unit of it is still in the program cache, where   *)
(* it stops every append.  That is why a commit that has been read back is *)
(* the newest.                                                             *)
(*                                                                         *)
(* The operators ending in "In" are those of the model with the number of  *)
(* units as a parameter.                                                   *)
(***************************************************************************)
EXTENDS MetadataPair, WellFoundedInduction, TLAPS

------------------------------------------------------------------------------
(* The scan of a block.  Every set of numbers that is not empty has a least *)
(* member: the induction the lemmas about its steps rest on.               *)
LEMMA LeastNatural ==
  ASSUME NEW T \in SUBSET Nat, T # {}
  PROVE  \E m \in T : \A j \in T : m <= j
<1>1. PICK m \in T : \A j \in T : ~(<<j, m>> \in OpToRel(<, Nat))
  BY Zenon, NatLessThanWellFounded, WFMin
<1>2. \A j \in T : <<j, m>> \in Nat \X Nat
  OBVIOUS
<1>3. \A j \in T : ~(j < m)
  BY <1>1, <1>2 DEF OpToRel
<1> QED BY <1>3

(* Complete, Scan and what it steps through.                               *)
CompleteIn(blk, u, n) ==
  LET c == blk[u].commit IN
  /\ c # Garbage /\ blk[u].part = 1
  /\ u + c.of - 1 <= n
  /\ \A i \in 1 .. c.of : blk[u + i - 1].commit = c /\ blk[u + i - 1].part = i
  /\ c.rev = IF u = 1 THEN blk[1].rev ELSE NoRev

First == Seen(0, 1, "none")
FollowsIn(blk, s, n) ==
  /\ s.off < n /\ blk[s.off + 1].bit = s.expect
  /\ CompleteIn(blk, s.off + 1, n)
OnwardIn(blk, s, n) ==
  LET c == blk[s.off + 1].commit IN
  IF FollowsIn(blk, s, n) THEN Seen(s.off + c.of, c.next, c.val) ELSE s

IsScan(g, blk, n) ==
  g = [k \in 0 .. n |-> IF k = 0 THEN First ELSE OnwardIn(blk, g[k - 1], n)]
Steps(blk, n) == CHOOSE g : IsScan(g, blk, n)
ScanIn(blk, n) == Steps(blk, n)[n]

(* The scan of the model, with its parameter.                              *)
LEMMA ScanIs ==
  ASSUME NEW blk PROVE Scan(blk) = ScanIn(blk, Units)
BY DEF Scan, ScanIn, Steps, IsScan, First, Onward, OnwardIn, Follows, FollowsIn,
       Complete, CompleteIn, Units

(* The states of a scan are defined, step by step.                         *)
LEMMA ScanExists ==
  ASSUME NEW blk, NEW p, NEW n \in Nat
  PROVE  \E g : g = [k \in 0 .. n |-> IF k = 0 THEN First ELSE OnwardIn(blk, g[k - 1], p)]
<1> DEFINE P(g, m) == g = [k \in 0 .. m |-> IF k = 0 THEN First ELSE OnwardIn(blk, g[k - 1], p)]
           T == {m \in Nat : ~ \E g : P(g, m)}
<1> SUFFICES ASSUME T # {} PROVE FALSE
  OBVIOUS
<1>1. PICK m \in T : \A j \in T : m <= j
  <2>1. T \in SUBSET Nat
    OBVIOUS
  <2> HIDE DEF T
  <2> QED BY <2>1, LeastNatural
<1>2. m \in Nat /\ ~ \E g : P(g, m)
  OBVIOUS
<1>3. CASE m = 0
  <2> DEFINE g == [k \in 0 .. 0 |-> First]
  <2>1. g = [k \in 0 .. 0 |-> IF k = 0 THEN First ELSE OnwardIn(blk, g[k - 1], p)]
    OBVIOUS
  <2>2. P(g, m)
    BY <1>3, <2>1
  <2> QED BY <1>2, <2>2
<1>4. CASE m # 0
  <2>0. m - 1 \in Nat /\ ~(m <= m - 1)
    BY <1>2, <1>4
  <2>1. m - 1 \notin T
    <3> HIDE DEF T
    <3> QED BY <1>1, <2>0
  <2>2. PICK h : P(h, m - 1)
    BY <2>0, <2>1
  <2> DEFINE g == [k \in 0 .. m |-> IF k = m THEN OnwardIn(blk, h[m - 1], p) ELSE h[k]]
  <2>3. ASSUME NEW k \in 0 .. m
        PROVE  g[k] = IF k = 0 THEN First ELSE OnwardIn(blk, g[k - 1], p)
    <3>1. CASE k = m
      BY <1>2, <1>4, <3>1
    <3>2. CASE k # m
      <4>1. k \in 0 .. m - 1 /\ g[k] = h[k] /\ (k # 0 => g[k - 1] = h[k - 1])
        BY <1>2, <3>2
      <4> QED BY <2>2, <4>1
    <3> QED BY <3>1, <3>2
  <2>4. P(g, m)
    <3>1. g = [k \in 0 .. m |-> g[k]]
      OBVIOUS
    <3> HIDE DEF g
    <3> QED BY <2>3, <3>1
  <2> QED BY <1>2, <2>4
<1> QED BY <1>3, <1>4

(* A scan starts at First and takes one step after the other.              *)
LEMMA ScanSteps ==
  ASSUME NEW blk, NEW n \in Nat
  PROVE  /\ Steps(blk, n)[0] = First
         /\ \A k \in 1 .. n : Steps(blk, n)[k] = OnwardIn(blk, Steps(blk, n)[k - 1], n)
<1>1. IsScan(Steps(blk, n), blk, n)
  BY ScanExists DEF Steps, IsScan
<1> DEFINE g == Steps(blk, n)
<1>2. g = [k \in 0 .. n |-> IF k = 0 THEN First ELSE OnwardIn(blk, g[k - 1], n)]
  BY <1>1 DEF IsScan
<1> HIDE DEF g
<1>3. g[0] = First /\ \A k \in 1 .. n : g[k] = OnwardIn(blk, g[k - 1], n)
  BY <1>2
<1> QED BY <1>3 DEF g

(* The commits of a block are well formed.                                 *)
Sound(blk, n) ==
  \A u \in 1 .. n : LET c == blk[u].commit IN
    c # Garbage => c.of \in 1 .. n /\ c.next \in Bit /\ c.val \in Value

(* The states of a scan.                                                   *)
IsSeen(s, n) ==
  /\ s = Seen(s.off, s.expect, s.val)
  /\ s.off \in 0 .. n /\ s.expect \in Bit
  /\ s.off > 0 => s.val \in Value

(* The fields of a state of a scan.                                        *)
LEMMA SeenIs ==
  ASSUME NEW o, NEW b, NEW v
  PROVE  Seen(o, b, v).off = o /\ Seen(o, b, v).expect = b /\ Seen(o, b, v).val = v
BY DEF Seen

(* A step stays, or goes past the commit that follows.                     *)
LEMMA OnwardType ==
  ASSUME NEW blk, NEW n \in Nat, Sound(blk, n), NEW s, IsSeen(s, n),
         NEW t, t = OnwardIn(blk, s, n)
  PROVE  /\ IsSeen(t, n)
         /\ ~FollowsIn(blk, s, n) => t = s
         /\ FollowsIn(blk, s, n) =>
              LET c == blk[s.off + 1].commit IN
              /\ t = Seen(s.off + c.of, c.next, c.val)
              /\ c.of \in 1 .. n /\ s.off + c.of <= n
<1>0. /\ s = Seen(s.off, s.expect, s.val)
      /\ s.off \in 0 .. n /\ s.expect \in Bit
      /\ s.off > 0 => s.val \in Value
  BY DEF IsSeen
<1>1. CASE ~FollowsIn(blk, s, n)
  <2>1. t = s
    BY <1>1 DEF OnwardIn
  <2> QED BY <1>1, <2>1
<1>2. CASE FollowsIn(blk, s, n)
  <2> DEFINE c == blk[s.off + 1].commit
  <2>1. t = Seen(s.off + c.of, c.next, c.val)
    BY <1>2 DEF OnwardIn
  <2>2. s.off + 1 \in 1 .. n /\ c # Garbage /\ s.off + 1 + c.of - 1 <= n
    BY <1>0, <1>2 DEF FollowsIn, CompleteIn
  <2>3. c.of \in 1 .. n /\ c.next \in Bit /\ c.val \in Value
    BY <2>2 DEF Sound
  <2> HIDE DEF c
  <2>4. t.off = s.off + c.of /\ t.expect = c.next /\ t.val = c.val
    BY <2>1, SeenIs
  <2>5. s.off + c.of \in 0 .. n /\ s.off + c.of <= n
    BY <1>0, <2>2, <2>3
  <2>6. IsSeen(t, n)
    BY <2>1, <2>3, <2>4, <2>5 DEF IsSeen
  <2> QED BY <1>2, <2>1, <2>3, <2>5, <2>6 DEF c
<1> QED BY <1>1, <1>2

(* The first state is a state of a scan.                                   *)
LEMMA FirstType ==
  ASSUME NEW n \in Nat
  PROVE  IsSeen(First, n) /\ First.off = 0 /\ First.expect = 1
<1>1. First.off = 0 /\ First.expect = 1 /\ First.val = "none"
  BY SeenIs DEF First
<1> QED BY <1>1 DEF IsSeen, Bit, First

(* A scan that has taken k steps and goes on has passed at least k units.  *)
LEMMA StepsType ==
  ASSUME NEW blk, NEW n \in Nat, Sound(blk, n), NEW k \in 0 .. n
  PROVE  /\ IsSeen(Steps(blk, n)[k], n)
         /\ FollowsIn(blk, Steps(blk, n)[k], n) => Steps(blk, n)[k].off >= k
<1> DEFINE S == Steps(blk, n)
           P(j) == IsSeen(S[j], n) /\ (FollowsIn(blk, S[j], n) => S[j].off >= j)
           T == {j \in 0 .. n : ~P(j)}
<1> SUFFICES ASSUME T # {} PROVE FALSE
  OBVIOUS
<1>1. PICK m \in T : \A j \in T : m <= j
  <2>1. T \in SUBSET Nat
    OBVIOUS
  <2> HIDE DEF T
  <2> QED BY <2>1, LeastNatural
<1>2. m \in 0 .. n /\ ~P(m)
  OBVIOUS
<1>3. m # 0
  <2>1. S[0] = First /\ S[0].off = 0
    BY ScanSteps, FirstType
  <2>2. P(0)
    BY <2>1, FirstType
  <2> QED BY <1>2, <2>2
<1>4. m - 1 \in 0 .. n /\ ~(m <= m - 1) /\ m \in 1 .. n
  BY <1>2, <1>3
<1>5. m - 1 \notin T
  <2> HIDE DEF T
  <2> QED BY <1>1, <1>4
<1>6. P(m - 1)
  BY <1>4, <1>5
<1>7. S[m] = OnwardIn(blk, S[m - 1], n)
  BY <1>4, ScanSteps
<1> HIDE DEF S
<1>8. CASE ~FollowsIn(blk, S[m - 1], n)
  <2>1. S[m] = S[m - 1]
    BY <1>6, <1>7, <1>8, OnwardType
  <2> QED BY <1>2, <1>6, <1>8, <2>1
<1>9. CASE FollowsIn(blk, S[m - 1], n)
  <2> DEFINE c == blk[S[m - 1].off + 1].commit
  <2>1. /\ IsSeen(S[m], n) /\ S[m] = Seen(S[m - 1].off + c.of, c.next, c.val)
        /\ c.of \in 1 .. n
    BY <1>6, <1>7, <1>9, OnwardType
  <2> HIDE DEF c
  <2>2. S[m].off = S[m - 1].off + c.of
    BY <2>1, SeenIs
  <2>3. S[m - 1].off \in 0 .. n /\ S[m - 1].off >= m - 1
    BY <1>6, <1>9 DEF IsSeen
  <2>4. S[m].off >= m
    BY <1>4, <2>1, <2>2, <2>3
  <2> QED BY <1>2, <2>1, <2>4
<1> QED BY <1>8, <1>9

(* So a scan ends within n steps.                                          *)
LEMMA ScanEnds ==
  ASSUME NEW blk, NEW n \in Nat, Sound(blk, n)
  PROVE  IsSeen(ScanIn(blk, n), n) /\ ~FollowsIn(blk, ScanIn(blk, n), n)
BY StepsType DEF ScanIn, FollowsIn, IsSeen

(* It never goes back, and once it has ended nothing changes.              *)
LEMMA StepsGrow ==
  ASSUME NEW blk, NEW n \in Nat, Sound(blk, n), NEW k \in 0 .. n, NEW l \in k .. n
  PROVE  /\ Steps(blk, n)[k].off <= Steps(blk, n)[l].off
         /\ ~FollowsIn(blk, Steps(blk, n)[k], n) => Steps(blk, n)[l] = Steps(blk, n)[k]
<1> DEFINE S == Steps(blk, n)
           P(j) == /\ S[k].off <= S[j].off
                   /\ ~FollowsIn(blk, S[k], n) => S[j] = S[k]
           T == {j \in k .. n : ~P(j)}
<1> SUFFICES ASSUME T # {} PROVE FALSE
  OBVIOUS
<1>1. PICK m \in T : \A j \in T : m <= j
  <2>1. T \in SUBSET Nat
    OBVIOUS
  <2> HIDE DEF T
  <2> QED BY <2>1, LeastNatural
<1>2. m \in k .. n /\ ~P(m)
  OBVIOUS
<1>3. m # k
  <2>1. S[k].off \in 0 .. n
    BY StepsType DEF IsSeen
  <2> HIDE DEF S
  <2> QED BY <1>2, <2>1
<1>4. m - 1 \in k .. n /\ ~(m <= m - 1) /\ m \in 1 .. n /\ m - 1 \in 0 .. n
  BY <1>2, <1>3
<1>5. m - 1 \notin T
  <2> HIDE DEF T
  <2> QED BY <1>1, <1>4
<1>6. P(m - 1)
  BY <1>4, <1>5
<1>7. S[m] = OnwardIn(blk, S[m - 1], n)
  BY <1>4, ScanSteps
<1>8. IsSeen(S[m - 1], n) /\ IsSeen(S[k], n)
  BY <1>4, StepsType
<1> HIDE DEF S
<1>9. CASE ~FollowsIn(blk, S[m - 1], n)
  <2>1. S[m] = S[m - 1]
    BY <1>7, <1>8, <1>9, OnwardType
  <2> QED BY <1>2, <1>6, <2>1
<1>10. CASE FollowsIn(blk, S[m - 1], n)
  <2> DEFINE c == blk[S[m - 1].off + 1].commit
  <2>1. S[m] = Seen(S[m - 1].off + c.of, c.next, c.val) /\ c.of \in 1 .. n
    BY <1>7, <1>8, <1>10, OnwardType
  <2> HIDE DEF c
  <2>2. S[m].off = S[m - 1].off + c.of
    BY <2>1, SeenIs
  <2>3. S[m - 1].off \in 0 .. n /\ S[k].off \in 0 .. n
    BY <1>8 DEF IsSeen
  <2>4. S[k].off <= S[m].off
    BY <1>6, <2>1, <2>2, <2>3
  <2>5. FollowsIn(blk, S[k], n)
    BY <1>6, <1>10
  <2> QED BY <1>2, <2>4, <2>5
<1> QED BY <1>9, <1>10

------------------------------------------------------------------------------
(* A scan of the block has found o units of complete commits, the last     *)
(* one with value v, which asks for bit b.                                 *)
Prefix(blk, n, o, b, v) == \E k \in 0 .. n : Steps(blk, n)[k] = Seen(o, b, v)

(* Every scan has found nothing at first.                                  *)
LEMMA PrefixFirst ==
  ASSUME NEW blk, NEW n \in Nat
  PROVE  Prefix(blk, n, 0, 1, "none")
BY ScanSteps DEF Prefix, First

(* A scan that has found a prefix of the log goes on from there or ends    *)
(* there.                                                                  *)
LEMMA PrefixType ==
  ASSUME NEW blk, NEW n \in Nat, Sound(blk, n), NEW o, NEW b, NEW v,
         Prefix(blk, n, o, b, v)
  PROVE  /\ IsSeen(Seen(o, b, v), n)
         /\ o \in 0 .. n /\ b \in Bit /\ (o > 0 => v \in Value)
         /\ FollowsIn(blk, Seen(o, b, v), n) \/ ScanIn(blk, n) = Seen(o, b, v)
         /\ ScanIn(blk, n).off >= o
<1>1. PICK k \in 0 .. n : Steps(blk, n)[k] = Seen(o, b, v)
  BY DEF Prefix
<1>2. IsSeen(Seen(o, b, v), n)
  BY <1>1, StepsType
<1>3. o \in 0 .. n /\ b \in Bit /\ (o > 0 => v \in Value)
  BY <1>2, SeenIs DEF IsSeen
<1>4. n \in k .. n
  OBVIOUS
<1>5. /\ Steps(blk, n)[k].off <= ScanIn(blk, n).off
      /\ ~FollowsIn(blk, Steps(blk, n)[k], n) => ScanIn(blk, n) = Steps(blk, n)[k]
  BY <1>4, StepsGrow DEF ScanIn
<1>6. IsSeen(ScanIn(blk, n), n)
  BY ScanEnds
<1>7. ScanIn(blk, n).off >= o
  BY <1>1, <1>3, <1>5, <1>6, SeenIs DEF IsSeen
<1> QED BY <1>1, <1>2, <1>3, <1>5, <1>7

(* What a scan returns is a prefix of the log that no commit follows.      *)
LEMMA ScanIsPrefix ==
  ASSUME NEW blk, NEW n \in Nat, Sound(blk, n), NEW s, s = ScanIn(blk, n)
  PROVE  /\ Prefix(blk, n, s.off, s.expect, s.val)
         /\ s.off \in 0 .. n /\ s.expect \in Bit /\ (s.off > 0 => s.val \in Value)
         /\ ~FollowsIn(blk, Seen(s.off, s.expect, s.val), n)
<1>1. IsSeen(s, n) /\ ~FollowsIn(blk, s, n)
  BY ScanEnds
<1>2. /\ s = Seen(s.off, s.expect, s.val)
      /\ s.off \in 0 .. n /\ s.expect \in Bit
      /\ s.off > 0 => s.val \in Value
  BY <1>1 DEF IsSeen
<1>3. Steps(blk, n)[n] = s
  BY DEF ScanIn
<1>4. n \in 0 .. n
  OBVIOUS
<1>5. Prefix(blk, n, s.off, s.expect, s.val)
  BY <1>2, <1>3, <1>4 DEF Prefix
<1>6. ~FollowsIn(blk, Seen(s.off, s.expect, s.val), n)
  BY Zenon, <1>1, <1>2
<1> QED BY <1>2, <1>5, <1>6

(* A complete commit that follows belongs to the log.                      *)
LEMMA Extend ==
  ASSUME NEW blk, NEW n \in Nat, Sound(blk, n), NEW o, NEW b, NEW v,
         Prefix(blk, n, o, b, v), FollowsIn(blk, Seen(o, b, v), n),
         NEW c, c = blk[o + 1].commit
  PROVE  /\ Prefix(blk, n, o + c.of, c.next, c.val)
         /\ c.of \in 1 .. n /\ o + c.of <= n /\ c.next \in Bit /\ c.val \in Value
<1>1. PICK k \in 0 .. n : Steps(blk, n)[k] = Seen(o, b, v)
  BY DEF Prefix
<1>2. Seen(o, b, v).off = o /\ o \in 0 .. n /\ o < n /\ o >= k
  BY <1>1, StepsType, SeenIs, PrefixType DEF FollowsIn
<1>3. k + 1 \in 1 .. n
  BY <1>2
<1> DEFINE t == Steps(blk, n)[k + 1]
<1>4. t = OnwardIn(blk, Seen(o, b, v), n)
  BY <1>1, <1>3, ScanSteps
<1>5. IsSeen(Seen(o, b, v), n)
  BY PrefixType
<1> HIDE DEF t
<1>6. /\ IsSeen(t, n)
      /\ t = Seen(o + c.of, c.next, c.val)
      /\ c.of \in 1 .. n /\ o + c.of <= n
  BY <1>2, <1>4, <1>5, OnwardType
<1>7. k + 1 \in 0 .. n
  BY <1>3
<1>8. Prefix(blk, n, o + c.of, c.next, c.val)
  BY <1>6, <1>7 DEF Prefix, t
<1>9. c.next \in Bit /\ c.val \in Value
  BY <1>8, <1>6, PrefixType, <1>2
<1> QED BY <1>6, <1>8, <1>9

(* A commit is complete or not whatever lies behind it.                    *)
LEMMA SameCommit ==
  ASSUME NEW blk, NEW blk2, NEW n \in Nat, NEW s, NEW o \in 0 .. n,
         IsSeen(s, n), Sound(blk, n), FollowsIn(blk, s, n),
         s.off + blk[s.off + 1].commit.of <= o,
         \A u \in 1 .. o : blk2[u] = blk[u]
  PROVE  FollowsIn(blk2, s, n) /\ blk2[s.off + 1] = blk[s.off + 1]
<1> DEFINE c == blk[s.off + 1].commit
<1>1. s.off \in 0 .. n
  BY DEF IsSeen
<1>2. s.off + 1 \in 1 .. n /\ c # Garbage
  BY <1>1 DEF FollowsIn, CompleteIn
<1>3. c.of \in 1 .. n
  BY <1>2 DEF Sound
<1>4. s.off + 1 \in 1 .. o /\ 1 \in 1 .. o
  BY <1>1, <1>3
<1>5. blk2[s.off + 1] = blk[s.off + 1] /\ blk2[1] = blk[1]
  BY <1>4
<1>6. \A i \in 1 .. c.of : s.off + 1 + i - 1 \in 1 .. o
  BY <1>1, <1>3
<1>7. CompleteIn(blk2, s.off + 1, n)
  <2>1. CompleteIn(blk, s.off + 1, n)
    BY DEF FollowsIn
  <2> QED BY <2>1, <1>5, <1>6 DEF CompleteIn
<1> QED BY <1>5, <1>7 DEF FollowsIn

(* What lies behind the log changes nothing about it.                      *)
LEMMA Stable ==
  ASSUME NEW blk, NEW blk2, NEW n \in Nat, Sound(blk, n), Sound(blk2, n),
         NEW o, NEW b, NEW v, Prefix(blk, n, o, b, v),
         \A u \in 1 .. o : blk2[u] = blk[u]
  PROVE  Prefix(blk2, n, o, b, v)
<1> DEFINE S == Steps(blk, n)
           R == Steps(blk2, n)
           K == {k \in 0 .. n : S[k] = Seen(o, b, v)}
<1>1. K \in SUBSET Nat /\ K # {}
  BY DEF Prefix
<1>2. PICK k \in K : \A j \in K : k <= j
  <2> HIDE DEF K
  <2> QED BY <1>1, LeastNatural
<1>3. k \in 0 .. n /\ S[k] = Seen(o, b, v) /\ o \in 0 .. n
  BY PrefixType
<1>4. ASSUME NEW j \in 0 .. k, j # k
      PROVE  FollowsIn(blk, S[j], n)
  <2>1. j \in 0 .. n /\ k \in j .. n /\ ~(k <= j)
    BY <1>3, <1>4
  <2>2. j \notin K
    <3> HIDE DEF K
    <3> QED BY <1>2, <2>1
  <2>3. S[j] # S[k]
    BY <1>3, <2>1, <2>2
  <2> QED BY <2>1, <2>3, StepsGrow
<1> DEFINE P(j) == R[j] = S[j]
           T == {j \in 0 .. k : ~P(j)}
<1>5. T = {}
  <2> SUFFICES ASSUME T # {} PROVE FALSE
    OBVIOUS
  <2>1. PICK m \in T : \A j \in T : m <= j
    <3>1. T \in SUBSET Nat
      BY <1>3
    <3> HIDE DEF T
    <3> QED BY <3>1, LeastNatural
  <2>2. m \in 0 .. k /\ ~P(m)
    OBVIOUS
  <2>3. m # 0
    <3>1. P(0)
      BY ScanSteps
    <3> QED BY <2>2, <3>1
  <2>4. /\ m - 1 \in 0 .. k /\ m - 1 # k /\ ~(m <= m - 1) /\ m \in 1 .. n
        /\ m - 1 \in 0 .. n /\ m \in 0 .. n /\ k \in m .. n
    BY <1>3, <2>2, <2>3
  <2>5. m - 1 \notin T
    <3> HIDE DEF T
    <3> QED BY <2>1, <2>4
  <2>6. R[m - 1] = S[m - 1]
    BY <2>4, <2>5
  <2>7. FollowsIn(blk, S[m - 1], n)
    <3> HIDE DEF S
    <3> QED BY <1>4, <2>4
  <2>8. S[m] = OnwardIn(blk, S[m - 1], n) /\ R[m] = OnwardIn(blk2, S[m - 1], n)
    BY <2>4, <2>6, ScanSteps
  <2>9. IsSeen(S[m - 1], n) /\ S[m].off <= S[k].off
    BY <2>4, StepsType, StepsGrow
  <2> HIDE DEF S, R
  <2>10. PICK s : s = S[m - 1]
    OBVIOUS
  <2>11. /\ FollowsIn(blk, s, n) /\ IsSeen(s, n)
         /\ S[m] = OnwardIn(blk, s, n) /\ R[m] = OnwardIn(blk2, s, n)
    BY <2>7, <2>8, <2>9, <2>10
  <2> DEFINE c == blk[s.off + 1].commit
  <2>12. S[m] = Seen(s.off + c.of, c.next, c.val)
    BY <2>11, OnwardType
  <2>13. s.off + c.of <= o
    <3> HIDE DEF c
    <3> QED BY <2>9, <2>12, <1>3, SeenIs
  <2>14. FollowsIn(blk2, s, n) /\ blk2[s.off + 1] = blk[s.off + 1]
    BY <2>11, <2>13, <1>3, SameCommit
  <2>15. R[m] = S[m]
    BY <2>11, <2>14 DEF OnwardIn
  <2> QED BY <2>2, <2>15
<1>6. R[k] = Seen(o, b, v)
  <2>1. k \in 0 .. k /\ k \notin T
    BY <1>3, <1>5
  <2> QED BY <2>1, <1>3
<1> QED BY <1>3, <1>6 DEF Prefix

------------------------------------------------------------------------------
(* Revision counts on their circle.                                        *)
LEMMA Circle ==
  ASSUME NEW r \in Rev, NEW s \in Rev
  PROVE  (r - s + Revs) % Revs = IF s <= r THEN r - s ELSE r - s + Revs
BY MetadataPairAssumption DEF Rev

(* Revision counts wrap around.                                            *)
LEMMA Successor ==
  ASSUME NEW r \in Rev
  PROVE  /\ (r + 1) % Revs = IF r + 1 = Revs THEN 0 ELSE r + 1
         /\ (r + 1) % Revs \in Rev
<1>1. (r + 1) % Revs = IF r + 1 = Revs THEN 0 ELSE r + 1
  BY MetadataPairAssumption DEF Rev
<1> QED BY <1>1, MetadataPairAssumption DEF Rev

(* lfs_dir_alloc takes the revision it finds or the next one.              *)
LEMMA RoundedUp ==
  ASSUME NEW r \in Rev
  PROVE  /\ (r + (r % 2)) % Revs \in Rev
         /\ \/ (r + (r % 2)) % Revs = r
            \/ (r + (r % 2)) % Revs = (r + 1) % Revs
<1>1. (r % 2) \in {0, 1}
  BY DEF Rev
<1>2. CASE (r % 2) = 0
  <2>1. r % Revs = r
    BY MetadataPairAssumption DEF Rev
  <2> QED BY <1>2, <2>1 DEF Rev
<1>3. CASE (r % 2) = 1
  BY <1>3, Successor
<1> QED BY <1>1, <1>2, <1>3

(* The revision of block r was taken one or two before s.                  *)
Older(r, s) == (s - r + Revs) % Revs \in {1, 2}

(* lfs_scmp orders revisions that are one or two apart.                    *)
LEMMA OlderIsNotNewer ==
  ASSUME NEW r \in Rev, NEW s \in Rev, Older(r, s)
  PROVE  Newer(s, r) /\ ~Newer(r, s)
<1>1. (s - r + Revs) % Revs \in {1, 2}
  BY DEF Older
<1>2. (r - s + Revs) % Revs \in {Revs - 1, Revs - 2}
  <2>1. (s - r + Revs) % Revs = IF r <= s THEN s - r ELSE s - r + Revs
    BY Circle
  <2>2. (r - s + Revs) % Revs = IF s <= r THEN r - s ELSE r - s + Revs
    BY Circle
  <2> QED BY <1>1, <2>1, <2>2, MetadataPairAssumption DEF Rev
<1>3. Revs \div 2 >= 3 /\ Revs - 2 > (Revs \div 2) - 1
  BY MetadataPairAssumption
<1> QED BY <1>1, <1>2, <1>3, MetadataPairAssumption DEF Newer

(* A compaction takes a revision newer than the one of the other block.    *)
LEMMA SuccessorIsNewer ==
  ASSUME NEW r \in Rev
  PROVE  Older(r, (r + 1) % Revs)
<1> DEFINE s == (r + 1) % Revs
<1>1. s = (IF r + 1 = Revs THEN 0 ELSE r + 1) /\ s \in Rev
  BY Successor
<1> HIDE DEF s
<1>2. (s - r + Revs) % Revs = IF r <= s THEN s - r ELSE s - r + Revs
  BY <1>1, Circle
<1>3. (s - r + Revs) % Revs = 1
  BY <1>1, <1>2, MetadataPairAssumption DEF Rev
<1> QED BY <1>3 DEF Older, s

(* So does the first compaction of a pair just allocated, whose revision   *)
(* was rounded up.                                                         *)
LEMMA SecondIsNewer ==
  ASSUME NEW r \in Rev, NEW s \in Rev, s = r \/ s = (r + 1) % Revs
  PROVE  Older(r, (s + 1) % Revs)
<1>1. CASE s = r
  BY <1>1, SuccessorIsNewer
<1>2. CASE s = (r + 1) % Revs
  <2>1. s = IF r + 1 = Revs THEN 0 ELSE r + 1
    BY <1>2, Successor
  <2> DEFINE t == (s + 1) % Revs
  <2>2. t = (IF s + 1 = Revs THEN 0 ELSE s + 1) /\ t \in Rev
    BY Successor
  <2> HIDE DEF t
  <2>3. (t - r + Revs) % Revs = IF r <= t THEN t - r ELSE t - r + Revs
    BY <2>2, Circle
  <2>4. (t - r + Revs) % Revs = 2
    BY <2>1, <2>2, <2>3, MetadataPairAssumption DEF Rev
  <2> QED BY <2>4 DEF Older, t
<1> QED BY <1>1, <1>2

(* A complete commit with the wanted bit b starts after o units.           *)
Comes(blk, n, o, b) ==
  o < n /\ blk[o + 1].bit = b /\ CompleteIn(blk, o + 1, n)

(* What a scan follows, without its value.                                 *)
LEMMA ComesIs ==
  ASSUME NEW blk, NEW n, NEW o, NEW b, NEW v
  PROVE  FollowsIn(blk, Seen(o, b, v), n) <=> Comes(blk, n, o, b)
BY SeenIs DEF FollowsIn, Comes

Live(blk, n) == Comes(blk, n, 0, 1)

(* At most one commit comes after o units, and its value is in P.          *)
Tail(blk, n, o, b, P) ==
  Comes(blk, n, o, b) =>
    LET c == blk[o + 1].commit IN
    c.val \in P /\ (o + c.of < n => blk[o + c.of + 1].bit # c.next)

(* A scan ends behind the one commit that may come, and returns a value in *)
(* P.                                                                      *)
LEMMA TailScan ==
  ASSUME NEW blk, NEW n \in Nat, Sound(blk, n), NEW o, NEW b, NEW v, NEW P,
         Prefix(blk, n, o, b, v), Tail(blk, n, o, b, P), o > 0 => v \in P,
         NEW s, s = ScanIn(blk, n)
  PROVE  /\ s.off > 0 => s.val \in P
         /\ ~Comes(blk, n, o, b) => s = Seen(o, b, v)
         /\ Comes(blk, n, o, b) => s.off > 0
<1>1. CASE ~Comes(blk, n, o, b)
  <2>1. s = Seen(o, b, v)
    BY <1>1, PrefixType, ComesIs
  <2> QED BY <1>1, <2>1, SeenIs
<1>2. CASE Comes(blk, n, o, b)
  <2> DEFINE c == blk[o + 1].commit
  <2>1. /\ Prefix(blk, n, o + c.of, c.next, c.val)
        /\ c.of \in 1 .. n /\ o + c.of <= n
    BY <1>2, ComesIs, Extend
  <2>2. c.val \in P /\ (o + c.of < n => blk[o + c.of + 1].bit # c.next)
    BY <1>2 DEF Tail
  <2> HIDE DEF c
  <2>3. ~Comes(blk, n, o + c.of, c.next)
    BY <2>2 DEF Comes
  <2>4. s = Seen(o + c.of, c.next, c.val)
    BY <2>1, <2>3, PrefixType, ComesIs
  <2>5. s.off = o + c.of /\ s.val = c.val
    BY <2>4, SeenIs
  <2>6. o \in 0 .. n
    BY PrefixType
  <2>7. s.off > 0
    BY <2>1, <2>5, <2>6
  <2> QED BY <1>2, <2>2, <2>5, <2>7
<1> QED BY <1>1, <1>2

(* A scan finds something if the first commit is complete.                 *)
LEMMA LiveScan ==
  ASSUME NEW blk, NEW n \in Nat, Sound(blk, n)
  PROVE  ScanIn(blk, n).off > 0 <=> Live(blk, n)
<1>1. Prefix(blk, n, 0, 1, "none")
  BY PrefixFirst
<1>2. CASE ~Live(blk, n)
  <2>1. ScanIn(blk, n) = Seen(0, 1, "none")
    BY <1>1, <1>2, PrefixType, ComesIs DEF Live
  <2>2. ScanIn(blk, n).off = 0
    BY <2>1, SeenIs
  <2> QED BY <1>2, <2>2
<1>3. CASE Live(blk, n)
  <2> DEFINE c == blk[0 + 1].commit
  <2>1. Prefix(blk, n, 0 + c.of, c.next, c.val) /\ c.of \in 1 .. n
    BY <1>1, <1>3, ComesIs, Extend DEF Live
  <2> HIDE DEF c
  <2>2. ScanIn(blk, n).off >= 0 + c.of
    BY <2>1, PrefixType
  <2>3. ScanIn(blk, n).off \in 0 .. n
    BY ScanIsPrefix
  <2> QED BY <1>3, <2>1, <2>2, <2>3
<1> QED BY <1>2, <1>3

------------------------------------------------------------------------------
MdirIn(d, b, n) ==
  LET s == ScanIn(d[b], n) IN
  [block |-> b, rev |-> d[b][1].rev, off |-> s.off, bit |-> s.expect,
   val |-> s.val,
   erased |-> s.off > 0 /\ s.off < n /\ d[b][s.off + 1].bit # s.expect]
FetchIn(d, n) ==
  LET first == IF Newer(d[1][1].rev, d[0][1].rev) THEN 1 ELSE 0
  IN IF MdirIn(d, first, n).off > 0 THEN MdirIn(d, first, n)
                                    ELSE MdirIn(d, 1 - first, n)

(* The mdir of the model, with its parameter.                              *)
LEMMA MdirIs ==
  ASSUME NEW d, NEW b PROVE Mdir(d, b) = MdirIn(d, b, Units)
BY ScanIs DEF Mdir, MdirIn, ErasedAfter

(* The fetch of the model, with its parameter.                             *)
LEMMA FetchIs ==
  ASSUME NEW d PROVE Fetch(d) = FetchIn(d, Units)
BY MdirIs DEF Fetch, FetchIn

(* The fields of the mdir read from one block.                             *)
LEMMA MdirType ==
  ASSUME NEW d, NEW b, NEW n, NEW m, m = MdirIn(d, b, n),
         NEW s, s = ScanIn(d[b], n)
  PROVE  /\ m.block = b /\ m.rev = d[b][1].rev
         /\ m.off = s.off /\ m.bit = s.expect /\ m.val = s.val
         /\ m.erased => m.off > 0
BY DEF MdirIn

PairOK(d, n) ==
  /\ n \in Nat \ {0}
  /\ \A b \in Block : Sound(d[b], n) /\ d[b][1].rev \in Rev

(* D says where the log of its block ends, or ended one commit before.     *)
Logged(d, n, D) ==
  /\ D.off > 0 /\ D.rev = d[D.block][1].rev
  /\ Prefix(d[D.block], n, D.off, D.bit, D.val)
(* A block whose first commit is complete and that a fetch may prefer to   *)
(* one of revision r.                                                      *)
NewerLive(blk, n, r) == Live(blk, n) /\ ~Older(blk[1].rev, r)
(* The other block is then a compaction of the directory.                  *)
OtherInv(blk, n, r, P) ==
  NewerLive(blk, n, r) => blk[1].rev = (r + 1) % Revs /\ Tail(blk, n, 0, 1, P)
(* All that a fetch may find, now or after a power loss, is in P.          *)
Kept(d, n, D, P) ==
  /\ D.val \in P
  /\ Tail(d[D.block], n, D.off, D.bit, P)
  /\ OtherInv(d[1 - D.block], n, D.rev, P)

(* A fetch takes the only live block, or the newer one.                    *)
LEMMA FetchTakes ==
  ASSUME NEW d, NEW n, PairOK(d, n), NEW F, F = FetchIn(d, n),
         NEW b \in Block, Live(d[b], n),
         \/ ~Live(d[1 - b], n)
         \/ Older(d[1 - b][1].rev, d[b][1].rev)
  PROVE  F = MdirIn(d, b, n)
<1>1. n \in Nat /\ 1 - b \in Block /\ b \in {0, 1}
  BY DEF PairOK, Block
<1>2. /\ Sound(d[b], n) /\ Sound(d[1 - b], n)
      /\ d[b][1].rev \in Rev /\ d[1 - b][1].rev \in Rev
  BY <1>1 DEF PairOK
<1>3. MdirIn(d, b, n).off > 0
  BY <1>1, <1>2, LiveScan, MdirType
<1>4. CASE ~Live(d[1 - b], n)
  <2>1. ~(MdirIn(d, 1 - b, n).off > 0)
    BY <1>1, <1>2, <1>4, LiveScan, MdirType
  <2>2. CASE b = 0
    BY <1>3, <2>1, <2>2 DEF FetchIn
  <2>3. CASE b = 1
    BY <1>3, <2>1, <2>3 DEF FetchIn
  <2> QED BY <1>1, <2>2, <2>3
<1>5. CASE Older(d[1 - b][1].rev, d[b][1].rev)
  <2>1. /\ Newer(d[b][1].rev, d[1 - b][1].rev)
        /\ ~Newer(d[1 - b][1].rev, d[b][1].rev)
    BY <1>2, <1>5, OlderIsNotNewer
  <2>2. CASE b = 0
    BY <1>3, <2>1, <2>2 DEF FetchIn
  <2>3. CASE b = 1
    BY <1>3, <2>1, <2>3 DEF FetchIn
  <2> QED BY <1>1, <2>2, <2>3
<1> QED BY <1>4, <1>5

(* The mdir read from a block says where its log ends.                     *)
LEMMA MdirLogged ==
  ASSUME NEW d, NEW n, PairOK(d, n), NEW b \in Block,
         NEW F, F = MdirIn(d, b, n), F.off > 0
  PROVE  /\ F.block = b /\ F.rev \in Rev /\ F.off \in 1 .. n /\ F.bit \in Bit
         /\ F.val \in Value /\ Logged(d, n, F)
         /\ ~Comes(d[b], n, F.off, F.bit)
<1> DEFINE s == ScanIn(d[b], n)
<1>1. n \in Nat /\ Sound(d[b], n) /\ d[b][1].rev \in Rev
  BY DEF PairOK
<1>2. /\ Prefix(d[b], n, s.off, s.expect, s.val)
      /\ s.off \in 0 .. n /\ s.expect \in Bit /\ (s.off > 0 => s.val \in Value)
      /\ ~Comes(d[b], n, s.off, s.expect)
  BY <1>1, ScanIsPrefix, ComesIs
<1>3. /\ F.block = b /\ F.rev = d[b][1].rev
      /\ F.off = s.off /\ F.bit = s.expect /\ F.val = s.val
  BY MdirType
<1> HIDE DEF s
<1> QED BY <1>1, <1>2, <1>3 DEF Logged

(* A block with a log has a complete first commit.                         *)
LEMMA LoggedIsLive ==
  ASSUME NEW d, NEW n, PairOK(d, n), NEW D, D.block \in Block, Logged(d, n, D)
  PROVE  /\ Live(d[D.block], n) /\ D.off \in 1 .. n /\ D.rev \in Rev
         /\ D.bit \in Bit /\ D.val \in Value
<1>1. n \in Nat /\ Sound(d[D.block], n) /\ d[D.block][1].rev \in Rev
  BY DEF PairOK
<1>2. /\ D.off \in 0 .. n /\ D.off > 0 /\ ScanIn(d[D.block], n).off >= D.off
      /\ D.bit \in Bit /\ D.val \in Value /\ D.rev \in Rev
  BY <1>1, PrefixType DEF Logged
<1>3. ScanIn(d[D.block], n).off > 0
  <2>1. ScanIn(d[D.block], n).off \in 0 .. n
    BY <1>1, ScanIsPrefix
  <2> QED BY <1>2, <2>1
<1> QED BY <1>1, <1>2, <1>3, LiveScan

(* A fetch finds the directory as long as there is a log.                  *)
LEMMA FetchFinds ==
  ASSUME NEW d, NEW n, PairOK(d, n), NEW D, D.block \in Block, Logged(d, n, D),
         NEW F, F = FetchIn(d, n)
  PROVE  /\ F.block \in Block /\ F.off \in 1 .. n /\ F.rev \in Rev
         /\ F.bit \in Bit /\ F.val \in Value /\ Logged(d, n, F)
<1>1. Live(d[D.block], n)
  BY LoggedIsLive
<1>2. n \in Nat /\ D.block \in {0, 1} /\ Sound(d[D.block], n)
  BY DEF PairOK, Block
<1>3. MdirIn(d, D.block, n).off > 0
  BY <1>1, <1>2, LiveScan, MdirType
<1>4. PICK b \in Block : F = MdirIn(d, b, n) /\ F.off > 0
  <2>1. CASE Newer(d[1][1].rev, d[0][1].rev)
    BY <1>2, <1>3, <2>1 DEF FetchIn, Block
  <2>2. CASE ~Newer(d[1][1].rev, d[0][1].rev)
    BY <1>2, <1>3, <2>2 DEF FetchIn, Block
  <2> QED BY <2>1, <2>2
<1> QED BY <1>4, MdirLogged

(* What it finds is the last commit or the one that was begun since, and   *)
(* nothing is left that a later fetch could take instead.                  *)
LEMMA FetchKeeps ==
  ASSUME NEW d, NEW n, PairOK(d, n), NEW D, D.block \in Block, Logged(d, n, D),
         NEW P, Kept(d, n, D, P), NEW F, F = FetchIn(d, n)
  PROVE  /\ F.val \in P /\ Kept(d, n, F, {F.val})
         /\ ~NewerLive(d[1 - F.block], n, F.rev)
<1> DEFINE b == D.block
<1>1. /\ n \in Nat /\ b \in {0, 1} /\ 1 - b \in Block /\ 1 - (1 - b) = b
      /\ Sound(d[b], n) /\ Sound(d[1 - b], n)
      /\ d[b][1].rev \in Rev /\ d[1 - b][1].rev \in Rev
  BY DEF PairOK, Block
<1>2. Live(d[b], n) /\ D.off > 0
  BY LoggedIsLive DEF Logged
<1>3. /\ D.val \in P /\ D.rev = d[b][1].rev
      /\ Tail(d[b], n, D.off, D.bit, P)
      /\ Prefix(d[b], n, D.off, D.bit, D.val)
      /\ OtherInv(d[1 - b], n, D.rev, P)
  BY DEF Kept, Logged
<1>4. CASE NewerLive(d[1 - b], n, D.rev)
  <2>1. /\ Live(d[1 - b], n) /\ d[1 - b][1].rev = (D.rev + 1) % Revs
        /\ Tail(d[1 - b], n, 0, 1, P)
    BY <1>3, <1>4 DEF OtherInv, NewerLive
  <2>2. Older(d[b][1].rev, d[1 - b][1].rev)
    BY <1>1, <1>3, <2>1, SuccessorIsNewer
  <2>3. F = MdirIn(d, 1 - b, n)
    BY <1>1, <2>1, <2>2, FetchTakes
  <2>4. F.off = ScanIn(d[1 - b], n).off /\ F.val = ScanIn(d[1 - b], n).val
    BY <2>3, MdirType
  <2>5. F.off > 0
    BY <1>1, <2>1, <2>4, LiveScan
  <2>6. Prefix(d[1 - b], n, 0, 1, "none")
    BY <1>1, PrefixFirst
  <2>7. F.val \in P
    <3>1. PICK blk, s : blk = d[1 - b] /\ s = ScanIn(blk, n)
      OBVIOUS
    <3>2. ~(0 > 0)
      OBVIOUS
    <3>3. s.off > 0 => s.val \in P
      BY <1>1, <2>1, <2>6, <3>1, <3>2, TailScan
    <3> QED BY <2>4, <2>5, <3>1, <3>3
  <2>8. F.block = 1 - b /\ F.rev = d[1 - b][1].rev /\ ~Comes(d[1 - b], n, F.off, F.bit)
    BY <1>1, <2>3, <2>5, MdirLogged, MdirType
  <2>9. ~NewerLive(d[1 - F.block], n, F.rev)
    BY <1>1, <2>2, <2>8 DEF NewerLive
  <2>10. Kept(d, n, F, {F.val})
    BY <2>8, <2>9 DEF Kept, OtherInv, Tail
  <2> QED BY <2>7, <2>9, <2>10
<1>5. CASE ~NewerLive(d[1 - b], n, D.rev)
  <2>1. F = MdirIn(d, b, n)
    BY <1>1, <1>2, <1>3, <1>5, FetchTakes DEF NewerLive
  <2>2. F.off = ScanIn(d[b], n).off /\ F.val = ScanIn(d[b], n).val
    BY <2>1, MdirType
  <2>3. F.off > 0
    BY <1>1, <1>2, <2>2, LiveScan
  <2>4. F.val \in P
    BY <1>1, <1>3, <2>2, <2>3, TailScan
  <2>5. F.block = b /\ F.rev = D.rev /\ ~Comes(d[b], n, F.off, F.bit)
    BY <1>1, <1>3, <2>1, <2>3, MdirLogged, MdirType
  <2>6. ~NewerLive(d[1 - F.block], n, F.rev)
    BY <1>5, <2>5
  <2>7. Kept(d, n, F, {F.val})
    BY <2>5, <2>6 DEF Kept, OtherInv, Tail
  <2> QED BY <2>4, <2>6, <2>7
<1> QED BY <1>4, <1>5

(* The mdir of a commit that nothing follows is the one a fetch returns.   *)
LEMMA FetchAgrees ==
  ASSUME NEW d, NEW n, PairOK(d, n), NEW D, D.block \in Block, Logged(d, n, D),
         ~Comes(d[D.block], n, D.off, D.bit),
         ~NewerLive(d[1 - D.block], n, D.rev),
         NEW F, F = FetchIn(d, n)
  PROVE  /\ F.block = D.block /\ F.rev = D.rev
         /\ F.off = D.off /\ F.bit = D.bit /\ F.val = D.val
<1> DEFINE b == D.block
<1>1. /\ n \in Nat /\ Sound(d[b], n) /\ D.rev = d[b][1].rev
      /\ Prefix(d[b], n, D.off, D.bit, D.val)
  BY DEF PairOK, Logged
<1>2. Live(d[b], n)
  BY LoggedIsLive
<1>3. F = MdirIn(d, b, n)
  BY <1>1, <1>2, FetchTakes DEF NewerLive
<1>4. ScanIn(d[b], n) = Seen(D.off, D.bit, D.val)
  BY <1>1, PrefixType, ComesIs
<1>5. /\ F.block = b /\ F.rev = d[b][1].rev
      /\ F.off = ScanIn(d[b], n).off /\ F.bit = ScanIn(d[b], n).expect
      /\ F.val = ScanIn(d[b], n).val
  BY <1>3, MdirType
<1> QED BY <1>1, <1>4, <1>5, SeenIs

------------------------------------------------------------------------------
NewCommits == [val: Value, of: Unit, bit: Bit, next: Bit, rev: Rev \cup {NoRev}]

(* a units of commit c lie after the first o units of the block, and what  *)
(* will follow the whole of it is not what it asks for.                    *)
Writing(blk, n, o, c, a) ==
  /\ a <= c.of /\ o + a <= n
  /\ a > 0 => /\ blk[o + 1].commit = c \/ blk[o + 1].commit = Garbage
              /\ blk[o + 1].commit = c => blk[o + 1].bit = c.bit
  /\ o + c.of < n => blk[o + c.of + 1].bit # c.next

(* The mdir of a pair in use is a prefix of the log; that of a pair not    *)
(* yet written takes up the revision of block 1.                           *)
LinkInv ==
  /\ linked => Logged(disk, Units, dir)
  /\ ~linked => /\ dir.block = 1 /\ dir.off = 0
                /\ dir.rev = (disk[1][1].rev + (disk[1][1].rev % 2)) % Revs
(* Where the running commit goes, and what it looks like.                  *)
CommitInv ==
  /\ dir.erased => dir.off > 0
  /\ pc = "idle" => at = 0
  /\ pc # "idle" => new \in NewCommits /\ Writing(disk[Target], Units, Base, new, at)
  /\ pc = "append" => dir.off > 0 /\ new.rev = NoRev /\ new.bit = dir.bit
  /\ pc = "compact" => new.rev = (dir.rev + 1) % Revs /\ new.bit = 1

LogInv == on \in Settings /\ TypeOK /\ LinkInv /\ CommitInv

(* What the assumption says of the setting in use.                         *)
LEMMA SettingsType ==
  ASSUME on \in Settings
  PROVE  /\ Units \in Nat \ {0} /\ Sizes \subseteq Unit /\ StrayRevs \subseteq Rev
         /\ Revs \in Nat /\ Revs >= 6
BY MetadataPairAssumption DEF Units, Sizes, Unit, StrayRevs, Rev

(* The commits of a well-typed disk have sizes within a block.             *)
LEMMA DiskIsSound ==
  ASSUME Units \in Nat \ {0}, NEW d, d \in [Block -> [Unit -> Contents]]
  PROVE  PairOK(d, Units)
<1>1. ASSUME NEW b \in Block, NEW u \in 1 .. Units
      PROVE  /\ d[b][u].commit \in Commits /\ d[b][u].rev \in Rev
  <2>1. d[b][u] \in Contents
    BY DEF Unit
  <2> QED BY <2>1 DEF Contents
<1>2. ASSUME NEW c \in Commits, c # Garbage
      PROVE  c.of \in 1 .. Units /\ c.next \in Bit /\ c.val \in Value
  BY <1>2 DEF Commits, Unit
<1>3. 1 \in 1 .. Units
  OBVIOUS
<1> QED BY <1>1, <1>2, <1>3 DEF PairOK, Sound

(* The types that the invariant gives, in the form the steps need.         *)
LEMMA LogFacts ==
  ASSUME LogInv
  PROVE  /\ Units \in Nat \ {0} /\ PairOK(disk, Units)
         /\ dir.block \in {0, 1} /\ dir.rev \in Rev /\ dir.off \in 0 .. Units
         /\ Target \in Block /\ 1 - Target \in Block
         /\ Base \in 0 .. Units
         /\ at \in 0 .. Units
         /\ pc # "idle" => new.of \in 1 .. Units /\ new.val \in Value
<1>1. Units \in Nat \ {0} /\ PairOK(disk, Units)
  BY SettingsType, DiskIsSound DEF LogInv, TypeOK
<1>2. /\ dir.block \in {0, 1} /\ dir.rev \in Rev /\ dir.off \in 0 .. Units
      /\ at \in 0 .. Units
  BY DEF LogInv, TypeOK, Block
<1>3. pc # "idle" => new.of \in 1 .. Units /\ new.val \in Value
  BY DEF LogInv, CommitInv, NewCommits, Unit
<1>4. Target \in Block /\ 1 - Target \in Block
  BY <1>2 DEF Target, Block
<1>5. Base \in 0 .. Units
  BY <1>1, <1>2 DEF Base
<1> QED BY <1>1, <1>2, <1>3, <1>4, <1>5

(* What programming a unit of the running commit may leave in it.          *)
MayStore(x, c, a) ==
  /\ x \in Contents
  /\ x.commit = c \/ x.commit = Garbage
  /\ a = 0 /\ x.commit = c => x.bit = c.bit

(* Programming the next unit of a commit leaves what lies before it and    *)
(* asks for what lies behind it.                                           *)
LEMMA WriteUnit ==
  ASSUME NEW n \in Nat, NEW blk, NEW o \in Nat, NEW c, NEW a \in Nat,
         c.of \in Nat, a < c.of, o + a + 1 <= n,
         DOMAIN blk = 1 .. n, Writing(blk, n, o, c, a),
         NEW x, MayStore(x, c, a),
         NEW blk2, blk2 = [blk EXCEPT ![o + a + 1] = x]
  PROVE  /\ Writing(blk2, n, o, c, a + 1)
         /\ \A u \in 1 .. o : blk2[u] = blk[u]
<1>1. \A u \in 1 .. n : blk2[u] = IF u = o + a + 1 THEN x ELSE blk[u]
  BY DEF Writing
<1>2. \A u \in 1 .. o : blk2[u] = blk[u]
  BY <1>1
<1>3. /\ blk2[o + 1].commit = c \/ blk2[o + 1].commit = Garbage
      /\ blk2[o + 1].commit = c => blk2[o + 1].bit = c.bit
  <2>1. CASE a = 0
    BY <1>1, <2>1 DEF MayStore
  <2>2. CASE a > 0
    BY <1>1, <2>2 DEF Writing
  <2> QED BY <2>1, <2>2
<1>4. o + c.of < n => blk2[o + c.of + 1].bit # c.next
  BY <1>1 DEF Writing
<1> QED BY <1>2, <1>3, <1>4 DEF Writing

(* A unit is programmed, well or badly: the log is as it was.              *)
LEMMA ProgramUnit ==
  ASSUME LogInv, pc # "idle", at < new.of, Base + at + 1 <= Units,
         NEW x, MayStore(x, new, at),
         NEW d, d = [disk EXCEPT ![Target][Base + at + 1] = x]
  PROVE  /\ d \in [Block -> [Unit -> Contents]]
         /\ d[1 - Target] = disk[1 - Target]
         /\ Writing(d[Target], Units, Base, new, at + 1)
         /\ linked => Logged(d, Units, dir)
         /\ ~linked => d[1] = disk[1]
<1>1. /\ Units \in Nat \ {0} /\ Base \in Nat /\ at \in Nat /\ new.of \in Nat
      /\ Target \in Block /\ 1 - Target \in Block /\ 1 - Target # Target
      /\ dir.block \in {0, 1}
  BY LogFacts DEF Block
<1>2. disk \in [Block -> [1 .. Units -> Contents]]
  BY DEF LogInv, TypeOK, Unit
<1>3. d \in [Block -> [1 .. Units -> Contents]]
  BY <1>1, <1>2 DEF MayStore
<1>4. d[1 - Target] = disk[1 - Target]
  BY <1>1, <1>2
<1>5. /\ d[Target] = [disk[Target] EXCEPT ![Base + at + 1] = x]
      /\ DOMAIN disk[Target] = 1 .. Units
  BY <1>1, <1>2
<1>6. Writing(disk[Target], Units, Base, new, at)
  BY DEF LogInv, CommitInv
<1>7. /\ Writing(d[Target], Units, Base, new, at + 1)
      /\ \A u \in 1 .. Base : d[Target][u] = disk[Target][u]
  BY <1>1, <1>5, <1>6, WriteUnit
<1>8. ASSUME linked PROVE Logged(d, Units, dir)
  <2>1. Logged(disk, Units, dir)
    BY <1>8 DEF LogInv, LinkInv
  <2>2. CASE pc = "append"
    <3>1. Target = dir.block /\ Base = dir.off
      BY <2>2 DEF Target, Base
    <3>2. Sound(disk[Target], Units) /\ Sound(d[Target], Units)
      BY <1>1, <1>3, LogFacts, DiskIsSound DEF PairOK, Unit
    <3>3. Prefix(d[Target], Units, dir.off, dir.bit, dir.val)
      <4>1. Prefix(disk[Target], Units, dir.off, dir.bit, dir.val)
        BY <2>1, <3>1 DEF Logged
      <4>2. \A u \in 1 .. dir.off : d[Target][u] = disk[Target][u]
        BY <1>7, <3>1
      <4>3. PICK n, o : n = Units /\ o = dir.off /\ n \in Nat
        BY <1>1
      <4> QED BY <3>2, <4>1, <4>2, <4>3, Stable
    <3>4. d[Target][1] = disk[Target][1]
      <4>1. dir.off > 0
        BY <2>1 DEF Logged
      <4>2. 1 \in 1 .. Base
        BY <1>1, <3>1, <4>1
      <4> QED BY <1>7, <4>2
    <3> QED BY <2>1, <3>1, <3>3, <3>4 DEF Logged
  <2>3. CASE pc # "append"
    <3>1. dir.block = 1 - Target
      BY <1>1, <2>3 DEF Target
    <3> QED BY <1>4, <2>1, <3>1 DEF Logged
  <2> QED BY <2>2, <2>3
<1>9. ASSUME ~linked PROVE d[1] = disk[1]
  <2>1. pc # "append" /\ dir.block = 1
    BY <1>9 DEF LogInv, LinkInv, CommitInv
  <2>2. Target = 0
    BY <2>1 DEF Target
  <2> QED BY <1>4, <2>2
<1> QED BY <1>3, <1>4, <1>7, <1>8, <1>9 DEF Unit

------------------------------------------------------------------------------
(* A commit asks for a valid bit that the unit behind it does not hold.    *)
LEMMA OppositeIs ==
  ASSUME Units \in Nat, NEW blk, blk \in [Unit -> Contents], NEW u \in Nat \ {0}
  PROVE  /\ Opposite(blk, u) \in Bit
         /\ u <= Units => blk[u].bit # Opposite(blk, u)
<1>1. CASE u <= Units
  <2>1. blk[u] \in Contents
    BY <1>1 DEF Unit
  <2>2. blk[u].bit \in {0, 1}
    BY <2>1 DEF Contents, Bit
  <2> QED BY <1>1, <2>2 DEF Opposite, Bit
<1>2. CASE ~(u <= Units)
  BY <1>2 DEF Opposite, Bit
<1> QED BY <1>1, <1>2

(* The sets that depend on the setting do not change.                      *)
LEMMA SameTypes ==
  ASSUME on' = on
  PROVE  /\ Units' = Units /\ Unit' = Unit /\ Contents' = Contents
         /\ NewCommits' = NewCommits
BY DEF Units, Unit, Contents, Commits, NewCommits

(* LogInv holds of a pair full of leftovers.                               *)
LEMMA LogInit ==
  ASSUME Init
  PROVE  LogInv
<1>1. on \in Settings /\ Units \in Nat \ {0} /\ StrayRevs \subseteq Rev /\ 0 \in Rev
  BY SettingsType DEF Init, Rev
<1>2. ASSUME NEW r \in StrayRevs, NEW b \in Bit
      PROVE  RawBlock(r, b) \in [Unit -> Contents]
  BY <1>1, <1>2 DEF RawBlock, Leftover, Contents, Commits
<1>3. ASSUME NEW r \in StrayRevs, NEW v \in Value, NEW b \in Bit
      PROVE  OldBlock(r, v, b) \in [Unit -> Contents]
  <2> DEFINE c == Commit(v, 1, 1, IF Units > 1 THEN 1 - b ELSE 0, r)
             x == [commit |-> c, part |-> 1, bit |-> 1, rev |-> r]
  <2>1. (IF Units > 1 THEN 1 - b ELSE 0) \in Bit /\ 1 \in Bit /\ 1 \in Unit
    BY <1>1 DEF Bit, Unit
  <2>2. c \in Commits
    BY <1>1, <1>3, <2>1 DEF Commits, Commit
  <2> HIDE DEF c
  <2>3. x \in Contents
    BY <1>1, <1>3, <2>1, <2>2 DEF Contents
  <2>4. Leftover(b, 0) \in Contents
    BY <1>1, <1>3 DEF Leftover, Contents, Commits
  <2>5. OldBlock(r, v, b) = [u \in Unit |-> IF u = 1 THEN x ELSE Leftover(b, 0)]
    BY DEF OldBlock, c
  <2> HIDE DEF x
  <2> QED BY <2>3, <2>4, <2>5
<1>4. disk \in [Block -> [Unit -> Contents]]
  BY <1>2, <1>3 DEF Init
<1>5. disk[1][1].rev \in Rev
  BY <1>1, <1>4, DiskIsSound DEF PairOK, Block
<1>6. /\ dir.block = 1 /\ dir.off = 0 /\ dir.bit = 1 /\ ~dir.erased
      /\ dir.rev = (disk[1][1].rev + (disk[1][1].rev % 2)) % Revs
  BY DEF Init, Allocated
<1>7. TypeOK
  <2>1. dir.rev \in Rev
    BY <1>5, <1>6, RoundedUp
  <2>2. dir.block \in Block /\ dir.off \in 0 .. Units /\ dir.bit \in Bit
    BY <1>1, <1>6 DEF Block, Bit
  <2>3. /\ linked \in BOOLEAN /\ pc \in {"idle", "append", "compact"}
        /\ at \in 0 .. Units /\ promised \subseteq Value
    <3>1. linked = FALSE /\ pc = "idle" /\ at = 0 /\ promised = {}
      BY DEF Init
    <3>2. linked \in BOOLEAN
      BY <3>1
    <3>3. 0 \in 0 .. Units
      BY <1>1
    <3> QED BY <3>1, <3>2, <3>3
  <2> QED BY <1>4, <2>1, <2>2, <2>3 DEF TypeOK
<1>8. LinkInv
  BY <1>6 DEF Init, LinkInv
<1>9. CommitInv
  BY <1>6 DEF Init, CommitInv
<1> QED BY <1>1, <1>7, <1>8, <1>9 DEF LogInv

(* A compaction into the other block begins.                               *)
LEMMA CompactBegins ==
  ASSUME LogInv, UNCHANGED <<on, disk, linked, dir>>, NEW v \in Value, Compact(v),
         promised' \subseteq Value
  PROVE  LogInv'
<1>1. /\ Units \in Nat \ {0} /\ Sizes \subseteq Unit /\ dir.rev \in Rev
      /\ 1 - dir.block \in Block
  BY LogFacts, SettingsType DEF LogInv, Block
<1> DEFINE blk == disk[1 - dir.block]
<1>2. blk \in [Unit -> Contents]
  BY <1>1 DEF LogInv, TypeOK
<1> HIDE DEF blk
<1>3. PICK m \in Sizes : new' = Commit(v, m, 1, Opposite(blk, m + 1), (dir.rev + 1) % Revs)
  BY DEF Compact, blk
<1>4. m \in Unit /\ m \in 1 .. Units /\ m + 1 \in Nat \ {0}
  BY <1>1 DEF Unit
<1>5. /\ Opposite(blk, m + 1) \in Bit
      /\ m + 1 <= Units => blk[m + 1].bit # Opposite(blk, m + 1)
  BY <1>1, <1>2, <1>4, OppositeIs
<1>6. /\ new'.val = v /\ new'.of = m /\ new'.bit = 1
      /\ new'.next = Opposite(blk, m + 1) /\ new'.rev = (dir.rev + 1) % Revs
  BY <1>3 DEF Commit
<1>7. new' \in NewCommits
  BY <1>1, <1>3, <1>4, <1>5, Successor DEF Commit, NewCommits, Bit
<1>8. pc' = "compact" /\ at' = 0
  BY DEF Compact
<1>9. Writing(blk, Units, 0, new', 0)
  BY <1>1, <1>4, <1>5, <1>6 DEF Writing
<1>10. TypeOK'
  BY <1>1, <1>8 DEF LogInv, TypeOK, Unit, Units, Contents, Commits
<1>11. LinkInv'
  BY DEF LogInv, LinkInv, Units
<1>12. CommitInv'
  <2>1. NewCommits' = NewCommits /\ Units' = Units
    BY DEF NewCommits, Unit, Units
  <2>2. Target' = 1 - dir.block /\ Base' = 0
    BY <1>8 DEF Target, Base
  <2>3. Writing(disk'[Target'], Units', Base', new', at')
    BY <1>8, <1>9, <2>1, <2>2 DEF blk
  <2> QED BY <1>6, <1>7, <1>8, <2>1, <2>3 DEF LogInv, CommitInv
<1> QED BY <1>10, <1>11, <1>12 DEF LogInv

(* A commit ends without success, whatever it has left in the block.       *)
LEMMA CommitFails ==
  ASSUME LogInv, on' = on, NEW r, Fail(r),
         disk' \in [Block -> [Unit -> Contents]],
         linked => Logged(disk', Units, dir),
         ~linked => disk'[1] = disk[1]
  PROVE  LogInv'
<1>1. pc' = "idle" /\ at' = 0 /\ UNCHANGED <<linked, dir, promised>>
  BY DEF Fail
<1>2. TypeOK'
  BY <1>1, SameTypes, LogFacts DEF LogInv, TypeOK
<1>3. LinkInv'
  BY <1>1 DEF LogInv, LinkInv, Units
<1>4. CommitInv'
  BY <1>1 DEF LogInv, CommitInv
<1> QED BY <1>2, <1>3, <1>4 DEF LogInv

(* lfs_dir_commit begins an append or a compaction.                        *)
LEMMA StartLog ==
  ASSUME LogInv, on' = on, Start
  PROVE  LogInv'
<1>1. PICK v \in Value :
         /\ \/ /\ dir.erased \/ (Crowded /\ dir.off > 0)
               /\ \E n \in Sizes :
                    new' = Commit(v, n, dir.bit,
                                  Opposite(disk[dir.block], dir.off + n + 1), NoRev)
               /\ pc' = "append" /\ at' = 0
            \/ Compact(v)
         /\ promised' = promised \cup {v}
  BY DEF Start
<1>2. promised' \subseteq Value /\ UNCHANGED <<disk, linked, dir>>
  BY <1>1 DEF Start, LogInv, TypeOK
<1>3. CASE Compact(v)
  BY <1>2, <1>3, CompactBegins
<1>4. ASSUME dir.erased \/ (Crowded /\ dir.off > 0),
             NEW m \in Sizes,
             new' = Commit(v, m, dir.bit,
                           Opposite(disk[dir.block], dir.off + m + 1), NoRev),
             pc' = "append", at' = 0
      PROVE  LogInv'
  <2>1. /\ Units \in Nat \ {0} /\ Sizes \subseteq Unit /\ dir.block \in Block
        /\ dir.off \in 0 .. Units /\ dir.bit \in Bit /\ dir.off > 0
    BY <1>4, LogFacts, SettingsType DEF LogInv, TypeOK, CommitInv
  <2> DEFINE blk == disk[dir.block]
             u == dir.off + m + 1
  <2>2. blk \in [Unit -> Contents]
    BY <2>1 DEF LogInv, TypeOK
  <2> HIDE DEF blk
  <2>3. m \in Unit /\ m \in 1 .. Units /\ u \in Nat \ {0}
    BY <2>1 DEF Unit
  <2>4. Opposite(blk, u) \in Bit /\ (u <= Units => blk[u].bit # Opposite(blk, u))
    BY <2>1, <2>2, <2>3, OppositeIs
  <2>5. new' = Commit(v, m, dir.bit, Opposite(blk, u), NoRev)
    BY <1>4 DEF blk
  <2>6. /\ new'.val = v /\ new'.of = m /\ new'.bit = dir.bit
        /\ new'.next = Opposite(blk, u) /\ new'.rev = NoRev
    BY <2>5 DEF Commit
  <2>7. new' \in NewCommits
    BY <2>1, <2>3, <2>4, <2>5 DEF Commit, NewCommits
  <2>8. Writing(blk, Units, dir.off, new', 0)
    BY <2>1, <2>3, <2>4, <2>6 DEF Writing
  <2>9. TypeOK'
    BY <1>2, <1>4, <2>1 DEF LogInv, TypeOK, Unit, Units, Contents, Commits
  <2>10. LinkInv'
    BY <1>2 DEF LogInv, LinkInv, Units
  <2>11. CommitInv'
    <3>1. NewCommits' = NewCommits /\ Units' = Units
      BY DEF NewCommits, Unit, Units
    <3>2. Target' = dir.block /\ Base' = dir.off
      BY <1>2, <1>4 DEF Target, Base
    <3>3. Writing(disk'[Target'], Units', Base', new', at')
      BY <1>2, <1>4, <2>8, <3>1, <3>2 DEF blk
    <3> QED BY <1>2, <1>4, <2>1, <2>6, <2>7, <3>1, <3>3 DEF LogInv, CommitInv
  <2> QED BY <2>9, <2>10, <2>11 DEF LogInv
<1> QED BY <1>1, <1>3, <1>4

(* A unit stored wrongly belongs to no commit.                             *)
LEMMA GarbledIs ==
  ASSUME LogInv, pc # "idle", NEW u, NEW x \in Garbled(u), NEW a
  PROVE  MayStore(x, new, a) /\ x.commit = Garbage
<1>1. StrayRevs \subseteq Rev /\ 0 \in Rev /\ Units \in Nat \ {0}
  BY SettingsType DEF LogInv, Rev
<1>2. PICK b \in Bit, r \in Rev : x = Leftover(b, r)
  BY <1>1 DEF Garbled
<1>3. x \in Contents /\ x.commit = Garbage
  BY <1>1, <1>2 DEF Leftover, Contents, Commits
<1>4. new.of > 0 /\ Garbage.of = 0
  BY LogFacts DEF Garbage, Commit
<1> QED BY <1>3, <1>4 DEF MayStore

(* What the chip stores when nothing goes wrong.                           *)
LEMMA StoredIs ==
  ASSUME LogInv, pc # "idle", at < new.of, NEW b, b \in (IF at = 0 THEN {new.bit} ELSE Bit),
         NEW u, u = Base + at + 1,
         NEW x, x = [commit |-> new, part |-> at + 1, bit |-> b,
                     rev |-> IF u = 1 THEN new.rev ELSE 0]
  PROVE  MayStore(x, new, at)
<1>1. new \in NewCommits /\ new \in Commits /\ new.bit \in Bit
  BY DEF LogInv, CommitInv, NewCommits, Commits
<1>2. at + 1 \in 0 .. Units
  BY LogFacts
<1>3. (IF u = 1 THEN new.rev ELSE 0) \in Rev
  <2>1. 0 \in Rev
    BY SettingsType DEF LogInv, Rev
  <2>2. CASE pc = "append"
    <3>1. dir.off > 0 /\ Base = dir.off
      BY <2>2 DEF LogInv, CommitInv, Base
    <3>2. u # 1
      BY <3>1, LogFacts
    <3> QED BY <2>1, <3>2
  <2>3. CASE pc = "compact"
    <3>1. new.rev \in Rev
      BY <2>3, LogFacts, Successor DEF LogInv, CommitInv
    <3> QED BY <2>1, <3>1
  <2> QED BY <2>2, <2>3 DEF LogInv, TypeOK
<1>4. b \in Bit
  BY <1>1
<1>5. x \in Contents
  BY <1>1, <1>2, <1>3, <1>4 DEF Contents
<1> QED BY <1>5 DEF MayStore

(* A unit is programmed, garbled or refused.                               *)
LEMMA ProgramLog ==
  ASSUME LogInv, on' = on, Program
  PROVE  LogInv'
<1> DEFINE u == Base + at + 1
           stored == {[commit |-> new, part |-> at + 1, bit |-> b,
                       rev |-> IF u = 1 THEN new.rev ELSE 0] :
                        b \in IF at = 0 THEN {new.bit} ELSE Bit}
<1>1. pc # "idle" /\ at < new.of /\ u <= Units
  BY DEF Program
<1>2. /\ disk \in [Block -> [Unit -> Contents]]
      /\ linked => Logged(disk, Units, dir)
  BY DEF LogInv, TypeOK, LinkInv
<1>3. CASE Fail("not_flushed") /\ disk' = disk
  BY <1>2, <1>3, CommitFails
<1>4. ASSUME NEW x \in stored \cup Garbled(u),
             disk' = [disk EXCEPT ![Target][u] = x],
             at' = at + 1, UNCHANGED <<linked, dir, pc, new, promised>>
      PROVE  LogInv'
  <2>1. MayStore(x, new, at)
    <3>1. CASE x \in stored
      BY <1>1, <3>1, StoredIs
    <3>2. CASE x \in Garbled(u)
      BY <1>1, <3>2, GarbledIs
    <3> QED BY <1>4, <3>1, <3>2
  <2>2. /\ disk' \in [Block -> [Unit -> Contents]]
        /\ Writing(disk'[Target], Units, Base, new, at + 1)
        /\ linked => Logged(disk', Units, dir)
        /\ ~linked => disk'[1] = disk[1]
    BY <1>1, <1>4, <2>1, ProgramUnit
  <2>3. at + 1 \in 0 .. Units
    BY <1>1, LogFacts
  <2>4. TypeOK'
    BY <1>4, <2>2, <2>3, SameTypes DEF LogInv, TypeOK
  <2>5. LinkInv'
    BY <1>4, <2>2, SameTypes DEF LogInv, LinkInv
  <2>6. CommitInv'
    <3>1. Target' = Target /\ Base' = Base
      BY <1>4 DEF Target, Base
    <3> QED BY <1>1, <1>4, <2>2, <3>1, SameTypes DEF LogInv, CommitInv
  <2> QED BY <2>4, <2>5, <2>6 DEF LogInv
<1>5. ASSUME NEW x \in {disk[Target][u]} \cup Garbled(u),
             disk' = [disk EXCEPT ![Target][u] = x], Fail("io")
      PROVE  LogInv'
  <2>1. CASE x = disk[Target][u]
    <3>1. disk' = disk
      BY <1>2, <1>5, <2>1
    <3> QED BY <1>2, <1>5, <3>1, CommitFails
  <2>2. CASE x \in Garbled(u)
    <3>1. MayStore(x, new, at)
      BY <1>1, <2>2, GarbledIs
    <3>2. /\ disk' \in [Block -> [Unit -> Contents]]
          /\ linked => Logged(disk', Units, dir)
          /\ ~linked => disk'[1] = disk[1]
      BY <1>1, <1>5, <3>1, ProgramUnit
    <3> QED BY <1>5, <3>2, CommitFails
  <2> QED BY <1>5, <2>1, <2>2
<1> QED BY <1>3, <1>4, <1>5 DEF Program

(* A commit that does not fit is compacted.                                *)
LEMMA NoFitLog ==
  ASSUME LogInv, on' = on, NoFit
  PROVE  LogInv'
<1>1. new.val \in Value /\ promised' \subseteq Value
  BY LogFacts DEF NoFit, LogInv, TypeOK
<1> QED BY <1>1, CompactBegins DEF NoFit

(* A commit that cannot be read is compacted, or fails.                    *)
LEMMA UnverifiedLog ==
  ASSUME LogInv, on' = on, Unverified
  PROVE  LogInv'
<1>1. CASE Compact(new.val) /\ UNCHANGED <<linked, dir, promised>>
  <2>1. new.val \in Value /\ promised' \subseteq Value
    BY <1>1, LogFacts DEF Unverified, LogInv, TypeOK
  <2> QED BY <1>1, <2>1, CompactBegins DEF Unverified
<1>2. CASE Fail("no_space")
  BY <1>2, CommitFails DEF Unverified, LogInv, TypeOK, LinkInv
<1> QED BY <1>1, <1>2 DEF Unverified

(* Reading back fails.                                                     *)
LEMMA VerifyFailsLog ==
  ASSUME LogInv, on' = on, VerifyFails
  PROVE  LogInv'
BY CommitFails DEF VerifyFails, LogInv, TypeOK, LinkInv

(* Completeness of the model, with its parameter.                          *)
LEMMA CompleteIs ==
  ASSUME NEW blk, NEW u PROVE Complete(blk, u) <=> CompleteIn(blk, u, Units)
BY DEF Complete, CompleteIn

(* A commit that has been read back is the end of its log.                 *)
LEMMA VerifiedEnds ==
  ASSUME LogInv, pc # "idle", at = new.of, Readable
  PROVE  /\ Prefix(disk[Target], Units, Base + new.of, new.next, new.val)
         /\ ~Comes(disk[Target], Units, Base + new.of, new.next)
         /\ Base + new.of \in 1 .. Units /\ new.next \in Bit
         /\ disk[Target][1].rev = IF pc = "append" THEN dir.rev ELSE new.rev
<1> DEFINE blk == disk[Target]
<1>1. /\ Units \in Nat /\ Base \in 0 .. Units /\ at > 0 /\ Base + at <= Units
      /\ new.of \in 1 .. Units /\ new.next \in Bit
      /\ Sound(blk, Units)
  BY LogFacts DEF LogInv, CommitInv, NewCommits, PairOK, Writing
<1>2. CompleteIn(blk, Base + 1, Units)
  BY CompleteIs DEF Readable
<1>3. Writing(blk, Units, Base, new, at)
  BY DEF LogInv, CommitInv
<1>4. blk[Base + 1].commit = new /\ blk[Base + 1].bit = new.bit
  <2>1. blk[Base + 1].commit # Garbage
    BY <1>2 DEF CompleteIn
  <2> QED BY <1>1, <1>3, <2>1 DEF Writing
<1>5. ~Comes(blk, Units, Base + new.of, new.next)
  BY <1>1, <1>3 DEF Writing, Comes
<1>6. Comes(blk, Units, Base, new.bit)
  BY <1>1, <1>2, <1>4 DEF Comes
<1>7. CASE pc = "append"
  <2>1. Base = dir.off /\ new.bit = dir.bit /\ Target = dir.block /\ dir.off > 0
    BY <1>7 DEF LogInv, CommitInv, Base, Target
  <2>2. Logged(disk, Units, dir)
    BY <2>1 DEF LogInv, LinkInv
  <2>3. Prefix(blk, Units, Base, new.bit, dir.val)
    BY <2>1, <2>2 DEF Logged
  <2>4. Prefix(blk, Units, Base + new.of, new.next, new.val)
    BY <1>1, <1>4, <1>6, <2>3, Extend, ComesIs
  <2>5. blk[1].rev = dir.rev
    BY <2>1, <2>2 DEF Logged
  <2> QED BY <1>1, <1>5, <1>7, <2>4, <2>5
<1>8. CASE pc = "compact"
  <2>1. Base = 0 /\ new.bit = 1
    BY <1>8 DEF LogInv, CommitInv, Base
  <2>2. Prefix(blk, Units, Base, new.bit, "none")
    BY <1>1, <2>1, PrefixFirst
  <2>3. Prefix(blk, Units, Base + new.of, new.next, new.val)
    BY <1>1, <1>4, <1>6, <2>2, Extend, ComesIs
  <2>4. blk[1].rev = new.rev
    BY <1>2, <1>4, <2>1 DEF CompleteIn
  <2> QED BY <1>1, <1>5, <1>8, <2>3, <2>4
<1> QED BY <1>7, <1>8 DEF LogInv, TypeOK

(* The mdir after a commit.                                                *)
Committed(D) ==
  /\ D.block = Target /\ D.off = Base + new.of /\ D.bit = new.next
  /\ D.rev = (IF pc = "append" THEN dir.rev ELSE new.rev)
  /\ D.val = new.val

(* A successful commit: the mdir names the end of the log it is in.        *)
LEMMA VerifiedIs ==
  ASSUME LogInv, Verified
  PROVE  /\ pc # "idle" /\ at = new.of /\ Readable /\ Committed(dir')
         /\ dir'.erased => dir'.off > 0
         /\ UNCHANGED <<disk, pending>> /\ pc' = "idle" /\ at' = 0
         /\ result' = "ok" /\ linked' /\ promised' = {new.val}
         /\ Logged(disk, Units, dir')
<1>1. /\ pc # "idle" /\ at = new.of /\ Readable
      /\ UNCHANGED <<disk, pending>> /\ pc' = "idle" /\ at' = 0
      /\ result' = "ok" /\ promised' = {new.val}
  BY DEF Verified
<1>2. linked'
  BY DEF Verified
<1>3. Committed(dir')
  BY DEF Verified, Committed
<1>4. /\ Prefix(disk[Target], Units, Base + new.of, new.next, new.val)
      /\ Base + new.of \in 1 .. Units
      /\ disk[Target][1].rev = IF pc = "append" THEN dir.rev ELSE new.rev
  BY <1>1, VerifiedEnds
<1>5. dir'.off > 0
  BY <1>3, <1>4, LogFacts DEF Committed
<1>6. Logged(disk, Units, dir')
  BY <1>3, <1>4, <1>5 DEF Committed, Logged
<1> QED BY <1>1, <1>2, <1>3, <1>5, <1>6

(* A successful commit keeps LogInv.                                       *)
LEMMA VerifiedLog ==
  ASSUME LogInv, on' = on, Verified
  PROVE  LogInv'
<1>1. /\ pc # "idle" /\ at = new.of /\ Readable /\ Committed(dir')
      /\ dir'.erased => dir'.off > 0
      /\ UNCHANGED disk /\ pc' = "idle" /\ at' = 0
      /\ linked' /\ promised' = {new.val} /\ Logged(disk, Units, dir')
  BY VerifiedIs
<1>2. Base + new.of \in 1 .. Units /\ new.next \in Bit
  BY <1>1, VerifiedEnds
<1>3. TypeOK'
  <2>1. new.rev \in Rev \/ pc = "append"
    <3>1. CASE pc = "compact"
      BY <3>1, LogFacts, Successor DEF LogInv, CommitInv
    <3> QED BY <1>1, <3>1 DEF LogInv, TypeOK
  <2>2. dir'.block \in Block /\ dir'.rev \in Rev /\ dir'.bit \in Bit
    BY <1>1, <1>2, <2>1, LogFacts DEF Committed
  <2>3. dir'.off \in 0 .. Units /\ 0 \in 0 .. Units
    BY <1>1, <1>2, LogFacts DEF Committed
  <2>4. new.val \in Value
    BY <1>1, LogFacts
  <2>5. linked' \in BOOLEAN
    BY DEF Verified
  <2> QED BY <1>1, <2>2, <2>3, <2>4, <2>5, SameTypes DEF LogInv, TypeOK
<1>4. LinkInv'
  BY <1>1, SameTypes DEF LinkInv
<1>5. CommitInv'
  BY <1>1 DEF CommitInv
<1> QED BY <1>3, <1>4, <1>5 DEF LogInv

(* A fetch, in a running file system or after a power loss.                *)
LEMMA FetchedLog ==
  ASSUME LogInv, on' = on, disk' \in [Block -> [Unit -> Contents]],
         linked, UNCHANGED linked, Logged(disk', Units, dir),
         dir' = Fetch(disk'),
         pc' = "idle", at' = 0, promised' \subseteq Value \/ promised' = {dir'.val}
  PROVE  /\ LogInv'
         /\ dir' = FetchIn(disk', Units) /\ PairOK(disk', Units)
<1>1. Units \in Nat \ {0} /\ dir.block \in Block
  BY LogFacts DEF Block
<1>2. PairOK(disk', Units)
  BY <1>1, DiskIsSound
<1>3. dir' = FetchIn(disk', Units)
  BY FetchIs
<1>4. /\ dir'.block \in Block /\ dir'.off \in 1 .. Units /\ dir'.rev \in Rev
      /\ dir'.bit \in Bit /\ dir'.val \in Value /\ Logged(disk', Units, dir')
  BY <1>1, <1>2, <1>3, FetchFinds
<1>5. TypeOK'
  <2>1. dir'.off \in 0 .. Units /\ 0 \in 0 .. Units
    BY <1>1, <1>4
  <2>2. linked' \in BOOLEAN
    BY DEF LogInv, TypeOK
  <2> QED BY <1>4, <2>1, <2>2, SameTypes DEF LogInv, TypeOK
<1>6. LinkInv'
  BY <1>4, SameTypes DEF LinkInv
<1>7. CommitInv'
  BY <1>1, <1>4 DEF CommitInv
<1> QED BY <1>2, <1>3, <1>5, <1>6, <1>7 DEF LogInv

(* An operation starts with a fetch.                                       *)
LEMMA RefetchLog ==
  ASSUME LogInv, on' = on, Refetch
  PROVE  LogInv' /\ dir' = FetchIn(disk, Units)
<1>1. /\ pc = "idle" /\ linked /\ dir' = Fetch(disk)
      /\ UNCHANGED <<disk, linked, pc, at, promised>>
  BY DEF Refetch
<1>2. /\ disk \in [Block -> [Unit -> Contents]] /\ at = 0
      /\ promised \subseteq Value /\ Logged(disk, Units, dir)
  BY <1>1 DEF LogInv, TypeOK, LinkInv, CommitInv
<1> QED BY <1>1, <1>2, FetchedLog

(* What power loss leaves on the disk.                                     *)
LEMMA TornIs ==
  ASSUME LogInv, PowerLoss
  PROVE  /\ disk' \in [Block -> [Unit -> Contents]]
         /\ linked => Logged(disk', Units, dir)
         /\ \/ disk' = disk
            \/ /\ pc # "idle" /\ Writing(disk'[Target], Units, Base, new, at + 1)
               /\ disk'[1 - Target] = disk[1 - Target]
<1>1. CASE disk' = disk
  BY <1>1 DEF LogInv, TypeOK, LinkInv
<1>2. CASE ~(disk' = disk)
  <2>1. PICK x \in Garbled(Base + at + 1) :
          /\ disk' = [disk EXCEPT ![Target][Base + at + 1] = x]
          /\ pc # "idle" /\ at < new.of /\ Base + at + 1 <= Units
    BY <1>2 DEF PowerLoss
  <2>2. MayStore(x, new, at)
    BY <2>1, GarbledIs
  <2> QED BY <2>1, <2>2, ProgramUnit
<1> QED BY <1>1, <1>2

(* Power is lost and the next mount fetches, or formats.                   *)
LEMMA PowerLossLog ==
  ASSUME LogInv, on' = on, PowerLoss
  PROVE  LogInv'
<1>1. /\ disk' \in [Block -> [Unit -> Contents]]
      /\ linked => Logged(disk', Units, dir)
  BY TornIs
<1>2. pc' = "idle" /\ at' = 0 /\ UNCHANGED linked
  BY DEF PowerLoss
<1>3. CASE linked
  BY <1>1, <1>2, <1>3, FetchedLog DEF PowerLoss
<1>4. CASE ~linked
  <2>1. dir' = Allocated(disk') /\ promised' = {}
    BY <1>4 DEF PowerLoss
  <2>2. /\ dir'.block = 1 /\ dir'.off = 0 /\ dir'.bit = 1 /\ ~dir'.erased
        /\ dir'.rev = (disk'[1][1].rev + (disk'[1][1].rev % 2)) % Revs
    BY <2>1 DEF Allocated
  <2>3. Units \in Nat \ {0}
    BY LogFacts
  <2>4. disk'[1][1].rev \in Rev
    BY <1>1, <2>3, DiskIsSound DEF PairOK, Block
  <2>5. dir'.rev \in Rev
    BY <2>2, <2>4, RoundedUp
  <2>6. TypeOK'
    <3>1. dir'.block \in Block /\ dir'.bit \in Bit /\ 0 \in 0 .. Units
      BY <2>2, <2>3 DEF Block, Bit
    <3>2. linked' \in BOOLEAN
      BY <1>2 DEF LogInv, TypeOK
    <3> QED BY <1>1, <1>2, <2>1, <2>2, <2>5, <3>1, <3>2, SameTypes DEF TypeOK
  <2>7. LinkInv'
    BY <1>2, <1>4, <2>2 DEF LinkInv
  <2>8. CommitInv'
    BY <1>2, <2>2 DEF CommitInv
  <2> QED BY <2>6, <2>7, <2>8 DEF LogInv
<1> QED BY <1>3, <1>4

(* No step breaks LogInv.                                                  *)
LEMMA LogStep ==
  ASSUME LogInv, [Next]_vars
  PROVE  LogInv'
<1>1. CASE UNCHANGED vars
  <2>1. UNCHANGED <<on, disk, linked, dir, pc, new, at, promised>>
    BY <1>1 DEF vars
  <2>2. Target' = Target /\ Base' = Base
    BY <2>1 DEF Target, Base
  <2> QED BY <2>1, <2>2, SameTypes DEF LogInv, TypeOK, LinkInv, CommitInv
<1>2. CASE Next
  <2>1. on' = on
    BY <1>2 DEF Next
  <2>2. CASE Start
    BY <2>1, <2>2, StartLog
  <2>3. CASE Program
    BY <2>1, <2>3, ProgramLog
  <2>4. CASE NoFit
    BY <2>1, <2>4, NoFitLog
  <2>5. CASE Verified
    BY <2>1, <2>5, VerifiedLog
  <2>6. CASE Unverified
    BY <2>1, <2>6, UnverifiedLog
  <2>7. CASE VerifyFails
    BY <2>1, <2>7, VerifyFailsLog
  <2>8. CASE Refetch
    BY <2>1, <2>8, RefetchLog
  <2>9. CASE PowerLoss
    BY <2>1, <2>9, PowerLossLog
  <2> QED BY <1>2, <2>2, <2>3, <2>4, <2>5, <2>6, <2>7, <2>8, <2>9 DEF Next
<1> QED BY <1>1, <1>2

(* LogInv holds in every state: whatever is torn, garbled or refused, the  *)
(* mdir in memory is a prefix of the log in its block (lfs_dir_commit,     *)
(* lfs_dir_fetchmatch).                                                    *)
THEOREM LogInvariant == Spec => []LogInv
<1>1. Init => LogInv
  BY LogInit
<1>2. LogInv /\ [Next]_vars => LogInv'
  BY LogStep
<1> QED BY <1>1, <1>2, PTL DEF Spec

(* The variables of a metadata pair keep their types; the offset of an     *)
(* mdir stays within its block and its revision within 32 bits.            *)
THEOREM TypeCorrect == Spec => []TypeOK
<1>1. LogInv => TypeOK
  BY DEF LogInv
<1> QED BY <1>1, LogInvariant, PTL

(* A mount finds a directory in every crash.                               *)
THEOREM MountFindsTheDirectory == Spec => [](linked => Found(disk))
<1>1. LogInv => (linked => Found(disk))
  <2> SUFFICES ASSUME LogInv, linked PROVE Found(disk)
    OBVIOUS
  <2>1. Logged(disk, Units, dir) /\ dir.block \in Block /\ PairOK(disk, Units)
    BY LogFacts DEF LogInv, LinkInv, Block
  <2>2. FetchIn(disk, Units).off \in 1 .. Units
    BY <2>1, FetchFinds
  <2>3. Units \in Nat
    BY LogFacts
  <2> QED BY <2>2, <2>3, FetchIs DEF Found
<1> QED BY <1>1, LogInvariant, PTL

------------------------------------------------------------------------------
(* Reading back fails only where a commit fills the whole block.           *)
ReadsBack == \A s \in Settings : s.units > 1 => "unread" \notin s.faults

PendingInv == pc = "compact" \/ at > 0 => pending = <<>>

(* The log holds no value that was not promised.                           *)
PromiseInv ==
  /\ pc # "idle" => new.val \in promised
  /\ linked => Kept(disk, Units, dir, promised)

(* A compaction that has failed is not complete while anything else is     *)
(* programmed: the cache still holds one of its units.                     *)
QuietInv ==
  /\ linked /\ Units > 1 /\ pc # "compact"
  /\ NewerLive(disk[1 - dir.block], Units, dir.rev)
  => pending # <<>> /\ pending[1] = 1 - dir.block

Agrees(F, D) ==
  /\ F.block = D.block /\ F.rev = D.rev
  /\ F.off = D.off /\ F.bit = D.bit /\ F.val = D.val
AgreeInv ==
  pc = "idle" /\ result = "ok" => Agrees(FetchIn(disk, Units), dir)

KeepInv == PendingInv /\ PromiseInv /\ QuietInv /\ AgreeInv

(* What is kept is kept for more promises.                                 *)
LEMMA KeptMore ==
  ASSUME NEW d, NEW n, NEW D, NEW P, NEW Q, P \subseteq Q, Kept(d, n, D, P)
  PROVE  Kept(d, n, D, Q)
BY DEF Kept, Tail, OtherInv

(* The running commit is all that can come after the log.                  *)
LEMMA WrittenTail ==
  ASSUME NEW blk, NEW n, NEW o, NEW c, NEW a, a > 0, Writing(blk, n, o, c, a),
         NEW P, c.val \in P, NEW b
  PROVE  Tail(blk, n, o, b, P)
BY DEF Writing, Tail, Comes, CompleteIn

(* The first commit of a block carries its revision.                       *)
LEMMA WrittenRev ==
  ASSUME NEW blk, NEW n, NEW c, NEW a, a > 0, Writing(blk, n, 0, c, a), Live(blk, n)
  PROVE  blk[1].rev = c.rev
<1>1. CompleteIn(blk, 0 + 1, n) /\ 0 + 1 = 1
  BY DEF Live, Comes
<1>2. blk[1].commit # Garbage /\ blk[1].commit.rev = blk[1].rev
  BY <1>1 DEF CompleteIn
<1> QED BY <1>1, <1>2 DEF Writing

(* Whatever is programmed, only the promised values can be read.           *)
LEMMA WrittenKept ==
  ASSUME LogInv, PromiseInv, linked, pc # "idle",
         NEW d, d[1 - Target] = disk[1 - Target],
         Writing(d[Target], Units, Base, new, at + 1)
  PROVE  Kept(d, Units, dir, promised)
<1>1. /\ dir.block \in {0, 1} /\ at + 1 > 0 /\ new.val \in promised
      /\ Kept(disk, Units, dir, promised)
  BY LogFacts DEF PromiseInv
<1>2. \A b : Tail(d[Target], Units, Base, b, promised)
  BY <1>1, WrittenTail
<1>3. CASE pc = "append"
  <2>1. Target = dir.block /\ Base = dir.off
    BY <1>3 DEF Target, Base
  <2> QED BY <1>1, <1>2, <2>1 DEF Kept
<1>4. CASE pc = "compact"
  <2>1. /\ Target = 1 - dir.block /\ Base = 0 /\ 1 - Target = dir.block
        /\ new.rev = (dir.rev + 1) % Revs
    BY <1>1, <1>4 DEF Target, Base, LogInv, CommitInv
  <2>2. Live(d[Target], Units) => d[Target][1].rev = (dir.rev + 1) % Revs
    BY <1>1, <2>1, WrittenRev
  <2>3. OtherInv(d[1 - dir.block], Units, dir.rev, promised)
    BY <1>2, <2>1, <2>2 DEF OtherInv, NewerLive
  <2> QED BY <1>1, <2>1, <2>3 DEF Kept
<1> QED BY <1>3, <1>4 DEF LogInv, TypeOK

(* Nothing newer is complete when the next unit of an append is            *)
(* programmed.                                                             *)
LEMMA AppendIsQuiet ==
  ASSUME LogInv, QuietInv, linked, pc = "append",
         Units > 1, NEW u, pending = <<>> \/ pending = <<Target, u>>
  PROVE  ~NewerLive(disk[1 - dir.block], Units, dir.rev)
<1>1. dir.block \in {0, 1} /\ Target = dir.block
  BY LogFacts DEF Target
<1>2. <<Target, u>>[1] = Target
  OBVIOUS
<1> QED BY <1>1, <1>2 DEF QuietInv

(* KeepInv holds of a pair nobody refers to.                               *)
LEMMA KeepInit ==
  ASSUME Init
  PROVE  KeepInv
<1>1. pc = "idle" /\ at = 0 /\ linked = FALSE /\ result = "none"
  BY DEF Init
<1>2. PendingInv
  BY <1>1 DEF PendingInv
<1>3. PromiseInv
  BY <1>1 DEF PromiseInv
<1>4. QuietInv
  BY <1>1 DEF QuietInv
<1>5. AgreeInv
  BY <1>1 DEF AgreeInv
<1> QED BY <1>2, <1>3, <1>4, <1>5 DEF KeepInv

(* A compaction that begins drops the program cache.                       *)
LEMMA CompactKeeps ==
  ASSUME LogInv, KeepInv, UNCHANGED <<on, disk, linked, dir>>, NEW v, Compact(v),
         promised \subseteq promised', v \in promised'
  PROVE  KeepInv'
<1>1. pc' = "compact" /\ at' = 0 /\ pending' = <<>> /\ new'.val = v
  BY DEF Compact, Commit
<1>2. PromiseInv'
  BY <1>1, KeptMore, SameTypes DEF KeepInv, PromiseInv
<1> QED BY <1>1, <1>2 DEF KeepInv, PendingInv, QuietInv, AgreeInv

(* lfs_dir_commit begins an append or a compaction, and promises its       *)
(* value.                                                                  *)
LEMMA StartKeeps ==
  ASSUME LogInv, KeepInv, on' = on, Start
  PROVE  KeepInv'
<1>1. PICK v \in Value :
         /\ \/ /\ \E n \in Sizes :
                    new' = Commit(v, n, dir.bit,
                                  Opposite(disk[dir.block], dir.off + n + 1), NoRev)
               /\ pc' = "append" /\ at' = 0 /\ pending' = pending
            \/ Compact(v)
         /\ promised' = promised \cup {v}
         /\ pc = "idle" /\ UNCHANGED <<disk, linked, dir>>
  BY DEF Start
<1>2. promised \subseteq promised' /\ v \in promised'
  BY <1>1
<1>3. CASE Compact(v)
  BY <1>1, <1>2, <1>3, CompactKeeps
<1>4. CASE pc' = "append" /\ at' = 0 /\ pending' = pending /\ new'.val = v
  <2>1. PendingInv'
    BY <1>4 DEF PendingInv
  <2>2. PromiseInv'
    BY <1>1, <1>2, <1>4, KeptMore, SameTypes DEF KeepInv, PromiseInv
  <2>3. QuietInv'
    BY <1>1, <1>4, SameTypes DEF KeepInv, QuietInv
  <2>4. AgreeInv'
    BY <1>4 DEF AgreeInv
  <2> QED BY <2>1, <2>2, <2>3, <2>4 DEF KeepInv
<1> QED BY <1>1, <1>3, <1>4 DEF Commit

(* A unit is programmed, garbled or refused, or the cache still holds      *)
(* another one.                                                            *)
LEMMA ProgramKeeps ==
  ASSUME LogInv, KeepInv, on' = on, Program
  PROVE  KeepInv'
<1> DEFINE u == Base + at + 1
           stored == {[commit |-> new, part |-> at + 1, bit |-> b,
                       rev |-> IF u = 1 THEN new.rev ELSE 0] :
                        b \in IF at = 0 THEN {new.bit} ELSE Bit}
<1>1. /\ pc # "idle" /\ at < new.of /\ u <= Units
      /\ dir.block \in {0, 1} /\ disk \in [Block -> [Unit -> Contents]]
      /\ pc = "append" \/ pc = "compact"
  BY LogFacts DEF Program, LogInv, TypeOK
<1>2. ASSUME NEW d, pending = <<>> \/ pending = <<Target, u>>,
             \/ d = disk
             \/ /\ d[1 - Target] = disk[1 - Target]
                /\ Writing(d[Target], Units, Base, new, at + 1)
      PROVE  /\ linked => Kept(d, Units, dir, promised)
             /\ linked /\ Units > 1 /\ pc = "append" =>
                  ~NewerLive(d[1 - dir.block], Units, dir.rev)
  <2>1. linked => Kept(d, Units, dir, promised)
    BY <1>1, <1>2, WrittenKept DEF KeepInv, PromiseInv
  <2>2. ASSUME linked, Units > 1, pc = "append"
        PROVE  ~NewerLive(d[1 - dir.block], Units, dir.rev)
    <3>1. ~NewerLive(disk[1 - dir.block], Units, dir.rev)
      BY <1>2, <2>2, AppendIsQuiet DEF KeepInv
    <3>2. d[1 - dir.block] = disk[1 - dir.block]
      BY <1>2, <2>2 DEF Target
    <3> QED BY <3>1, <3>2
  <2> QED BY <2>1, <2>2
<1>3. CASE /\ pending \notin {<<>>, <<Target, u>>}
           /\ Fail("not_flushed") /\ UNCHANGED <<disk, pending>>
  <2>1. /\ pc' = "idle" /\ at' = 0 /\ result' = "not_flushed"
        /\ UNCHANGED <<linked, dir, promised>>
    BY <1>3 DEF Fail
  <2>2. pc = "append"
    BY <1>1, <1>3 DEF KeepInv, PendingInv
  <2>3. QuietInv'
    BY <1>3, <2>1, <2>2, SameTypes DEF KeepInv, QuietInv
  <2>4. PromiseInv'
    BY <1>3, <2>1, SameTypes DEF KeepInv, PromiseInv
  <2> QED BY <2>1, <2>3, <2>4 DEF KeepInv, PendingInv, AgreeInv
<1>4. ASSUME pending = <<>> \/ pending = <<Target, u>>,
             NEW x \in stored \cup Garbled(u),
             disk' = [disk EXCEPT ![Target][u] = x],
             at' = at + 1, pending' = <<>>,
             UNCHANGED <<linked, dir, pc, new, promised>>
      PROVE  KeepInv'
  <2>1. MayStore(x, new, at)
    <3>1. CASE x \in stored
      BY <1>1, <3>1, StoredIs
    <3>2. CASE x \in Garbled(u)
      BY <1>1, <3>2, GarbledIs
    <3> QED BY <1>4, <3>1, <3>2
  <2>2. /\ disk'[1 - Target] = disk[1 - Target]
        /\ Writing(disk'[Target], Units, Base, new, at + 1)
    BY <1>1, <1>4, <2>1, ProgramUnit
  <2>3. /\ linked => Kept(disk', Units, dir, promised)
        /\ linked /\ Units > 1 /\ pc = "append" =>
             ~NewerLive(disk'[1 - dir.block], Units, dir.rev)
    BY <1>2, <1>4, <2>2
  <2>4. PromiseInv'
    BY <1>4, <2>3, SameTypes DEF KeepInv, PromiseInv
  <2>5. QuietInv'
    BY <1>1, <1>4, <2>3, SameTypes DEF QuietInv
  <2> QED BY <1>1, <1>4, <2>4, <2>5 DEF KeepInv, PendingInv, AgreeInv
<1>5. ASSUME pending = <<>> \/ pending = <<Target, u>>,
             NEW x \in {disk[Target][u]} \cup Garbled(u),
             disk' = [disk EXCEPT ![Target][u] = x],
             pending' = <<Target, u>>, Fail("io")
      PROVE  KeepInv'
  <2>1. \/ disk' = disk
        \/ /\ disk'[1 - Target] = disk[1 - Target]
           /\ Writing(disk'[Target], Units, Base, new, at + 1)
    <3>1. CASE x = disk[Target][u]
      <4>1. disk' = disk
        BY <1>1, <1>5, <3>1
      <4> QED BY <4>1
    <3>2. CASE x \in Garbled(u)
      <4>1. MayStore(x, new, at)
        BY <1>1, <3>2, GarbledIs
      <4> QED BY <1>1, <1>5, <4>1, ProgramUnit
    <3> QED BY <1>5, <3>1, <3>2
  <2>2. /\ linked => Kept(disk', Units, dir, promised)
        /\ linked /\ Units > 1 /\ pc = "append" =>
             ~NewerLive(disk'[1 - dir.block], Units, dir.rev)
    BY <1>2, <1>5, <2>1
  <2>3. /\ pc' = "idle" /\ at' = 0 /\ result' = "io"
        /\ UNCHANGED <<linked, dir, promised>>
    BY <1>5 DEF Fail
  <2>4. PromiseInv'
    BY <2>2, <2>3, SameTypes DEF PromiseInv
  <2>5. QuietInv'
    <3>1. CASE pc = "append"
      BY <2>2, <2>3, <3>1, SameTypes DEF QuietInv
    <3>2. CASE pc = "compact"
      <4>1. Target = 1 - dir.block
        BY <3>2 DEF Target
      <4>2. pending' # <<>> /\ pending'[1] = 1 - dir.block
        BY <1>5, <4>1
      <4> QED BY <2>3, <4>2 DEF QuietInv
    <3> QED BY <1>1, <3>1, <3>2
  <2> QED BY <2>3, <2>4, <2>5 DEF KeepInv, PendingInv, AgreeInv
<1>6. \/ /\ pending \notin {<<>>, <<Target, u>>}
         /\ Fail("not_flushed") /\ UNCHANGED <<disk, pending>>
      \/ /\ pending \in {<<>>, <<Target, u>>}
         /\ \E x \in stored \cup Garbled(u) : disk' = [disk EXCEPT ![Target][u] = x]
         /\ at' = at + 1 /\ pending' = <<>>
         /\ UNCHANGED <<linked, dir, pc, new, promised>>
      \/ /\ pending \in {<<>>, <<Target, u>>}
         /\ \E x \in {disk[Target][u]} \cup Garbled(u) :
              disk' = [disk EXCEPT ![Target][u] = x]
         /\ pending' = <<Target, u>> /\ Fail("io")
  BY DEF Program
<1> QED BY <1>3, <1>4, <1>5, <1>6

(* A commit that does not fit is compacted.                                *)
LEMMA NoFitKeeps ==
  ASSUME LogInv, KeepInv, on' = on, NoFit
  PROVE  KeepInv'
BY CompactKeeps DEF NoFit, KeepInv, PromiseInv

(* A successful commit is the newest, and nothing follows it.              *)
LEMMA VerifiedKeeps ==
  ASSUME LogInv, KeepInv, on' = on, Verified
  PROVE  KeepInv'
<1>1. /\ pc # "idle" /\ at = new.of /\ Readable /\ Committed(dir')
      /\ UNCHANGED <<disk, pending>> /\ pc' = "idle" /\ at' = 0
      /\ linked' /\ promised' = {new.val} /\ Logged(disk, Units, dir')
  BY VerifiedIs
<1>2. /\ Units \in Nat \ {0} /\ dir.block \in {0, 1} /\ PairOK(disk, Units)
      /\ Target \in Block /\ 1 - Target \in Block /\ at > 0
      /\ dir.rev \in Rev
  BY <1>1, LogFacts
<1>3. ~Comes(disk[Target], Units, dir'.off, dir'.bit)
  BY <1>1, VerifiedEnds DEF Committed
<1>4. ~NewerLive(disk[1 - Target], Units, dir'.rev)
  <2>1. CASE pc = "append"
    <3>1. Target = dir.block /\ dir'.rev = dir.rev /\ dir.off > 0 /\ Base = dir.off
      BY <1>1, <2>1 DEF Target, Base, Committed, LogInv, CommitInv
    <3>2. linked
      BY <3>1 DEF LogInv, LinkInv
    <3>3. Units > 1
      <4>1. Base + at <= Units
        BY <2>1 DEF LogInv, CommitInv, Writing
      <4> QED BY <1>2, <3>1, <4>1, LogFacts
    <3>4. pending = <<>>
      BY <1>2 DEF KeepInv, PendingInv
    <3>5. ~NewerLive(disk[1 - dir.block], Units, dir.rev)
      BY <2>1, <3>2, <3>3, <3>4, AppendIsQuiet DEF KeepInv
    <3> QED BY <3>1, <3>5
  <2>2. CASE pc = "compact"
    <3>1. /\ 1 - Target = dir.block /\ dir'.rev = new.rev
          /\ new.rev = (dir.rev + 1) % Revs
      BY <1>1, <1>2, <2>2 DEF Target, Committed, LogInv, CommitInv
    <3>2. disk[dir.block][1].rev \in Rev
      BY <1>2, <3>1 DEF PairOK
    <3>3. \/ dir.rev = disk[dir.block][1].rev
          \/ dir.rev = (disk[dir.block][1].rev + 1) % Revs
      <4>1. CASE linked
        BY <4>1 DEF LogInv, LinkInv, Logged
      <4>2. CASE ~linked
        <5>1. /\ dir.block = 1
              /\ dir.rev = (disk[1][1].rev + (disk[1][1].rev % 2)) % Revs
          BY <4>2 DEF LogInv, LinkInv
        <5> QED BY <3>2, <5>1, RoundedUp
      <4> QED BY <4>1, <4>2
    <3>4. Older(disk[dir.block][1].rev, dir'.rev)
      BY <1>2, <3>1, <3>2, <3>3, SecondIsNewer
    <3> QED BY <3>1, <3>4 DEF NewerLive
  <2> QED BY <1>1, <2>1, <2>2 DEF LogInv, TypeOK
<1>5. dir'.block = Target /\ dir'.val = new.val
  BY <1>1 DEF Committed
<1>6. PendingInv'
  BY <1>1 DEF PendingInv
<1>7. PromiseInv'
  <2>1. Kept(disk, Units, dir', {new.val})
    BY <1>3, <1>4, <1>5 DEF Kept, Tail, OtherInv
  <2> QED BY <1>1, <2>1, SameTypes DEF PromiseInv
<1>8. QuietInv'
  BY <1>1, <1>4, <1>5, SameTypes DEF QuietInv
<1>9. AgreeInv'
  <2>1. Agrees(FetchIn(disk, Units), dir')
    BY <1>1, <1>2, <1>3, <1>4, <1>5, FetchAgrees DEF Agrees
  <2> QED BY <1>1, <2>1, SameTypes DEF AgreeInv
<1> QED BY <1>6, <1>7, <1>8, <1>9 DEF KeepInv

(* A compaction that cannot be read is not complete.                       *)
LEMMA UnverifiedKeeps ==
  ASSUME LogInv, KeepInv, on' = on, Unverified
  PROVE  KeepInv'
<1>1. CASE pc = "append"
  <2>1. Compact(new.val) /\ UNCHANGED <<on, disk, linked, dir, promised>>
    BY <1>1 DEF Unverified
  <2> QED BY <1>1, <2>1, CompactKeeps DEF KeepInv, PromiseInv
<1>2. CASE pc = "compact"
  <2>1. /\ pc' = "idle" /\ at' = 0 /\ result' = "no_space" /\ pending' = <<>>
        /\ UNCHANGED <<disk, linked, dir, promised>> /\ ~Readable
    BY <1>2 DEF Unverified, Fail
  <2>2. ~NewerLive(disk[1 - dir.block], Units, dir.rev)
    <3>1. Target = 1 - dir.block /\ Base = 0
      BY <1>2 DEF Target, Base
    <3>2. ~CompleteIn(disk[1 - dir.block], 0 + 1, Units)
      BY <2>1, <3>1, CompleteIs DEF Readable
    <3> QED BY <3>2 DEF NewerLive, Live, Comes
  <2>3. PromiseInv'
    BY <2>1, SameTypes DEF KeepInv, PromiseInv
  <2>4. QuietInv'
    BY <2>1, <2>2, SameTypes DEF QuietInv
  <2> QED BY <2>1, <2>3, <2>4 DEF KeepInv, PendingInv, AgreeInv
<1> QED BY <1>1, <1>2 DEF Unverified

(* Reading back fails, where every commit is a compaction.                 *)
LEMMA VerifyFailsKeeps ==
  ASSUME ReadsBack, LogInv, KeepInv, on' = on, VerifyFails
  PROVE  KeepInv'
<1>1. /\ pc' = "idle" /\ at' = 0 /\ result' = "io"
      /\ UNCHANGED <<disk, pending, linked, dir, promised>>
  BY DEF VerifyFails, Fail
<1>2. ~(Units > 1)
  <2>1. on \in Settings /\ "unread" \in on.faults
    BY DEF VerifyFails, Faults, LogInv
  <2> QED BY <2>1 DEF ReadsBack, Units
<1>3. PromiseInv'
  BY <1>1, SameTypes DEF KeepInv, PromiseInv
<1>4. QuietInv'
  BY <1>2, SameTypes DEF QuietInv
<1> QED BY <1>1, <1>3, <1>4 DEF KeepInv, PendingInv, AgreeInv

(* An operation starts with a fetch.                                       *)
LEMMA RefetchKeeps ==
  ASSUME LogInv, KeepInv, on' = on, Refetch
  PROVE  KeepInv'
<1>1. /\ pc = "idle" /\ linked
      /\ UNCHANGED <<disk, linked, pc, new, at, pending, result, promised>>
      /\ dir' = FetchIn(disk, Units)
  BY RefetchLog DEF Refetch
<1>2. /\ PairOK(disk, Units) /\ dir.block \in Block /\ Logged(disk, Units, dir)
      /\ Kept(disk, Units, dir, promised)
  BY <1>1, LogFacts DEF LogInv, LinkInv, KeepInv, PromiseInv, Block
<1>3. /\ dir'.val \in promised /\ Kept(disk, Units, dir', {dir'.val})
      /\ ~NewerLive(disk[1 - dir'.block], Units, dir'.rev)
  BY <1>1, <1>2, FetchKeeps
<1>4. PromiseInv'
  <2>1. Kept(disk, Units, dir', promised)
    BY <1>3, KeptMore
  <2> QED BY <1>1, <2>1, SameTypes DEF PromiseInv
<1>5. QuietInv'
  BY <1>1, <1>3, SameTypes DEF QuietInv
<1>6. AgreeInv'
  BY <1>1, SameTypes DEF AgreeInv, Agrees
<1>7. PendingInv'
  BY <1>1 DEF KeepInv, PendingInv
<1> QED BY <1>4, <1>5, <1>6, <1>7 DEF KeepInv

(* The value a mount finds is the one promised from then on.               *)
LEMMA PowerLossKeeps ==
  ASSUME LogInv, KeepInv, on' = on, PowerLoss
  PROVE  KeepInv'
<1>1. /\ pc' = "idle" /\ at' = 0 /\ result' = "none" /\ pending' = <<>>
      /\ UNCHANGED linked
      /\ dir' = (IF linked THEN Fetch(disk') ELSE Allocated(disk'))
      /\ promised' = (IF linked THEN {dir'.val} ELSE {})
  BY DEF PowerLoss
<1>2. CASE linked
  <2>1. Units \in Nat \ {0} /\ dir.block \in Block
    BY LogFacts DEF Block
  <2>2. PairOK(disk', Units) /\ Logged(disk', Units, dir)
    BY <1>2, <2>1, TornIs, DiskIsSound
  <2>3. Kept(disk', Units, dir, promised)
    BY <1>2, TornIs, WrittenKept DEF KeepInv, PromiseInv
  <2>4. dir' = FetchIn(disk', Units)
    BY <1>1, <1>2, FetchIs
  <2>5. /\ Kept(disk', Units, dir', {dir'.val})
        /\ ~NewerLive(disk'[1 - dir'.block], Units, dir'.rev)
    BY <2>1, <2>2, <2>3, <2>4, FetchKeeps
  <2>6. PromiseInv'
    BY <1>1, <1>2, <2>5, SameTypes DEF PromiseInv
  <2>7. QuietInv'
    BY <2>5, SameTypes DEF QuietInv
  <2> QED BY <1>1, <2>6, <2>7 DEF KeepInv, PendingInv, AgreeInv
<1>3. CASE ~linked
  <2>1. PromiseInv'
    BY <1>1, <1>3 DEF PromiseInv
  <2>2. QuietInv'
    BY <1>1, <1>3 DEF QuietInv
  <2> QED BY <1>1, <2>1, <2>2 DEF KeepInv, PendingInv, AgreeInv
<1> QED BY <1>2, <1>3

(* No step breaks KeepInv.                                                 *)
LEMMA KeepStep ==
  ASSUME ReadsBack, LogInv, KeepInv, [Next]_vars
  PROVE  KeepInv'
<1>1. CASE UNCHANGED vars
  <2>1. UNCHANGED <<on, disk, linked, dir, pc, new, at, pending, result, promised>>
    BY <1>1 DEF vars
  <2> QED BY <2>1, SameTypes DEF KeepInv, PendingInv, PromiseInv, QuietInv, AgreeInv
<1>2. CASE Next
  <2>1. on' = on
    BY <1>2 DEF Next
  <2>2. CASE Start
    BY <2>1, <2>2, StartKeeps
  <2>3. CASE Program
    BY <2>1, <2>3, ProgramKeeps
  <2>4. CASE NoFit
    BY <2>1, <2>4, NoFitKeeps
  <2>5. CASE Verified
    BY <2>1, <2>5, VerifiedKeeps
  <2>6. CASE Unverified
    BY <2>1, <2>6, UnverifiedKeeps
  <2>7. CASE VerifyFails
    BY <2>1, <2>7, VerifyFailsKeeps
  <2>8. CASE Refetch
    BY <2>1, <2>8, RefetchKeeps
  <2>9. CASE PowerLoss
    BY <2>1, <2>9, PowerLossKeeps
  <2> QED BY <1>2, <2>2, <2>3, <2>4, <2>5, <2>6, <2>7, <2>8, <2>9 DEF Next
<1> QED BY <1>1, <1>2

(* KeepInv holds in every state, if reading back fails only where a commit *)
(* fills a block.                                                          *)
THEOREM KeepInvariant ==
  ASSUME ReadsBack
  PROVE  Spec => [](LogInv /\ KeepInv)
<1>1. Init => LogInv /\ KeepInv
  BY LogInit, KeepInit
<1>2. LogInv /\ KeepInv /\ [Next]_vars => LogInv' /\ KeepInv'
  BY LogStep, KeepStep
<1> QED BY <1>1, <1>2, PTL DEF Spec

(* At any moment a mount finds the last committed value or that of a       *)
(* commit begun since (lfs_dir_commit, lfs_dir_compact,                    *)
(* lfs_dir_fetchmatch), whatever power loss, bad units and refused writes  *)
(* have done.                                                              *)
THEOREM PairIsRecoverable ==
  ASSUME ReadsBack
  PROVE  Spec => []Recoverable
<1>1. LogInv /\ KeepInv => Recoverable
  <2> SUFFICES ASSUME LogInv, KeepInv, linked
               PROVE  Found(disk) /\ Fetch(disk).val \in promised
    BY DEF Recoverable
  <2>1. /\ Logged(disk, Units, dir) /\ dir.block \in Block /\ PairOK(disk, Units)
        /\ Kept(disk, Units, dir, promised) /\ Units \in Nat
    BY LogFacts DEF LogInv, LinkInv, KeepInv, PromiseInv, Block
  <2>2. FetchIn(disk, Units).off \in 1 .. Units
    BY <2>1, FetchFinds
  <2>3. FetchIn(disk, Units).val \in promised
    BY <2>1, FetchKeeps
  <2> QED BY <2>1, <2>2, <2>3, FetchIs DEF Found
<1> QED BY <1>1, KeepInvariant, PTL

(* After a successful commit the mdir in memory is the one that a fetch    *)
(* would return, so that the next append starts where the log ends         *)
(* (lfs_dir_commitcrc, "successful commit, update dir").                   *)
THEOREM MemoryMatchesTheLog ==
  ASSUME ReadsBack
  PROVE  Spec => []MemoryAgrees
<1>1. KeepInv => MemoryAgrees
  BY FetchIs DEF KeepInv, AgreeInv, Agrees, MemoryAgrees
<1> QED BY <1>1, KeepInvariant, PTL
==============================================================================
