----------------------------- MODULE FlattenProofs -----------------------------
(***************************************************************************)
(* KrnSetupRun accepts the topologies that are complete and no others, and *)
(* gives the stars the buffers that their connections describe, for any    *)
(* hierarchy, number of ports and links.                                   *)
(***************************************************************************)
EXTENDS Flatten, FiniteSetTheorems, SequenceTheorems, WellFoundedInduction, TLAPS

-----------------------------------------------------------------------------
(* Numbers. *)

(* A set of numbers has a least one. *)
LEMMA LeastNumber ==
    ASSUME NEW S \in SUBSET Nat, S # {}
    PROVE  \E x \in S : \A y \in S : x <= y
<1>1. IsWellFoundedOn({ss \in Nat \X Nat : ss[1] < ss[2]}, Nat)
  BY NatLessThanWellFounded DEF OpToRel
<1>2. PICK x \in S : \A y \in S : ~(<<y, x>> \in {ss \in Nat \X Nat : ss[1] < ss[2]})
  BY <1>1, WFMin
<1>3. \A y \in S : x <= y
  <2> SUFFICES ASSUME NEW y \in S PROVE x <= y
    OBVIOUS
  <2>1. <<y, x>> \in Nat \X Nat => ~(y < x)
    BY <1>2
  <2> QED
    BY <2>1
<1> QED
  BY <1>3

(* Induction over 0..N, as a fact about a set of numbers. *)
LEMMA AllUpTo ==
    ASSUME NEW N \in Nat, NEW T, 0 \in T, \A n \in 0..(N - 1) : n \in T => n + 1 \in T
    PROVE  0..N \subseteq T
<1> SUFFICES ASSUME ~(0..N \subseteq T) PROVE FALSE
  OBVIOUS
<1>1. (0..N) \ T \in SUBSET Nat /\ (0..N) \ T # {}
  OBVIOUS
<1>2. PICK m \in (0..N) \ T : \A k \in (0..N) \ T : m <= k
  <2>1. PICK S : S = (0..N) \ T
    OBVIOUS
  <2>2. \E x \in S : \A y \in S : x <= y
    BY <1>1, <2>1, LeastNumber
  <2> QED
    BY <2>1, <2>2
<1>3. m \in Nat /\ m # 0 /\ m <= N
  OBVIOUS
<1>4. m - 1 \in 0..(N - 1) /\ m - 1 \in 0..N /\ ~(m <= m - 1)
  BY <1>3
<1>5. m - 1 \in T
  BY <1>2, <1>4
<1>6. m - 1 + 1 \in T /\ m - 1 + 1 = m
  BY <1>3, <1>4, <1>5
<1> QED
  BY <1>6

-----------------------------------------------------------------------------
(* A function that is applied N times. *)

(* h is what becomes of x in 0 to N applications of F. *)
Iterates(h, F, x, N) == h = [k \in 0..N |-> IF k = 0 THEN x ELSE F[h[k - 1]]]

(* There are such functions. *)
LEMMA IteratesRun ==
    ASSUME NEW F, NEW x, NEW N \in Nat
    PROVE  \E h : Iterates(h, F, x, N)
<1> DEFINE T == {n \in 0..N : \E h : Iterates(h, F, x, n)}
<1>1. 0 \in T
  <2>1. PICK h : h = [k \in 0..0 |-> x]
    OBVIOUS
  <2>2. h = [k \in 0..0 |-> IF k = 0 THEN x ELSE F[h[k - 1]]]
    BY <2>1
  <2> QED
    BY <2>2 DEF Iterates
<1>2. ASSUME NEW n \in 0..(N - 1), n \in T
      PROVE  n + 1 \in T
  <2>1. PICK h : Iterates(h, F, x, n)
    BY <1>2
  <2>2. h = [k \in 0..n |-> IF k = 0 THEN x ELSE F[h[k - 1]]]
    BY <2>1 DEF Iterates
  <2>3. PICK j : j = [k \in 0..(n + 1) |-> IF k = n + 1 THEN F[h[n]] ELSE h[k]]
    OBVIOUS
  <2>4. ASSUME NEW k \in 0..(n + 1)
        PROVE  j[k] = IF k = 0 THEN x ELSE F[j[k - 1]]
    <3>1. CASE k = n + 1
      <4>1. j[k] = F[h[n]] /\ j[k - 1] = h[n] /\ k # 0
        BY <2>3, <3>1
      <4> QED
        BY <4>1
    <3>2. CASE k = 0
      <4>1. j[k] = h[k] /\ h[k] = x
        BY <2>2, <2>3, <3>2
      <4> QED
        BY <3>2, <4>1
    <3>3. CASE k # 0 /\ k # n + 1
      <4>1. k \in 0..n /\ k - 1 \in 0..(n + 1) /\ k - 1 # n + 1
        BY <3>3
      <4>2. j[k] = h[k] /\ j[k - 1] = h[k - 1] /\ h[k] = F[h[k - 1]]
        BY <2>2, <2>3, <3>3, <4>1
      <4> QED
        BY <3>3, <4>2
    <3> QED
      BY <3>1, <3>2, <3>3
  <2>5. j = [k \in 0..(n + 1) |-> j[k]]
    BY <2>3
  <2>6. j = [k \in 0..(n + 1) |-> IF k = 0 THEN x ELSE F[j[k - 1]]]
    BY <2>4, <2>5
  <2>7. Iterates(j, F, x, n + 1)
    BY <2>6 DEF Iterates
  <2> QED
    BY <2>7
<1> HIDE DEF T
<1>3. 0..N \subseteq T
  BY <1>1, <1>2, AllUpTo
<1>4. N \in T
  BY <1>3
<1> QED
  BY <1>4 DEF T

(* One application after the other. *)
LEMMA IteratesStep ==
    ASSUME NEW F, NEW x, NEW N \in Nat, NEW h, Iterates(h, F, x, N)
    PROVE  h[0] = x /\ \A k \in 0..(N - 1) : h[k + 1] = F[h[k]]
<1>1. \A k \in 0..N : h[k] = IF k = 0 THEN x ELSE F[h[k - 1]]
  BY DEF Iterates
<1>2. ASSUME NEW k \in 0..(N - 1) PROVE h[k + 1] = F[h[k]]
  <2>1. k + 1 \in 0..N /\ k + 1 # 0 /\ (k + 1) - 1 = k
    OBVIOUS
  <2> QED
    BY <1>1, <2>1
<1> QED
  BY <1>1, <1>2

(* Where x ends up is in every set that F does not lead out of. *)
LEMMA IteratesInside ==
    ASSUME NEW F, NEW x, NEW N \in Nat, NEW h, Iterates(h, F, x, N),
           NEW S, x \in S, \A y \in S : F[y] \in S
    PROVE  \A k \in 0..N : h[k] \in S
<1> DEFINE T == {n \in 0..N : h[n] \in S}
<1>1. 0 \in T
  BY IteratesStep
<1>2. ASSUME NEW n \in 0..(N - 1), n \in T
      PROVE  n + 1 \in T
  <2>1. h[n + 1] = F[h[n]] /\ h[n] \in S
    BY <1>2, IteratesStep
  <2> QED
    BY <2>1
<1> HIDE DEF T
<1>3. 0..N \subseteq T
  BY <1>1, <1>2, AllUpTo
<1> QED
  BY <1>3 DEF T

(* If what moves is not deeper than N, and moves deeper, then N moves come *)
(* to the end; and it is the end that the next one leads to.               *)
LEMMA IteratesEnd ==
    ASSUME NEW X, NEW F \in [X -> X], NEW rank \in [X -> Nat], NEW N \in Nat,
           \A y \in X : F[y] # y => rank[y] < N /\ rank[F[y]] > rank[y],
           NEW x \in X, NEW h, Iterates(h, F, x, N)
    PROVE  h[N] \in X /\ F[h[N]] = h[N]
<1>1. \A k \in 0..N : h[k] \in X
  BY IteratesInside
<1>1a. h[0] = x /\ \A n \in 0..(N - 1) : h[n + 1] = F[h[n]]
  <2>1. PICK G, y : G = F /\ y = x
    OBVIOUS
  <2>2. Iterates(h, G, y, N)
    BY <2>1
  <2>3. h[0] = y /\ \A n \in 0..(N - 1) : h[n + 1] = G[h[n]]
    BY <2>2, IteratesStep
  <2> QED
    BY <2>1, <2>3
<1> DEFINE T == {n \in 0..N : F[h[n]] = h[n] \/ rank[h[n]] >= n}
<1>2. 0 \in T
  <2>1. rank[h[0]] \in Nat
    BY <1>1
  <2> QED
    BY <2>1
<1>3. ASSUME NEW n \in 0..(N - 1), n \in T
      PROVE  n + 1 \in T
  <2>1. h[n + 1] = F[h[n]] /\ h[n] \in X /\ n \in 0..N /\ n + 1 \in 0..N
    <3>1. n \in 0..N /\ n + 1 \in 0..N
      OBVIOUS
    <3> QED
      BY <1>1, <1>1a, <3>1
  <2>2. CASE F[h[n]] = h[n]
    BY <2>1, <2>2
  <2>3. CASE F[h[n]] # h[n]
    <3>1. rank[h[n]] >= n
      BY <1>3, <2>3
    <3>2. rank[h[n + 1]] > rank[h[n]]
      BY <2>1, <2>3
    <3>3. rank[h[n]] \in Nat /\ rank[h[n + 1]] \in Nat
      BY <1>1, <2>1
    <3>4. rank[h[n + 1]] >= n + 1
      BY <3>1, <3>2, <3>3
    <3> QED
      BY <2>1, <3>4
  <2> QED
    BY <2>2, <2>3
<1> HIDE DEF T
<1>4. 0..N \subseteq T
  BY <1>2, <1>3, AllUpTo
<1>5. F[h[N]] = h[N] \/ rank[h[N]] >= N
  BY <1>4 DEF T
<1>6. h[N] \in X
  BY <1>1
<1>7. rank[h[N]] \in Nat
  BY <1>6
<1> QED
  BY <1>5, <1>6, <1>7

(* F[x] and x end up in the same place. *)
LEMMA IteratesShift ==
    ASSUME NEW F, NEW x, NEW N \in Nat, NEW h, Iterates(h, F, x, N),
           NEW j, Iterates(j, F, F[x], N)
    PROVE  \A k \in 0..N : j[k] = F[h[k]]
<1>1. h[0] = x /\ \A k \in 0..(N - 1) : h[k + 1] = F[h[k]]
  BY IteratesStep
<1>2. j[0] = F[x] /\ \A k \in 0..(N - 1) : j[k + 1] = F[j[k]]
  <2>1. PICK y : y = F[x]
    OBVIOUS
  <2>2. Iterates(j, F, y, N)
    BY <2>1
  <2>3. j[0] = y /\ \A k \in 0..(N - 1) : j[k + 1] = F[j[k]]
    BY <2>2, IteratesStep
  <2> QED
    BY <2>1, <2>3
<1> DEFINE T == {n \in 0..N : j[n] = F[h[n]]}
<1>3. 0 \in T
  BY <1>1, <1>2
<1>4. ASSUME NEW n \in 0..(N - 1), n \in T
      PROVE  n + 1 \in T
  <2>1. j[n + 1] = F[j[n]] /\ j[n] = F[h[n]] /\ h[n + 1] = F[h[n]]
    BY <1>1, <1>2, <1>4
  <2> QED
    BY <2>1
<1> HIDE DEF T
<1>5. 0..N \subseteq T
  BY <1>3, <1>4, AllUpTo
<1> QED
  BY <1>5 DEF T

-----------------------------------------------------------------------------
(* The hierarchy. *)

(* The blocks and galaxies, and the levels a tree may have.                *)
All == Star \cup Galaxy
Levels == Cardinality(Galaxy)

(* There is a level, the universe's.                                       *)
LEMMA LevelsNat == Levels \in Nat \ {0}
<1>1. Levels \in Nat /\ Levels # 0
  BY FiniteAssumption, BlockAssumption, FS_CardinalityType, FS_EmptySet DEF Levels
<1> QED
  BY <1>1

(* The sibling list of a galaxy. *)
LEMMA Lists ==
    ASSUME NEW t \in Trees, NEW g \in Galaxy
    PROVE  /\ t[g] \in Seq(Block)
           /\ DOMAIN t[g] = 1..Len(t[g]) /\ Len(t[g]) \in Nat
           /\ \A i \in DOMAIN t[g] : t[g][i] \in Block
           /\ \A i \in DOMAIN t[g] : \A h \in Galaxy : \A j \in DOMAIN t[h] :
                t[g][i] = t[h][j] => g = h /\ i = j
           /\ Range(t[g]) \subseteq Block
           /\ \A b \in Range(t[g]) : \E i \in DOMAIN t[g] : t[g][i] = b
           /\ \A i \in DOMAIN t[g] : t[g][i] \in Range(t[g])
<1>1. t[g] \in Seq(Block)
  BY TreeAssumption
<1>2. \A i \in DOMAIN t[g] : \A h \in Galaxy : \A j \in DOMAIN t[h] :
        t[g][i] = t[h][j] => g = h /\ i = j
  BY TreeAssumption
<1>3. /\ DOMAIN t[g] = 1..Len(t[g]) /\ Len(t[g]) \in Nat
      /\ \A i \in DOMAIN t[g] : t[g][i] \in Block
  BY <1>1
<1> QED
  BY <1>1, <1>2, <1>3 DEF Range

(* The blocks of different galaxies are different. *)
LEMMA OneList ==
    ASSUME NEW t \in Trees, NEW g \in Galaxy, NEW h \in Galaxy,
           NEW b, b \in Range(t[g]), b \in Range(t[h])
    PROVE  g = h
<1>1. PICK i \in DOMAIN t[g] : t[g][i] = b
  BY Lists
<1>2. PICK j \in DOMAIN t[h] : t[h][j] = b
  BY DEF Range
<1> QED
  BY <1>1, <1>2, Lists

(* depth is the level of every galaxy of the tree t.                       *)
Depths(t, depth) ==
    /\ depth \in [Galaxy -> 0..(Levels - 1)]
    /\ \A g \in Galaxy : \A b \in Range(t[g]) : b \in Galaxy => depth[b] = depth[g] + 1

(* A tree has levels.                                                      *)
LEMMA Depth ==
    ASSUME NEW t \in Trees
    PROVE  \E depth : Depths(t, depth)
<1>1. PICK depth \in [Galaxy -> 0..(Levels - 1)] :
        \A g \in Galaxy : \A i \in DOMAIN t[g] :
          t[g][i] \in Galaxy => depth[t[g][i]] = depth[g] + 1
  BY TreeAssumption DEF Levels
<1>2. ASSUME NEW g \in Galaxy, NEW b \in Range(t[g]), b \in Galaxy
      PROVE  depth[b] = depth[g] + 1
  <2>1. PICK i \in DOMAIN t[g] : t[g][i] = b
    BY Lists
  <2> QED
    BY <1>1, <1>2, <2>1
<1> QED
  BY <1>1, <1>2 DEF Depths

(* No galaxy is a block of itself. *)
LEMMA NotInItself ==
    ASSUME NEW t \in Trees, NEW g \in Galaxy
    PROVE  g \notin Range(t[g])
<1> SUFFICES ASSUME g \in Range(t[g]) PROVE FALSE
  OBVIOUS
<1>1. PICK depth : Depths(t, depth)
  BY Depth
<1>2. depth[g] \in 0..(Levels - 1) /\ depth[g] = depth[g] + 1
  BY <1>1 DEF Depths
<1> QED
  BY <1>2, LevelsNat

(* One level more of the tree: what InTree adds in a step. *)
Grow == [S \in SUBSET All |-> S \cup UNION {Range(children[g]) : g \in S \cap Galaxy}]

(* A level more of blocks.                                                 *)
LEMMA GrowType ==
    ASSUME children \in Trees
    PROVE  /\ Grow \in [SUBSET All -> SUBSET All] /\ {Universe} \in SUBSET All
           /\ \A S \in SUBSET All :
                Grow[S] = S \cup UNION {Range(children[g]) : g \in S \cap Galaxy}
<1>1. \A g \in Galaxy : Range(children[g]) \in SUBSET All
  BY Lists DEF Block, All
<1> QED
  BY <1>1, BlockAssumption DEF Grow, All

(* InTree is Grow, applied to the universe for every level.                *)
LEMMA InTreeIs ==
    ASSUME children \in Trees
    PROVE  \E h : /\ Iterates(h, Grow, {Universe}, Levels)
                  /\ \A b : InTree(b) <=> b \in h[Levels]
<1> DEFINE u == CHOOSE h : h = [k \in 0..Levels |->
                   IF k = 0 THEN {Universe}
                   ELSE h[k - 1] \cup UNION {Range(children[g]) : g \in h[k - 1] \cap Galaxy}]
<1>1. PICK h : Iterates(h, Grow, {Universe}, Levels)
  BY IteratesRun, LevelsNat
<1>2. \A k \in 0..Levels : h[k] \in SUBSET All
  <2>1. PICK S : S = SUBSET All
    OBVIOUS
  <2>2. {Universe} \in S /\ \A y \in S : Grow[y] \in S
    BY <2>1, GrowType
  <2>3. \A k \in 0..Levels : h[k] \in S
    BY <1>1, <2>2, LevelsNat, IteratesInside
  <2> QED
    BY <2>1, <2>3
<1>3. h = [k \in 0..Levels |->
             IF k = 0 THEN {Universe}
             ELSE h[k - 1] \cup UNION {Range(children[g]) : g \in h[k - 1] \cap Galaxy}]
  <2>1. \A k \in 0..Levels : k # 0 => k - 1 \in 0..Levels
    BY LevelsNat
  <2>2. \A k \in 0..Levels : k # 0 =>
          Grow[h[k - 1]] = h[k - 1] \cup UNION {Range(children[g]) : g \in h[k - 1] \cap Galaxy}
    BY <1>2, <2>1, GrowType
  <2> QED
    BY <1>1, <2>2 DEF Iterates
<1>4. u = [k \in 0..Levels |->
             IF k = 0 THEN {Universe}
             ELSE u[k - 1] \cup UNION {Range(children[g]) : g \in u[k - 1] \cap Galaxy}]
  BY <1>3
<1>5. \A b : InTree(b) <=> b \in u[Levels]
  BY DEF InTree, Levels
<1> HIDE DEF u
<1>6. \A k \in 0..Levels : u[k] \in SUBSET All
  <2> DEFINE T == {n \in 0..Levels : u[n] \in SUBSET All}
  <2>1. 0 \in T
    BY <1>4, LevelsNat, GrowType
  <2>2. ASSUME NEW n \in 0..(Levels - 1), n \in T
        PROVE  n + 1 \in T
    <3>1. n + 1 \in 0..Levels /\ n + 1 # 0 /\ (n + 1) - 1 = n
      BY LevelsNat
    <3>2. u[n + 1] = u[n] \cup UNION {Range(children[g]) : g \in u[n] \cap Galaxy}
      BY <1>4, <3>1
    <3>3. u[n] \in SUBSET All /\ Grow[u[n]] \in SUBSET All
      BY <2>2, GrowType
    <3>4. u[n + 1] = Grow[u[n]]
      BY <3>2, <3>3, GrowType
    <3> QED
      BY <3>1, <3>3, <3>4
  <2> HIDE DEF T
  <2>3. 0..Levels \subseteq T
    BY <2>1, <2>2, LevelsNat, AllUpTo
  <2> QED
    BY <2>3 DEF T
<1>7. Iterates(u, Grow, {Universe}, Levels)
  <2>1. \A k \in 0..Levels : k # 0 => k - 1 \in 0..Levels
    BY LevelsNat
  <2>2. \A k \in 0..Levels : k # 0 =>
          Grow[u[k - 1]] = u[k - 1] \cup UNION {Range(children[g]) : g \in u[k - 1] \cap Galaxy}
    BY <1>6, <2>1, GrowType
  <2> QED
    BY <1>4, <2>2 DEF Iterates
<1> QED
  BY <1>5, <1>7

(* The tree is in every set that holds the universe and, with a galaxy,    *)
(* its blocks.                                                             *)
LEMMA TreeInside ==
    ASSUME children \in Trees, NEW D, Universe \in D,
           \A g \in D \cap Galaxy : Range(children[g]) \subseteq D,
           NEW b, InTree(b)
    PROVE  b \in D
<1>1. PICK h : Iterates(h, Grow, {Universe}, Levels) /\ (InTree(b) <=> b \in h[Levels])
  BY InTreeIs
<1>2. PICK S : S = {X \in SUBSET All : X \subseteq D}
  OBVIOUS
<1>3. {Universe} \in S
  BY <1>2, BlockAssumption DEF All
<1>4. \A X \in S : Grow[X] \in S
  <2> SUFFICES ASSUME NEW X \in S PROVE Grow[X] \in S
    OBVIOUS
  <2>1. X \in SUBSET All /\ X \subseteq D
    BY <1>2
  <2>2. Grow[X] \in SUBSET All
        /\ Grow[X] = X \cup UNION {Range(children[g]) : g \in X \cap Galaxy}
    BY <2>1, GrowType
  <2>3. \A g \in X \cap Galaxy : Range(children[g]) \subseteq D
    BY <2>1
  <2> QED
    BY <1>2, <2>1, <2>2, <2>3
<1>5. \A k \in 0..Levels : h[k] \in S
  BY <1>1, <1>3, <1>4, LevelsNat, IteratesInside
<1>6. h[Levels] \in S
  BY <1>5, LevelsNat
<1> QED
  BY <1>1, <1>2, <1>6

(* So is the universe. *)
LEMMA UniverseInTree ==
    ASSUME children \in Trees
    PROVE  InTree(Universe)
<1>1. PICK h : Iterates(h, Grow, {Universe}, Levels) /\ (\A x : InTree(x) <=> x \in h[Levels])
  BY InTreeIs
<1>2. {Universe} \in SUBSET All
  BY GrowType
<1>3. PICK S : S = {X \in SUBSET All : Universe \in X}
  OBVIOUS
<1>4. {Universe} \in S /\ \A X \in S : Grow[X] \in S
  BY <1>2, <1>3, GrowType
<1>5. \A k \in 0..Levels : h[k] \in S
  BY <1>1, <1>4, LevelsNat, IteratesInside
<1> QED
  BY <1>1, <1>3, <1>5, LevelsNat

(* A galaxy that has blocks is in the tree, as deep as it is. *)
LEMMA ListedInTree ==
    ASSUME children \in Trees, NEW g \in Galaxy, NEW b \in Range(children[g])
    PROVE  InTree(g) /\ InTree(b)
<1>1. PICK h : Iterates(h, Grow, {Universe}, Levels) /\ (\A x : InTree(x) <=> x \in h[Levels])
  BY InTreeIs
<1>2. PICK depth : Depths(children, depth)
  BY Depth
<1>3. \A k \in 0..Levels : h[k] \in SUBSET All
  <2>1. PICK S : S = SUBSET All
    OBVIOUS
  <2>2. {Universe} \in S /\ \A y \in S : Grow[y] \in S
    BY <2>1, GrowType
  <2>3. \A k \in 0..Levels : h[k] \in S
    BY <1>1, <2>2, LevelsNat, IteratesInside
  <2> QED
    BY <2>1, <2>3
<1>4. h[0] = {Universe} /\ \A k \in 0..(Levels - 1) : h[k + 1] = Grow[h[k]]
  BY <1>1, LevelsNat, IteratesStep
<1>5. \A k \in 0..(Levels - 1) :
        h[k + 1] = h[k] \cup UNION {Range(children[x]) : x \in h[k] \cap Galaxy}
  <2> SUFFICES ASSUME NEW k \in 0..(Levels - 1)
               PROVE  h[k + 1] = h[k] \cup UNION {Range(children[x]) : x \in h[k] \cap Galaxy}
    OBVIOUS
  <2>1. h[k] \in SUBSET All
    BY <1>3, LevelsNat
  <2> QED
    BY <1>4, <2>1, GrowType
<1> DEFINE T == {n \in 0..(Levels - 1) : \A x \in Galaxy :
                   depth[x] <= n /\ children[x] # <<>> => x \in h[n]}
<1>6. 0 \in T
  <2> SUFFICES ASSUME NEW x \in Galaxy, depth[x] <= 0, children[x] # <<>>, x # Universe
               PROVE  FALSE
    BY <1>4, LevelsNat
  <2>1. PICK y \in Galaxy : x \in Range(children[y])
    BY TreeAssumption
  <2>2. depth[x] = depth[y] + 1 /\ depth[x] \in Nat /\ depth[y] \in Nat
    BY <1>2, <2>1 DEF Depths
  <2> QED
    BY <2>2
<1>7. ASSUME NEW n \in 0..((Levels - 1) - 1), n \in T
      PROVE  n + 1 \in T
  <2>0. n \in Nat /\ n + 1 \in 0..(Levels - 1) /\ n \in 0..(Levels - 1)
    BY LevelsNat
  <2> SUFFICES ASSUME NEW x \in Galaxy, depth[x] <= n + 1, children[x] # <<>>
               PROVE  x \in h[n + 1]
    BY <2>0
  <2>1. h[n + 1] = h[n] \cup UNION {Range(children[y]) : y \in h[n] \cap Galaxy}
    BY <1>5, <2>0
  <2>2. CASE x = Universe
    <3>1. 0 <= n /\ depth[x] \in Nat
      BY <1>2, <2>0 DEF Depths
    <3>2. \A k \in 0..(Levels - 1) : Universe \in h[k]
      <4> DEFINE U == {k \in 0..(Levels - 1) : Universe \in h[k]}
      <4>1. 0 \in U
        BY <1>4, LevelsNat
      <4>2. ASSUME NEW k \in 0..((Levels - 1) - 1), k \in U PROVE k + 1 \in U
        <5>1. k \in 0..(Levels - 1) /\ k + 1 \in 0..(Levels - 1)
          BY LevelsNat
        <5> QED
          BY <1>5, <4>2, <5>1
      <4> HIDE DEF U
      <4>3. Levels - 1 \in Nat
        BY LevelsNat
      <4>4. 0..(Levels - 1) \subseteq U
        BY <4>1, <4>2, <4>3, AllUpTo
      <4> QED
        BY <4>4 DEF U
    <3> QED
      BY <2>0, <2>2, <3>2
  <2>3. CASE x # Universe
    <3>1. PICK y \in Galaxy : x \in Range(children[y])
      BY <2>3, TreeAssumption
    <3>2. depth[x] = depth[y] + 1 /\ depth[x] \in Nat /\ depth[y] \in Nat
      BY <1>2, <3>1 DEF Depths
    <3>3. depth[y] <= n
      BY <2>0, <3>2
    <3>4. children[y] # <<>>
      <4>1. PICK i \in DOMAIN children[y] : children[y][i] = x
        BY <3>1, Lists
      <4> QED
        BY <4>1
    <3>5. y \in h[n]
      BY <1>7, <3>3, <3>4
    <3> QED
      BY <2>1, <3>1, <3>5
  <2> QED
    BY <2>2, <2>3
<1>8. ASSUME NEW x \in Galaxy, children[x] # <<>> PROVE x \in h[Levels - 1]
  <2>1. Levels - 1 \in Nat /\ Levels - 1 \in 0..(Levels - 1)
    BY LevelsNat
  <2>2. 0..(Levels - 1) \subseteq T
    <3> HIDE DEF T
    <3> QED
      BY <1>6, <1>7, <2>1, AllUpTo
  <2>3. depth[x] <= Levels - 1
    BY <1>2, LevelsNat DEF Depths
  <2> QED
    BY <1>8, <2>1, <2>2, <2>3
<1>9. children[g] # <<>>
  <2>1. PICK i \in DOMAIN children[g] : children[g][i] = b
    BY Lists
  <2> QED
    BY <2>1
<1>10. g \in h[Levels - 1]
  BY <1>8, <1>9
<1>11. Levels - 1 \in 0..(Levels - 1) /\ (Levels - 1) + 1 = Levels
  BY LevelsNat
<1>12. h[Levels] = h[Levels - 1] \cup UNION {Range(children[x]) : x \in h[Levels - 1] \cap Galaxy}
  BY <1>5, <1>11
<1> QED
  BY <1>1, <1>10, <1>12

-----------------------------------------------------------------------------
(* The links. *)

(* The inputs and the outputs.                                             *)
InPorts == {p \in Ports : p[2] = "in"}
OutPorts == {p \in Ports : p[2] = "out"}

(* Links are made inside a galaxy, and share no end.                       *)
LinksOK ==
    /\ \A l \in links : \E g \in Galaxy : l \in Inside(g)
    /\ \A l, k \in links : l[1] = k[1] \/ l[2] = k[2] => l = k
    /\ IsFiniteSet(links) /\ Cardinality(links) <= MaxLinks

(* The three ways a link leads: to a sibling, into a galaxy, out of it. *)
Across(l, g) ==
    /\ l[1] \in OutPorts /\ l[2] \in InPorts
    /\ l[1][1] \in Range(children[g]) /\ l[2][1] \in Range(children[g])
Inward(l, g) ==
    /\ l[1] \in InPorts /\ l[2] \in InPorts
    /\ l[1][1] = g /\ l[2][1] \in Range(children[g])
Outward(l, g) ==
    /\ l[1] \in OutPorts /\ l[2] \in OutPorts
    /\ l[1][1] \in Range(children[g]) /\ l[2][1] = g

(* The parts of a port.                                                    *)
LEMMA PortParts ==
    ASSUME NEW p \in Ports
    PROVE  /\ p[1] \in All /\ p[2] \in {"in", "out"} /\ p[3] \in Number
           /\ p = <<p[1], p[2], p[3]>>
  BY DEF Ports, All

(* A port made of its parts.                                               *)
LEMMA PortIs ==
    ASSUME NEW b \in All, NEW n \in Number
    PROVE  /\ <<b, "in", n>> \in InPorts /\ <<b, "out", n>> \in OutPorts
           /\ <<b, "in", n>>[1] = b /\ <<b, "out", n>>[1] = b
           /\ <<b, "in", n>>[3] = n /\ <<b, "out", n>>[3] = n
<1>1. <<b, "in", n>> \in Ports /\ <<b, "out", n>> \in Ports
  BY DEF Ports, All
<1> QED
  BY <1>1 DEF InPorts, OutPorts

(* The kinds of links, by their ends. *)
LEMMA InsideKinds ==
    ASSUME children \in Trees, NEW g \in Galaxy, NEW l \in Inside(g)
    PROVE  /\ l[1] \in Ports /\ l[2] \in Ports /\ l = <<l[1], l[2]>>
           /\ Across(l, g) \/ Inward(l, g) \/ Outward(l, g)
           /\ children[g] # <<>>
<1> DEFINE blocks == Range(children[g])
<1>1. blocks \subseteq All /\ g \in All /\ g \notin blocks
  BY Lists, NotInItself DEF Block, All
<1>2. PICK from, to :
        /\ from = (blocks \X {"out"} \X Number) \cup ({g} \X {"in"} \X Number)
        /\ to = (blocks \X {"in"} \X Number) \cup ({g} \X {"out"} \X Number)
        /\ l \in from \X to /\ ~(l[1][1] = g /\ l[2][1] = g)
  BY DEF Inside
<1> HIDE DEF blocks
<1>4. PICK p \in from, q \in to : l = <<p, q>>
  BY <1>2
<1>5. \/ p[1] \in blocks /\ p[2] = "out" /\ p \in Ports
      \/ p[1] = g /\ p[2] = "in" /\ p \in Ports
  BY <1>1, <1>2, <1>4 DEF Ports, All
<1>6. \/ q[1] \in blocks /\ q[2] = "in" /\ q \in Ports
      \/ q[1] = g /\ q[2] = "out" /\ q \in Ports
  BY <1>1, <1>2, <1>4 DEF Ports, All
<1>7. ~(p[1] = g /\ q[1] = g) /\ l[1] = p /\ l[2] = q
  BY <1>2, <1>4
<1>8. Across(l, g) \/ Inward(l, g) \/ Outward(l, g)
  BY <1>5, <1>6, <1>7 DEF Across, Inward, Outward, blocks, InPorts, OutPorts
<1>9. children[g] # <<>>
  <2>1. PICK b : b \in blocks
    BY <1>5, <1>6, <1>7
  <2>2. PICK i \in DOMAIN children[g] : children[g][i] = b
    BY <2>1, Lists DEF blocks
  <2> QED
    BY <2>2
<1> QED
  BY <1>4, <1>5, <1>6, <1>7, <1>8, <1>9

(* The kinds of the links there are.                                       *)
LEMMA LinkKinds ==
    ASSUME children \in Trees, LinksOK, NEW l \in links
    PROVE  /\ l[1] \in Ports /\ l[2] \in Ports /\ l = <<l[1], l[2]>>
           /\ \E g \in Galaxy : /\ Across(l, g) \/ Inward(l, g) \/ Outward(l, g)
                                /\ children[g] # <<>> /\ l \in Inside(g)
<1>1. PICK g \in Galaxy : l \in Inside(g)
  BY DEF LinksOK
<1> QED
  BY <1>1, InsideKinds

(* A port is an input or an output.                                        *)
LEMMA Sides == \A p \in Ports : (p \in InPorts <=> p \notin OutPorts)
  BY DEF InPorts, OutPorts, Ports

(* A link that leaves an input goes inwards, one that comes to an output   *)
(* has come out.                                                           *)
LEMMA FromInput ==
    ASSUME children \in Trees, LinksOK, NEW l \in links, l[1] \in InPorts
    PROVE  l[2] \in InPorts /\ l[1][1] \in Galaxy /\ l[2][1] \in Range(children[l[1][1]])
           /\ l[1] # l[2]
<1>1. PICK g \in Galaxy : Across(l, g) \/ Inward(l, g) \/ Outward(l, g)
  BY LinkKinds
<1>2. Inward(l, g)
  BY <1>1, Sides DEF Across, Outward, InPorts, OutPorts
<1>3. l[2][1] # g
  BY <1>2, NotInItself DEF Inward
<1> QED
  BY <1>2, <1>3 DEF Inward

(* A link that comes to an output has come out of a galaxy.                *)
LEMMA ToOutput ==
    ASSUME children \in Trees, LinksOK, NEW l \in links, l[2] \in OutPorts
    PROVE  l[1] \in OutPorts /\ l[2][1] \in Galaxy /\ l[1][1] \in Range(children[l[2][1]])
           /\ l[1] # l[2]
<1>1. PICK g \in Galaxy : Across(l, g) \/ Inward(l, g) \/ Outward(l, g)
  BY LinkKinds
<1>2. Outward(l, g)
  BY <1>1, Sides DEF Across, Inward, InPorts, OutPorts
<1>3. l[1][1] # g
  BY <1>2, NotInItself DEF Outward
<1> QED
  BY <1>2, <1>3 DEF Outward

-----------------------------------------------------------------------------
(* FindInput and FindOutput, once and all the way. *)

(* FindInput and FindOutput as functions.                                  *)
InputMap == [p \in InPorts |-> FindInput(p)]
OutputMap == [p \in OutPorts |-> FindOutput(p)]

(* FindInput goes along the link from an input, inwards, if there is one.  *)
LEMMA FindInputIs ==
    ASSUME children \in Trees, LinksOK, NEW p \in InPorts
    PROVE  /\ FindInput(p) \in InPorts
           /\ \A l \in links : l[1] = p => FindInput(p) = l[2]
           /\ (\A l \in links : l[1] # p) => FindInput(p) = p
           /\ FindInput(p) # p => p[1] \in Galaxy /\ FindInput(p)[1] \in Range(children[p[1]])
<1>1. CASE \E l \in links : l[1] = p
  <2>1. PICK m : m = CHOOSE l \in links : l[1] = p
    OBVIOUS
  <2>2. m \in links /\ m[1] = p
    BY <1>1, <2>1
  <2>3. FindInput(p) = m[2]
    BY <1>1, <2>1 DEF FindInput
  <2>4. \A l \in links : l[1] = p => l = m
    BY <2>2 DEF LinksOK
  <2>5. m[2] \in InPorts /\ m[1][1] \in Galaxy /\ m[2][1] \in Range(children[m[1][1]])
    BY <2>2, FromInput
  <2> QED
    BY <1>1, <2>2, <2>3, <2>4, <2>5
<1>2. CASE \A l \in links : l[1] # p
  BY <1>2 DEF FindInput
<1> QED
  BY <1>1, <1>2

(* FindOutput goes back along the link to an output, inwards too.          *)
LEMMA FindOutputIs ==
    ASSUME children \in Trees, LinksOK, NEW p \in OutPorts
    PROVE  /\ FindOutput(p) \in OutPorts
           /\ \A l \in links : l[2] = p => FindOutput(p) = l[1]
           /\ (\A l \in links : l[2] # p) => FindOutput(p) = p
           /\ FindOutput(p) # p => p[1] \in Galaxy /\ FindOutput(p)[1] \in Range(children[p[1]])
<1>1. CASE \E l \in links : l[2] = p
  <2>1. PICK m : m = CHOOSE l \in links : l[2] = p
    OBVIOUS
  <2>2. m \in links /\ m[2] = p
    BY <1>1, <2>1
  <2>3. FindOutput(p) = m[1]
    BY <1>1, <2>1 DEF FindOutput
  <2>4. \A l \in links : l[2] = p => l = m
    BY <2>2 DEF LinksOK
  <2>5. m[1] \in OutPorts /\ m[2][1] \in Galaxy /\ m[1][1] \in Range(children[m[2][1]])
    BY <2>2, ToOutput
  <2> QED
    BY <1>1, <2>2, <2>3, <2>4, <2>5
<1>2. CASE \A l \in links : l[2] # p
  BY <1>2 DEF FindOutput
<1> QED
  BY <1>1, <1>2

(* What the functions are.                                                 *)
LEMMA Maps ==
    ASSUME children \in Trees, LinksOK
    PROVE  /\ InputMap \in [InPorts -> InPorts]
           /\ \A p \in InPorts : InputMap[p] = FindInput(p)
           /\ OutputMap \in [OutPorts -> OutPorts]
           /\ \A p \in OutPorts : OutputMap[p] = FindOutput(p)
<1>1. \A p \in InPorts : FindInput(p) \in InPorts
  BY FindInputIs
<1>2. \A p \in OutPorts : FindOutput(p) \in OutPorts
  BY FindOutputIs
<1> QED
  BY <1>1, <1>2 DEF InputMap, OutputMap

(* The loops of ConnectTwoStars do these steps. *)
LEMMA InnerInputIs ==
    ASSUME children \in Trees, LinksOK, NEW p \in InPorts
    PROVE  \E h : Iterates(h, InputMap, p, Levels) /\ InnerInput(p) = h[Levels]
<1> DEFINE u == CHOOSE h : h = [k \in 0..Levels |-> IF k = 0 THEN p ELSE FindInput(h[k - 1])]
<1>0. \A k \in 0..Levels : k # 0 => k - 1 \in 0..Levels
  BY LevelsNat
<1>1. PICK h : Iterates(h, InputMap, p, Levels)
  BY IteratesRun, LevelsNat
<1>2. \A k \in 0..Levels : h[k] \in InPorts
  <2>1. \A y \in InPorts : InputMap[y] \in InPorts
    BY Maps
  <2> QED
    BY <1>1, <2>1, LevelsNat, IteratesInside
<1>3. h = [k \in 0..Levels |-> IF k = 0 THEN p ELSE FindInput(h[k - 1])]
  <2>1. \A k \in 0..Levels : k # 0 => InputMap[h[k - 1]] = FindInput(h[k - 1])
    BY <1>0, <1>2, Maps
  <2> QED
    BY <1>1, <2>1 DEF Iterates
<1>4. u = [k \in 0..Levels |-> IF k = 0 THEN p ELSE FindInput(u[k - 1])]
  BY <1>3
<1>5. InnerInput(p) = u[Levels]
  BY DEF InnerInput, AllTheWay, Levels
<1> HIDE DEF u
<1>6. \A k \in 0..Levels : u[k] \in InPorts
  <2> DEFINE T == {n \in 0..Levels : u[n] \in InPorts}
  <2>1. 0 \in T
    BY <1>4, LevelsNat
  <2>2. ASSUME NEW n \in 0..(Levels - 1), n \in T
        PROVE  n + 1 \in T
    <3>1. n + 1 \in 0..Levels /\ n + 1 # 0 /\ (n + 1) - 1 = n
      BY LevelsNat
    <3>2. u[n + 1] = FindInput(u[n]) /\ u[n] \in InPorts
      BY <1>4, <2>2, <3>1
    <3> QED
      BY <3>1, <3>2, FindInputIs
  <2> HIDE DEF T
  <2>3. 0..Levels \subseteq T
    BY <2>1, <2>2, LevelsNat, AllUpTo
  <2> QED
    BY <2>3 DEF T
<1>7. Iterates(u, InputMap, p, Levels)
  <2>1. \A k \in 0..Levels : k # 0 => InputMap[u[k - 1]] = FindInput(u[k - 1])
    BY <1>0, <1>6, Maps
  <2> QED
    BY <1>4, <2>1 DEF Iterates
<1> QED
  BY <1>5, <1>7

(* InnerOutput is FindOutput, applied for every level.                     *)
LEMMA InnerOutputIs ==
    ASSUME children \in Trees, LinksOK, NEW p \in OutPorts
    PROVE  \E h : Iterates(h, OutputMap, p, Levels) /\ InnerOutput(p) = h[Levels]
<1> DEFINE u == CHOOSE h : h = [k \in 0..Levels |-> IF k = 0 THEN p ELSE FindOutput(h[k - 1])]
<1>0. \A k \in 0..Levels : k # 0 => k - 1 \in 0..Levels
  BY LevelsNat
<1>1. PICK h : Iterates(h, OutputMap, p, Levels)
  BY IteratesRun, LevelsNat
<1>2. \A k \in 0..Levels : h[k] \in OutPorts
  <2>1. \A y \in OutPorts : OutputMap[y] \in OutPorts
    BY Maps
  <2> QED
    BY <1>1, <2>1, LevelsNat, IteratesInside
<1>3. h = [k \in 0..Levels |-> IF k = 0 THEN p ELSE FindOutput(h[k - 1])]
  <2>1. \A k \in 0..Levels : k # 0 => OutputMap[h[k - 1]] = FindOutput(h[k - 1])
    BY <1>0, <1>2, Maps
  <2> QED
    BY <1>1, <2>1 DEF Iterates
<1>4. u = [k \in 0..Levels |-> IF k = 0 THEN p ELSE FindOutput(u[k - 1])]
  BY <1>3
<1>5. InnerOutput(p) = u[Levels]
  BY DEF InnerOutput, AllTheWay, Levels
<1> HIDE DEF u
<1>6. \A k \in 0..Levels : u[k] \in OutPorts
  <2> DEFINE T == {n \in 0..Levels : u[n] \in OutPorts}
  <2>1. 0 \in T
    BY <1>4, LevelsNat
  <2>2. ASSUME NEW n \in 0..(Levels - 1), n \in T
        PROVE  n + 1 \in T
    <3>1. n + 1 \in 0..Levels /\ n + 1 # 0 /\ (n + 1) - 1 = n
      BY LevelsNat
    <3>2. u[n + 1] = FindOutput(u[n]) /\ u[n] \in OutPorts
      BY <1>4, <2>2, <3>1
    <3> QED
      BY <3>1, <3>2, FindOutputIs
  <2> HIDE DEF T
  <2>3. 0..Levels \subseteq T
    BY <2>1, <2>2, LevelsNat, AllUpTo
  <2> QED
    BY <2>3 DEF T
<1>7. Iterates(u, OutputMap, p, Levels)
  <2>1. \A k \in 0..Levels : k # 0 => OutputMap[u[k - 1]] = FindOutput(u[k - 1])
    BY <1>0, <1>6, Maps
  <2> QED
    BY <1>4, <2>1 DEF Iterates
<1> QED
  BY <1>5, <1>7

(* A port deeper in the tree has the greater number. *)
Below(depth) == [p \in Ports |-> IF p[1] \in Galaxy THEN depth[p[1]] ELSE Levels]

(* It grows inwards.                                                       *)
LEMMA BelowIs ==
    ASSUME children \in Trees, NEW depth, Depths(children, depth)
    PROVE  /\ Below(depth) \in [Ports -> Nat]
           /\ \A p \in Ports, q \in Ports :
                p[1] \in Galaxy /\ q[1] \in Range(children[p[1]])
                => Below(depth)[p] < Levels /\ Below(depth)[q] > Below(depth)[p]
<1>1. depth \in [Galaxy -> 0..(Levels - 1)]
  BY DEF Depths
<1>2. Below(depth) \in [Ports -> Nat]
  BY <1>1, LevelsNat DEF Below
<1>3. ASSUME NEW p \in Ports, NEW q \in Ports, p[1] \in Galaxy, q[1] \in Range(children[p[1]])
      PROVE  Below(depth)[p] < Levels /\ Below(depth)[q] > Below(depth)[p]
  <2>1. Below(depth)[p] = depth[p[1]] /\ depth[p[1]] \in 0..(Levels - 1)
    BY <1>1, <1>3 DEF Below
  <2>2. CASE q[1] \in Galaxy
    <3>1. Below(depth)[q] = depth[q[1]] /\ depth[q[1]] = depth[p[1]] + 1
      BY <1>3, <2>2 DEF Below, Depths
    <3> QED
      BY <2>1, <3>1, LevelsNat
  <2>3. CASE q[1] \notin Galaxy
    <3>1. Below(depth)[q] = Levels
      BY <2>3 DEF Below
    <3> QED
      BY <2>1, <3>1, LevelsNat
  <2> QED
    BY <2>2, <2>3
<1> QED
  BY <1>2, <1>3

-----------------------------------------------------------------------------
(* Where InnerInput ends nothing leads on, all ports on the way end there, *)
(* and it is in every set that links from inputs do not leave.             *)
LEMMA InnerInputEnd ==
    ASSUME children \in Trees, LinksOK, NEW p \in InPorts
    PROVE  InnerInput(p) \in InPorts /\ \A l \in links : l[1] # InnerInput(p)
<1>1. PICK h : Iterates(h, InputMap, p, Levels) /\ InnerInput(p) = h[Levels]
  BY InnerInputIs
<1>2. PICK depth : Depths(children, depth)
  BY Depth
<1>3. PICK rank : rank = [x \in InPorts |-> Below(depth)[x]]
  OBVIOUS
<1>4. rank \in [InPorts -> Nat]
  BY <1>2, <1>3, BelowIs DEF InPorts
<1>5. ASSUME NEW y \in InPorts, InputMap[y] # y
      PROVE  rank[y] < Levels /\ rank[InputMap[y]] > rank[y]
  <2>1. PICK z \in InPorts : z = InputMap[y]
    BY Maps
  <2>2. y[1] \in Galaxy /\ z[1] \in Range(children[y[1]])
    <3>1. z = FindInput(y) /\ FindInput(y) # y
      BY <1>5, <2>1, Maps
    <3> QED
      BY <3>1, FindInputIs
  <2>3. y \in Ports /\ z \in Ports
    BY DEF InPorts
  <2>4. Below(depth)[y] < Levels /\ Below(depth)[z] > Below(depth)[y]
    BY <1>2, <2>2, <2>3, BelowIs
  <2> QED
    BY <1>3, <2>1, <2>4
<1>6. InputMap \in [InPorts -> InPorts]
  BY Maps
<1>7. h[Levels] \in InPorts /\ InputMap[h[Levels]] = h[Levels]
  BY <1>1, <1>4, <1>5, <1>6, LevelsNat, IteratesEnd
<1>8. PICK e \in InPorts : e = h[Levels] /\ FindInput(e) = e
  BY <1>7, Maps
<1>9. ASSUME NEW l \in links, l[1] = e PROVE FALSE
  <2>1. l[2] = e
    BY <1>8, <1>9, FindInputIs
  <2>2. l[1] # l[2]
    BY <1>9, FromInput
  <2> QED
    BY <1>9, <2>1, <2>2
<1> QED
  BY <1>1, <1>8, <1>9

(* InnerInput stays in a set of ports that links do not leave.             *)
LEMMA InnerInputInside ==
    ASSUME children \in Trees, LinksOK, NEW p \in InPorts, NEW S, p \in S,
           \A l \in links : l[1] \in S /\ l[1] \in InPorts => l[2] \in S
    PROVE  InnerInput(p) \in S
<1>1. PICK h : Iterates(h, InputMap, p, Levels) /\ InnerInput(p) = h[Levels]
  BY InnerInputIs
<1>2. PICK R : R = S \cap InPorts
  OBVIOUS
<1>3. ASSUME NEW y \in R PROVE InputMap[y] \in R
  <2>1. y \in InPorts /\ y \in S /\ InputMap[y] = FindInput(y) /\ FindInput(y) \in InPorts
    BY <1>2, Maps, FindInputIs
  <2>2. CASE \E l \in links : l[1] = y
    <3>1. PICK l \in links : l[1] = y
      BY <2>2
    <3>2. l[2] \in S /\ FindInput(y) = l[2]
      BY <2>1, <3>1, FindInputIs
    <3> QED
      BY <1>2, <2>1, <3>2
  <2>3. CASE \A l \in links : l[1] # y
    <3>1. FindInput(y) = y
      BY <2>1, <2>3, FindInputIs
    <3> QED
      BY <2>1, <3>1
  <2> QED
    BY <2>2, <2>3
<1>4. p \in R
  BY <1>2
<1>5. \A k \in 0..Levels : h[k] \in R
  BY <1>1, <1>3, <1>4, LevelsNat, IteratesInside
<1> QED
  BY <1>1, <1>2, <1>5, LevelsNat

(* An input that no link leaves is the inner one.                          *)
LEMMA InnerInputStays ==
    ASSUME children \in Trees, LinksOK, NEW p \in InPorts, \A l \in links : l[1] # p
    PROVE  InnerInput(p) = p
<1>1. PICK S : S = {p}
  OBVIOUS
<1>2. InnerInput(p) \in S
  BY <1>1, InnerInputInside
<1> QED
  BY <1>1, <1>2

(* Both ends of a link inwards have the same inner input.                  *)
LEMMA InnerInputStep ==
    ASSUME children \in Trees, LinksOK, NEW l \in links, l[1] \in InPorts
    PROVE  InnerInput(l[1]) = InnerInput(l[2])
<1>1. l[2] \in InPorts /\ InputMap[l[1]] = l[2]
  BY FromInput, FindInputIs, Maps
<1>2. PICK h : Iterates(h, InputMap, l[1], Levels) /\ InnerInput(l[1]) = h[Levels]
  BY InnerInputIs
<1>3. PICK j : Iterates(j, InputMap, l[2], Levels) /\ InnerInput(l[2]) = j[Levels]
  BY <1>1, InnerInputIs
<1>4. \A k \in 0..Levels : j[k] = InputMap[h[k]]
  BY <1>1, <1>2, <1>3, LevelsNat, IteratesShift
<1>5. InnerInput(l[2]) = InputMap[InnerInput(l[1])]
  BY <1>2, <1>3, <1>4, LevelsNat
<1>6. InnerInput(l[1]) \in InPorts /\ \A m \in links : m[1] # InnerInput(l[1])
  BY InnerInputEnd
<1>7. InputMap[InnerInput(l[1])] = InnerInput(l[1])
  BY <1>6, FindInputIs, Maps
<1> QED
  BY <1>5, <1>7

(* The same of InnerOutput, against the direction of the links. *)
LEMMA InnerOutputEnd ==
    ASSUME children \in Trees, LinksOK, NEW p \in OutPorts
    PROVE  InnerOutput(p) \in OutPorts /\ \A l \in links : l[2] # InnerOutput(p)
<1>1. PICK h : Iterates(h, OutputMap, p, Levels) /\ InnerOutput(p) = h[Levels]
  BY InnerOutputIs
<1>2. PICK depth : Depths(children, depth)
  BY Depth
<1>3. PICK rank : rank = [x \in OutPorts |-> Below(depth)[x]]
  OBVIOUS
<1>4. rank \in [OutPorts -> Nat]
  BY <1>2, <1>3, BelowIs DEF OutPorts
<1>5. ASSUME NEW y \in OutPorts, OutputMap[y] # y
      PROVE  rank[y] < Levels /\ rank[OutputMap[y]] > rank[y]
  <2>1. PICK z \in OutPorts : z = OutputMap[y]
    BY Maps
  <2>2. y[1] \in Galaxy /\ z[1] \in Range(children[y[1]])
    <3>1. z = FindOutput(y) /\ FindOutput(y) # y
      BY <1>5, <2>1, Maps
    <3> QED
      BY <3>1, FindOutputIs
  <2>3. y \in Ports /\ z \in Ports
    BY DEF OutPorts
  <2>4. Below(depth)[y] < Levels /\ Below(depth)[z] > Below(depth)[y]
    BY <1>2, <2>2, <2>3, BelowIs
  <2> QED
    BY <1>3, <2>1, <2>4
<1>6. OutputMap \in [OutPorts -> OutPorts]
  BY Maps
<1>7. h[Levels] \in OutPorts /\ OutputMap[h[Levels]] = h[Levels]
  BY <1>1, <1>4, <1>5, <1>6, LevelsNat, IteratesEnd
<1>8. PICK e \in OutPorts : e = h[Levels] /\ FindOutput(e) = e
  BY <1>7, Maps
<1>9. ASSUME NEW l \in links, l[2] = e PROVE FALSE
  <2>1. l[1] = e
    BY <1>8, <1>9, FindOutputIs
  <2>2. l[2] # l[1]
    BY <1>9, ToOutput
  <2> QED
    BY <1>9, <2>1, <2>2
<1> QED
  BY <1>1, <1>8, <1>9

(* InnerOutput stays in a set of ports that links do not come from.        *)
LEMMA InnerOutputInside ==
    ASSUME children \in Trees, LinksOK, NEW p \in OutPorts, NEW S, p \in S,
           \A l \in links : l[2] \in S /\ l[2] \in OutPorts => l[1] \in S
    PROVE  InnerOutput(p) \in S
<1>1. PICK h : Iterates(h, OutputMap, p, Levels) /\ InnerOutput(p) = h[Levels]
  BY InnerOutputIs
<1>2. PICK R : R = S \cap OutPorts
  OBVIOUS
<1>3. ASSUME NEW y \in R PROVE OutputMap[y] \in R
  <2>1. y \in OutPorts /\ y \in S /\ OutputMap[y] = FindOutput(y) /\ FindOutput(y) \in OutPorts
    BY <1>2, Maps, FindOutputIs
  <2>2. CASE \E l \in links : l[2] = y
    <3>1. PICK l \in links : l[2] = y
      BY <2>2
    <3>2. l[1] \in S /\ FindOutput(y) = l[1]
      BY <2>1, <3>1, FindOutputIs
    <3> QED
      BY <1>2, <2>1, <3>2
  <2>3. CASE \A l \in links : l[2] # y
    <3>1. FindOutput(y) = y
      BY <2>1, <2>3, FindOutputIs
    <3> QED
      BY <2>1, <3>1
  <2> QED
    BY <2>2, <2>3
<1>4. p \in R
  BY <1>2
<1>5. \A k \in 0..Levels : h[k] \in R
  BY <1>1, <1>3, <1>4, LevelsNat, IteratesInside
<1> QED
  BY <1>1, <1>2, <1>5, LevelsNat

(* An output that no link comes to is the inner one.                       *)
LEMMA InnerOutputStays ==
    ASSUME children \in Trees, LinksOK, NEW p \in OutPorts, \A l \in links : l[2] # p
    PROVE  InnerOutput(p) = p
<1>1. PICK S : S = {p}
  OBVIOUS
<1>2. InnerOutput(p) \in S
  BY <1>1, InnerOutputInside
<1> QED
  BY <1>1, <1>2

(* Both ends of a link outwards have the same inner output.                *)
LEMMA InnerOutputStep ==
    ASSUME children \in Trees, LinksOK, NEW l \in links, l[2] \in OutPorts
    PROVE  InnerOutput(l[2]) = InnerOutput(l[1])
<1>1. l[1] \in OutPorts /\ OutputMap[l[2]] = l[1]
  BY ToOutput, FindOutputIs, Maps
<1>2. PICK h : Iterates(h, OutputMap, l[2], Levels) /\ InnerOutput(l[2]) = h[Levels]
  BY InnerOutputIs
<1>3. PICK j : Iterates(j, OutputMap, l[1], Levels) /\ InnerOutput(l[1]) = j[Levels]
  BY <1>1, InnerOutputIs
<1>4. \A k \in 0..Levels : j[k] = OutputMap[h[k]]
  BY <1>1, <1>2, <1>3, LevelsNat, IteratesShift
<1>5. InnerOutput(l[1]) = OutputMap[InnerOutput(l[2])]
  BY <1>2, <1>3, <1>4, LevelsNat
<1>6. InnerOutput(l[2]) \in OutPorts /\ \A m \in links : m[2] # InnerOutput(l[2])
  BY InnerOutputEnd
<1>7. OutputMap[InnerOutput(l[2])] = InnerOutput(l[2])
  BY <1>6, FindOutputIs, Maps
<1> QED
  BY <1>5, <1>7

-----------------------------------------------------------------------------
(* Leads: along any number of links, by chains of them. *)

(* The number of links.                                                    *)
Count == Cardinality(links)

(* A link more from any of the ports of a set.                             *)
Follow == [S \in SUBSET Ports |-> S \cup {l[2] : l \in {m \in links : m[1] \in S}}]

(* A link more leads from ports to ports.                                  *)
LEMMA FollowType ==
    ASSUME children \in Trees, LinksOK
    PROVE  /\ Follow \in [SUBSET Ports -> SUBSET Ports] /\ Count \in Nat
           /\ \A S \in SUBSET Ports :
                Follow[S] = S \cup {l[2] : l \in {m \in links : m[1] \in S}}
<1>1. \A l \in links : l[2] \in Ports
  BY LinkKinds
<1>2. Count \in Nat
  BY FS_CardinalityType DEF Count, LinksOK
<1> QED
  BY <1>1, <1>2 DEF Follow

(* Leads is Follow, applied for every link.                                *)
LEMMA LeadsIs ==
    ASSUME children \in Trees, LinksOK, NEW p \in Ports
    PROVE  \E h : /\ Iterates(h, Follow, {p}, Count)
                  /\ \A k \in 0..Count : h[k] \in SUBSET Ports
                  /\ \A q : Leads(p, q) <=> q \in h[Count]
<1> DEFINE u == CHOOSE h : h = [k \in 0..Count |->
                   IF k = 0 THEN {p}
                   ELSE h[k - 1] \cup {l[2] : l \in {m \in links : m[1] \in h[k - 1]}}]
<1>0. Count \in Nat /\ \A k \in 0..Count : k # 0 => k - 1 \in 0..Count
  BY FollowType
<1>1. PICK h : Iterates(h, Follow, {p}, Count)
  BY <1>0, IteratesRun
<1>2. \A k \in 0..Count : h[k] \in SUBSET Ports
  <2>1. PICK S : S = SUBSET Ports
    OBVIOUS
  <2>2. {p} \in S /\ \A y \in S : Follow[y] \in S
    BY <2>1, FollowType
  <2>3. \A k \in 0..Count : h[k] \in S
    BY <1>0, <1>1, <2>2, IteratesInside
  <2> QED
    BY <2>1, <2>3
<1>3. h = [k \in 0..Count |->
             IF k = 0 THEN {p}
             ELSE h[k - 1] \cup {l[2] : l \in {m \in links : m[1] \in h[k - 1]}}]
  <2>1. \A k \in 0..Count : k # 0 =>
          Follow[h[k - 1]] = h[k - 1] \cup {l[2] : l \in {m \in links : m[1] \in h[k - 1]}}
    BY <1>0, <1>2, FollowType
  <2> QED
    BY <1>1, <2>1 DEF Iterates
<1>4. u = [k \in 0..Count |->
             IF k = 0 THEN {p}
             ELSE u[k - 1] \cup {l[2] : l \in {m \in links : m[1] \in u[k - 1]}}]
  BY <1>3
<1>5. \A q : Leads(p, q) <=> q \in u[Count]
  BY DEF Leads, Count
<1> HIDE DEF u
<1>6. \A k \in 0..Count : u[k] \in SUBSET Ports
  <2> DEFINE T == {n \in 0..Count : u[n] \in SUBSET Ports}
  <2>1. 0 \in T
    BY <1>0, <1>4
  <2>2. ASSUME NEW n \in 0..(Count - 1), n \in T
        PROVE  n + 1 \in T
    <3>1. n + 1 \in 0..Count /\ n + 1 # 0 /\ (n + 1) - 1 = n
      BY <1>0
    <3>2. u[n + 1] = u[n] \cup {l[2] : l \in {m \in links : m[1] \in u[n]}}
      BY <1>4, <3>1
    <3>3. u[n] \in SUBSET Ports /\ Follow[u[n]] \in SUBSET Ports
      BY <2>2, FollowType
    <3>4. u[n + 1] = Follow[u[n]]
      BY <3>2, <3>3, FollowType
    <3> QED
      BY <3>1, <3>3, <3>4
  <2> HIDE DEF T
  <2>3. 0..Count \subseteq T
    BY <1>0, <2>1, <2>2, AllUpTo
  <2> QED
    BY <2>3 DEF T
<1>7. Iterates(u, Follow, {p}, Count)
  <2>1. \A k \in 0..Count : k # 0 =>
          Follow[u[k - 1]] = u[k - 1] \cup {l[2] : l \in {m \in links : m[1] \in u[k - 1]}}
    BY <1>0, <1>6, FollowType
  <2> QED
    BY <1>4, <2>1 DEF Iterates
<1> QED
  BY <1>5, <1>6, <1>7

(* c is a way of m links from p to q. *)
Chain(c, m, p, q) ==
    /\ m \in Nat /\ c \in [0..m -> Ports] /\ c[0] = p /\ c[m] = q
    /\ \A i \in 0..(m - 1) : <<c[i], c[i + 1]>> \in links

(* Every link leads to a port of a greater number: out of galaxies, then   *)
(* across, then into galaxies. *)
Further(depth) ==
    [x \in Ports |->
       IF x \in OutPorts THEN IF x[1] \in Galaxy THEN Levels - depth[x[1]] ELSE 0
       ELSE IF x[1] \in Galaxy THEN Levels + 1 + depth[x[1]] ELSE 2 * Levels + 2]

(* Every link leads further.                                               *)
LEMMA FurtherIs ==
    ASSUME children \in Trees, LinksOK, NEW depth, Depths(children, depth)
    PROVE  /\ Further(depth) \in [Ports -> Nat]
           /\ \A l \in links : Further(depth)[l[1]] < Further(depth)[l[2]]
<1>0. Levels \in Nat \ {0} /\ \A g \in Galaxy : depth[g] \in 0..(Levels - 1)
  BY LevelsNat DEF Depths
<1>1. \A g \in Galaxy : /\ Levels - depth[g] \in 1..Levels
                        /\ Levels + 1 + depth[g] \in (Levels + 1)..(2 * Levels)
  BY <1>0
<1>2. PICK f : f = Further(depth)
  OBVIOUS
<1>3. \A x \in Ports :
         f[x] = IF x \in OutPorts THEN IF x[1] \in Galaxy THEN Levels - depth[x[1]] ELSE 0
                ELSE IF x[1] \in Galaxy THEN Levels + 1 + depth[x[1]] ELSE 2 * Levels + 2
  BY <1>2 DEF Further
<1>4. \A x \in Ports : f[x] \in Nat
  BY <1>0, <1>1, <1>3
<1>5. f \in [Ports -> Nat]
  BY <1>2, <1>4 DEF Further
<1>6. ASSUME NEW l \in links PROVE f[l[1]] < f[l[2]]
  <2>1. PICK g \in Galaxy : Across(l, g) \/ Inward(l, g) \/ Outward(l, g)
    BY LinkKinds
  <2>2. PICK p \in Ports, q \in Ports : p = l[1] /\ q = l[2]
    BY LinkKinds
  <2>3. \A b \in Range(children[g]) : b \in Galaxy => depth[b] = depth[g] + 1
    BY DEF Depths
  <2>4. CASE Across(l, g)
    <3>1. p \in OutPorts /\ q \notin OutPorts
      BY <2>2, <2>4, Sides DEF Across
    <3>2. f[p] <= Levels /\ f[q] > Levels
      BY <1>0, <1>1, <1>3, <3>1
    <3> QED
      BY <1>0, <1>4, <2>2, <3>2
  <2>5. CASE Inward(l, g)
    <3>1. p \notin OutPorts /\ q \notin OutPorts /\ p[1] = g /\ q[1] \in Range(children[g])
      BY <2>2, <2>5, Sides DEF Inward
    <3>2. f[p] = Levels + 1 + depth[g]
      BY <1>3, <3>1
    <3>3. CASE q[1] \in Galaxy
      <4>1. f[q] = Levels + 1 + depth[q[1]] /\ depth[q[1]] = depth[g] + 1
        BY <1>3, <2>3, <3>1, <3>3
      <4> QED
        BY <1>0, <2>2, <3>2, <4>1
    <3>4. CASE q[1] \notin Galaxy
      <4>1. f[q] = 2 * Levels + 2
        BY <1>3, <3>1, <3>4
      <4> QED
        BY <1>0, <2>2, <3>2, <4>1
    <3> QED
      BY <3>3, <3>4
  <2>6. CASE Outward(l, g)
    <3>1. p \in OutPorts /\ q \in OutPorts /\ q[1] = g /\ p[1] \in Range(children[g])
      BY <2>2, <2>6 DEF Outward
    <3>2. f[q] = Levels - depth[g]
      BY <1>3, <3>1
    <3>3. CASE p[1] \in Galaxy
      <4>1. f[p] = Levels - depth[p[1]] /\ depth[p[1]] = depth[g] + 1
        BY <1>3, <2>3, <3>1, <3>3
      <4> QED
        BY <1>0, <2>2, <3>2, <4>1
    <3>4. CASE p[1] \notin Galaxy
      <4>1. f[p] = 0
        BY <1>3, <3>1, <3>4
      <4> QED
        BY <1>0, <2>2, <3>2, <4>1
    <3> QED
      BY <3>3, <3>4
  <2> QED
    BY <2>1, <2>4, <2>5, <2>6
<1> QED
  BY <1>2, <1>5, <1>6

(* No link is taken twice, so a chain is not longer than there are links. *)
LEMMA ChainLength ==
    ASSUME children \in Trees, LinksOK, NEW c, NEW m, NEW p, NEW q, Chain(c, m, p, q)
    PROVE  m <= Count
<1>0. m \in Nat /\ c \in [0..m -> Ports] /\ \A i \in 0..(m - 1) : <<c[i], c[i + 1]>> \in links
  BY DEF Chain
<1>1. PICK depth : Depths(children, depth)
  BY Depth
<1>2. PICK f \in [Ports -> Nat] : \A l \in links : f[l[1]] < f[l[2]]
  BY <1>1, FurtherIs
<1>3. \A i \in 0..(m - 1) : f[c[i]] < f[c[i + 1]]
  <2> SUFFICES ASSUME NEW i \in 0..(m - 1) PROVE f[c[i]] < f[c[i + 1]]
    OBVIOUS
  <2>1. PICK l \in links : l = <<c[i], c[i + 1]>>
    BY <1>0
  <2>2. f[l[1]] < f[l[2]] /\ l[1] = c[i] /\ l[2] = c[i + 1]
    BY <1>2, <2>1
  <2> QED
    BY <2>2
<1>4. \A i \in 0..m : f[c[i]] \in Nat
  BY <1>0, <1>2
<1>5. ASSUME NEW i \in 0..m, NEW j \in 0..m, i < j PROVE f[c[i]] < f[c[j]]
  <2> DEFINE T == {n \in 0..m : i < n => f[c[i]] < f[c[n]]}
  <2>1. 0 \in T
    BY <1>0
  <2>2. ASSUME NEW n \in 0..(m - 1), n \in T PROVE n + 1 \in T
    <3>1. n + 1 \in 0..m /\ n \in 0..m /\ f[c[n]] < f[c[n + 1]]
      BY <1>0, <1>3
    <3>2. f[c[n]] \in Nat /\ f[c[n + 1]] \in Nat /\ f[c[i]] \in Nat
      BY <1>4, <3>1
    <3>3. CASE i < n
      <4>1. f[c[i]] < f[c[n]]
        BY <2>2, <3>3
      <4> QED
        BY <3>1, <3>2, <4>1
    <3>4. CASE ~(i < n)
      <4>1. i < n + 1 => i = n
        BY <3>1, <3>4
      <4> QED
        BY <3>1, <4>1
    <3> QED
      BY <3>3, <3>4
  <2> HIDE DEF T
  <2>3. 0..m \subseteq T
    BY <1>0, <2>1, <2>2, AllUpTo
  <2> QED
    BY <1>5, <2>3 DEF T
<1>6. PICK e : e = [i \in 1..m |-> <<c[i - 1], c[i]>>]
  OBVIOUS
<1>7. \A i \in 1..m : i - 1 \in 0..(m - 1) /\ (i - 1) + 1 = i /\ i \in 0..m
  BY <1>0
<1>8. e \in [1..m -> links]
  <2>1. \A i \in 1..m : <<c[i - 1], c[i]>> \in links
    BY <1>0, <1>7
  <2> QED
    BY <1>6, <2>1
<1>9. ASSUME NEW i \in 1..m, NEW j \in 1..m, e[i] = e[j] PROVE i = j
  <2>1. c[i] = c[j]
    BY <1>6, <1>9
  <2>2. i \in 0..m /\ j \in 0..m
    BY <1>7
  <2>3. ~(i < j) /\ ~(j < i)
    <3>1. ~(f[c[i]] < f[c[j]]) /\ ~(f[c[j]] < f[c[i]])
      BY <1>4, <2>1, <2>2
    <3> QED
      BY <1>5, <2>2, <3>1
  <2> QED
    BY <2>3
<1>10. e \in Injection(1..m, links)
  BY <1>8, <1>9 DEF Injection, IsInjective
<1>11. Cardinality(1..m) <= Count
  BY <1>10, FS_Injection DEF LinksOK, Count
<1>12. Cardinality(1..m) = m
  <2>1. 1 \in Int /\ m \in Int
    BY <1>0
  <2>2. Cardinality(1..m) = IF 1 > m THEN 0 ELSE m - 1 + 1
    BY <2>1, FS_Interval
  <2> QED
    BY <1>0, <2>2
<1> QED
  BY <1>11, <1>12

(* What p leads to is at the end of a chain from p, and the other way round. *)
LEMMA LeadsChain ==
    ASSUME children \in Trees, LinksOK, NEW p \in Ports, NEW q
    PROVE  Leads(p, q) <=> \E m \in Nat : \E c : Chain(c, m, p, q)
<1>0. Count \in Nat
  BY FollowType
<1>1. PICK h : /\ Iterates(h, Follow, {p}, Count)
               /\ \A k \in 0..Count : h[k] \in SUBSET Ports
               /\ Leads(p, q) <=> q \in h[Count]
  BY LeadsIs
<1>2. h[0] = {p} /\ \A k \in 0..(Count - 1) : h[k + 1] = Follow[h[k]]
  BY <1>0, <1>1, IteratesStep
<1>3. \A k \in 0..(Count - 1) : h[k + 1] = h[k] \cup {l[2] : l \in {m \in links : m[1] \in h[k]}}
  <2> SUFFICES ASSUME NEW k \in 0..(Count - 1)
               PROVE  h[k + 1] = h[k] \cup {l[2] : l \in {m \in links : m[1] \in h[k]}}
    OBVIOUS
  <2>1. h[k] \in SUBSET Ports
    BY <1>0, <1>1
  <2> QED
    BY <1>2, <2>1, FollowType
<1>4. ASSUME NEW m \in Nat, NEW c, Chain(c, m, p, q) PROVE Leads(p, q)
  <2>1. m <= Count
    BY <1>4, ChainLength
  <2>2. c[0] = p /\ c[m] = q /\ \A i \in 0..(m - 1) : <<c[i], c[i + 1]>> \in links
    BY <1>4 DEF Chain
  <2> DEFINE T == {n \in 0..Count : \A i \in 0..m : i <= n => c[i] \in h[n]}
  <2>3. 0 \in T
    <3>1. \A i \in 0..m : i <= 0 => c[i] \in h[0]
      BY <1>2, <2>2
    <3> QED
      BY <1>0, <3>1
  <2>4. ASSUME NEW n \in 0..(Count - 1), n \in T PROVE n + 1 \in T
    <3>1. n + 1 \in 0..Count /\ n \in Nat
      BY <1>0
    <3>2. ASSUME NEW i \in 0..m, i <= n + 1 PROVE c[i] \in h[n + 1]
      <4>1. CASE i <= n
        BY <1>3, <2>4, <4>1
      <4>2. CASE ~(i <= n)
        <5>1. i - 1 \in 0..(m - 1) /\ i - 1 \in 0..m /\ i - 1 <= n /\ (i - 1) + 1 = i
          BY <3>1, <3>2, <4>2
        <5>2. PICK l \in links : l = <<c[i - 1], c[i]>>
          BY <2>2, <5>1
        <5>3. l[1] \in h[n] /\ l[2] = c[i]
          BY <2>4, <5>1, <5>2
        <5> QED
          BY <1>3, <5>3
      <4> QED
        BY <4>1, <4>2
    <3> QED
      BY <3>1, <3>2
  <2> HIDE DEF T
  <2>5. 0..Count \subseteq T
    BY <1>0, <2>3, <2>4, AllUpTo
  <2>6. Count \in T /\ m \in 0..m
    BY <1>0, <2>5
  <2>7. c[m] \in h[Count]
    BY <2>1, <2>6 DEF T
  <2> QED
    BY <1>1, <2>2, <2>7
<1>5. ASSUME Leads(p, q) PROVE \E m \in Nat : \E c : Chain(c, m, p, q)
  <2> DEFINE T == {n \in 0..Count : \A x \in h[n] : \E m \in Nat : \E c : Chain(c, m, p, x)}
  <2>1. 0 \in T
    <3>1. PICK c : c = [i \in 0..0 |-> p]
      OBVIOUS
    <3>2. c \in [0..0 -> Ports] /\ c[0] = p /\ 0 \in Nat
      BY <3>1
    <3>3. Chain(c, 0, p, p)
      BY <3>2 DEF Chain
    <3> QED
      BY <1>0, <1>2, <3>2, <3>3
  <2>2. ASSUME NEW n \in 0..(Count - 1), n \in T PROVE n + 1 \in T
    <3>1. n + 1 \in 0..Count
      BY <1>0
    <3>2. ASSUME NEW x \in h[n + 1] PROVE \E m \in Nat : \E c : Chain(c, m, p, x)
      <4>1. CASE x \in h[n]
        BY <2>2, <4>1
      <4>2. CASE x \notin h[n]
        <5>1. PICK l \in links : l[1] \in h[n] /\ x = l[2]
          BY <1>3, <3>2, <4>2
        <5>2a. PICK m \in Nat : \E d : Chain(d, m, p, l[1])
          BY <2>2, <5>1
        <5>2. PICK c : Chain(c, m, p, l[1])
          BY <5>2a
        <5>3. /\ c \in [0..m -> Ports] /\ c[0] = p /\ c[m] = l[1]
              /\ \A i \in 0..(m - 1) : <<c[i], c[i + 1]>> \in links
          BY <5>2 DEF Chain
        <5>4. l = <<l[1], l[2]>> /\ l[2] \in Ports
          BY LinkKinds
        <5>5. PICK d : d = [i \in 0..(m + 1) |-> IF i = m + 1 THEN x ELSE c[i]]
          OBVIOUS
        <5>6. d \in [0..(m + 1) -> Ports]
          <6>1. \A i \in 0..(m + 1) : i # m + 1 => i \in 0..m
            OBVIOUS
          <6> QED
            BY <5>1, <5>3, <5>4, <5>5, <6>1
        <5>7. d[0] = p /\ d[m + 1] = x
          BY <5>3, <5>5
        <5>8. ASSUME NEW i \in 0..m PROVE <<d[i], d[i + 1]>> \in links
          <6>1. d[i] = c[i]
            BY <5>5
          <6>2. CASE i = m
            <7>1. d[i + 1] = x /\ c[i] = l[1]
              BY <5>3, <5>5, <6>2
            <7> QED
              BY <5>1, <5>4, <6>1, <7>1
          <6>3. CASE i # m
            <7>1. d[i + 1] = c[i + 1] /\ i \in 0..(m - 1)
              BY <5>5, <6>3
            <7> QED
              BY <5>3, <6>1, <7>1
          <6> QED
            BY <6>2, <6>3
        <5>9. m + 1 \in Nat /\ (m + 1) - 1 = m
          OBVIOUS
        <5>10. Chain(d, m + 1, p, x)
          BY <5>6, <5>7, <5>8, <5>9 DEF Chain
        <5> QED
          BY <5>9, <5>10
      <4> QED
        BY <4>1, <4>2
    <3> QED
      BY <3>1, <3>2
  <2> HIDE DEF T
  <2>3. 0..Count \subseteq T
    BY <1>0, <2>1, <2>2, AllUpTo
  <2>4. Count \in T
    BY <1>0, <2>3
  <2> QED
    BY <1>1, <1>5, <2>4 DEF T
<1> QED
  BY <1>4, <1>5

(* Leads is reflexive, and a link more at either end is nothing new. *)
LEMMA LeadsSelf ==
    ASSUME children \in Trees, LinksOK, NEW p \in Ports
    PROVE  Leads(p, p)
<1>1. PICK c : c = [i \in 0..0 |-> p]
  OBVIOUS
<1>2. c \in [0..0 -> Ports] /\ c[0] = p /\ 0 \in Nat
  BY <1>1
<1>3. Chain(c, 0, p, p)
  BY <1>2 DEF Chain
<1> QED
  BY <1>2, <1>3, LeadsChain

(* What leads to one end of a link leads to the other.                     *)
LEMMA LeadsOn ==
    ASSUME children \in Trees, LinksOK, NEW p \in Ports, NEW l \in links, Leads(p, l[1])
    PROVE  Leads(p, l[2])
<1>1a. PICK m \in Nat : \E d : Chain(d, m, p, l[1])
  BY LeadsChain
<1>1. PICK c : Chain(c, m, p, l[1])
  BY <1>1a
<1>2. /\ c \in [0..m -> Ports] /\ c[0] = p /\ c[m] = l[1]
      /\ \A i \in 0..(m - 1) : <<c[i], c[i + 1]>> \in links
  BY <1>1 DEF Chain
<1>3. l = <<l[1], l[2]>> /\ l[2] \in Ports
  BY LinkKinds
<1>4. PICK d : d = [i \in 0..(m + 1) |-> IF i = m + 1 THEN l[2] ELSE c[i]]
  OBVIOUS
<1>5. d \in [0..(m + 1) -> Ports]
  <2>1. \A i \in 0..(m + 1) : i # m + 1 => i \in 0..m
    OBVIOUS
  <2> QED
    BY <1>2, <1>3, <1>4, <2>1
<1>6. d[0] = p /\ d[m + 1] = l[2]
  BY <1>2, <1>4
<1>7. ASSUME NEW i \in 0..m PROVE <<d[i], d[i + 1]>> \in links
  <2>1. d[i] = c[i]
    BY <1>4
  <2>2. CASE i = m
    <3>1. d[i + 1] = l[2] /\ c[i] = l[1]
      BY <1>2, <1>4, <2>2
    <3> QED
      BY <1>3, <2>1, <3>1
  <2>3. CASE i # m
    <3>1. d[i + 1] = c[i + 1] /\ i \in 0..(m - 1)
      BY <1>4, <2>3
    <3> QED
      BY <1>2, <2>1, <3>1
  <2> QED
    BY <2>2, <2>3
<1>8. m + 1 \in Nat /\ (m + 1) - 1 = m
  OBVIOUS
<1>9. Chain(d, m + 1, p, l[2])
  BY <1>5, <1>6, <1>7, <1>8 DEF Chain
<1> QED
  BY <1>8, <1>9, LeadsChain

(* What p leads to is in every set with p that no link leaves ...          *)
LEMMA LeadsInside ==
    ASSUME children \in Trees, LinksOK, NEW p \in Ports, NEW S, p \in S,
           \A l \in links : l[1] \in S => l[2] \in S,
           NEW q, Leads(p, q)
    PROVE  q \in S /\ q \in Ports
<1>1a. PICK m \in Nat : \E d : Chain(d, m, p, q)
  BY LeadsChain
<1>1. PICK c : Chain(c, m, p, q)
  BY <1>1a
<1>2. /\ c \in [0..m -> Ports] /\ c[0] = p /\ c[m] = q
      /\ \A i \in 0..(m - 1) : <<c[i], c[i + 1]>> \in links
  BY <1>1 DEF Chain
<1> DEFINE T == {n \in 0..m : c[n] \in S}
<1>3. 0 \in T
  BY <1>2
<1>4. ASSUME NEW n \in 0..(m - 1), n \in T PROVE n + 1 \in T
  <2>1. PICK l \in links : l = <<c[n], c[n + 1]>>
    BY <1>2
  <2>2. l[1] \in S /\ l[2] = c[n + 1]
    BY <1>4, <2>1
  <2>3. c[n + 1] \in S
    BY <2>2
  <2> QED
    BY <2>3
<1> HIDE DEF T
<1>5. 0..m \subseteq T
  BY <1>3, <1>4, AllUpTo
<1>6. m \in T /\ m \in 0..m
  BY <1>5
<1> QED
  BY <1>2, <1>6 DEF T

(* ... and in front of it, unless it is p, there is a port led to.         *)
LEMMA LeadsLast ==
    ASSUME children \in Trees, LinksOK, NEW p \in Ports, NEW q, Leads(p, q), q # p
    PROVE  \E l \in links : l[2] = q /\ Leads(p, l[1])
<1>1. PICK S : S = {x \in Ports : /\ Leads(p, x)
                                  /\ x = p \/ \E l \in links : l[2] = x /\ Leads(p, l[1])}
  OBVIOUS
<1>2. p \in S
  BY <1>1, LeadsSelf
<1>3. ASSUME NEW l \in links, l[1] \in S PROVE l[2] \in S
  <2>1. Leads(p, l[1]) /\ l[2] \in Ports
    BY <1>1, <1>3, LinkKinds
  <2>2. Leads(p, l[2])
    BY <2>1, LeadsOn
  <2> QED
    BY <1>1, <2>1, <2>2
<1>4. q \in S
  BY <1>2, <1>3, LeadsInside
<1> QED
  BY <1>1, <1>4

(* What the end of a link leads to, its start leads to.                    *)
LEMMA LeadsFrom ==
    ASSUME children \in Trees, LinksOK, NEW l \in links, NEW q, Leads(l[2], q)
    PROVE  Leads(l[1], q)
<1>1. l[1] \in Ports /\ l[2] \in Ports
  BY LinkKinds
<1>2. PICK S : S = {x \in Ports : Leads(l[1], x)}
  OBVIOUS
<1>3. l[2] \in S
  <2>1. Leads(l[1], l[1])
    BY <1>1, LeadsSelf
  <2>2. Leads(l[1], l[2])
    BY <1>1, <2>1, LeadsOn
  <2> QED
    BY <1>1, <1>2, <2>2
<1>4. ASSUME NEW k \in links, k[1] \in S PROVE k[2] \in S
  <2>1. Leads(l[1], k[1]) /\ k[2] \in Ports
    BY <1>2, <1>4, LinkKinds
  <2>2. Leads(l[1], k[2])
    BY <1>1, <2>1, LeadsOn
  <2> QED
    BY <1>2, <2>1, <2>2
<1>5. q \in S
  BY <1>1, <1>3, <1>4, LeadsInside
<1> QED
  BY <1>2, <1>5

-----------------------------------------------------------------------------
(* What the innermost ports say about where the links lead. *)

(* Leads, from the front: transitive, and by a first link.                 *)
LEMMA LeadsThrough ==
    ASSUME children \in Trees, LinksOK, NEW p \in Ports, NEW x \in Ports, NEW q,
           Leads(p, x), Leads(x, q)
    PROVE  Leads(p, q)
<1>1. PICK S : S = {y \in Ports : Leads(p, y)}
  OBVIOUS
<1>2. x \in S
  BY <1>1
<1>3. ASSUME NEW k \in links, k[1] \in S PROVE k[2] \in S
  <2>1. Leads(p, k[1]) /\ k[2] \in Ports
    BY <1>1, <1>3, LinkKinds
  <2>2. Leads(p, k[2])
    BY <2>1, LeadsOn
  <2> QED
    BY <1>1, <2>1, <2>2
<1>4. q \in S
  BY <1>2, <1>3, LeadsInside
<1> QED
  BY <1>1, <1>4

(* Behind a port that leads to another there is a link that does.          *)
LEMMA LeadsFirst ==
    ASSUME children \in Trees, LinksOK, NEW p \in Ports, NEW q, Leads(p, q), q # p
    PROVE  \E k \in links : k[1] = p /\ Leads(k[2], q)
<1>1. PICK S : S = {y \in Ports : y = p \/ \E k \in links : k[1] = p /\ Leads(k[2], y)}
  OBVIOUS
<1>2. p \in S
  BY <1>1
<1>3. ASSUME NEW l \in links, l[1] \in S PROVE l[2] \in S
  <2>1. l[2] \in Ports
    BY LinkKinds
  <2>2. CASE l[1] = p
    <3>1. Leads(l[2], l[2])
      BY <2>1, LeadsSelf
    <3> QED
      BY <1>1, <2>1, <2>2, <3>1
  <2>3. CASE l[1] # p
    <3>1. PICK k \in links : k[1] = p /\ Leads(k[2], l[1])
      BY <1>1, <1>3, <2>3
    <3>2. k[2] \in Ports
      BY LinkKinds
    <3>3. Leads(k[2], l[2])
      BY <3>1, <3>2, LeadsOn
    <3> QED
      BY <1>1, <2>1, <3>1, <3>3
  <2> QED
    BY <2>2, <2>3
<1>4. q \in S
  BY <1>2, <1>3, LeadsInside
<1> QED
  BY <1>1, <1>4

(* From an input one comes to inputs only, all with the same innermost one *)
(* ...                                                                     *)
LEMMA LeadsIn ==
    ASSUME children \in Trees, LinksOK, NEW p \in InPorts, NEW q, Leads(p, q)
    PROVE  q \in InPorts /\ InnerInput(q) = InnerInput(p)
<1>1. PICK S : S = {x \in InPorts : InnerInput(x) = InnerInput(p)}
  OBVIOUS
<1>2. p \in S /\ p \in Ports
  BY <1>1 DEF InPorts
<1>3. ASSUME NEW l \in links, l[1] \in S PROVE l[2] \in S
  <2>1. l[1] \in InPorts /\ InnerInput(l[1]) = InnerInput(p)
    BY <1>1, <1>3
  <2>2. l[2] \in InPorts /\ InnerInput(l[1]) = InnerInput(l[2])
    BY <2>1, FromInput, InnerInputStep
  <2> QED
    BY <1>1, <2>1, <2>2
<1>4. q \in S
  BY <1>2, <1>3, LeadsInside
<1> QED
  BY <1>1, <1>4

(* ... which is one of them.                                               *)
LEMMA LeadsToInner ==
    ASSUME children \in Trees, LinksOK, NEW p \in InPorts
    PROVE  Leads(p, InnerInput(p)) /\ InnerInput(InnerInput(p)) = InnerInput(p)
<1>1. PICK S : S = {x \in Ports : Leads(p, x)}
  OBVIOUS
<1>2. p \in Ports
  BY DEF InPorts
<1>3. p \in S
  BY <1>1, <1>2, LeadsSelf
<1>4. ASSUME NEW l \in links, l[1] \in S PROVE l[2] \in S
  <2>1. Leads(p, l[1]) /\ l[2] \in Ports
    BY <1>1, <1>4, LinkKinds
  <2>2. Leads(p, l[2])
    BY <1>2, <2>1, LeadsOn
  <2> QED
    BY <1>1, <2>1, <2>2
<1>5. \A l \in links : l[1] \in S /\ l[1] \in InPorts => l[2] \in S
  BY <1>4
<1>6. InnerInput(p) \in S
  BY <1>3, <1>5, InnerInputInside
<1>7. Leads(p, InnerInput(p))
  BY <1>1, <1>6
<1> QED
  BY <1>7, LeadsIn

(* To an output one comes from outputs only.                               *)
LEMMA LeadsOut ==
    ASSUME children \in Trees, LinksOK, NEW q \in Ports, NEW p \in OutPorts, Leads(q, p)
    PROVE  q \in OutPorts /\ InnerOutput(q) = InnerOutput(p)
<1>1. q \in OutPorts
  <2> SUFFICES ASSUME q \notin OutPorts PROVE FALSE
    OBVIOUS
  <2>1. q \in InPorts
    BY Sides
  <2>2. p \in InPorts
    BY <2>1, LeadsIn
  <2> QED
    BY <2>2, Sides DEF OutPorts
<1>2. PICK S : S = {x \in Ports : x \in OutPorts => InnerOutput(x) = InnerOutput(q)}
  OBVIOUS
<1>3. q \in S
  BY <1>2
<1>4. ASSUME NEW l \in links, l[1] \in S PROVE l[2] \in S
  <2>1. l[2] \in Ports
    BY LinkKinds
  <2>2. ASSUME l[2] \in OutPorts PROVE InnerOutput(l[2]) = InnerOutput(q)
    <3>1. l[1] \in OutPorts /\ InnerOutput(l[2]) = InnerOutput(l[1])
      BY <2>2, ToOutput, InnerOutputStep
    <3> QED
      BY <1>2, <1>4, <3>1
  <2> QED
    BY <1>2, <2>1, <2>2
<1>5. p \in S
  BY <1>3, <1>4, LeadsInside
<1> QED
  BY <1>1, <1>2, <1>5

(* The inner output leads to the output.                                   *)
LEMMA LeadsFromInner ==
    ASSUME children \in Trees, LinksOK, NEW p \in OutPorts
    PROVE  Leads(InnerOutput(p), p)
<1>1. PICK S : S = {x \in Ports : Leads(x, p)}
  OBVIOUS
<1>2. p \in Ports
  BY DEF OutPorts
<1>3. p \in S
  BY <1>1, <1>2, LeadsSelf
<1>4. ASSUME NEW l \in links, l[2] \in S PROVE l[1] \in S
  <2>1. Leads(l[2], p) /\ l[1] \in Ports
    BY <1>1, <1>4, LinkKinds
  <2>2. Leads(l[1], p)
    BY <2>1, LeadsFrom
  <2> QED
    BY <1>1, <2>1, <2>2
<1>5. \A l \in links : l[2] \in S /\ l[2] \in OutPorts => l[1] \in S
  BY <1>4
<1>6. InnerOutput(p) \in S
  BY <1>3, <1>5, InnerOutputInside
<1> QED
  BY <1>1, <1>6

(* The ports of a star are innermost.                                      *)
LEMMA StarPorts ==
    ASSUME children \in Trees, LinksOK, NEW s \in Star, NEW n \in Number
    PROVE  /\ <<s, "in", n>> \in InPorts /\ InnerInput(<<s, "in", n>>) = <<s, "in", n>>
           /\ <<s, "out", n>> \in OutPorts /\ InnerOutput(<<s, "out", n>>) = <<s, "out", n>>
<1>1. PICK i, o : i = <<s, "in", n>> /\ o = <<s, "out", n>>
  OBVIOUS
<1>2. i \in InPorts /\ o \in OutPorts /\ i[1] = s /\ o[1] = s
  BY <1>1, PortIs DEF All
<1>3. s \notin Galaxy
  BY BlockAssumption
<1>4. \A l \in links : l[1] # i
  BY <1>2, <1>3, FromInput
<1>5. \A l \in links : l[2] # o
  BY <1>2, <1>3, ToOutput
<1>6. InnerInput(i) = i /\ InnerOutput(o) = o
  BY <1>2, <1>4, <1>5, InnerInputStays, InnerOutputStays
<1> QED
  BY <1>1, <1>2, <1>6

(* A link from an output to an input joins a port to another at its ends.  *)
Joins(l, e, f) == InnerOutput(l[1]) = e /\ InnerInput(l[2]) = f

(* A link between two blocks has an inner output and an inner input.       *)
LEMMA BetweenEnds ==
    ASSUME children \in Trees, LinksOK, NEW l \in Between
    PROVE  /\ l \in links /\ l[1] \in OutPorts /\ l[2] \in InPorts
           /\ InnerOutput(l[1]) \in OutPorts /\ InnerInput(l[2]) \in InPorts
           /\ l[1] \notin InPorts /\ l[2] \notin OutPorts
<1>1. l \in links /\ l[1] \in Ports /\ l[2] \in Ports /\ l[1][2] = "out" /\ l[2][2] = "in"
  BY LinkKinds DEF Between
<1>2. l[1] \in OutPorts /\ l[2] \in InPorts
  BY <1>1 DEF OutPorts, InPorts
<1>3. l[1] \notin InPorts /\ l[2] \notin OutPorts
  BY <1>1, <1>2, Sides
<1> QED
  BY <1>1, <1>2, <1>3, InnerInputEnd, InnerOutputEnd

(* A star leads to another if and only if such a link joins their ports.   *)
LEMMA LeadsJoins ==
    ASSUME children \in Trees, LinksOK, NEW s \in Star, NEW n \in Number,
           NEW t \in Star, NEW m \in Number
    PROVE  Leads(<<s, "out", n>>, <<t, "in", m>>)
           <=> \E l \in Between : Joins(l, <<s, "out", n>>, <<t, "in", m>>)
<1>1. PICK e, f : e = <<s, "out", n>> /\ f = <<t, "in", m>>
  OBVIOUS
<1>2. e \in OutPorts /\ f \in InPorts /\ InnerOutput(e) = e /\ InnerInput(f) = f
  BY <1>1, StarPorts
<1>3. e \in Ports /\ f \in Ports /\ e \notin InPorts /\ f \notin OutPorts
  BY <1>2, Sides DEF OutPorts, InPorts
<1>4. ASSUME NEW l \in Between, Joins(l, e, f) PROVE Leads(e, f)
  <2>1. l \in links /\ l[1] \in OutPorts /\ l[2] \in InPorts /\ l[1] \in Ports /\ l[2] \in Ports
    BY BetweenEnds DEF OutPorts, InPorts
  <2>2. InnerOutput(l[1]) = e /\ InnerInput(l[2]) = f
    BY <1>4 DEF Joins
  <2>3. Leads(InnerOutput(l[1]), l[1]) /\ Leads(l[2], InnerInput(l[2]))
    BY <2>1, LeadsFromInner, LeadsToInner
  <2>4. Leads(e, l[2])
    BY <1>3, <2>1, <2>2, <2>3, LeadsOn
  <2> QED
    BY <1>3, <2>1, <2>2, <2>3, <2>4, LeadsThrough
<1>5. ASSUME Leads(e, f) PROVE \E l \in Between : Joins(l, e, f)
  <2>1. PICK S : S = {q \in Ports :
          \/ q \in OutPorts /\ InnerOutput(q) = e
          \/ q \in InPorts /\ \E l \in Between : Joins(l, e, InnerInput(q))}
    OBVIOUS
  <2>2. e \in S
    BY <1>2, <1>3, <2>1
  <2>3. ASSUME NEW l \in links, l[1] \in S PROVE l[2] \in S
    <3>0. l[1] \in Ports /\ l[2] \in Ports
      BY LinkKinds
    <3>1. CASE l[1] \in InPorts
      <4>1. l[1] \notin OutPorts
        BY <3>0, <3>1, Sides
      <4>2. PICK k \in Between : Joins(k, e, InnerInput(l[1]))
        BY <2>1, <2>3, <4>1
      <4>3. l[2] \in InPorts /\ InnerInput(l[1]) = InnerInput(l[2])
        BY <3>1, FromInput, InnerInputStep
      <4> QED
        BY <2>1, <3>0, <4>2, <4>3
    <3>2. CASE l[1] \in OutPorts /\ l[2] \in OutPorts
      <4>1. l[1] \notin InPorts
        BY <3>0, <3>2, Sides
      <4>2. InnerOutput(l[1]) = e
        BY <2>1, <2>3, <4>1
      <4>3. InnerOutput(l[2]) = InnerOutput(l[1])
        BY <3>2, InnerOutputStep
      <4> QED
        BY <2>1, <3>0, <3>2, <4>2, <4>3
    <3>3. CASE l[1] \in OutPorts /\ l[2] \in InPorts
      <4>1. l[1] \notin InPorts
        BY <3>0, <3>3, Sides
      <4>2. InnerOutput(l[1]) = e
        BY <2>1, <2>3, <4>1
      <4>3. l \in Between
        BY <3>3 DEF Between, OutPorts, InPorts
      <4>4. Joins(l, e, InnerInput(l[2]))
        BY <4>2 DEF Joins
      <4> QED
        BY <2>1, <3>0, <3>3, <4>3, <4>4
    <3> QED
      BY <3>0, <3>1, <3>2, <3>3, Sides
  <2>4. f \in S
    BY <1>3, <1>5, <2>2, <2>3, LeadsInside
  <2> QED
    BY <1>2, <1>3, <2>1, <2>4
<1> QED
  BY <1>1, <1>4, <1>5

(* An input is joined by one link only ...                                 *)
LEMMA InputOnce ==
    ASSUME children \in Trees, LinksOK, NEW l \in Between, NEW k \in Between,
           InnerInput(l[2]) = InnerInput(k[2])
    PROVE  l = k
<1>0. \A m \in Between : /\ m \in links /\ m[2] \in InPorts /\ m[1] \notin InPorts
                         /\ m[2] \in Ports
  BY BetweenEnds DEF InPorts
<1>1. PICK S : S = {x \in InPorts : \A m \in Between : Leads(m[2], x) => m = l}
  OBVIOUS
<1>2. ASSUME NEW m \in Between, NEW j \in links, j[2] # m[2], Leads(m[2], j[2])
      PROVE  Leads(m[2], j[1]) /\ j[1] \in InPorts
  <2>1. PICK i \in links : i[2] = j[2] /\ Leads(m[2], i[1])
    BY <1>0, <1>2, LeadsLast
  <2>2. i = j
    BY <2>1 DEF LinksOK
  <2>3. Leads(m[2], j[1])
    BY <2>1, <2>2
  <2> QED
    BY <1>0, <2>3, LeadsIn
<1>3. l[2] \in S
  <2> SUFFICES ASSUME NEW m \in Between, Leads(m[2], l[2]) PROVE m = l
    BY <1>0, <1>1
  <2>1. CASE m[2] = l[2]
    BY <1>0, <2>1 DEF LinksOK
  <2>2. CASE m[2] # l[2]
    BY <1>0, <1>2, <2>2
  <2> QED
    BY <2>1, <2>2
<1>4. ASSUME NEW j \in links, j[1] \in S, j[1] \in InPorts PROVE j[2] \in S
  <2>1. j[2] \in InPorts
    BY <1>4, FromInput
  <2> SUFFICES ASSUME NEW m \in Between, Leads(m[2], j[2]) PROVE m = l
    BY <1>1, <2>1
  <2>2. CASE m[2] = j[2]
    <3>1. m = j
      BY <1>0, <2>2 DEF LinksOK
    <3> QED
      BY <1>0, <1>4, <3>1
  <2>3. CASE m[2] # j[2]
    <3>1. Leads(m[2], j[1])
      BY <1>2, <2>3
    <3> QED
      BY <1>1, <1>4, <3>1
  <2> QED
    BY <2>2, <2>3
<1>5. InnerInput(l[2]) \in S
  BY <1>0, <1>3, <1>4, InnerInputInside
<1>6. Leads(k[2], InnerInput(k[2]))
  BY <1>0, LeadsToInner
<1> QED
  BY <1>1, <1>5, <1>6

(* ... and so is an output.                                                *)
LEMMA OutputOnce ==
    ASSUME children \in Trees, LinksOK, NEW l \in Between, NEW k \in Between,
           InnerOutput(l[1]) = InnerOutput(k[1])
    PROVE  l = k
<1>0. \A m \in Between : /\ m \in links /\ m[1] \in OutPorts /\ m[2] \notin OutPorts
                         /\ m[1] \in Ports
  BY BetweenEnds DEF OutPorts
<1>1. PICK S : S = {x \in OutPorts : \A m \in Between : Leads(x, m[1]) => m = l}
  OBVIOUS
<1>2. ASSUME NEW m \in Between, NEW j \in links, j[1] # m[1], Leads(j[1], m[1])
      PROVE  Leads(j[2], m[1]) /\ j[2] \in OutPorts
  <2>0. j[1] \in Ports /\ j[2] \in Ports
    BY LinkKinds
  <2>1. PICK i \in links : i[1] = j[1] /\ Leads(i[2], m[1])
    BY <1>2, <2>0, LeadsFirst
  <2>2. i = j
    BY <2>1 DEF LinksOK
  <2>3. Leads(j[2], m[1])
    BY <2>1, <2>2
  <2> QED
    BY <1>0, <2>0, <2>3, LeadsOut
<1>3. l[1] \in S
  <2> SUFFICES ASSUME NEW m \in Between, Leads(l[1], m[1]) PROVE m = l
    BY <1>0, <1>1
  <2>1. CASE m[1] = l[1]
    BY <1>0, <2>1 DEF LinksOK
  <2>2. CASE m[1] # l[1]
    BY <1>0, <1>2, <2>2
  <2> QED
    BY <2>1, <2>2
<1>4. ASSUME NEW j \in links, j[2] \in S, j[2] \in OutPorts PROVE j[1] \in S
  <2>1. j[1] \in OutPorts
    BY <1>4, ToOutput
  <2> SUFFICES ASSUME NEW m \in Between, Leads(j[1], m[1]) PROVE m = l
    BY <1>1, <2>1
  <2>2. CASE m[1] = j[1]
    <3>1. m = j
      BY <1>0, <2>2 DEF LinksOK
    <3> QED
      BY <1>0, <1>4, <3>1
  <2>3. CASE m[1] # j[1]
    <3>1. Leads(j[2], m[1])
      BY <1>2, <2>3
    <3> QED
      BY <1>1, <1>4, <3>1
  <2> QED
    BY <2>2, <2>3
<1>5. InnerOutput(l[1]) \in S
  BY <1>0, <1>3, <1>4, InnerOutputInside
<1>6. Leads(InnerOutput(k[1]), k[1])
  BY <1>0, LeadsFromInner
<1> QED
  BY <1>1, <1>5, <1>6

(* A star at either end: where the innermost ports are.                    *)
LEMMA EndsAreInner ==
    ASSUME children \in Trees, LinksOK, NEW l \in Between
    PROVE  EndsInStars(l) <=> InnerInput(l[2])[1] \in Star /\ InnerOutput(l[1])[1] \in Star
<1>0. PICK i \in InPorts, o \in OutPorts : i = InnerInput(l[2]) /\ o = InnerOutput(l[1])
  BY BetweenEnds
<1>1. l[1] \in OutPorts /\ l[2] \in InPorts /\ l[1] \in Ports
  BY BetweenEnds DEF OutPorts
<1>2. /\ i = <<i[1], "in", i[3]>> /\ i[3] \in Number
      /\ o = <<o[1], "out", o[3]>> /\ o[3] \in Number
  BY DEF InPorts, OutPorts, Ports
<1>3. Leads(l[2], i) /\ Leads(o, l[1])
  BY <1>0, <1>1, LeadsFromInner, LeadsToInner
<1>4. ASSUME i[1] \in Star, o[1] \in Star PROVE EndsInStars(l)
  BY <1>2, <1>3, <1>4 DEF EndsInStars
<1>5. ASSUME NEW s \in Star, NEW n \in Number, Leads(l[2], <<s, "in", n>>)
      PROVE  i[1] \in Star
  <2>1. InnerInput(<<s, "in", n>>) = i
    BY <1>0, <1>1, <1>5, LeadsIn
  <2>2. i = <<s, "in", n>>
    BY <2>1, StarPorts
  <2> QED
    BY <2>2
<1>6. ASSUME NEW s \in Star, NEW n \in Number, Leads(<<s, "out", n>>, l[1])
      PROVE  o[1] \in Star
  <2>1. PICK e : e = <<s, "out", n>>
    OBVIOUS
  <2>2. e \in Ports /\ InnerOutput(e) = e
    BY <2>1, StarPorts DEF OutPorts
  <2>3. InnerOutput(e) = o
    BY <1>0, <1>1, <1>6, <2>1, <2>2, LeadsOut
  <2> QED
    BY <2>1, <2>2, <2>3
<1> QED
  BY <1>0, <1>4, <1>5, <1>6 DEF EndsInStars

-----------------------------------------------------------------------------
(* A set of port numbers without a gap. *)
LEMMA NoGap ==
    ASSUME NEW P \in SUBSET Number, \A n \in Number \ {0} : n \in P => n - 1 \in P
    PROVE  /\ Cardinality(P) \in Nat /\ Cardinality(P) <= IO_BUFFERS
           /\ P = 0..(Cardinality(P) - 1)
<1>0. IO_BUFFERS \in Nat \ {0} /\ Number = 0..(IO_BUFFERS - 1)
  BY BoundAssumption DEF Number
<1>1. PICK R : R = Nat \ P
  OBVIOUS
<1>2. R \in SUBSET Nat /\ R # {}
  <2>1. IO_BUFFERS \in Nat /\ IO_BUFFERS \notin Number
    BY <1>0
  <2> QED
    BY <1>1, <2>1
<1>3. PICK m \in R : \A y \in R : m <= y
  BY <1>2, LeastNumber
<1>4. m \in Nat /\ m \notin P
  BY <1>1, <1>2
<1>5. 0..(m - 1) \subseteq P
  <2> SUFFICES ASSUME NEW x \in 0..(m - 1), x \notin P PROVE FALSE
    OBVIOUS
  <2>1. x \in R /\ ~(m <= x)
    BY <1>1, <1>4
  <2> QED
    BY <1>3, <2>1
<1>6. ASSUME NEW x \in P, x >= m PROVE FALSE
  <2>1. x \in Nat /\ x \in Number
    BY <1>0
  <2> DEFINE T == {i \in 0..x : x - i \in P}
  <2>2. 0 \in T
    BY <2>1
  <2>3. ASSUME NEW i \in 0..(x - 1), i \in T PROVE i + 1 \in T
    <3>1. x - i \in P /\ x - i # 0 /\ i + 1 \in 0..x /\ (x - i) - 1 = x - (i + 1)
      BY <2>1, <2>3
    <3>2. (x - i) - 1 \in P
      BY <3>1
    <3> QED
      BY <3>1, <3>2
  <2> HIDE DEF T
  <2>4. 0..x \subseteq T
    BY <2>1, <2>2, <2>3, AllUpTo
  <2>5. x - m \in 0..x /\ x - (x - m) = m
    BY <1>4, <1>6, <2>1
  <2>6. x - m \in T
    BY <2>4, <2>5
  <2> QED
    BY <1>4, <2>5, <2>6 DEF T
<1>7. P = 0..(m - 1)
  <2>1. ASSUME NEW x \in P PROVE x \in 0..(m - 1)
    <3>1. x \in Nat /\ ~(x >= m)
      BY <1>0, <1>6
    <3> QED
      BY <1>4, <3>1
  <2> QED
    BY <1>5, <2>1
<1>8. Cardinality(P) = m
  <2>1. 0 \in Int /\ m - 1 \in Int
    BY <1>4
  <2>2. Cardinality(0..(m - 1)) = IF 0 > m - 1 THEN 0 ELSE (m - 1) - 0 + 1
    BY <2>1, FS_Interval
  <2> QED
    BY <1>4, <1>7, <2>2
<1>9. m <= IO_BUFFERS
  <2>1. IO_BUFFERS \in R
    BY <1>0, <1>1
  <2> QED
    BY <1>3, <2>1
<1> QED
  BY <1>4, <1>7, <1>8, <1>9

-----------------------------------------------------------------------------
(* The walk of ConnectAllStars. *)

(* A call of ConnectAllStars.                                              *)
Frame == [gal : Galaxy, pos : Nat \ {0}, port : 0..IO_BUFFERS]

(* The calls in progress, innermost first.                                 *)
Stack == Seq(Frame) \ {<<>>}

(* The calls st in progress on the tree t: the universe is the outermost,  *)
(* each other one is for the current block of the call around it, and no   *)
(* galaxy is walked twice.                                                 *)
Nested(t, st) ==
    /\ st[Len(st)].gal = Universe
    /\ \A k \in 1..(Len(st) - 1) :
         /\ st[k + 1].pos \in DOMAIN t[st[k + 1].gal]
         /\ t[st[k + 1].gal][st[k + 1].pos] = st[k].gal
    /\ \A j, k \in DOMAIN st : st[j].gal = st[k].gal => j = k

(* D are the blocks that the calls st are through with.                    *)
Visited(t, st, D) ==
    /\ D \in SUBSET Block
    /\ \A g \in D \cap Galaxy : \A i \in DOMAIN t[g] : t[g][i] \in D
    /\ \A k \in DOMAIN st :
         /\ st[k].gal \notin D
         /\ \A i \in DOMAIN t[st[k].gal] : t[st[k].gal][i] \in D <=> i < st[k].pos
    /\ \A g \in Galaxy : \A i \in DOMAIN t[g] :
         t[g][i] \in D => g \in D \/ \E k \in DOMAIN st : st[k].gal = g

(* The frames at the next port, at the next block, and of a call.          *)
LEMMA FrameParts ==
    ASSUME NEW f \in Frame
    PROVE  /\ f.gal \in Galaxy /\ f.pos \in Nat \ {0} /\ f.port \in 0..IO_BUFFERS
           /\ f = [gal |-> f.gal, pos |-> f.pos, port |-> f.port]
  BY DEF Frame

(* The frame at the next port.                                             *)
LEMMA NextPortFrame ==
    ASSUME NEW f \in Frame, f.port \in Number, NEW e, e = [f EXCEPT !.port = @ + 1]
    PROVE  e \in Frame /\ e.gal = f.gal /\ e.pos = f.pos /\ e.port = f.port + 1
<1>1. f = [gal |-> f.gal, pos |-> f.pos, port |-> f.port]
  BY FrameParts
<1>2. e = [gal |-> f.gal, pos |-> f.pos, port |-> f.port + 1]
  BY <1>1
<1>3. f.gal \in Galaxy /\ f.pos \in Nat \ {0} /\ f.port + 1 \in 0..IO_BUFFERS
  BY FrameParts, BoundAssumption DEF Number
<1>4. e.gal = f.gal /\ e.pos = f.pos /\ e.port = f.port + 1
  BY <1>2
<1> QED
  BY <1>2, <1>3, <1>4 DEF Frame

(* The frame at the next block.                                            *)
LEMMA NextBlockFrame ==
    ASSUME NEW f \in Frame, NEW e, e = NextBlock(f)
    PROVE  e \in Frame /\ e.gal = f.gal /\ e.pos = f.pos + 1 /\ e.port = 0
<1>1. f = [gal |-> f.gal, pos |-> f.pos, port |-> f.port]
  BY FrameParts
<1>2. e = [gal |-> f.gal, pos |-> f.pos + 1, port |-> 0]
  BY <1>1 DEF NextBlock
<1>3. f.gal \in Galaxy /\ f.pos + 1 \in Nat \ {0} /\ 0 \in 0..IO_BUFFERS
  BY FrameParts, BoundAssumption
<1>4. e.gal = f.gal /\ e.pos = f.pos + 1 /\ e.port = 0
  BY <1>2
<1> QED
  BY <1>2, <1>3, <1>4 DEF Frame

(* The frame of a call.                                                    *)
LEMMA CalledFrame ==
    ASSUME NEW g \in Galaxy
    PROVE  Called(g) \in Frame /\ Called(g).gal = g /\ Called(g).pos = 1 /\ Called(g).port = 0
<1>1. 1 \in Nat \ {0} /\ 0 \in 0..IO_BUFFERS
  BY BoundAssumption
<1> QED
  BY <1>1 DEF Called, Frame

(* A call of the stack is a frame of it.                                   *)
LEMMA Frames ==
    ASSUME NEW st \in Stack
    PROVE  /\ Len(st) \in Nat \ {0} /\ DOMAIN st = 1..Len(st) /\ st # <<>>
           /\ Head(st) = st[1] /\ 1 \in DOMAIN st
           /\ \A k \in DOMAIN st : /\ st[k] \in Frame
                                   /\ st[k].gal \in Galaxy /\ st[k].pos \in Nat \ {0}
                                   /\ st[k].port \in 0..IO_BUFFERS
<1>1. /\ Len(st) \in Nat \ {0} /\ DOMAIN st = 1..Len(st) /\ st # <<>>
      /\ Head(st) = st[1] /\ 1 \in DOMAIN st /\ \A k \in DOMAIN st : st[k] \in Frame
  BY DEF Stack
<1> QED
  BY <1>1, FrameParts

(* The running call has the frame f in st1, the others are as in st.       *)
Replaced(st, f, st1) ==
    /\ st1 \in Stack /\ Len(st1) = Len(st) /\ st1[1] = f
    /\ \A k \in DOMAIN st : k # 1 => st1[k] = st[k]

(* The running call moves on; one is made; one returns.                    *)
LEMMA MovedFrames ==
    ASSUME NEW st \in Stack, NEW f \in Frame
    PROVE  Replaced(st, f, <<f>> \o Tail(st))
<1>1. st \in Seq(Frame) /\ Len(st) \in Nat \ {0} /\ DOMAIN st = 1..Len(st)
  BY Frames DEF Stack
<1>2. PICK u, st1 : u = Tail(st) /\ st1 = <<f>> \o u
  OBVIOUS
<1>3. /\ u \in Seq(Frame) /\ Len(u) = Len(st) - 1
      /\ \A k \in 1..Len(u) : u[k] = st[k + 1]
  BY <1>1, <1>2, HeadTailProperties DEF Stack
<1>4. /\ st1 \in Seq(Frame) /\ Len(st1) = Len(u) + 1 /\ st1[1] = f
      /\ \A k \in 2..Len(st1) : st1[k] = u[k - 1]
  BY <1>2, <1>3
<1>5. ASSUME NEW k \in DOMAIN st, k # 1 PROVE st1[k] = st[k]
  <2>1. k \in 2..Len(st1) /\ k - 1 \in 1..Len(u) /\ (k - 1) + 1 = k
    BY <1>1, <1>3, <1>4, <1>5
  <2>2. st1[k] = u[k - 1] /\ u[k - 1] = st[(k - 1) + 1]
    BY <1>3, <1>4, <2>1
  <2> QED
    BY <2>1, <2>2
<1>6. Replaced(st, f, st1)
  BY <1>1, <1>3, <1>4, <1>5 DEF Stack, Replaced
<1> QED
  BY <1>2, <1>6

(* A call more.                                                            *)
LEMMA EnteredFrames ==
    ASSUME NEW st \in Stack, NEW g \in Galaxy, NEW st1, st1 = <<Called(g)>> \o st
    PROVE  /\ st1 \in Stack /\ Len(st1) = Len(st) + 1 /\ st1[1] = Called(g)
           /\ \A k \in 2..Len(st1) : k - 1 \in DOMAIN st /\ st1[k] = st[k - 1]
<1>1. st \in Seq(Frame) /\ Len(st) \in Nat \ {0} /\ DOMAIN st = 1..Len(st)
  BY Frames DEF Stack
<1>2. PICK f \in Frame : f = Called(g)
  BY CalledFrame
<1>3. /\ st1 \in Seq(Frame) /\ Len(st1) = Len(st) + 1 /\ st1[1] = f
      /\ \A k \in 2..Len(st1) : st1[k] = st[k - 1]
  BY <1>1, <1>2
<1> QED
  BY <1>1, <1>2, <1>3 DEF Stack

(* A call less, with the one around it at its next block.                  *)
LEMMA ReturnedFrames ==
    ASSUME NEW st \in Stack, Len(st) # 1, NEW st1, st1 = <<NextBlock(st[2])>> \o Tail(Tail(st))
    PROVE  /\ Len(st) > 1 /\ 2 \in DOMAIN st
           /\ st1 \in Stack /\ Len(st1) = Len(st) - 1 /\ st1[1] = NextBlock(st[2])
           /\ \A k \in 2..Len(st1) : k + 1 \in DOMAIN st /\ st1[k] = st[k + 1]
<1>1. st \in Seq(Frame) /\ Len(st) \in Nat \ {0} /\ DOMAIN st = 1..Len(st)
  BY Frames DEF Stack
<1>2. PICK u : u = Tail(st)
  OBVIOUS
<1>3. /\ u \in Seq(Frame) /\ Len(u) = Len(st) - 1
      /\ \A k \in 1..Len(u) : u[k] = st[k + 1]
  BY <1>1, <1>2, HeadTailProperties DEF Stack
<1>4. u \in Stack /\ DOMAIN u = 1..Len(u) /\ 2 \in DOMAIN st
  BY <1>1, <1>3 DEF Stack
<1>5. PICK f \in Frame : f = NextBlock(st[2])
  BY <1>4, Frames, NextBlockFrame
<1>6. Replaced(u, f, st1)
  <2>1. Replaced(u, f, <<f>> \o Tail(u))
    BY <1>4, MovedFrames
  <2> QED
    BY <1>2, <1>5, <2>1
<1>7. /\ st1 \in Stack /\ Len(st1) = Len(u) /\ st1[1] = f
      /\ \A k \in DOMAIN u : k # 1 => st1[k] = u[k]
  BY <1>6 DEF Replaced
<1>8. ASSUME NEW k \in 2..Len(st1) PROVE k + 1 \in DOMAIN st /\ st1[k] = st[k + 1]
  <2>1. k \in DOMAIN u /\ k # 1 /\ k \in 1..Len(u) /\ k + 1 \in 1..Len(st)
    BY <1>1, <1>3, <1>4, <1>7
  <2> QED
    BY <1>1, <1>3, <1>7, <2>1
<1> QED
  BY <1>1, <1>3, <1>4, <1>5, <1>7, <1>8

(* The walk begins with the universe and nothing done.                     *)
LEMMA Began ==
    ASSUME NEW t \in Trees, NEW st, st = <<Called(Universe)>>
    PROVE  /\ st \in Stack /\ Nested(t, st) /\ Visited(t, st, {})
           /\ Len(st) = 1 /\ st[1] = Called(Universe) /\ DOMAIN st = {1}
<1>1. PICK f \in Frame : f = Called(Universe) /\ f.gal = Universe /\ f.pos = 1
  BY BlockAssumption, CalledFrame
<1>2. st \in Stack /\ Len(st) = 1 /\ DOMAIN st = {1} /\ st[1] = f
  BY <1>1 DEF Stack
<1>3. Nested(t, st)
  <2>1. 1..(Len(st) - 1) = {}
    BY <1>2
  <2> QED
    BY <1>1, <1>2, <2>1 DEF Nested
<1>4. \A i \in DOMAIN t[Universe] : ~(i < 1)
  BY Lists, BlockAssumption
<1>5. Visited(t, st, {})
  BY <1>1, <1>2, <1>4 DEF Visited
<1> QED
  BY <1>1, <1>2, <1>3, <1>5

(* The current block of the running call is new: not under a call, and     *)
(* neither done.                                                           *)
LEMMA CurrentIsNew ==
    ASSUME NEW t \in Trees, NEW st \in Stack, Nested(t, st),
           st[1].pos \in DOMAIN t[st[1].gal],
           NEW b, b = t[st[1].gal][st[1].pos]
    PROVE  \A k \in DOMAIN st : st[k].gal # b
<1> SUFFICES ASSUME NEW k \in DOMAIN st, st[k].gal = b
             PROVE  FALSE
  OBVIOUS
<1>1. k \in 1..Len(st) /\ Len(st) \in Nat \ {0} /\ 1 \in DOMAIN st /\ st[1].gal \in Galaxy
  BY Frames
<1>2. b \in Block /\ b # Universe
  BY <1>1, Lists, BlockAssumption DEF Block
<1>3. k # Len(st)
  BY <1>2 DEF Nested
<1>4. /\ k + 1 \in DOMAIN st /\ st[k + 1].gal \in Galaxy
      /\ st[k + 1].pos \in DOMAIN t[st[k + 1].gal]
      /\ t[st[k + 1].gal][st[k + 1].pos] = b
  <2>1. k \in 1..(Len(st) - 1) /\ k + 1 \in 1..Len(st)
    BY <1>1, <1>3
  <2>2. /\ st[k + 1].pos \in DOMAIN t[st[k + 1].gal]
        /\ t[st[k + 1].gal][st[k + 1].pos] = st[k].gal
    BY <2>1 DEF Nested
  <2>3. k + 1 \in DOMAIN st /\ st[k + 1].gal \in Galaxy
    <3>1. DOMAIN st = 1..Len(st) /\ \A j \in DOMAIN st : st[j].gal \in Galaxy
      BY Frames
    <3> QED
      BY <2>1, <3>1
  <2> QED
    BY <2>2, <2>3
<1>5. st[k + 1].gal = st[1].gal
  BY <1>1, <1>4, Lists
<1> QED
  BY <1>1, <1>4, <1>5 DEF Nested

(* The calls stay nested when one is made for the current galaxy ...       *)
LEMMA EnteredNested ==
    ASSUME NEW t \in Trees, NEW st \in Stack, Nested(t, st),
           st[1].pos \in DOMAIN t[st[1].gal],
           NEW g \in Galaxy, g = t[st[1].gal][st[1].pos],
           NEW st1 \in Stack, Len(st1) = Len(st) + 1,
           \A k \in 2..Len(st1) : k - 1 \in DOMAIN st /\ st1[k] = st[k - 1],
           st1[1].gal = g
    PROVE  Nested(t, st1)
<1>1. Len(st) \in Nat \ {0} /\ DOMAIN st = 1..Len(st) /\ DOMAIN st1 = 1..Len(st1)
  BY Frames
<1>2. \A k \in DOMAIN st : st[k].gal # g
  BY CurrentIsNew
<1>3. st1[Len(st1)].gal = Universe
  <2>1. Len(st1) \in 2..Len(st1) /\ Len(st1) - 1 = Len(st)
    BY <1>1
  <2>2. st1[Len(st1)] = st[Len(st)]
    BY <1>1, <2>1
  <2> QED
    BY <2>2 DEF Nested
<1>4. ASSUME NEW k \in 1..(Len(st1) - 1)
      PROVE  /\ st1[k + 1].pos \in DOMAIN t[st1[k + 1].gal]
             /\ t[st1[k + 1].gal][st1[k + 1].pos] = st1[k].gal
  <2>1. CASE k = 1
    BY <1>1, <2>1
  <2>2. CASE k # 1
    <3>1. st1[k + 1] = st[k] /\ st1[k] = st[k - 1] /\ k - 1 \in 1..(Len(st) - 1)
      BY <1>1, <2>2
    <3>2. (k - 1) + 1 = k
      OBVIOUS
    <3> QED
      BY <3>1, <3>2 DEF Nested
  <2> QED
    BY <2>1, <2>2
<1>5. ASSUME NEW j \in DOMAIN st1, NEW k \in DOMAIN st1, st1[j].gal = st1[k].gal
      PROVE  j = k
  <2>1. CASE j # 1 /\ k # 1
    <3>1. st1[j] = st[j - 1] /\ st1[k] = st[k - 1] /\ j - 1 \in DOMAIN st /\ k - 1 \in DOMAIN st
      BY <1>1, <2>1
    <3>2. j - 1 = k - 1
      BY <3>1, <1>5 DEF Nested
    <3> QED
      BY <3>2, <1>1
  <2>2. CASE j = 1 \/ k = 1
    <3>1. \A m \in DOMAIN st1 : m # 1 => st1[m].gal # g
      <4> SUFFICES ASSUME NEW m \in DOMAIN st1, m # 1
                   PROVE  st1[m].gal # g
        OBVIOUS
      <4>1. m \in 2..Len(st1)
        BY <1>1
      <4>2. st1[m] = st[m - 1] /\ m - 1 \in DOMAIN st
        BY <1>1, <4>1
      <4> QED
        BY <4>2, <1>2
    <3>2. st1[1].gal = g
      BY <1>1
    <3> QED
      BY <2>2, <3>1, <3>2, <1>5
  <2> QED
    BY <2>1, <2>2
<1> QED
  BY <1>3, <1>4, <1>5 DEF Nested

(* ... when the running call moves in its list ...                         *)
LEMMA MovedNested ==
    ASSUME NEW t \in Trees, NEW st \in Stack, Nested(t, st), NEW st1 \in Stack,
           Len(st1) = Len(st), \A k \in DOMAIN st : k # 1 => st1[k] = st[k],
           st1[1].gal = st[1].gal
    PROVE  Nested(t, st1)
<1>1. Len(st) \in Nat \ {0} /\ DOMAIN st = 1..Len(st) /\ DOMAIN st1 = 1..Len(st)
  BY Frames
<1>2. \A k \in 1..Len(st) : st1[k].gal = st[k].gal
  BY <1>1
<1>3. st1[Len(st1)].gal = Universe
  BY <1>1, <1>2 DEF Nested
<1>4. ASSUME NEW k \in 1..(Len(st1) - 1)
      PROVE  /\ st1[k + 1].pos \in DOMAIN t[st1[k + 1].gal]
             /\ t[st1[k + 1].gal][st1[k + 1].pos] = st1[k].gal
  <2>1. k \in 1..(Len(st) - 1) /\ k + 1 \in DOMAIN st /\ k + 1 # 1
    BY <1>1
  <2>2. st1[k + 1] = st[k + 1] /\ st1[k].gal = st[k].gal
    BY <2>1, <1>2
  <2> QED
    BY <2>1, <2>2 DEF Nested
<1>5. \A j, k \in DOMAIN st1 : st1[j].gal = st1[k].gal => j = k
  BY <1>1, <1>2 DEF Nested
<1> QED
  BY <1>3, <1>4, <1>5 DEF Nested

(* ... and when it returns to the one around it.                           *)
LEMMA ReturnedNested ==
    ASSUME NEW t \in Trees, NEW st \in Stack, Nested(t, st), Len(st) > 1,
           NEW st1 \in Stack, Len(st1) = Len(st) - 1,
           \A k \in 2..Len(st1) : k + 1 \in DOMAIN st /\ st1[k] = st[k + 1],
           st1[1].gal = st[2].gal
    PROVE  Nested(t, st1)
<1>1. /\ Len(st) \in Nat \ {0} /\ DOMAIN st = 1..Len(st)
      /\ st1 \in Stack /\ Len(st1) = Len(st) - 1 /\ DOMAIN st1 = 1..Len(st1)
      /\ \A k \in 2..Len(st1) : k + 1 \in DOMAIN st /\ st1[k] = st[k + 1]
      /\ st1[1].gal = st[2].gal
  BY Frames
<1>2. ASSUME NEW k \in DOMAIN st1
      PROVE  k + 1 \in DOMAIN st /\ st1[k].gal = st[k + 1].gal
  <2>1. CASE k = 1
    BY <1>1, <2>1
  <2>2. CASE k # 1
    <3>1. k \in 2..Len(st1)
      BY <1>1, <2>2
    <3> QED
      BY <1>1, <3>1
  <2> QED
    BY <2>1, <2>2
<1>3. st1[Len(st1)].gal = Universe
  <2>1. Len(st1) \in DOMAIN st1 /\ Len(st1) + 1 = Len(st)
    BY <1>1
  <2> QED
    BY <2>1, <1>2 DEF Nested
<1>4. ASSUME NEW k \in 1..(Len(st1) - 1)
      PROVE  /\ st1[k + 1].pos \in DOMAIN t[st1[k + 1].gal]
             /\ t[st1[k + 1].gal][st1[k + 1].pos] = st1[k].gal
  <2>1. k \in DOMAIN st1 /\ k + 1 \in 2..Len(st1) /\ k + 1 \in 1..(Len(st) - 1)
    BY <1>1
  <2>2. st1[k + 1] = st[(k + 1) + 1] /\ st1[k].gal = st[k + 1].gal
    BY <1>1, <1>2, <2>1
  <2> QED
    BY <2>1, <2>2 DEF Nested
<1>5. ASSUME NEW j \in DOMAIN st1, NEW k \in DOMAIN st1, st1[j].gal = st1[k].gal
      PROVE  j = k
  <2>1. j + 1 = k + 1
    BY <1>2, <1>5 DEF Nested
  <2> QED
    BY <2>1, <1>1
<1> QED
  BY <1>3, <1>4, <1>5 DEF Nested

-----------------------------------------------------------------------------
(* When the current galaxy is called, nothing below it has been done.      *)
LEMMA EnteredVisited ==
    ASSUME NEW t \in Trees, NEW st \in Stack, Nested(t, st),
           st[1].pos \in DOMAIN t[st[1].gal],
           NEW g \in Galaxy, g = t[st[1].gal][st[1].pos],
           NEW st1 \in Stack, Len(st1) = Len(st) + 1,
           \A k \in 2..Len(st1) : k - 1 \in DOMAIN st /\ st1[k] = st[k - 1],
           st1[1].gal = g, st1[1].pos = 1,
           NEW D, Visited(t, st, D)
    PROVE  Visited(t, st1, D)
<1>1. Len(st) \in Nat \ {0} /\ DOMAIN st = 1..Len(st) /\ DOMAIN st1 = 1..Len(st1)
      /\ st[1].gal \in Galaxy /\ st[1].pos \in Nat
  BY Frames
<1>2. g \notin D
  <2>1. 1 \in DOMAIN st /\ ~(st[1].pos < st[1].pos)
    BY <1>1
  <2> QED
    BY <2>1 DEF Visited
<1>3. \A k \in DOMAIN st : st[k].gal # g
  BY CurrentIsNew
<1>4. ASSUME NEW i \in DOMAIN t[g]
      PROVE  t[g][i] \notin D /\ ~(i < 1)
  <2>1. i \in 1..Len(t[g]) /\ Len(t[g]) \in Nat
    BY Lists
  <2>2. t[g][i] \in D => g \in D \/ \E k \in DOMAIN st : st[k].gal = g
    BY DEF Visited
  <2>3. ~(i < 1)
    BY <2>1
  <2>4. ~(\E k \in DOMAIN st : st[k].gal = g)
    BY <1>3
  <2> QED
    BY <2>2, <2>3, <2>4, <1>2
<1>5. ASSUME NEW k \in DOMAIN st1
      PROVE  /\ st1[k].gal \notin D
             /\ \A i \in DOMAIN t[st1[k].gal] :
                  t[st1[k].gal][i] \in D <=> i < st1[k].pos
  <2>1. CASE k = 1
    BY <1>2, <1>4, <2>1
  <2>2. CASE k # 1
    <3>1. st1[k] = st[k - 1] /\ k - 1 \in DOMAIN st
      BY <1>1, <2>2
    <3> QED
      BY <3>1 DEF Visited
  <2> QED
    BY <2>1, <2>2
<1>6. ASSUME NEW h \in Galaxy, NEW i \in DOMAIN t[h], t[h][i] \in D
      PROVE  h \in D \/ \E k \in DOMAIN st1 : st1[k].gal = h
  <2>1. ASSUME NEW k \in DOMAIN st, st[k].gal = h
        PROVE  \E m \in DOMAIN st1 : st1[m].gal = h
    <3>1. k + 1 \in 2..Len(st1) /\ (k + 1) - 1 = k
      BY <1>1
    <3>2. k + 1 \in DOMAIN st1 /\ st1[k + 1] = st[k]
      BY <1>1, <3>1
    <3> QED
      BY <2>1, <3>2
  <2> QED
    BY <1>6, <2>1 DEF Visited
<1> QED
  BY <1>5, <1>6 DEF Visited

(* The running call of st has gone past its current block b.               *)
Past(t, st, b, st1) ==
    /\ st[1].pos \in DOMAIN t[st[1].gal]
    /\ b = t[st[1].gal][st[1].pos]
    /\ st1 \in Stack /\ Len(st1) = Len(st)
    /\ \A k \in DOMAIN st : k # 1 => st1[k] = st[k]
    /\ st1[1].gal = st[1].gal /\ st1[1].pos = st[1].pos + 1

(* If it is a star, it is done.                                            *)
LEMMA PassedVisited ==
    ASSUME NEW t \in Trees, NEW st \in Stack, Nested(t, st), NEW s \in Star,
           NEW st1, Past(t, st, s, st1), NEW D, Visited(t, st, D)
    PROVE  Visited(t, st1, D \cup {s}) /\ s \notin D
<1>0. /\ st[1].pos \in DOMAIN t[st[1].gal]
      /\ s = t[st[1].gal][st[1].pos]
      /\ st1 \in Stack /\ Len(st1) = Len(st)
      /\ \A k \in DOMAIN st : k # 1 => st1[k] = st[k]
      /\ st1[1].gal = st[1].gal /\ st1[1].pos = st[1].pos + 1
  BY DEF Past
<1>1. /\ Len(st) \in Nat \ {0} /\ DOMAIN st = 1..Len(st) /\ DOMAIN st1 = DOMAIN st
      /\ 1 \in DOMAIN st /\ st[1].gal \in Galaxy /\ st[1].pos \in Nat
      /\ \A k \in DOMAIN st : st[k].gal \in Galaxy /\ st1[k].gal = st[k].gal
  <2>1. /\ Len(st) \in Nat \ {0} /\ DOMAIN st = 1..Len(st) /\ DOMAIN st1 = DOMAIN st
        /\ \A k \in DOMAIN st : st[k].gal \in Galaxy /\ st[k].pos \in Nat
    BY <1>0, Frames
  <2>2. \A k \in DOMAIN st : st1[k].gal = st[k].gal
    BY <1>0, <2>1
  <2> QED
    BY <2>1, <2>2
<1>2. s \notin Galaxy /\ s \in Block
  BY BlockAssumption DEF Block
<1>3. s \notin D
  <2>1. 1 \in DOMAIN st /\ ~(st[1].pos < st[1].pos)
    BY <1>0, <1>1
  <2> QED
    BY <1>0, <2>1 DEF Visited
<1>4. \A h \in Galaxy : \A i \in DOMAIN t[h] :
        t[h][i] = s <=> h = st[1].gal /\ i = st[1].pos
  BY <1>0, <1>1, Lists
<1>5. ASSUME NEW k \in DOMAIN st1
      PROVE  /\ st1[k].gal \notin D \cup {s}
             /\ \A i \in DOMAIN t[st1[k].gal] :
                  t[st1[k].gal][i] \in D \cup {s} <=> i < st1[k].pos
  <2>1. st1[k].gal \notin D \cup {s}
    BY <1>0, <1>1, <1>2 DEF Visited
  <2>2. ASSUME NEW i \in DOMAIN t[st1[k].gal]
        PROVE  t[st1[k].gal][i] \in D \cup {s} <=> i < st1[k].pos
    <3>1. CASE k = 1
      <4>1. t[st[1].gal][i] \in D <=> i < st[1].pos
        BY <1>0, <1>1, <3>1 DEF Visited
      <4>2. i \in Nat
        BY <1>0, <1>1, <3>1, Lists
      <4>3. t[st[1].gal][i] = s <=> i = st[1].pos
        BY <1>0, <1>1, <1>4, <3>1
      <4>4. i < st1[k].pos <=> i < st[1].pos \/ i = st[1].pos
        BY <1>0, <1>1, <3>1, <4>2
      <4>5. st1[k].gal = st[1].gal
        BY <1>0, <1>1, <3>1
      <4> QED
        BY <4>1, <4>3, <4>4, <4>5
    <3>2. CASE k # 1
      <4>1. st1[k] = st[k] /\ st[k].gal # st[1].gal
        BY <1>0, <1>1, <3>2 DEF Nested
      <4>2. t[st[k].gal][i] # s
        BY <1>0, <1>1, <1>4, <4>1
      <4> QED
        BY <1>0, <1>1, <4>1, <4>2 DEF Visited
    <3> QED
      BY <3>1, <3>2
  <2> QED
    BY <2>1, <2>2
<1>6. ASSUME NEW h \in Galaxy, NEW i \in DOMAIN t[h],
             t[h][i] \in D \cup {s}
      PROVE  h \in D \cup {s} \/ \E k \in DOMAIN st1 : st1[k].gal = h
  <2>1. CASE t[h][i] = s
    BY <1>0, <1>1, <1>4, <2>1
  <2>2. CASE t[h][i] \in D
    <3>1. h \in D \/ \E k \in DOMAIN st : st[k].gal = h
      BY <2>2 DEF Visited
    <3> QED
      BY <3>1, <1>1
  <2> QED
    BY <1>6, <2>1, <2>2
<1>7. \A g \in (D \cup {s}) \cap Galaxy : \A i \in DOMAIN t[g] :
        t[g][i] \in D \cup {s}
  BY <1>2 DEF Visited
<1>8. D \cup {s} \in SUBSET Block
  BY <1>2 DEF Visited
<1> QED
  BY <1>3, <1>5, <1>6, <1>7, <1>8 DEF Visited

(* A galaxy is done when the call for it returns.                          *)
LEMMA ReturnedVisited ==
    ASSUME NEW t \in Trees, NEW st \in Stack, Nested(t, st), Len(st) > 1,
           st[1].pos > Len(t[st[1].gal]),
           NEW st1 \in Stack, Len(st1) = Len(st) - 1,
           \A k \in 2..Len(st1) : k + 1 \in DOMAIN st /\ st1[k] = st[k + 1],
           st1[1].gal = st[2].gal, st1[1].pos = st[2].pos + 1,
           NEW D, Visited(t, st, D)
    PROVE  Visited(t, st1, D \cup {st[1].gal})
<1> DEFINE g == st[1].gal
<1>1. /\ Len(st) \in Nat \ {0} /\ DOMAIN st = 1..Len(st) /\ DOMAIN st1 = 1..Len(st1)
      /\ 1 \in DOMAIN st /\ 2 \in DOMAIN st /\ g \in Galaxy /\ st[1].pos \in Nat
      /\ \A k \in DOMAIN st : st[k].gal \in Galaxy /\ st[k].pos \in Nat
  BY Frames
<1>2. /\ st[2].pos \in DOMAIN t[st[2].gal]
      /\ t[st[2].gal][st[2].pos] = g
  <2>1. 1 \in 1..(Len(st) - 1) /\ 1 + 1 = 2
    BY <1>1
  <2> QED
    BY <2>1 DEF Nested
<1>3. g \in Block
  BY <1>1, <1>2, Lists
<1>4. \A i \in DOMAIN t[g] : t[g][i] \in D
  <2> SUFFICES ASSUME NEW i \in DOMAIN t[g]
               PROVE  t[g][i] \in D
    OBVIOUS
  <2>1. i < st[1].pos
    BY <1>1, Lists
  <2> QED
    BY <1>1, <2>1 DEF Visited
<1>5. \A h \in Galaxy : \A i \in DOMAIN t[h] :
        t[h][i] = g <=> h = st[2].gal /\ i = st[2].pos
  <2>1. PICK f, n : f \in Galaxy /\ f = st[2].gal /\ n = st[2].pos
    BY <1>1
  <2>2. f \in Galaxy /\ n \in DOMAIN t[f] /\ t[f][n] = g
    BY <1>2, <2>1
  <2>3. ASSUME NEW h \in Galaxy, NEW i \in DOMAIN t[h], t[h][i] = g
        PROVE  h = f /\ i = n
    BY <2>2, <2>3, Lists
  <2> QED
    BY <2>1, <2>2, <2>3
<1>6. ASSUME NEW k \in DOMAIN st1
      PROVE  k + 1 \in DOMAIN st /\ st1[k].gal = st[k + 1].gal
  <2>1. k = 1 \/ k \in 2..Len(st1)
    BY <1>1
  <2> QED
    BY <1>1, <2>1
<1>7. ASSUME NEW k \in DOMAIN st1
      PROVE  /\ st1[k].gal \notin D \cup {g}
             /\ \A i \in DOMAIN t[st1[k].gal] :
                  t[st1[k].gal][i] \in D \cup {g} <=> i < st1[k].pos
  <2>1. st1[k].gal # g
    <3>1. k + 1 # 1
      BY <1>1
    <3> QED
      BY <1>1, <1>6, <3>1 DEF Nested
  <2>2. st1[k].gal \notin D
    BY <1>6 DEF Visited
  <2>3. ASSUME NEW i \in DOMAIN t[st1[k].gal]
        PROVE  t[st1[k].gal][i] \in D \cup {g} <=> i < st1[k].pos
    <3>1. CASE k = 1
      <4>1. t[st[2].gal][i] \in D <=> i < st[2].pos
        BY <1>1, <3>1 DEF Visited
      <4>2. i \in Nat
        BY <1>1, <3>1, Lists
      <4> QED
        BY <1>1, <1>5, <3>1, <4>1, <4>2
    <3>2. CASE k # 1
      <4>1. st1[k] = st[k + 1] /\ k + 1 \in DOMAIN st /\ k + 1 # 2
        BY <1>1, <3>2
      <4>2. st[k + 1].gal # st[2].gal
        BY <1>1, <4>1 DEF Nested
      <4>3. t[st[k + 1].gal][i] # g
        BY <1>1, <1>5, <4>1, <4>2
      <4> QED
        BY <4>1, <4>3 DEF Visited
    <3> QED
      BY <3>1, <3>2
  <2> QED
    BY <2>1, <2>2, <2>3
<1>8. ASSUME NEW h \in Galaxy, NEW i \in DOMAIN t[h],
             t[h][i] \in D \cup {g}
      PROVE  h \in D \cup {g} \/ \E k \in DOMAIN st1 : st1[k].gal = h
  <2>1. CASE t[h][i] = g
    <3>1. 1 \in DOMAIN st1 /\ st1[1].gal = h
      BY <1>1, <1>5, <2>1
    <3> QED
      BY <3>1
  <2>2. CASE t[h][i] \in D
    <3>1. h \in D \/ \E k \in DOMAIN st : st[k].gal = h
      BY <2>2 DEF Visited
    <3>2. ASSUME NEW k \in DOMAIN st, k # 1
          PROVE  \E m \in DOMAIN st1 : st1[m].gal = st[k].gal
      <4>1. k - 1 \in DOMAIN st1 /\ (k - 1) + 1 = k
        BY <1>1, <3>2
      <4> QED
        BY <4>1, <1>6
    <3> QED
      BY <3>1, <3>2
  <2> QED
    BY <1>8, <2>1, <2>2
<1>9. \A h \in (D \cup {g}) \cap Galaxy : \A i \in DOMAIN t[h] :
        t[h][i] \in D \cup {g}
  BY <1>4 DEF Visited
<1>10. D \cup {g} \in SUBSET Block
  BY <1>3 DEF Visited
<1> HIDE DEF g
<1>11. Visited(t, st1, D \cup {g})
  BY <1>7, <1>8, <1>9, <1>10 DEF Visited
<1> QED
  BY <1>11 DEF g

(* When the universe has been walked, so has the tree.                     *)
LEMMA AllVisited ==
    ASSUME children \in Trees, NEW st \in Stack, Nested(children, st), Len(st) = 1,
           st[1].pos > Len(children[st[1].gal]),
           NEW D, Visited(children, st, D), NEW b, InTree(b)
    PROVE  b \in D \cup {Universe}
<1>1. st[1].gal = Universe /\ 1 \in DOMAIN st /\ st[1].pos \in Nat
  BY Frames DEF Nested
<1>2. \A i \in DOMAIN children[Universe] : children[Universe][i] \in D
  <2> SUFFICES ASSUME NEW i \in DOMAIN children[Universe]
               PROVE  children[Universe][i] \in D
    OBVIOUS
  <2>1. i < st[1].pos
    BY <1>1, Lists, BlockAssumption
  <2> QED
    BY <1>1, <2>1 DEF Visited
<1>3. PICK S : S = D \cup {Universe}
  OBVIOUS
<1>4. ASSUME NEW g \in S \cap Galaxy, NEW c \in Range(children[g]) PROVE c \in S
  <2>1. PICK i \in DOMAIN children[g] : children[g][i] = c
    BY <1>4, Lists
  <2>2. children[g][i] \in D
    BY <1>2, <1>3, <1>4 DEF Visited
  <2> QED
    BY <1>3, <2>1, <2>2
<1>5. \A g \in S \cap Galaxy : Range(children[g]) \subseteq S
  BY <1>4
<1>6. b \in S
  BY <1>3, <1>5, TreeInside
<1> QED
  BY <1>3, <1>6

-----------------------------------------------------------------------------
(* What the walk has done when it is at the calls st and through with D.   *)

(* There is a block the innermost call is at, and which.                   *)
Stepping(st) == st[1].pos \in DOMAIN children[st[1].gal]
At(st) == children[st[1].gal][st[1].pos]

(* The galaxies it is in ...                                               *)
Open(st) == {st[k].gal : k \in DOMAIN st}

(* ... the blocks whose inputs it is through with ...                      *)
Seen(st, D) == D \cup (Open(st) \ {Universe})

(* ... and the links to inputs it is through with.                         *)
Into(S) == {l \in links : l[2] \in InPorts /\ l[2][1] \in S}
(* ... the links to them, and to the ports passed of the current one.      *)
Through(st, D) ==
    {l \in links : /\ l[2] \in InPorts
                   /\ \/ l[2][1] \in Seen(st, D)
                      \/ Stepping(st) /\ l[2][1] = At(st) /\ l[2][3] < st[1].port}

(* It has found nothing wrong with what it came by.                        *)
Sound(st, D) ==
    /\ \A g \in Galaxy : g \in D \cup Open(st) => children[g] # <<>>
    /\ \A b \in Seen(st, D) : Contiguous(b)
    /\ Stepping(st) /\ st[1].port > 0 => Contiguous(At(st))
    /\ \A l \in Through(st, D) : l[1][1] # Universe

(* The tables of buffers say what the links L do.                          *)
Wired(L, in, out) ==
    /\ \A s \in Star, n \in Number :
         in[s][n] # NULL <=> \E l \in L : InnerInput(l[2]) = <<s, "in", n>>
    /\ \A s \in Star, n \in Number :
         out[s][n] # NULL <=> \E l \in L : InnerOutput(l[1]) = <<s, "out", n>>
    /\ \A l \in L :
         /\ InnerInput(l[2])[1] \in Star /\ InnerOutput(l[1])[1] \in Star
         /\ in[InnerInput(l[2])[1]][InnerInput(l[2])[3]]
            = out[InnerOutput(l[1])[1]][InnerOutput(l[1])[3]]
    /\ \A s \in Star, n \in Number, t \in Star, m \in Number :
         in[s][n] # NULL /\ in[s][n] = in[t][m] => s = t /\ n = m

(* D are the blocks the walk is through with, when it is at the calls st.  *)
Walked(st, D, in, out) ==
    /\ Visited(children, st, D) /\ Sound(st, D)
    /\ Wired(Through(st, D) \cap Between, in, out)

-----------------------------------------------------------------------------
(* Inputs in use are before the first free one.                            *)
LEMMA PortsPassed ==
    ASSUME NEW b, Contiguous(b), NEW p \in 0..IO_BUFFERS, p \in Number => ~Input(b, p),
           NEW n \in Number, Input(b, n)
    PROVE  n < p
<1>1. PICK P : P = {m \in Number : Input(b, m)}
  OBVIOUS
<1>2. P \in SUBSET Number /\ n \in P /\ p \notin P
  BY <1>1
<1>3. \A m \in Number \ {0} : m \in P => m - 1 \in P
  <2> SUFFICES ASSUME NEW m \in Number \ {0}, m \in P PROVE m - 1 \in P
    OBVIOUS
  <2>1. Input(b, m - 1)
    BY <1>1 DEF Contiguous, Gapless
  <2>2. m - 1 \in Number
    BY BoundAssumption DEF Number
  <2> QED
    BY <1>1, <2>1, <2>2
<1>4. Cardinality(P) \in Nat /\ P = 0..(Cardinality(P) - 1)
  BY <1>2, <1>3, NoGap
<1>5. p \in Nat /\ n \in Nat
  BY BoundAssumption DEF Number
<1> QED
  BY <1>2, <1>4, <1>5

(* The current block is a block of the tree, and its inputs are those of   *)
(* a port in the model.                                                    *)
LEMMA CurrentInTree ==
    ASSUME children \in Trees, NEW st \in Stack, Stepping(st)
    PROVE  /\ st[1].gal \in Galaxy /\ At(st) \in Block /\ At(st) # Universe
           /\ At(st) \in Range(children[st[1].gal]) /\ children[st[1].gal] # <<>>
           /\ InTree(st[1].gal) /\ InTree(At(st))
<1>1. st[1].gal \in Galaxy
  BY Frames
<1>2. PICK g \in Galaxy : g = st[1].gal
  BY <1>1
<1>2a. PICK i \in DOMAIN children[g] : i = st[1].pos /\ At(st) = children[g][i]
  BY <1>2 DEF Stepping, At
<1>3. children[g][i] \in Block /\ children[g][i] \in Range(children[g]) /\ children[g] # <<>>
  BY Lists
<1>4. InTree(g) /\ InTree(children[g][i])
  BY <1>3, ListedInTree
<1>5. Universe \notin Block
  BY BlockAssumption DEF Block
<1> QED
  BY <1>1, <1>2, <1>2a, <1>3, <1>4, <1>5

(* The walk is not through with the current block.                         *)
LEMMA CurrentUnseen ==
    ASSUME children \in Trees, NEW st \in Stack, Nested(children, st), Stepping(st),
           NEW D, Visited(children, st, D)
    PROVE  At(st) \notin Seen(st, D)
<1>1. \A k \in DOMAIN st : st[k].gal # At(st)
  BY CurrentIsNew DEF Stepping, At
<1>2. At(st) \notin D
  <2>1. 1 \in DOMAIN st /\ st[1].pos \in Nat /\ ~(st[1].pos < st[1].pos)
    BY Frames
  <2> QED
    BY <2>1 DEF Visited, Stepping, At
<1> QED
  BY <1>1, <1>2 DEF Seen, Open

(* At the first port of a block, and past the last block, what the walk is *)
(* through with are the links into blocks.                                 *)
LEMMA ThroughAtFirst ==
    ASSUME NEW st \in Stack, NEW D, Stepping(st) => st[1].port = 0
    PROVE  Through(st, D) = Into(Seen(st, D))
<1>1. \A l \in links : l[2] \in InPorts => l[2][3] \in Number
  BY DEF InPorts, Ports
<1>2. \A l \in links : l[2] \in InPorts /\ Stepping(st) => ~(l[2][3] < st[1].port)
  <2> SUFFICES ASSUME NEW l \in links, l[2] \in InPorts, Stepping(st)
               PROVE  ~(l[2][3] < st[1].port)
    OBVIOUS
  <2>1. l[2][3] \in Nat /\ st[1].port = 0
    BY <1>1, BoundAssumption DEF Number
  <2> QED
    BY <2>1
<1> QED
  BY <1>2 DEF Through, Into

(* So are they when all ports of the current block are done.               *)
LEMMA ThroughAtLast ==
    ASSUME children \in Trees, LinksOK, NEW st \in Stack, NEW D, Stepping(st),
           Contiguous(At(st)), st[1].port \in Number => ~Input(At(st), st[1].port)
    PROVE  Through(st, D) = Into(Seen(st, D) \cup {At(st)})
<1>1. ASSUME NEW l \in links, l[2] \in InPorts, l[2][1] = At(st)
      PROVE  l[2][3] < st[1].port
  <2>1. st[1].port \in 0..IO_BUFFERS
    BY Frames
  <2>2. l[2] = <<At(st), "in", l[2][3]>> /\ l[2][3] \in Number
    BY <1>1 DEF InPorts, Ports
  <2>3. Input(At(st), l[2][3])
    BY <2>2 DEF Input
  <2> QED
    BY <2>1, <2>2, <2>3, PortsPassed
<1> QED
  BY <1>1 DEF Through, Into

-----------------------------------------------------------------------------
(* The walk at the next port: one link more.                               *)
LEMMA PortWalked ==
    ASSUME children \in Trees, LinksOK, NEW st \in Stack, Nested(children, st), Stepping(st),
           NEW D, Visited(children, st, D), Sound(st, D),
           st[1].port \in Number, Contiguous(At(st)),
           NEW l \in links, l[2] = <<At(st), "in", st[1].port>>, l[1][1] # Universe,
           NEW st1, Replaced(st, [st[1] EXCEPT !.port = @ + 1], st1)
    PROVE  /\ st1 \in Stack /\ Nested(children, st1) /\ st1[1].gal = st[1].gal
           /\ st1[1].pos = st[1].pos
           /\ Visited(children, st1, D) /\ Sound(st1, D)
           /\ l \notin Through(st, D) /\ Through(st1, D) = Through(st, D) \cup {l}
<1>0. /\ st1 \in Stack /\ Len(st1) = Len(st)
      /\ \A k \in DOMAIN st : k # 1 => st1[k] = st[k]
      /\ st1[1] = [st[1] EXCEPT !.port = @ + 1]
  BY DEF Replaced
<1>1. /\ Len(st) \in Nat \ {0} /\ DOMAIN st = 1..Len(st) /\ DOMAIN st1 = 1..Len(st1)
      /\ st[1] \in Frame
  BY <1>0, Frames
<1>2. st1[1].gal = st[1].gal /\ st1[1].pos = st[1].pos /\ st1[1].port = st[1].port + 1
  BY <1>0, <1>1, NextPortFrame
<1>3. \A k \in DOMAIN st : st1[k].gal = st[k].gal /\ st1[k].pos = st[k].pos
  BY <1>0, <1>2
<1>4. Nested(children, st1)
  BY <1>0, <1>2, MovedNested
<1>5. Visited(children, st1, D)
  BY <1>0, <1>1, <1>3 DEF Visited
<1>6. Open(st1) = Open(st) /\ Seen(st1, D) = Seen(st, D)
  <2>1. Open(st1) = Open(st)
    BY <1>0, <1>1, <1>3 DEF Open
  <2> QED
    BY <2>1 DEF Seen
<1>7. Stepping(st1) /\ At(st1) = At(st)
  BY <1>2 DEF Stepping, At
<1>8. At(st) \in All /\ At(st) \notin Seen(st, D)
  BY CurrentInTree, CurrentUnseen DEF All, Block
<1>9. l[2] \in InPorts /\ l[2][1] = At(st) /\ l[2][3] = st[1].port /\ st[1].port \in Nat
  <2>1. PICK b \in All, n \in Number : b = At(st) /\ n = st[1].port
    BY <1>8
  <2>2. <<b, "in", n>> \in InPorts
    BY PortIs
  <2>3. l[2] = <<b, "in", n>> /\ n \in Nat
    BY <2>1, BoundAssumption DEF Number
  <2> QED
    BY <2>1, <2>2, <2>3
<1>10. l \notin Through(st, D)
  BY <1>8, <1>9 DEF Through
<1>11. ASSUME NEW k \in links, k[2] \in InPorts, k[2][1] = At(st)
       PROVE  k[2][3] < st1[1].port <=> k[2][3] < st[1].port \/ k = l
  <2>1. k[2] = <<k[2][1], "in", k[2][3]>> /\ k[2][3] \in Number
    BY <1>11 DEF InPorts, Ports
  <2>2. k[2][3] \in Nat
    BY <2>1, BoundAssumption DEF Number
  <2>3. k[2][3] = st[1].port <=> k[2] = l[2]
    BY <1>9, <1>11, <2>1
  <2>4. k[2] = l[2] <=> k = l
    BY DEF LinksOK
  <2> QED
    BY <1>2, <1>9, <2>2, <2>3, <2>4
<1>12. Through(st1, D) = Through(st, D) \cup {l}
  <2>1. \A k \in links : k = l => k[2] \in InPorts /\ k[2][1] = At(st)
    BY <1>9
  <2> QED
    BY <1>6, <1>7, <1>11, <2>1 DEF Through
<1>13. Sound(st1, D)
  <2>1. \A g \in Galaxy : g \in D \cup Open(st1) => children[g] # <<>>
    BY <1>6 DEF Sound
  <2>2. \A b \in Seen(st1, D) : Contiguous(b)
    BY <1>6 DEF Sound
  <2>3. \A k \in Through(st1, D) : k[1][1] # Universe
    BY <1>12 DEF Sound
  <2> QED
    BY <1>7, <2>1, <2>2, <2>3 DEF Sound
<1> QED
  BY <1>0, <1>2, <1>4, <1>5, <1>10, <1>12, <1>13

(* The walk enters the galaxy it is at.                                    *)
LEMMA EnteredWalked ==
    ASSUME children \in Trees, LinksOK, NEW st \in Stack, Nested(children, st), Stepping(st),
           NEW D, Visited(children, st, D), Sound(st, D), Contiguous(At(st)),
           st[1].port \in Number => ~Input(At(st), st[1].port),
           At(st) \in Galaxy, children[At(st)] # <<>>,
           NEW st1, st1 = <<Called(At(st))>> \o st
    PROVE  /\ st1 \in Stack /\ Nested(children, st1) /\ st1[1].pos = 1 /\ st1[1].gal = At(st)
           /\ Visited(children, st1, D) /\ Sound(st1, D)
           /\ Through(st1, D) = Through(st, D)
<1>1. PICK g \in Galaxy : g = At(st)
  OBVIOUS
<1>2. /\ st1 \in Stack /\ Len(st1) = Len(st) + 1 /\ st1[1] = Called(g)
      /\ \A k \in 2..Len(st1) : k - 1 \in DOMAIN st /\ st1[k] = st[k - 1]
  BY <1>1, EnteredFrames
<1>3. st1[1].gal = g /\ st1[1].pos = 1 /\ st1[1].port = 0
  BY <1>2, CalledFrame
<1>4. st[1].pos \in DOMAIN children[st[1].gal] /\ g = children[st[1].gal][st[1].pos]
  BY <1>1 DEF Stepping, At
<1>5. Nested(children, st1)
  BY <1>2, <1>3, <1>4, EnteredNested
<1>6. Visited(children, st1, D)
  BY <1>2, <1>3, <1>4, EnteredVisited
<1>7. Len(st) \in Nat \ {0} /\ DOMAIN st = 1..Len(st) /\ DOMAIN st1 = 1..Len(st1)
  BY <1>2, Frames
<1>8. Open(st1) = Open(st) \cup {g}
  <2>1. ASSUME NEW k \in DOMAIN st1 PROVE st1[k].gal \in Open(st) \cup {g}
    <3>1. k = 1 \/ k \in 2..Len(st1)
      BY <1>2, <1>7
    <3> QED
      BY <1>2, <1>3, <3>1 DEF Open
  <2>2. ASSUME NEW k \in DOMAIN st PROVE st[k].gal \in Open(st1)
    <3>1. k + 1 \in 2..Len(st1) /\ (k + 1) - 1 = k /\ k + 1 \in DOMAIN st1
      BY <1>2, <1>7
    <3>2. st1[k + 1] = st[k]
      BY <1>2, <3>1
    <3>3. PICK j \in DOMAIN st1 : st1[j] = st[k]
      BY <3>1, <3>2
    <3> QED
      BY <3>3 DEF Open
  <2>3. g \in Open(st1)
    <3>1. 1 \in DOMAIN st1
      BY <1>2, <1>7
    <3> QED
      BY <1>3, <3>1 DEF Open
  <2>4. Open(st1) \subseteq Open(st) \cup {g}
    BY <2>1 DEF Open
  <2>5. Open(st) \subseteq Open(st1)
    BY <2>2 DEF Open
  <2> QED
    BY <2>3, <2>4, <2>5
<1>9. g # Universe
  BY <1>1, CurrentInTree
<1>10. Seen(st1, D) = Seen(st, D) \cup {At(st)}
  BY <1>1, <1>8, <1>9 DEF Seen
<1>11. Through(st1, D) = Through(st, D)
  <2>1. Through(st1, D) = Into(Seen(st1, D))
    BY <1>2, <1>3, ThroughAtFirst
  <2>2. Through(st, D) = Into(Seen(st, D) \cup {At(st)})
    BY ThroughAtLast
  <2> QED
    BY <1>10, <2>1, <2>2
<1>12. Sound(st1, D)
  <2>1. \A h \in Galaxy : h \in D \cup Open(st1) => children[h] # <<>>
    BY <1>1, <1>8 DEF Sound
  <2>2. \A b \in Seen(st1, D) : Contiguous(b)
    BY <1>10 DEF Sound
  <2>3. \A k \in Through(st1, D) : k[1][1] # Universe
    BY <1>11 DEF Sound
  <2>4. ~(st1[1].port > 0)
    BY <1>3
  <2> QED
    BY <2>1, <2>2, <2>3, <2>4 DEF Sound
<1> QED
  BY <1>1, <1>2, <1>3, <1>5, <1>6, <1>11, <1>12

(* The walk passes the star it is at.                                      *)
LEMMA PassedWalked ==
    ASSUME children \in Trees, LinksOK, NEW st \in Stack, Nested(children, st), Stepping(st),
           NEW D, Visited(children, st, D), Sound(st, D), Contiguous(At(st)),
           st[1].port \in Number => ~Input(At(st), st[1].port), At(st) \in Star,
           NEW st1, Replaced(st, NextBlock(st[1]), st1)
    PROVE  /\ st1 \in Stack /\ Nested(children, st1)
           /\ st1[1].gal = st[1].gal /\ st1[1].pos = st[1].pos + 1
           /\ Visited(children, st1, D \cup {At(st)}) /\ Sound(st1, D \cup {At(st)})
           /\ Through(st1, D \cup {At(st)}) = Through(st, D)
<1>1. PICK s \in Star : s = At(st)
  OBVIOUS
<1>2. /\ st1 \in Stack /\ Len(st1) = Len(st)
      /\ \A k \in DOMAIN st : k # 1 => st1[k] = st[k]
      /\ st1[1] = NextBlock(st[1])
  BY DEF Replaced
<1>3. st1[1].gal = st[1].gal /\ st1[1].pos = st[1].pos + 1 /\ st1[1].port = 0
  <2>1. st[1] \in Frame
    BY Frames
  <2> QED
    BY <1>2, <2>1, NextBlockFrame
<1>4. Past(children, st, s, st1)
  BY <1>1, <1>2, <1>3 DEF Past, Stepping, At
<1>5. PICK E : E = D \cup {s}
  OBVIOUS
<1>6. Visited(children, st1, E)
  BY <1>4, <1>5, PassedVisited
<1>7. Nested(children, st1)
  BY <1>2, <1>3, MovedNested
<1>8. Open(st1) = Open(st)
  <2>1. DOMAIN st1 = DOMAIN st
    BY <1>2, Frames
  <2>2. \A k \in DOMAIN st : st1[k].gal = st[k].gal
    BY <1>2, <1>3
  <2> QED
    BY <2>1, <2>2 DEF Open
<1>9. Seen(st1, E) = Seen(st, D) \cup {At(st)}
  BY <1>1, <1>5, <1>8 DEF Seen
<1>10. Through(st1, E) = Through(st, D)
  <2>1. Through(st1, E) = Into(Seen(st1, E))
    BY <1>2, <1>3, ThroughAtFirst
  <2>2. Through(st, D) = Into(Seen(st, D) \cup {At(st)})
    BY ThroughAtLast
  <2> QED
    BY <1>9, <2>1, <2>2
<1>11. Sound(st1, E)
  <2>0. s \notin Galaxy
    BY BlockAssumption
  <2>1. \A h \in Galaxy : h \in E \cup Open(st1) => children[h] # <<>>
    BY <1>5, <1>8, <2>0 DEF Sound
  <2>2. \A b \in Seen(st1, E) : Contiguous(b)
    BY <1>9 DEF Sound
  <2>3. \A k \in Through(st1, E) : k[1][1] # Universe
    BY <1>10 DEF Sound
  <2>4. ~(st1[1].port > 0)
    BY <1>3
  <2> QED
    BY <2>1, <2>2, <2>3, <2>4 DEF Sound
<1> QED
  BY <1>1, <1>2, <1>3, <1>5, <1>6, <1>7, <1>10, <1>11

(* The walk leaves a galaxy.                                               *)
LEMMA ReturnedWalked ==
    ASSUME children \in Trees, NEW st \in Stack, Nested(children, st), Len(st) # 1,
           st[1].pos > Len(children[st[1].gal]),
           NEW D, Visited(children, st, D), Sound(st, D),
           NEW st1, st1 = <<NextBlock(st[2])>> \o Tail(Tail(st))
    PROVE  /\ st1 \in Stack /\ Nested(children, st1)
           /\ st1[1].pos <= Len(children[st1[1].gal]) + 1
           /\ Visited(children, st1, D \cup {st[1].gal}) /\ Sound(st1, D \cup {st[1].gal})
           /\ Through(st1, D \cup {st[1].gal}) = Through(st, D)
<1>1. /\ Len(st) > 1 /\ 2 \in DOMAIN st
      /\ st1 \in Stack /\ Len(st1) = Len(st) - 1 /\ st1[1] = NextBlock(st[2])
      /\ \A k \in 2..Len(st1) : k + 1 \in DOMAIN st /\ st1[k] = st[k + 1]
  BY ReturnedFrames
<1>2. /\ Len(st) \in Nat \ {0} /\ DOMAIN st = 1..Len(st) /\ DOMAIN st1 = 1..Len(st1)
      /\ st[2] \in Frame /\ st[1].gal \in Galaxy /\ st[2].gal \in Galaxy
      /\ st[1].pos \in Nat /\ st[2].pos \in Nat
  BY <1>1, Frames
<1>3. st1[1].gal = st[2].gal /\ st1[1].pos = st[2].pos + 1 /\ st1[1].port = 0
  BY <1>1, <1>2, NextBlockFrame
<1>4. PICK g, E : g = st[1].gal /\ E = D \cup {g}
  OBVIOUS
<1>5. Nested(children, st1)
  BY <1>1, <1>3, ReturnedNested
<1>6. Visited(children, st1, E)
  BY <1>1, <1>3, <1>4, ReturnedVisited
<1>7. Open(st) = Open(st1) \cup {g}
  <2>1. ASSUME NEW k \in DOMAIN st PROVE st[k].gal \in Open(st1) \cup {g}
    <3>1. CASE k = 1
      BY <1>4, <3>1
    <3>2. CASE k = 2
      <4>1. 1 \in DOMAIN st1 /\ st1[1].gal = st[k].gal
        BY <1>1, <1>2, <1>3, <3>2
      <4> QED
        BY <4>1 DEF Open
    <3>3. CASE k # 1 /\ k # 2
      <4>1. k - 1 \in 2..Len(st1) /\ (k - 1) + 1 = k /\ k - 1 \in DOMAIN st1
        <5>1. PICK n, m : n = Len(st) /\ m = Len(st1)
          OBVIOUS
        <5>2. n \in Nat /\ m = n - 1 /\ k \in 1..n /\ k # 1 /\ k # 2
          BY <1>1, <1>2, <3>3, <5>1
        <5>3. k - 1 \in 2..m /\ (k - 1) + 1 = k /\ k - 1 \in 1..m
          BY <5>2
        <5> QED
          BY <1>2, <5>1, <5>3
      <4>2. PICK j \in DOMAIN st1 : st1[j] = st[k]
        BY <1>1, <4>1
      <4> QED
        BY <4>2 DEF Open
    <3> QED
      BY <3>1, <3>2, <3>3
  <2>2. ASSUME NEW k \in DOMAIN st1 PROVE st1[k].gal \in Open(st)
    <3>1. k = 1 \/ k \in 2..Len(st1)
      BY <1>2
    <3>2. PICK j \in DOMAIN st : st1[k].gal = st[j].gal
      BY <1>1, <1>2, <1>3, <3>1
    <3> QED
      BY <3>2 DEF Open
  <2>3. g \in Open(st)
    <3>1. 1 \in DOMAIN st
      BY <1>2
    <3> QED
      BY <1>4, <3>1 DEF Open
  <2>4. Open(st) \subseteq Open(st1) \cup {g}
    BY <2>1 DEF Open
  <2>5. Open(st1) \subseteq Open(st)
    BY <2>2 DEF Open
  <2> QED
    BY <2>3, <2>4, <2>5
<1>8. g # Universe /\ st[2].pos \in DOMAIN children[st[2].gal]
  <2>1. /\ st[1 + 1].pos \in DOMAIN children[st[1 + 1].gal]
        /\ children[st[1 + 1].gal][st[1 + 1].pos] = st[1].gal
    <3>1. 1 \in 1..(Len(st) - 1)
      BY <1>1, <1>2
    <3> QED
      BY <3>1 DEF Nested
  <2>2. st[2].pos \in DOMAIN children[st[2].gal] /\ children[st[2].gal][st[2].pos] = g
    BY <1>4, <2>1
  <2>3. g \in Block
    BY <1>2, <2>2, Lists
  <2> QED
    BY <2>2, <2>3, BlockAssumption DEF Block
<1>9. Seen(st1, E) = Seen(st, D)
  BY <1>4, <1>7, <1>8 DEF Seen
<1>10. Through(st1, E) = Through(st, D)
  <2>1. Through(st1, E) = Into(Seen(st1, E))
    BY <1>1, <1>3, ThroughAtFirst
  <2>2. ~Stepping(st)
    BY <1>2, Lists DEF Stepping
  <2>3. Through(st, D) = Into(Seen(st, D))
    BY <2>2, ThroughAtFirst
  <2> QED
    BY <1>9, <2>1, <2>3
<1>11. Sound(st1, E)
  <2>1. \A h \in Galaxy : h \in E \cup Open(st1) => children[h] # <<>>
    BY <1>4, <1>7 DEF Sound
  <2>2. \A b \in Seen(st1, E) : Contiguous(b)
    BY <1>9 DEF Sound
  <2>3. \A k \in Through(st1, E) : k[1][1] # Universe
    BY <1>10 DEF Sound
  <2>4. ~(st1[1].port > 0)
    BY <1>3
  <2> QED
    BY <2>1, <2>2, <2>3, <2>4 DEF Sound
<1>12. st1[1].pos <= Len(children[st1[1].gal]) + 1
  <2>1. st[2].pos \in 1..Len(children[st[2].gal]) /\ Len(children[st[2].gal]) \in Nat
    BY <1>2, <1>8, Lists
  <2> QED
    BY <1>3, <2>1
<1> QED
  BY <1>1, <1>4, <1>5, <1>6, <1>10, <1>11, <1>12

-----------------------------------------------------------------------------
(* The tables of buffers. *)

(* Tables of the buffers 1..c.                                             *)
Tables(c) == [Star -> [Number -> 0..c]]

(* The counts are the numbers of places.                                   *)
Counted(table, count) ==
    /\ count \in [Star -> Nat]
    /\ \A s \in Star : count[s] = Cardinality(Places(table, s))

(* A star has at most IO_BUFFERS places.                                   *)
LEMMA PlacesFinite ==
    ASSUME NEW table, NEW s
    PROVE  /\ IsFiniteSet(Places(table, s)) /\ Cardinality(Places(table, s)) \in Nat
           /\ Cardinality(Places(table, s)) <= IO_BUFFERS
<1>0. IO_BUFFERS \in Nat \ {0} /\ Number = 0..(IO_BUFFERS - 1)
  BY BoundAssumption DEF Number
<1>1. IsFiniteSet(Number) /\ Cardinality(Number) = IO_BUFFERS
  <2>1. 0 \in Int /\ IO_BUFFERS - 1 \in Int
    BY <1>0
  <2>2. /\ IsFiniteSet(0..(IO_BUFFERS - 1))
        /\ Cardinality(0..(IO_BUFFERS - 1))
           = IF 0 > IO_BUFFERS - 1 THEN 0 ELSE (IO_BUFFERS - 1) - 0 + 1
    BY <2>1, FS_Interval
  <2> QED
    BY <1>0, <2>2
<1>2. Places(table, s) \subseteq Number
  BY DEF Places
<1>3. IsFiniteSet(Places(table, s)) /\ Cardinality(Places(table, s)) <= Cardinality(Number)
  BY <1>1, <1>2, FS_Subset
<1> QED
  BY <1>1, <1>3, FS_CardinalityType

(* A buffer in a place that had none.                                      *)
With(table, s, n, c) == [table EXCEPT ![s][n] = c]

(* What is in the table then.                                              *)
LEMMA WithIs ==
    ASSUME NEW c \in Nat, NEW table \in Tables(c), NEW s \in Star, NEW n \in Number
    PROVE  /\ With(table, s, n, c + 1) \in Tables(c + 1)
           /\ \A t \in Star, m \in Number :
                With(table, s, n, c + 1)[t][m] = IF t = s /\ m = n THEN c + 1 ELSE table[t][m]
           /\ \A t \in Star, m \in Number : table[t][m] \in Nat /\ table[t][m] # c + 1
<1>1. PICK new : new = With(table, s, n, c + 1)
  OBVIOUS
<1>2. DOMAIN table = Star /\ \A t \in Star : table[t] \in [Number -> 0..c]
  BY DEF Tables
<1>3. new = [t \in Star |-> IF t = s THEN [table[s] EXCEPT ![n] = c + 1] ELSE table[t]]
  BY <1>1, <1>2 DEF With
<1>4. PICK row : row = [table[s] EXCEPT ![n] = c + 1]
  OBVIOUS
<1>5. row = [m \in Number |-> IF m = n THEN c + 1 ELSE table[s][m]]
  BY <1>2, <1>4
<1>6. \A t \in Star, m \in Number : table[t][m] \in 0..c
  BY <1>2
<1>7. \A t \in Star, m \in Number : new[t][m] = IF t = s /\ m = n THEN c + 1 ELSE table[t][m]
  BY <1>3, <1>4, <1>5
<1>8. row \in [Number -> 0..(c + 1)]
  <2>1. \A m \in Number : row[m] \in 0..(c + 1)
    BY <1>5, <1>6
  <2> QED
    BY <1>5, <2>1
<1>9. \A t \in Star : table[t] \in [Number -> 0..(c + 1)]
  <2>1. \A t \in Star, m \in Number : table[t][m] \in 0..(c + 1)
    BY <1>6
  <2> QED
    BY <1>2, <2>1
<1>10. new \in Tables(c + 1)
  BY <1>3, <1>4, <1>8, <1>9 DEF Tables
<1>11. \A t \in Star, m \in Number : table[t][m] \in Nat /\ table[t][m] # c + 1
  BY <1>6
<1> QED
  BY <1>1, <1>7, <1>10, <1>11

(* A place more, one counted more.                                         *)
LEMMA WithCounted ==
    ASSUME NEW c \in Nat, NEW table \in Tables(c), NEW s \in Star, NEW n \in Number,
           table[s][n] = NULL, NEW count, Counted(table, count)
    PROVE  Counted(With(table, s, n, c + 1), [count EXCEPT ![s] = @ + 1])
<1>1. PICK new : new = With(table, s, n, c + 1)
  OBVIOUS
<1>2. \A t \in Star, m \in Number : new[t][m] = IF t = s /\ m = n THEN c + 1 ELSE table[t][m]
  BY <1>1, WithIs
<1>3. Places(new, s) = Places(table, s) \cup {n} /\ n \notin Places(table, s)
  <2>1. c + 1 # NULL
    BY DEF NULL
  <2> QED
    BY <1>2, <2>1 DEF Places
<1>4. Cardinality(Places(new, s)) = Cardinality(Places(table, s)) + 1
  BY <1>3, PlacesFinite, FS_AddElement
<1>5. \A t \in Star : t # s => Places(new, t) = Places(table, t)
  BY <1>2 DEF Places
<1>6. PICK more : more = [count EXCEPT ![s] = @ + 1]
  OBVIOUS
<1>7. /\ more \in [Star -> Nat]
      /\ \A t \in Star : more[t] = IF t = s THEN count[s] + 1 ELSE count[t]
  BY <1>6 DEF Counted
<1>8. Counted(new, more)
  BY <1>4, <1>5, <1>7 DEF Counted
<1> QED
  BY <1>1, <1>6, <1>8

(* A link more, and a buffer for it.                                       *)
LEMMA WiredMore ==
    ASSUME children \in Trees, LinksOK, NEW c \in Nat,
           NEW in \in Tables(c), NEW out \in Tables(c),
           NEW L \in SUBSET Between, Wired(L, in, out), NEW l \in Between, l \notin L,
           NEW i, i = InnerInput(l[2]), i[1] \in Star,
           NEW o, o = InnerOutput(l[1]), o[1] \in Star
    PROVE  /\ i[3] \in Number /\ o[3] \in Number
           /\ in[i[1]][i[3]] = NULL /\ out[o[1]][o[3]] = NULL
           /\ Wired(L \cup {l}, With(in, i[1], i[3], c + 1), With(out, o[1], o[3], c + 1))
<1>1. i \in InPorts /\ o \in OutPorts
  BY BetweenEnds
<1>2. /\ i = <<i[1], "in", i[3]>> /\ i[3] \in Number
      /\ o = <<o[1], "out", o[3]>> /\ o[3] \in Number
  BY <1>1 DEF InPorts, OutPorts, Ports
<1>3. \A k \in L : InnerInput(k[2]) # i /\ InnerOutput(k[1]) # o
  BY InputOnce, OutputOnce
<1>4. in[i[1]][i[3]] = NULL /\ out[o[1]][o[3]] = NULL
  <2>1. ~(\E k \in L : InnerInput(k[2]) = <<i[1], "in", i[3]>>)
    BY <1>2, <1>3
  <2>2. ~(\E k \in L : InnerOutput(k[1]) = <<o[1], "out", o[3]>>)
    BY <1>2, <1>3
  <2> QED
    BY <1>2, <2>1, <2>2 DEF Wired
<1>5. PICK in1, out1 : in1 = With(in, i[1], i[3], c + 1) /\ out1 = With(out, o[1], o[3], c + 1)
  OBVIOUS
<1>6. /\ \A t \in Star, m \in Number :
           in1[t][m] = IF t = i[1] /\ m = i[3] THEN c + 1 ELSE in[t][m]
      /\ \A t \in Star, m \in Number : in[t][m] \in Nat /\ in[t][m] # c + 1
  BY <1>2, <1>5, WithIs
<1>7. /\ \A t \in Star, m \in Number :
           out1[t][m] = IF t = o[1] /\ m = o[3] THEN c + 1 ELSE out[t][m]
      /\ \A t \in Star, m \in Number : out[t][m] \in Nat /\ out[t][m] # c + 1
  BY <1>2, <1>5, WithIs
<1>8. c + 1 # NULL
  BY DEF NULL
<1>9. ASSUME NEW s \in Star, NEW n \in Number
      PROVE  in1[s][n] # NULL <=> \E k \in L \cup {l} : InnerInput(k[2]) = <<s, "in", n>>
  <2>1. s = i[1] /\ n = i[3] <=> i = <<s, "in", n>>
    BY <1>2
  <2>2. in[s][n] # NULL <=> \E k \in L : InnerInput(k[2]) = <<s, "in", n>>
    BY DEF Wired
  <2> QED
    BY <1>6, <1>8, <2>1, <2>2
<1>10. ASSUME NEW s \in Star, NEW n \in Number
       PROVE  out1[s][n] # NULL <=> \E k \in L \cup {l} : InnerOutput(k[1]) = <<s, "out", n>>
  <2>1. s = o[1] /\ n = o[3] <=> o = <<s, "out", n>>
    BY <1>2
  <2>2. out[s][n] # NULL <=> \E k \in L : InnerOutput(k[1]) = <<s, "out", n>>
    BY DEF Wired
  <2> QED
    BY <1>7, <1>8, <2>1, <2>2
<1>11. ASSUME NEW k \in L \cup {l}
       PROVE  /\ InnerInput(k[2])[1] \in Star /\ InnerOutput(k[1])[1] \in Star
              /\ in1[InnerInput(k[2])[1]][InnerInput(k[2])[3]]
                 = out1[InnerOutput(k[1])[1]][InnerOutput(k[1])[3]]
  <2>1. PICK x \in InPorts, y \in OutPorts : x = InnerInput(k[2]) /\ y = InnerOutput(k[1])
    BY BetweenEnds
  <2>2. /\ x = <<x[1], "in", x[3]>> /\ x[3] \in Number
        /\ y = <<y[1], "out", y[3]>> /\ y[3] \in Number
    BY DEF InPorts, OutPorts, Ports
  <2>3. CASE k = l
    <3>1. x = i /\ y = o
      BY <2>1, <2>3
    <3>2. in1[i[1]][i[3]] = c + 1 /\ out1[o[1]][o[3]] = c + 1
      BY <1>2, <1>6, <1>7
    <3> QED
      BY <2>1, <3>1, <3>2
  <2>4. CASE k \in L
    <3>1. x[1] \in Star /\ y[1] \in Star /\ in[x[1]][x[3]] = out[y[1]][y[3]]
      BY <2>1, <2>4 DEF Wired
    <3>2. x # i /\ y # o
      BY <1>3, <2>1, <2>4
    <3>3. ~(x[1] = i[1] /\ x[3] = i[3]) /\ ~(y[1] = o[1] /\ y[3] = o[3])
      BY <1>2, <2>2, <3>2
    <3>4. in1[x[1]][x[3]] = in[x[1]][x[3]] /\ out1[y[1]][y[3]] = out[y[1]][y[3]]
      BY <1>6, <1>7, <2>2, <3>1, <3>3
    <3> QED
      BY <2>1, <3>1, <3>4
  <2> QED
    BY <2>3, <2>4
<1>12. ASSUME NEW s \in Star, NEW n \in Number, NEW t \in Star, NEW m \in Number,
              in1[s][n] # NULL, in1[s][n] = in1[t][m]
       PROVE  s = t /\ n = m
  <2>1. in[s][n] # NULL /\ in[s][n] = in[t][m] => s = t /\ n = m
    BY DEF Wired
  <2> QED
    BY <1>6, <1>12, <2>1
<1>13. Wired(L \cup {l}, in1, out1)
  BY <1>9, <1>10, <1>11, <1>12 DEF Wired
<1> QED
  BY <1>2, <1>4, <1>5, <1>13

-----------------------------------------------------------------------------
(* The invariant of the proof. *)

(* The variables that are not buffers have their types.                    *)
Typed ==
    /\ children \in Trees /\ LinksOK
    /\ err \in {0, 41, 42, 43, 44, 45, 46} /\ done \in BOOLEAN /\ runs \in 0..MaxRuns

(* The tables hold buffers there are, and the counts count them.           *)
Stored ==
    /\ created \in Nat /\ inBuffer \in Tables(created) /\ outBuffer \in Tables(created)
    /\ Counted(inBuffer, numberIn) /\ Counted(outBuffer, numberOut)

(* A walk is at a frame of the tree, and wired what it is through with.    *)
Walking ==
    Running =>
      /\ ~done /\ ~UniverseTerminals
      /\ stack \in Stack /\ Nested(children, stack)
      /\ stack[1].pos <= Len(children[stack[1].gal]) + 1
      /\ \E D : Walked(stack, D, inBuffer, outBuffer)

(* An accepted topology is complete and wired, a refused one incomplete.   *)
Finished ==
    done => /\ err = 0 => Complete /\ Wired(Between, inBuffer, outBuffer)
            /\ err # 0 => ~Complete

(* The inductive invariant.                                                *)
IInv == Typed /\ Stored /\ Walking /\ Finished

(* What depends on the hierarchy and the links alone stays with them.      *)
LEMMA SameComplete ==
    ASSUME UNCHANGED <<children, links>>
    PROVE  Complete' <=> Complete
  BY DEF Complete, InTree, EndsInStars, Contiguous, Leads, Gapless, Input, Output, Between

(* The links stay as well formed as they are.                              *)
LEMMA SameLinks ==
    ASSUME UNCHANGED <<children, links>>
    PROVE  (LinksOK' <=> LinksOK) /\ (UniverseTerminals' <=> UniverseTerminals)
<1>1. LinksOK' <=> LinksOK
  BY DEF LinksOK, Inside
<1>2. UniverseTerminals' <=> UniverseTerminals
  BY DEF UniverseTerminals, Input, Output
<1> QED
  BY <1>1, <1>2

(* The innermost ports stay.                                               *)
LEMMA SameInner ==
    ASSUME UNCHANGED <<children, links>>, NEW p
    PROVE  InnerInput(p)' = InnerInput(p) /\ InnerOutput(p)' = InnerOutput(p)
<1>1. InnerInput(p)' = InnerInput(p)
  BY DEF InnerInput, AllTheWay, FindInput
<1>2. InnerOutput(p)' = InnerOutput(p)
  BY DEF InnerOutput, AllTheWay, FindOutput
<1> QED
  BY <1>1, <1>2

(* What tables say of links stays.                                         *)
LEMMA SameWired ==
    ASSUME UNCHANGED <<children, links>>, NEW L, NEW in, NEW out
    PROVE  Wired(L, in, out)' <=> Wired(L, in, out)
  BY SameInner DEF Wired

(* The same, of all links between blocks.                                  *)
LEMMA SameBetween ==
    ASSUME UNCHANGED <<children, links>>
    PROVE  Wired(Between, inBuffer, outBuffer)' <=> Wired(Between, inBuffer', outBuffer')
<1>1. PICK L, in, out : L = Between /\ in = inBuffer' /\ out = outBuffer'
  OBVIOUS
<1>2. Between' = L
  BY <1>1 DEF Between
<1>3. Wired(Between, inBuffer, outBuffer)' <=> Wired(L, in, out)'
  BY <1>1, <1>2 DEF Wired
<1>4. Wired(L, in, out)' <=> Wired(L, in, out)
  BY SameWired
<1> QED
  BY <1>1, <1>3, <1>4

(* What the walk has done stays.                                           *)
LEMMA SameWalked ==
    ASSUME UNCHANGED <<children, links>>, NEW D
    PROVE  Walked(stack, D, inBuffer, outBuffer)' <=> Walked(stack', D, inBuffer', outBuffer')
<1>1. PICK st, in, out : st = stack' /\ in = inBuffer' /\ out = outBuffer'
  OBVIOUS
<1>2. Walked(stack, D, inBuffer, outBuffer)' <=> Walked(st, D, in, out)'
  BY <1>1 DEF Walked, Wired, Through, Stepping, At, Sound, Visited, Seen, Open
<1>3. PICK L : L = Through(st, D) \cap Between
  OBVIOUS
<1>4. (Through(st, D) \cap Between)' = L
  BY <1>3 DEF Through, Stepping, At, Between
<1>5. Wired(Through(st, D) \cap Between, in, out)' <=> Wired(L, in, out)'
  BY <1>4 DEF Wired
<1>6. Wired(L, in, out)' <=> Wired(L, in, out)
  BY SameWired
<1>7. Sound(st, D)' <=> Sound(st, D)
  BY DEF Sound, Through, Stepping, At, Contiguous, Gapless, Input, Output
<1>8. Visited(children, st, D)' <=> Visited(children, st, D)
  BY DEF Visited
<1> QED
  BY <1>1, <1>2, <1>3, <1>5, <1>6, <1>7, <1>8 DEF Walked

-----------------------------------------------------------------------------
(* Outputs in front of one in use are in use.                              *)
LEMMA OutputsBefore ==
    ASSUME NEW b, Contiguous(b), NEW n \in Number, Output(b, n), NEW m \in 0..n
    PROVE  Output(b, m)
<1>1. PICK P : P = {k \in Number : Output(b, k)}
  OBVIOUS
<1>2. P \in SUBSET Number /\ n \in P
  BY <1>1
<1>3. \A k \in Number \ {0} : k \in P => k - 1 \in P
  <2> SUFFICES ASSUME NEW k \in Number \ {0}, k \in P PROVE k - 1 \in P
    OBVIOUS
  <2>1. Output(b, k - 1)
    BY <1>1 DEF Contiguous, Gapless
  <2>2. k - 1 \in Number
    BY BoundAssumption DEF Number
  <2> QED
    BY <1>1, <2>1, <2>2
<1>4. Cardinality(P) \in Nat /\ P = 0..(Cardinality(P) - 1)
  BY <1>2, <1>3, NoGap
<1>5. m \in P
  <2>1. n \in Nat /\ n <= Cardinality(P) - 1
    BY <1>2, <1>4
  <2>2. m \in 0..(Cardinality(P) - 1)
    BY <1>4, <2>1
  <2> QED
    BY <1>4, <2>2
<1> QED
  BY <1>1, <1>5

(* When the walk of the universe is over the topology is complete.         *)
LEMMA Completed ==
    ASSUME children \in Trees, LinksOK, ~UniverseTerminals,
           NEW st \in Stack, Nested(children, st), Len(st) = 1,
           st[1].pos > Len(children[st[1].gal]),
           NEW D, NEW in, NEW out, Walked(st, D, in, out)
    PROVE  Complete /\ Wired(Between, in, out)
<1>0. Visited(children, st, D) /\ Sound(st, D) /\ Wired(Through(st, D) \cap Between, in, out)
  BY DEF Walked
<1>1. st[1].gal = Universe /\ Universe \in Open(st) /\ Universe \notin Block
  BY Frames, BlockAssumption DEF Nested, Open, Block
<1>2. \A b : InTree(b) => b \in D \cup {Universe}
  BY <1>0, AllVisited
<1>3. \A b \in Block : InTree(b) => b \in Seen(st, D) /\ Contiguous(b)
  <2> SUFFICES ASSUME NEW b \in Block, InTree(b) PROVE b \in Seen(st, D) /\ Contiguous(b)
    OBVIOUS
  <2>1. b \in D
    BY <1>1, <1>2
  <2> QED
    BY <1>0, <2>1 DEF Seen, Sound
<1>4. \A g \in Galaxy : InTree(g) => children[g] # <<>>
  BY <1>0, <1>1, <1>2 DEF Sound
<1>5. ASSUME NEW g \in Galaxy, NEW b \in Range(children[g])
      PROVE  b \in Block /\ InTree(b) /\ b # Universe /\ b \in Seen(st, D)
  <2>1. b \in Block /\ InTree(b)
    BY Lists, ListedInTree
  <2> QED
    BY <1>1, <1>3, <2>1
<1>6. ASSUME NEW l \in links, l[2] \in InPorts
      PROVE  l \in Through(st, D) /\ l[2][1] # Universe
  <2>1. PICK g \in Galaxy : Across(l, g) \/ Inward(l, g) \/ Outward(l, g)
    BY LinkKinds
  <2>2. l[2][1] \in Range(children[g])
    BY <1>6, <2>1, Sides DEF Across, Inward, Outward, InPorts
  <2>3. l[2][1] \in Seen(st, D) /\ l[2][1] # Universe
    BY <1>5, <2>2
  <2> QED
    BY <1>6, <2>3 DEF Through
<1>7. ASSUME NEW l \in links PROVE l[1][1] # Universe
  <2>1. PICK g \in Galaxy : Across(l, g) \/ Inward(l, g) \/ Outward(l, g)
    BY LinkKinds
  <2>2. CASE Across(l, g) \/ Outward(l, g)
    BY <1>5, <2>2 DEF Across, Outward
  <2>3. CASE Inward(l, g)
    <3>1. l \in Through(st, D)
      BY <1>6, <2>3 DEF Inward
    <3> QED
      BY <1>0, <3>1 DEF Sound
  <2> QED
    BY <2>1, <2>2, <2>3
<1>8. ASSUME NEW l \in links, l[2][1] = Universe PROVE FALSE
  <2>1. PICK g \in Galaxy : Across(l, g) \/ Inward(l, g) \/ Outward(l, g)
    BY LinkKinds
  <2>2. Outward(l, g)
    BY <1>6, <1>8, <2>1 DEF Across, Inward
  <2>3. PICK b : b = l[1][1]
    OBVIOUS
  <2>4. g = Universe /\ b \in Range(children[Universe]) /\ l[1] \in OutPorts
    BY <1>8, <2>2, <2>3 DEF Outward
  <2>5. Contiguous(b)
    BY <1>3, <1>5, <2>4
  <2>6. l[1] = <<b, "out", l[1][3]>> /\ l[1][3] \in Number
    BY <2>3, <2>4 DEF OutPorts, Ports
  <2>7. Output(b, l[1][3])
    BY <2>6 DEF Output
  <2>8. \A n \in 0..l[1][3] : Output(b, n)
    BY <2>5, <2>6, <2>7, OutputsBefore
  <2>9. UniverseTerminals
    BY <1>8, <2>3, <2>4, <2>8 DEF UniverseTerminals
  <2> QED
    BY <2>9
<1>9. Between \subseteq Through(st, D)
  BY <1>6, BetweenEnds
<1>10. Through(st, D) \cap Between = Between
  BY <1>9
<1>11. Wired(Between, in, out)
  BY <1>0, <1>10
<1>12. \A l \in Between : EndsInStars(l)
  <2> SUFFICES ASSUME NEW l \in Between PROVE EndsInStars(l)
    OBVIOUS
  <2>1. InnerInput(l[2])[1] \in Star /\ InnerOutput(l[1])[1] \in Star
    BY <1>11 DEF Wired
  <2> QED
    BY <2>1, EndsAreInner
<1>13. Complete
  BY <1>3, <1>4, <1>7, <1>8, <1>12 DEF Complete
<1> QED
  BY <1>11, <1>13

-----------------------------------------------------------------------------
(* The steps. *)

(* KrnSetupRun refuses what is not complete ...                            *)
LEMMA Refused ==
    ASSUME IInv, UNCHANGED <<children, links, buffers>>, runs' \in 0..MaxRuns,
           NEW code \in {41, 42, 43, 44, 45, 46}, Returns(code), ~Complete
    PROVE  IInv'
<1>1. stack' = <<>> /\ err' = code /\ done' = TRUE
  BY DEF Returns
<1>2. UNCHANGED <<children, links>>
  OBVIOUS
<1>3. Typed'
  <2>1. children' \in Trees /\ LinksOK'
    BY <1>2, SameLinks DEF IInv, Typed
  <2> QED
    BY <1>1, <2>1 DEF Typed
<1>4. Stored'
  <2>1. /\ inBuffer' = inBuffer /\ outBuffer' = outBuffer /\ created' = created
        /\ numberIn' = numberIn /\ numberOut' = numberOut
    BY DEF buffers
  <2> QED
    BY <2>1 DEF IInv, Stored, Tables, Counted, Places
<1>5. Walking'
  BY <1>1 DEF Walking, Running
<1>6. Finished'
  <2>1. ~Complete' /\ err' # 0
    BY <1>1, <1>2, SameComplete
  <2> QED
    BY <2>1 DEF Finished
<1> QED
  BY <1>3, <1>4, <1>5, <1>6 DEF IInv

(* ... and goes on otherwise.                                              *)
LEMMA GoesOn ==
    ASSUME IInv, UNCHANGED <<children, links, err>>, runs' \in 0..MaxRuns, done' = FALSE,
           Stored', ~UniverseTerminals,
           stack' \in Stack, Nested(children, stack'),
           stack'[1].pos <= Len(children[stack'[1].gal]) + 1,
           NEW D, Walked(stack', D, inBuffer', outBuffer')
    PROVE  IInv'
<1>1. UNCHANGED <<children, links>> /\ children' = children
  OBVIOUS
<1>2. Typed'
  <2>1. children' \in Trees /\ LinksOK'
    BY <1>1, SameLinks DEF IInv, Typed
  <2> QED
    BY <2>1 DEF IInv, Typed
<1>3. Walking'
  <2>1. ~UniverseTerminals'
    BY <1>1, SameLinks
  <2>2. Walked(stack, D, inBuffer, outBuffer)'
    BY <1>1, SameWalked
  <2>3. Nested(children, stack)'
    BY <1>1 DEF Nested
  <2>4. (stack[1].pos <= Len(children[stack[1].gal]) + 1)'
    BY <1>1
  <2>5. (\E E : Walked(stack, E, inBuffer, outBuffer))'
    BY <2>2
  <2> QED
    BY <2>1, <2>3, <2>4, <2>5 DEF Walking
<1>4. Finished'
  BY DEF Finished
<1> QED
  BY <1>2, <1>3, <1>4 DEF IInv

(* Tables without buffers count and wire nothing.                          *)
LEMMA Empty ==
    /\ NoBuffers \in Tables(0) /\ Counted(NoBuffers, Zero)
    /\ Wired({}, NoBuffers, NoBuffers)
<1>1. NoBuffers \in Tables(0)
  BY DEF NoBuffers, Tables, NULL
<1>2. \A s \in Star : Places(NoBuffers, s) = {}
  BY DEF NoBuffers, Places
<1>3. Counted(NoBuffers, Zero)
  BY <1>2, FS_EmptySet DEF Counted, Zero
<1>4. Wired({}, NoBuffers, NoBuffers)
  BY DEF Wired, NoBuffers
<1> QED
  BY <1>1, <1>3, <1>4

(* The initial states.                                                     *)
LEMMA InitStep ==
    ASSUME Init PROVE IInv
<1>1. Typed
  <2>1. LinksOK
    BY FS_EmptySet, BoundAssumption DEF Init, LinksOK
  <2>2. 0 \in 0..MaxRuns
    BY BoundAssumption
  <2>3. children \in Trees /\ err = 0 /\ done = FALSE /\ runs = 0
    BY DEF Init
  <2> QED
    BY <2>1, <2>2, <2>3 DEF Typed
<1>2. Stored
  BY Empty DEF Init, Stored
<1>3. Walking /\ Finished
  BY DEF Init, Walking, Running, Finished
<1> QED
  BY <1>1, <1>2, <1>3 DEF IInv

(* An edit changes the links while no walk is going on.                    *)
LEMMA EditStep ==
    ASSUME IInv, Edit, LinksOK' PROVE IInv'
<1>1. /\ stack = <<>> /\ stack' = <<>> /\ done' = FALSE /\ children' = children
      /\ err' = err /\ runs' = runs /\ UNCHANGED buffers
  BY DEF Edit, Running
<1>2. Typed'
  BY <1>1 DEF IInv, Typed
<1>3. Stored'
  <2>1. /\ inBuffer' = inBuffer /\ outBuffer' = outBuffer /\ created' = created
        /\ numberIn' = numberIn /\ numberOut' = numberOut
    BY <1>1 DEF buffers
  <2> QED
    BY <2>1 DEF IInv, Stored, Tables, Counted, Places
<1>4. Walking' /\ Finished'
  BY <1>1 DEF Walking, Running, Finished
<1> QED
  BY <1>2, <1>3, <1>4 DEF IInv

(* A link more.                                                            *)
LEMMA ConnectStep ==
    ASSUME IInv, NEW g \in Galaxy, Connect(g) PROVE IInv'
<1>1. Edit /\ Cardinality(links) < MaxLinks
  BY DEF Connect
<1>2. PICK l \in Inside(g) : /\ \A k \in links : k[1] # l[1] /\ k[2] # l[2]
                             /\ links' = links \cup {l}
  BY DEF Connect
<1>3. LinksOK /\ children' = children
  BY <1>1 DEF IInv, Typed, Edit
<1>4. \A k \in links' : \E h \in Galaxy : k \in Inside(h)'
  <2>1. \A h \in Galaxy : Inside(h)' = Inside(h)
    BY <1>3 DEF Inside
  <2> QED
    BY <1>2, <1>3, <2>1 DEF LinksOK
<1>5. \A k, m \in links' : k[1] = m[1] \/ k[2] = m[2] => k = m
  BY <1>2, <1>3 DEF LinksOK
<1>6. IsFiniteSet(links') /\ Cardinality(links') <= MaxLinks
  <2>1. IsFiniteSet(links) /\ l \notin links
    BY <1>2, <1>3 DEF LinksOK
  <2>2. IsFiniteSet(links') /\ Cardinality(links') = Cardinality(links) + 1
    BY <1>2, <2>1, FS_AddElement
  <2>3. Cardinality(links) \in Nat /\ MaxLinks \in Nat
    BY <2>1, FS_CardinalityType, BoundAssumption
  <2> QED
    BY <1>1, <2>2, <2>3
<1>7. LinksOK'
  BY <1>4, <1>5, <1>6 DEF LinksOK
<1> QED
  BY <1>1, <1>7, EditStep

(* A link less.                                                            *)
LEMMA DisconnectStep ==
    ASSUME IInv, NEW l \in links, Disconnect(l) PROVE IInv'
<1>1. Edit /\ links' = links \ {l} /\ LinksOK /\ children' = children
  BY DEF Disconnect, IInv, Typed, Edit
<1>2. \A k \in links' : \E h \in Galaxy : k \in Inside(h)'
  <2>1. \A h \in Galaxy : Inside(h)' = Inside(h)
    BY <1>1 DEF Inside
  <2> QED
    BY <1>1, <2>1 DEF LinksOK
<1>3. \A k, m \in links' : k[1] = m[1] \/ k[2] = m[2] => k = m
  BY <1>1 DEF LinksOK
<1>4. IsFiniteSet(links') /\ Cardinality(links') <= MaxLinks
  <2>1. IsFiniteSet(links) /\ links' \subseteq links /\ Cardinality(links) <= MaxLinks
    BY <1>1 DEF LinksOK
  <2>2. IsFiniteSet(links') /\ Cardinality(links') <= Cardinality(links)
    BY <2>1, FS_Subset
  <2>3. Cardinality(links) \in Nat /\ Cardinality(links') \in Nat /\ MaxLinks \in Nat
    BY <2>1, <2>2, FS_CardinalityType, BoundAssumption
  <2> QED
    BY <2>1, <2>2, <2>3
<1>5. LinksOK'
  BY <1>2, <1>3, <1>4 DEF LinksOK
<1> QED
  BY <1>1, <1>5, EditStep

(* A run is refused at once, or its walk begins.                           *)
LEMMA SetupStep ==
    ASSUME IInv, KrnSetupRun PROVE IInv'
<1>0. /\ children' = children /\ links' = links /\ children \in Trees /\ LinksOK
      /\ runs' \in 0..MaxRuns
  <2>1. runs' = runs + 1 /\ runs < MaxRuns /\ runs \in 0..MaxRuns /\ MaxRuns \in Nat
    BY BoundAssumption DEF KrnSetupRun, IInv, Typed
  <2> QED
    BY <2>1 DEF KrnSetupRun, IInv, Typed
<1>1. CASE children[Universe] = <<>> /\ Returns(41) /\ UNCHANGED buffers
  <2>1. ~Complete
    BY <1>0, <1>1, UniverseInTree, BlockAssumption DEF Complete
  <2> QED
    BY <1>0, <1>1, <2>1, Refused
<1>2. CASE UniverseTerminals /\ Returns(42) /\ UNCHANGED buffers
  <2>1. ~Complete
    BY <1>2 DEF Complete, UniverseTerminals
  <2> QED
    BY <1>0, <1>2, <2>1, Refused
<1>3. CASE /\ children[Universe] # <<>> /\ ~UniverseTerminals /\ InitAll
           /\ stack' = <<Called(Universe)>> /\ done' = FALSE /\ UNCHANGED err
  <2>1. PICK st : st = stack'
    OBVIOUS
  <2>2. /\ st \in Stack /\ Nested(children, st) /\ Visited(children, st, {})
        /\ Len(st) = 1 /\ st[1] = Called(Universe) /\ DOMAIN st = {1}
    BY <1>0, <1>3, <2>1, Began
  <2>3. st[1].gal = Universe /\ st[1].pos = 1 /\ st[1].port = 0
    BY <2>2, BlockAssumption, CalledFrame
  <2>4. Open(st) = {Universe}
    BY <2>2, <2>3 DEF Open
  <2>5. Seen(st, {}) = {}
    BY <2>4 DEF Seen
  <2>6. Through(st, {}) = {}
    <3>1. Through(st, {}) = Into(Seen(st, {}))
      BY <2>2, <2>3, ThroughAtFirst
    <3> QED
      BY <2>5, <3>1 DEF Into
  <2>7. Sound(st, {})
    <3>1. ~(st[1].port > 0)
      BY <2>3
    <3> QED
      BY <1>3, <2>4, <2>5, <2>6, <3>1 DEF Sound
  <2>8. /\ inBuffer' = NoBuffers /\ outBuffer' = NoBuffers
        /\ numberIn' = Zero /\ numberOut' = Zero /\ created' = 0
    BY <1>3 DEF InitAll
  <2>9. Stored'
    BY <2>8, Empty DEF Stored, Tables, Counted, Places
  <2>10. Walked(st, {}, NoBuffers, NoBuffers)
    <3>1. Through(st, {}) \cap Between = {}
      BY <2>6
    <3> QED
      BY <2>2, <2>7, <3>1, Empty DEF Walked
  <2>11. st[1].pos <= Len(children[st[1].gal]) + 1
    BY <1>0, <2>3, Lists, BlockAssumption
  <2>12. Walked(stack', {}, inBuffer', outBuffer')
    BY <2>1, <2>8, <2>10
  <2> QED
    BY <1>0, <1>3, <2>1, <2>2, <2>9, <2>11, <2>12, GoesOn
<1> QED
  BY <1>1, <1>2, <1>3 DEF KrnSetupRun

-----------------------------------------------------------------------------
(* The steps of the walk, from what the guards say.                        *)
LEMMA Started ==
    ASSUME IInv, Running
    PROVE  /\ children \in Trees /\ LinksOK /\ stack \in Stack /\ Top = stack[1]
           /\ Nested(children, stack) /\ ~UniverseTerminals /\ runs \in 0..MaxRuns
           /\ done = FALSE
           /\ stack[1].pos \in Nat /\ stack[1].pos <= Len(children[stack[1].gal]) + 1
           /\ \E D : Walked(stack, D, inBuffer, outBuffer)
<1>1. /\ children \in Trees /\ LinksOK /\ stack \in Stack
      /\ Nested(children, stack) /\ ~UniverseTerminals /\ runs \in 0..MaxRuns
      /\ done = FALSE
      /\ stack[1].pos <= Len(children[stack[1].gal]) + 1
      /\ \E D : Walked(stack, D, inBuffer, outBuffer)
  BY DEF IInv, Typed, Walking
<1> QED
  BY <1>1, Frames DEF Top

(* The block it is at.                                                     *)
LEMMA Arrived ==
    ASSUME IInv, AtBlock
    PROVE  /\ Running /\ Stepping(stack) /\ Current = At(stack)
           /\ Top.port = stack[1].port /\ Top.gal = stack[1].gal
<1>1. Running /\ Top = stack[1] /\ stack \in Stack /\ children \in Trees
  BY Started DEF AtBlock
<1>2. Top.pos \in Nat \ {0} /\ Top.gal \in Galaxy
  BY <1>1, Frames
<1>3. Top.pos \in DOMAIN children[Top.gal]
  BY <1>1, <1>2, Lists DEF AtBlock
<1> QED
  BY <1>1, <1>3 DEF Stepping, At, Current

(* At a port, the ports of the block have been tested.                     *)
LEMMA Checked ==
    ASSUME IInv, AtPort, NEW D, Walked(stack, D, inBuffer, outBuffer)
    PROVE  Contiguous(At(stack))
<1>1. Running /\ Stepping(stack) /\ Current = At(stack) /\ Top.port = stack[1].port
  BY Arrived DEF AtPort
<1>2. stack[1].port \in Nat
  <2>1. stack[1].port \in 0..IO_BUFFERS
    BY <1>1, Started, Frames
  <2> QED
    BY <2>1
<1>3. CASE stack[1].port = 0
  BY <1>1, <1>3 DEF AtPort
<1>4. CASE stack[1].port # 0
  <2>1. stack[1].port > 0 /\ Sound(stack, D)
    BY <1>2, <1>4 DEF Walked
  <2> QED
    BY <1>1, <2>1 DEF Sound
<1> QED
  BY <1>3, <1>4

(* The link whose turn it is: from the galaxy around, or from a sibling.   *)
LEMMA AtInputIs ==
    ASSUME IInv, AtInput
    PROVE  \E l \in links :
             /\ l[2] = <<At(stack), "in", stack[1].port>> /\ l[1] = Source
             /\ \/ l[1][1] = stack[1].gal /\ l \notin Between
                \/ l[1][1] # stack[1].gal /\ l \in Between /\ l[1][1] # Universe
<1>1. /\ Running /\ Stepping(stack) /\ Current = At(stack) /\ Top.port = stack[1].port
      /\ children \in Trees /\ LinksOK /\ stack \in Stack
  BY Arrived, Started DEF AtPort, AtInput
<1>2. PICK m : m = CHOOSE l \in links : l[2] = <<Current, "in", Top.port>>
  OBVIOUS
<1>3. m \in links /\ m[2] = <<Current, "in", Top.port>> /\ m[1] = Source
  BY <1>2 DEF AtInput, Input, Source
<1>4. At(stack) \in Range(children[stack[1].gal]) /\ stack[1].gal \in Galaxy /\ At(stack) \in Block
  BY <1>1, CurrentInTree
<1>5. m[2] \in InPorts /\ m[2][1] = At(stack)
  <2>1. PICK b \in All, n \in Number : b = At(stack) /\ n = stack[1].port
    BY <1>1, <1>4 DEF AtInput, All, Block
  <2>2. <<b, "in", n>> \in InPorts /\ <<b, "in", n>>[1] = b
    BY PortIs
  <2>3. m[2] = <<b, "in", n>>
    BY <1>1, <1>3, <2>1
  <2> QED
    BY <2>1, <2>2, <2>3
<1>6. PICK g \in Galaxy : Across(m, g) \/ Inward(m, g) \/ Outward(m, g)
  BY <1>1, <1>3, LinkKinds
<1>7. ~Outward(m, g)
  BY <1>5, Sides DEF Outward, InPorts
<1>8. m[2][1] \in Range(children[g])
  BY <1>6, <1>7 DEF Across, Inward
<1>9. g = stack[1].gal
  BY <1>1, <1>4, <1>5, <1>8, OneList
<1>10. CASE Inward(m, g)
  <2>1. m[1][1] = stack[1].gal /\ m[1] \in InPorts
    BY <1>9, <1>10 DEF Inward
  <2>2. m \notin Between
    BY <2>1 DEF Between, InPorts
  <2> QED
    BY <1>1, <1>3, <2>1, <2>2
<1>11. CASE Across(m, g)
  <2>1. m[1][1] \in Range(children[g]) /\ m[1] \in OutPorts
    BY <1>11 DEF Across
  <2>2. m[1][1] # g
    BY <1>1, <2>1, NotInItself
  <2>3. m[1][1] # Universe
    <3>1. m[1][1] \in Block
      BY <1>1, <2>1, Lists
    <3> QED
      BY <3>1, BlockAssumption DEF Block
  <2>4. m \in Between
    BY <1>3, <1>5, <2>1 DEF Between, InPorts, OutPorts
  <2> QED
    BY <1>1, <1>3, <1>9, <2>2, <2>3, <2>4
<1> QED
  BY <1>6, <1>7, <1>10, <1>11

(* The walk changes no hierarchy and no links.                             *)
LEMMA WalkKeeps ==
    ASSUME IInv, Running, Walk
    PROVE  /\ UNCHANGED <<children, links>> /\ children' = children /\ links' = links
           /\ runs' \in 0..MaxRuns
  BY Started DEF Walk

(* Buffers that stay are stored as before.                                 *)
LEMMA StoredKept ==
    ASSUME IInv, UNCHANGED buffers
    PROVE  Stored' /\ inBuffer' = inBuffer /\ outBuffer' = outBuffer
<1>1. /\ inBuffer' = inBuffer /\ outBuffer' = outBuffer /\ created' = created
      /\ numberIn' = numberIn /\ numberOut' = numberOut
  BY DEF buffers
<1> QED
  BY <1>1 DEF IInv, Stored, Tables, Counted, Places

(* The frame of the running call is replaced.                              *)
LEMMA MovedIs ==
    ASSUME IInv, Running, NEW f \in Frame, Moved(f)
    PROVE  Replaced(stack, f, stack') /\ err' = err /\ done' = FALSE
<1>1. stack \in Stack /\ done = FALSE
  BY Started
<1>2. Replaced(stack, f, <<f>> \o Tail(stack))
  BY <1>1, MovedFrames
<1>3. stack' = <<f>> \o Tail(stack) /\ err' = err /\ done' = done
  BY DEF Moved
<1> QED
  BY <1>1, <1>2, <1>3

(* A block with a gap is reported: the topology is not complete.           *)
LEMMA NotContiguousStep ==
    ASSUME IInv, NotContiguous PROVE IInv'
<1>1. AtBlock /\ ~Contiguous(Current) /\ Walk /\ UNCHANGED buffers
  BY DEF NotContiguous
<1>2. Running /\ Current = At(stack) /\ Stepping(stack) /\ stack \in Stack /\ children \in Trees
  BY <1>1, Arrived, Started
<1>3. ~Complete
  BY <1>1, <1>2, CurrentInTree DEF Complete
<1>4. Returns(43) \/ Returns(44)
  BY DEF NotContiguous
<1>5. UNCHANGED <<children, links, buffers>> /\ runs' \in 0..MaxRuns
  BY <1>1, <1>2, WalkKeeps
<1> QED
  BY <1>3, <1>4, <1>5, Refused

(* A port has been dealt with, and its link is through.                    *)
LEMMA PortStep ==
    ASSUME IInv, AtInput, Walk, NextPort, Stored',
           NEW l \in links, l[2] = <<At(stack), "in", stack[1].port>>, l[1][1] # Universe,
           NEW D, Walked(stack, D, inBuffer, outBuffer),
           Wired((Through(stack, D) \cup {l}) \cap Between, inBuffer', outBuffer')
    PROVE  IInv'
<1>1. AtPort /\ AtBlock /\ Top.port \in Number
  BY DEF AtInput, AtPort
<1>2. /\ Running /\ Stepping(stack) /\ Top.port = stack[1].port /\ Top = stack[1]
      /\ children \in Trees /\ LinksOK /\ stack \in Stack /\ Nested(children, stack)
      /\ ~UniverseTerminals /\ stack[1].pos <= Len(children[stack[1].gal]) + 1
  BY <1>1, Arrived, Started
<1>3. Contiguous(At(stack))
  BY <1>1, Checked
<1>4. Visited(children, stack, D) /\ Sound(stack, D)
  BY DEF Walked
<1>5. PICK f \in Frame : f = [Top EXCEPT !.port = @ + 1]
  BY <1>1, <1>2, Frames, NextPortFrame
<1>6. Replaced(stack, f, stack') /\ err' = err /\ done' = FALSE
  BY <1>2, <1>5, MovedIs DEF NextPort
<1>7. PICK st : st = stack'
  OBVIOUS
<1>8. Replaced(stack, [stack[1] EXCEPT !.port = @ + 1], st)
  BY <1>2, <1>5, <1>6, <1>7
<1>9. stack[1].port \in Number
  BY <1>1, <1>2
<1>10. /\ st \in Stack /\ Nested(children, st) /\ st[1].gal = stack[1].gal
       /\ st[1].pos = stack[1].pos
       /\ Visited(children, st, D) /\ Sound(st, D)
       /\ Through(st, D) = Through(stack, D) \cup {l}
  BY <1>2, <1>3, <1>4, <1>8, <1>9, PortWalked
<1>11. Walked(st, D, inBuffer', outBuffer')
  BY <1>10 DEF Walked
<1>12. UNCHANGED <<children, links, err>> /\ runs' \in 0..MaxRuns
  BY <1>2, <1>6, WalkKeeps
<1> QED
  BY <1>2, <1>6, <1>7, <1>10, <1>11, <1>12, GoesOn

(* A link from the galaxy around: left to the outer walk, or a refusal.    *)
LEMMA FromTerminalStep ==
    ASSUME IInv, FromTerminal PROVE IInv'
<1>1. AtInput /\ Source[1] = Top.gal /\ Walk /\ UNCHANGED buffers
  BY DEF FromTerminal
<1>2. Running /\ Top.gal = stack[1].gal
  BY <1>1, Arrived DEF AtInput, AtPort
<1>3. PICK l \in links : /\ l[2] = <<At(stack), "in", stack[1].port>> /\ l[1] = Source
                         /\ \/ l[1][1] = stack[1].gal /\ l \notin Between
                            \/ l[1][1] # stack[1].gal /\ l \in Between /\ l[1][1] # Universe
  BY <1>1, AtInputIs
<1>4. l[1][1] = Top.gal /\ l \notin Between
  BY <1>1, <1>2, <1>3
<1>5. CASE Top.gal = Universe
  <2>1. ~Complete
    BY <1>4, <1>5 DEF Complete
  <2>2. Returns(42)
    BY <1>5 DEF FromTerminal
  <2>3. UNCHANGED <<children, links, buffers>> /\ runs' \in 0..MaxRuns
    BY <1>1, <1>2, WalkKeeps
  <2> QED
    BY <2>1, <2>2, <2>3, Refused
<1>6. CASE Top.gal # Universe
  <2>1. NextPort
    BY <1>6 DEF FromTerminal
  <2>2. PICK D : Walked(stack, D, inBuffer, outBuffer)
    BY <1>2, Started
  <2>3. (Through(stack, D) \cup {l}) \cap Between = Through(stack, D) \cap Between
    BY <1>4
  <2>4. Stored' /\ inBuffer' = inBuffer /\ outBuffer' = outBuffer
    BY <1>1, StoredKept
  <2>5. Wired((Through(stack, D) \cup {l}) \cap Between, inBuffer', outBuffer')
    BY <2>2, <2>3, <2>4 DEF Walked
  <2>6. l[1][1] # Universe
    BY <1>4, <1>6
  <2> QED
    BY <1>1, <1>3, <2>1, <2>2, <2>4, <2>5, <2>6, PortStep
<1> QED
  BY <1>5, <1>6

(* A link from a sibling: two stars get a buffer, or one is missing.       *)
LEMMA ConnectTwoStarsStep ==
    ASSUME IInv, ConnectTwoStars PROVE IInv'
<1>1. AtInput /\ Source[1] # Top.gal /\ Walk
  BY DEF ConnectTwoStars
<1>2. /\ Running /\ Top.gal = stack[1].gal /\ Current = At(stack) /\ Top.port = stack[1].port
      /\ children \in Trees /\ LinksOK /\ stack \in Stack /\ Nested(children, stack)
      /\ Stepping(stack) /\ Top.port \in Number /\ AtPort
  BY <1>1, Arrived, Started DEF AtInput, AtPort
<1>3. PICK l \in links : /\ l[2] = <<At(stack), "in", stack[1].port>> /\ l[1] = Source
                         /\ \/ l[1][1] = stack[1].gal /\ l \notin Between
                            \/ l[1][1] # stack[1].gal /\ l \in Between /\ l[1][1] # Universe
  BY <1>1, AtInputIs
<1>4. l \in Between /\ l[1][1] # Universe
  BY <1>1, <1>2, <1>3
<1>5. PICK i, o : /\ i = InnerInput(<<Current, "in", Top.port>>) /\ o = InnerOutput(Source)
                  /\ i = InnerInput(l[2]) /\ o = InnerOutput(l[1])
  BY <1>2, <1>3
<1>6. UNCHANGED <<children, links>> /\ runs' \in 0..MaxRuns
  BY <1>1, <1>2, WalkKeeps
<1>7. CASE /\ (i[1] \in Galaxy /\ NotFound(i[1], 46)) \/ (o[1] \in Galaxy /\ NotFound(o[1], 45))
           /\ UNCHANGED buffers
  <2>1. ~(i[1] \in Star /\ o[1] \in Star)
    BY <1>7, BlockAssumption
  <2>2. ~EndsInStars(l)
    BY <1>2, <1>4, <1>5, <2>1, EndsAreInner
  <2>3. ~Complete
    BY <1>4, <2>2 DEF Complete
  <2>4. Returns(41) \/ Returns(45) \/ Returns(46)
    BY <1>7 DEF NotFound
  <2> QED
    BY <1>6, <1>7, <2>3, <2>4, Refused
<1>8. CASE /\ i[1] \in Star /\ o[1] \in Star /\ created' = created + 1
           /\ SetStarOut(o[1], o[3]) /\ SetStarIn(i[1], i[3]) /\ NextPort
  <2>1. PICK D : Walked(stack, D, inBuffer, outBuffer)
    BY <1>2, Started
  <2>2. PICK L : L = Through(stack, D) \cap Between
    OBVIOUS
  <2>3. Wired(L, inBuffer, outBuffer) /\ L \in SUBSET Between
    BY <2>1, <2>2 DEF Walked
  <2>4. l \notin L
    <3>1. At(stack) \notin Seen(stack, D)
      BY <1>2, <2>1, CurrentUnseen DEF Walked
    <3>2. l[2][1] = At(stack) /\ l[2][3] = stack[1].port
      BY <1>3
    <3>3. stack[1].port \in Nat
      BY <1>2, BoundAssumption DEF Number
    <3>4. ~(l[2][3] < stack[1].port)
      BY <3>2, <3>3
    <3> QED
      BY <2>2, <3>1, <3>2, <3>4 DEF Through
  <2>5. PICK c, in, out : c = created /\ in = inBuffer /\ out = outBuffer
    OBVIOUS
  <2>6. c \in Nat /\ in \in Tables(c) /\ out \in Tables(c) /\ Wired(L, in, out)
    BY <2>3, <2>5 DEF IInv, Stored
  <2>7. /\ i[3] \in Number /\ o[3] \in Number
        /\ in[i[1]][i[3]] = NULL /\ out[o[1]][o[3]] = NULL
        /\ Wired(L \cup {l}, With(in, i[1], i[3], c + 1), With(out, o[1], o[3], c + 1))
    BY <1>2, <1>4, <1>5, <1>8, <2>3, <2>4, <2>6, WiredMore
  <2>8. /\ created' = c + 1
        /\ inBuffer' = With(in, i[1], i[3], c + 1)
        /\ outBuffer' = With(out, o[1], o[3], c + 1)
        /\ numberIn' = [numberIn EXCEPT ![i[1]] = @ + 1]
        /\ numberOut' = [numberOut EXCEPT ![o[1]] = @ + 1]
    BY <1>8, <2>5 DEF SetStarIn, SetStarOut, With
  <2>9. Stored'
    <3>1. /\ With(in, i[1], i[3], c + 1) \in Tables(c + 1)
          /\ With(out, o[1], o[3], c + 1) \in Tables(c + 1) /\ c + 1 \in Nat
      BY <1>8, <2>6, <2>7, WithIs
    <3>2. inBuffer' \in Tables(c + 1) /\ outBuffer' \in Tables(c + 1)
      BY <2>8, <3>1
    <3>3. Counted(in, numberIn) /\ Counted(out, numberOut)
      BY <2>5 DEF IInv, Stored
    <3>4. /\ Counted(With(in, i[1], i[3], c + 1), [numberIn EXCEPT ![i[1]] = @ + 1])
          /\ Counted(With(out, o[1], o[3], c + 1), [numberOut EXCEPT ![o[1]] = @ + 1])
      BY <1>8, <2>6, <2>7, <3>3, WithCounted
    <3>5. Counted(inBuffer', numberIn') /\ Counted(outBuffer', numberOut')
      BY <2>8, <3>4
    <3> QED
      BY <2>8, <3>1, <3>2, <3>5 DEF Stored, Tables, Counted, Places
  <2>10. Wired((Through(stack, D) \cup {l}) \cap Between, inBuffer', outBuffer')
    <3>1. (Through(stack, D) \cup {l}) \cap Between = L \cup {l}
      BY <1>4, <2>2
    <3> QED
      BY <2>7, <2>8, <3>1
  <2> QED
    BY <1>1, <1>3, <1>4, <1>8, <2>1, <2>9, <2>10, PortStep
<1> QED
  BY <1>5, <1>7, <1>8 DEF ConnectTwoStars

(* The ports of the current block are done.                                *)
LEMMA PortsDoneIs ==
    ASSUME IInv, PortsDone
    PROVE  /\ Running /\ Stepping(stack) /\ Current = At(stack) /\ stack \in Stack
           /\ children \in Trees /\ LinksOK /\ Nested(children, stack)
           /\ stack[1].port \in Number => ~Input(At(stack), stack[1].port)
<1>1. AtPort /\ AtBlock /\ ~AtInput
  BY DEF PortsDone, AtPort
<1>2. /\ Running /\ Stepping(stack) /\ Current = At(stack) /\ Top.port = stack[1].port
      /\ children \in Trees /\ LinksOK /\ stack \in Stack /\ Nested(children, stack)
  BY <1>1, Arrived, Started
<1> QED
  BY <1>1, <1>2 DEF AtInput

(* A galaxy is entered, unless it is empty.                                *)
LEMMA ConnectInnerStep ==
    ASSUME IInv, ConnectInner PROVE IInv'
<1>1. PortsDone /\ Current \in Galaxy /\ Walk /\ UNCHANGED buffers /\ AtPort
  BY DEF ConnectInner, PortsDone
<1>2. /\ Running /\ Stepping(stack) /\ Current = At(stack) /\ stack \in Stack
      /\ children \in Trees /\ LinksOK /\ Nested(children, stack)
      /\ stack[1].port \in Number => ~Input(At(stack), stack[1].port)
  BY <1>1, PortsDoneIs
<1>3. CASE children[Current] = <<>>
  <2>1. Returns(41)
    BY <1>3 DEF ConnectInner
  <2>2. ~Complete
    BY <1>1, <1>2, <1>3, CurrentInTree DEF Complete
  <2>3. UNCHANGED <<children, links, buffers>> /\ runs' \in 0..MaxRuns
    BY <1>1, <1>2, WalkKeeps
  <2> QED
    BY <2>1, <2>2, <2>3, Refused
<1>4. CASE children[Current] # <<>>
  <2>1. stack' = <<Called(At(stack))>> \o stack /\ err' = err /\ done' = done
    BY <1>2, <1>4 DEF ConnectInner
  <2>2. PICK D : Walked(stack, D, inBuffer, outBuffer)
    BY <1>2, Started
  <2>3. /\ Visited(children, stack, D) /\ Sound(stack, D)
        /\ Wired(Through(stack, D) \cap Between, inBuffer, outBuffer)
    BY <2>2 DEF Walked
  <2>4. Contiguous(At(stack))
    BY <1>1, <2>2, Checked
  <2>5. PICK st : st = stack'
    OBVIOUS
  <2>6. /\ st \in Stack /\ Nested(children, st) /\ st[1].pos = 1 /\ st[1].gal = At(stack)
        /\ Visited(children, st, D) /\ Sound(st, D)
        /\ Through(st, D) = Through(stack, D)
    BY <1>1, <1>2, <1>4, <2>1, <2>3, <2>4, <2>5, EnteredWalked
  <2>7. Stored' /\ inBuffer' = inBuffer /\ outBuffer' = outBuffer
    BY <1>1, StoredKept
  <2>8. Walked(st, D, inBuffer', outBuffer')
    BY <2>3, <2>6, <2>7 DEF Walked
  <2>9. st[1].pos <= Len(children[st[1].gal]) + 1
    BY <1>1, <1>2, <2>6, Lists
  <2>10. UNCHANGED <<children, links, err>> /\ runs' \in 0..MaxRuns /\ done' = FALSE
         /\ ~UniverseTerminals
    BY <1>1, <1>2, <2>1, WalkKeeps, Started
  <2> QED
    BY <2>5, <2>6, <2>7, <2>8, <2>9, <2>10, GoesOn
<1> QED
  BY <1>3, <1>4

(* A star is passed.                                                       *)
LEMMA NextSiblingStep ==
    ASSUME IInv, NextSibling PROVE IInv'
<1>1. /\ PortsDone /\ Current \in Star /\ Walk /\ UNCHANGED buffers /\ AtPort
      /\ Moved(NextBlock(Top))
  BY DEF NextSibling, PortsDone
<1>2. /\ Running /\ Stepping(stack) /\ Current = At(stack) /\ stack \in Stack
      /\ children \in Trees /\ LinksOK /\ Nested(children, stack)
      /\ stack[1].port \in Number => ~Input(At(stack), stack[1].port)
  BY <1>1, PortsDoneIs
<1>3. Top = stack[1] /\ ~UniverseTerminals
  BY <1>2, Started
<1>4. PICK f \in Frame : f = NextBlock(Top)
  BY <1>2, <1>3, Frames, NextBlockFrame
<1>5. Replaced(stack, f, stack') /\ err' = err /\ done' = FALSE
  BY <1>1, <1>2, <1>4, MovedIs
<1>6. PICK st : st = stack'
  OBVIOUS
<1>7. Replaced(stack, NextBlock(stack[1]), st)
  BY <1>3, <1>4, <1>5, <1>6
<1>8. PICK D : Walked(stack, D, inBuffer, outBuffer)
  BY <1>2, Started
<1>9. /\ Visited(children, stack, D) /\ Sound(stack, D)
      /\ Wired(Through(stack, D) \cap Between, inBuffer, outBuffer)
  BY <1>8 DEF Walked
<1>10. Contiguous(At(stack))
  BY <1>1, <1>8, Checked
<1>11. PICK E : E = D \cup {At(stack)}
  OBVIOUS
<1>12. /\ st \in Stack /\ Nested(children, st)
       /\ st[1].gal = stack[1].gal /\ st[1].pos = stack[1].pos + 1
       /\ Visited(children, st, E) /\ Sound(st, E)
       /\ Through(st, E) = Through(stack, D)
  BY <1>1, <1>2, <1>7, <1>9, <1>10, <1>11, PassedWalked
<1>13. Stored' /\ inBuffer' = inBuffer /\ outBuffer' = outBuffer
  BY <1>1, StoredKept
<1>14. Walked(st, E, inBuffer', outBuffer')
  BY <1>9, <1>12, <1>13 DEF Walked
<1>15. st[1].pos <= Len(children[st[1].gal]) + 1
  <2>1. stack[1].gal \in Galaxy
    BY <1>2, Frames
  <2>2. stack[1].pos \in 1..Len(children[stack[1].gal]) /\ Len(children[stack[1].gal]) \in Nat
    BY <1>2, <2>1, Lists DEF Stepping
  <2> QED
    BY <1>12, <2>2
<1>16. UNCHANGED <<children, links, err>> /\ runs' \in 0..MaxRuns
  BY <1>1, <1>2, <1>5, WalkKeeps
<1> QED
  BY <1>3, <1>5, <1>6, <1>12, <1>13, <1>14, <1>15, <1>16, GoesOn

(* A call returns: to the galaxy around, or with a complete topology.      *)
LEMMA ReturnStep ==
    ASSUME IInv, Return PROVE IInv'
<1>1. Running /\ ~AtBlock /\ Walk /\ UNCHANGED buffers
  BY DEF Return
<1>2. /\ children \in Trees /\ LinksOK /\ stack \in Stack /\ Top = stack[1]
      /\ Nested(children, stack) /\ ~UniverseTerminals /\ stack[1].pos \in Nat
      /\ done = FALSE
  BY <1>1, Started
<1>3. stack[1].pos > Len(children[stack[1].gal])
  <2>1. stack[1].gal \in Galaxy
    BY <1>2, Frames
  <2>2. Len(children[stack[1].gal]) \in Nat
    BY <1>2, <2>1, Lists
  <2> QED
    BY <1>1, <1>2, <2>2 DEF AtBlock
<1>4. PICK D : Walked(stack, D, inBuffer, outBuffer)
  BY <1>1, Started
<1>5. /\ Visited(children, stack, D) /\ Sound(stack, D)
      /\ Wired(Through(stack, D) \cap Between, inBuffer, outBuffer)
  BY <1>4 DEF Walked
<1>6. Stored' /\ inBuffer' = inBuffer /\ outBuffer' = outBuffer
  BY <1>1, StoredKept
<1>7. UNCHANGED <<children, links>> /\ children' = children /\ runs' \in 0..MaxRuns
  BY <1>1, WalkKeeps
<1>8. CASE Len(stack) = 1
  <2>1. stack' = <<>> /\ err' = 0 /\ done' = TRUE
    BY <1>8 DEF Return, Returns
  <2>2. Complete /\ Wired(Between, inBuffer, outBuffer)
    BY <1>2, <1>3, <1>4, <1>8, Completed
  <2>3. Typed'
    <3>1. children' \in Trees /\ LinksOK'
      BY <1>2, <1>7, SameLinks
    <3> QED
      BY <1>7, <2>1, <3>1 DEF Typed
  <2>4. Complete' /\ Wired(Between, inBuffer, outBuffer)'
    BY <1>6, <1>7, <2>2, SameComplete, SameBetween
  <2>5. Walking' /\ Finished'
    BY <2>1, <2>4 DEF Walking, Running, Finished
  <2> QED
    BY <1>6, <2>3, <2>5 DEF IInv
<1>9. CASE Len(stack) # 1
  <2>1. stack' = <<NextBlock(stack[2])>> \o Tail(Tail(stack)) /\ err' = err /\ done' = done
    BY <1>9 DEF Return
  <2>2. PICK st : st = stack'
    OBVIOUS
  <2>3. PICK E : E = D \cup {stack[1].gal}
    OBVIOUS
  <2>4. /\ st \in Stack /\ Nested(children, st)
        /\ st[1].pos <= Len(children[st[1].gal]) + 1
        /\ Visited(children, st, E) /\ Sound(st, E)
        /\ Through(st, E) = Through(stack, D)
    BY <1>2, <1>3, <1>5, <1>9, <2>1, <2>2, <2>3, ReturnedWalked
  <2>5. Walked(st, E, inBuffer', outBuffer')
    BY <1>5, <1>6, <2>4 DEF Walked
  <2>6. UNCHANGED <<children, links, err>> /\ done' = FALSE
    BY <1>2, <1>7, <2>1
  <2> QED
    BY <1>2, <1>6, <1>7, <2>2, <2>4, <2>5, <2>6, GoesOn
<1> QED
  BY <1>8, <1>9

-----------------------------------------------------------------------------
(* The theorems. *)

(* A step that changes nothing.                                            *)
LEMMA StutterStep ==
    ASSUME IInv, UNCHANGED vars PROVE IInv'
<1>1. /\ UNCHANGED <<children, links>> /\ UNCHANGED buffers
      /\ children' = children /\ stack' = stack /\ err' = err /\ done' = done /\ runs' = runs
  BY DEF vars
<1>2. Stored' /\ inBuffer' = inBuffer /\ outBuffer' = outBuffer
  BY <1>1, StoredKept
<1>3. Typed'
  BY <1>1, SameLinks DEF IInv, Typed
<1>4. Walking'
  <2> SUFFICES ASSUME Running'
      PROVE  /\ (~done /\ ~UniverseTerminals)'
             /\ (stack \in Stack /\ Nested(children, stack))'
             /\ (stack[1].pos <= Len(children[stack[1].gal]) + 1)'
             /\ (\E D : Walked(stack, D, inBuffer, outBuffer))'
    BY DEF Walking
  <2>1. Running
    BY <1>1 DEF Running
  <2>2. /\ ~done /\ ~UniverseTerminals /\ stack \in Stack /\ Nested(children, stack)
        /\ stack[1].pos <= Len(children[stack[1].gal]) + 1
    BY <2>1 DEF IInv, Walking
  <2>3. PICK D : Walked(stack, D, inBuffer, outBuffer)
    BY <2>1 DEF IInv, Walking
  <2>4. Walked(stack, D, inBuffer, outBuffer)'
    BY <1>1, <1>2, <2>3, SameWalked
  <2>5. (stack \in Stack /\ Nested(children, stack))'
    BY <1>1, <2>2 DEF Nested
  <2>6. (~done /\ ~UniverseTerminals)'
    BY <1>1, <2>2, SameLinks
  <2> QED
    BY <1>1, <2>2, <2>4, <2>5, <2>6
<1>5. Finished'
  BY <1>1, <1>2, SameComplete, SameBetween DEF IInv, Finished
<1> QED
  BY <1>2, <1>3, <1>4, <1>5 DEF IInv

(* Every step keeps the invariant.                                         *)
LEMMA NextStep ==
    ASSUME IInv, [Next]_vars PROVE IInv'
<1>1. CASE \E g \in Galaxy : Connect(g)
  BY <1>1, ConnectStep
<1>2. CASE \E l \in links : Disconnect(l)
  BY <1>2, DisconnectStep
<1>3. CASE KrnSetupRun
  BY <1>3, SetupStep
<1>4. CASE Step
  BY <1>4, NotContiguousStep, FromTerminalStep, ConnectTwoStarsStep, ConnectInnerStep,
     NextSiblingStep, ReturnStep DEF Step
<1>5. CASE UNCHANGED vars
  BY <1>5, StutterStep
<1> QED
  BY <1>1, <1>2, <1>3, <1>4, <1>5 DEF Next

(* The invariant holds.                                                    *)
LEMMA Invariance == Spec => []IInv
<1>1. Init => IInv
  BY InitStep
<1>2. IInv /\ [Next]_vars => IInv'
  BY NextStep
<1> QED
  BY <1>1, <1>2, PTL DEF Spec

(* The frames of a walk stand in their galaxies.                           *)
LEMMA FramesStand ==
    ASSUME IInv, NEW i \in DOMAIN stack
    PROVE  /\ stack[i].port \in 0..IO_BUFFERS
           /\ stack[i].pos \in 1..(Len(children[stack[i].gal]) + 1)
<1>1. stack # <<>>
  OBVIOUS
<1>2. /\ children \in Trees /\ stack \in Stack /\ Nested(children, stack)
      /\ stack[1].pos <= Len(children[stack[1].gal]) + 1
  BY <1>1 DEF IInv, Typed, Walking, Running
<1>3. /\ stack[i].gal \in Galaxy /\ stack[i].pos \in Nat \ {0}
      /\ stack[i].port \in 0..IO_BUFFERS
      /\ DOMAIN stack = 1..Len(stack) /\ Len(stack) \in Nat
  BY <1>2, Frames
<1>4. PICK t, g : t = children[g] /\ g = stack[i].gal
  OBVIOUS
<1>5. DOMAIN t = 1..Len(t) /\ Len(t) \in Nat
  BY <1>2, <1>3, <1>4, Lists
<1>6. stack[i].pos <= Len(t) + 1
  <2>1. CASE i = 1
    BY <1>2, <1>4, <2>1
  <2>2. CASE i # 1
    <3>1. i - 1 \in 1..(Len(stack) - 1) /\ (i - 1) + 1 = i
      BY <1>3, <2>2
    <3>2. stack[i].pos \in DOMAIN t
      BY <1>2, <1>4, <3>1 DEF Nested
    <3> QED
      BY <1>5, <3>2
  <2> QED
    BY <2>1, <2>2
<1> QED
  BY <1>3, <1>4, <1>5, <1>6

(* The type invariant.                                                     *)
LEMMA TypeFollows ==
    ASSUME IInv PROVE TypeOK
<1>1. children \in Trees /\ LinksOK
  BY DEF IInv, Typed
<1>2. links \subseteq Ports \X Ports
  <2> SUFFICES ASSUME NEW l \in links PROVE l \in Ports \X Ports
    OBVIOUS
  <2>1. l[1] \in Ports /\ l[2] \in Ports /\ l = <<l[1], l[2]>>
    BY <1>1, LinkKinds
  <2> QED
    BY <2>1
<1>3. {inBuffer, outBuffer} \subseteq [Star -> [Number -> 0..created]]
  BY DEF IInv, Stored, Tables
<1>4. {numberIn, numberOut} \subseteq [Star -> 0..IO_BUFFERS]
  <2>1. ASSUME NEW table, NEW count, Counted(table, count)
        PROVE  count \in [Star -> 0..IO_BUFFERS]
    <3>1. count \in [Star -> Nat] /\ \A s \in Star : count[s] = Cardinality(Places(table, s))
      BY <2>1 DEF Counted
    <3>2. \A s \in Star : count[s] \in Nat /\ count[s] <= IO_BUFFERS
      BY <3>1, PlacesFinite
    <3>3. \A s \in Star : count[s] \in 0..IO_BUFFERS
      BY <3>2, BoundAssumption
    <3> QED
      BY <3>1, <3>3
  <2> QED
    BY <2>1 DEF IInv, Stored
<1>5. /\ Cardinality(links) <= MaxLinks /\ err \in {0, 41, 42, 43, 44, 45, 46}
      /\ done \in BOOLEAN /\ (done => ~Running) /\ runs \in 0..MaxRuns
  BY <1>1 DEF IInv, Typed, Walking, LinksOK
<1>6. \A i \in DOMAIN stack : /\ stack[i].port \in 0..IO_BUFFERS
                              /\ stack[i].pos \in 1..(Len(children[stack[i].gal]) + 1)
  BY FramesStand
<1> QED
  BY <1>1, <1>2, <1>3, <1>4, <1>5, <1>6 DEF TypeOK

(* Refusals and acceptance.                                                *)
LEMMA AcceptedFollows ==
    ASSUME IInv PROVE Accepted
  BY DEF IInv, Finished, Accepted

(* Buffers are shared by the ports that a link joins.                      *)
LEMMA SharedIsJoined ==
    ASSUME children \in Trees, LinksOK, NEW in, NEW out, Wired(Between, in, out),
           NEW s \in Star, NEW n \in Number, NEW t \in Star, NEW m \in Number
    PROVE  out[s][n] # NULL /\ out[s][n] = in[t][m]
           <=> \E l \in Between : Joins(l, <<s, "out", n>>, <<t, "in", m>>)
<1>1. ASSUME NEW l \in Between, Joins(l, <<s, "out", n>>, <<t, "in", m>>)
      PROVE  out[s][n] # NULL /\ out[s][n] = in[t][m]
  <2>1. InnerOutput(l[1]) = <<s, "out", n>> /\ InnerInput(l[2]) = <<t, "in", m>>
    BY <1>1 DEF Joins
  <2>2. out[s][n] # NULL
    BY <2>1 DEF Wired
  <2>3. in[InnerInput(l[2])[1]][InnerInput(l[2])[3]]
        = out[InnerOutput(l[1])[1]][InnerOutput(l[1])[3]]
    BY DEF Wired
  <2> QED
    BY <2>1, <2>2, <2>3
<1>2. ASSUME out[s][n] # NULL, out[s][n] = in[t][m]
      PROVE  \E l \in Between : Joins(l, <<s, "out", n>>, <<t, "in", m>>)
  <2>1. PICK l \in Between : InnerOutput(l[1]) = <<s, "out", n>>
    BY <1>2 DEF Wired
  <2>2. PICK i : i = InnerInput(l[2])
    OBVIOUS
  <2>3. i[1] \in Star /\ in[i[1]][i[3]] = out[s][n]
    <3>1. InnerInput(l[2])[1] \in Star
      BY DEF Wired
    <3>2. in[InnerInput(l[2])[1]][InnerInput(l[2])[3]]
          = out[InnerOutput(l[1])[1]][InnerOutput(l[1])[3]]
      BY DEF Wired
    <3> QED
      BY <2>1, <2>2, <3>1, <3>2
  <2>4. i \in InPorts
    BY <2>2, BetweenEnds
  <2>5. i[3] \in Number /\ i = <<i[1], "in", i[3]>>
    <3>1. i \in Ports /\ i[2] = "in"
      BY <2>4 DEF InPorts
    <3> QED
      BY <3>1, PortParts
  <2>6. i[1] = t /\ i[3] = m
    <3>1. in[t][m] # NULL /\ in[t][m] = in[i[1]][i[3]]
      BY <1>2, <2>3
    <3> QED
      BY <2>3, <2>5, <3>1 DEF Wired
  <2>7. InnerInput(l[2]) = <<t, "in", m>>
    BY <2>2, <2>5, <2>6
  <2> QED
    BY <2>1, <2>7 DEF Joins
<1> QED
  BY <1>1, <1>2

(* Shared buffers are connections.                                         *)
LEMMA SameConnectionsFollows ==
    ASSUME IInv PROVE SameConnections
<1> SUFFICES ASSUME done, err = 0,
                    NEW s \in Star, NEW n \in Number, NEW t \in Star, NEW m \in Number
             PROVE  (outBuffer[s][n] # NULL /\ outBuffer[s][n] = inBuffer[t][m])
                    <=> Leads(<<s, "out", n>>, <<t, "in", m>>)
  BY DEF SameConnections, StarPort
<1>1. children \in Trees /\ LinksOK /\ Wired(Between, inBuffer, outBuffer)
  BY DEF IInv, Typed, Finished
<1> QED
  BY <1>1, SharedIsJoined, LeadsJoins

(* Where links into galaxies are fed, the inputs of stars that are in use  *)
(* are those that a link between two blocks leads to.                      *)
LEMMA FedIsJoined ==
    ASSUME children \in Trees, LinksOK, Fed, NEW s \in Star, NEW n \in Number
    PROVE  Input(s, n) <=> \E l \in Between : InnerInput(l[2]) = <<s, "in", n>>
<1>1. PICK f : f = <<s, "in", n>>
  OBVIOUS
<1>2. f \in InPorts /\ f \in Ports /\ InnerInput(f) = f
  BY <1>1, StarPorts DEF InPorts
<1>3. ASSUME NEW l \in Between, InnerInput(l[2]) = f
      PROVE  \E k \in links : k[2] = f
  <2>1. PICK p : p = l[2]
    OBVIOUS
  <2>2. p \in InPorts /\ p \in Ports /\ l \in links /\ InnerInput(p) = f
    BY <1>3, <2>1, BetweenEnds DEF InPorts
  <2>3. Leads(p, f)
    BY <2>2, LeadsToInner
  <2>4. CASE p = f
    BY <2>1, <2>2, <2>4
  <2>5. CASE p # f
    BY <2>2, <2>3, <2>5, LeadsLast
  <2> QED
    BY <2>4, <2>5
<1>4. ASSUME NEW k \in links, k[2] = f
      PROVE  \E l \in Between : InnerInput(l[2]) = f
  <2>1. k[1] \in Ports
    BY LinkKinds
  <2>2. CASE k[1] \in OutPorts
    <3>1. k \in Between
      BY <1>2, <1>4, <2>2 DEF Between, OutPorts, InPorts
    <3> QED
      BY <1>2, <1>4, <3>1
  <2>3. CASE k[1] \in InPorts
    <3>1. k[1][1] \in Galaxy
      BY <2>3, FromInput
    <3>2. PICK t \in Star, m \in Number : Leads(<<t, "out", m>>, k[1])
      BY <3>1 DEF Fed
    <3>3. PICK e : e = <<t, "out", m>>
      OBVIOUS
    <3>4. e \in Ports
      BY <3>3, StarPorts DEF OutPorts
    <3>5. Leads(e, k[2])
      BY <3>2, <3>3, <3>4, LeadsOn
    <3>6. Leads(<<t, "out", m>>, <<s, "in", n>>)
      BY <1>1, <1>4, <3>3, <3>5
    <3>7. PICK l \in Between : Joins(l, <<t, "out", m>>, <<s, "in", n>>)
      BY <3>6, LeadsJoins
    <3> QED
      BY <1>1, <3>7 DEF Joins
  <2> QED
    BY <2>1, <2>2, <2>3, Sides
<1> QED
  BY <1>1, <1>3, <1>4 DEF Input

(* A star with an input in use is a block of the tree.                     *)
LEMMA UsedInTree ==
    ASSUME children \in Trees, LinksOK, NEW s \in Star, NEW n \in Number, Input(s, n)
    PROVE  InTree(s) /\ s \in Block
<1>1. PICK l \in links : l[2] = <<s, "in", n>>
  BY DEF Input
<1>2. PICK g \in Galaxy : Across(l, g) \/ Inward(l, g) \/ Outward(l, g)
  BY LinkKinds
<1>3. l[2][1] = s /\ s \notin Galaxy
  BY <1>1, BlockAssumption
<1>4. s \in Range(children[g])
  BY <1>2, <1>3 DEF Across, Inward, Outward
<1> QED
  BY <1>4, ListedInTree DEF Block

(* Fed stars have their buffers in place.                                  *)
LEMMA FedInPlaceFollows ==
    ASSUME IInv PROVE FedInPlace
<1> SUFFICES ASSUME done, err = 0, Fed, NEW s \in Star
             PROVE  Places(inBuffer, s) = 0..(numberIn[s] - 1)
  BY DEF FedInPlace, InPlace
<1>1. /\ children \in Trees /\ LinksOK /\ Complete /\ Wired(Between, inBuffer, outBuffer)
      /\ Counted(inBuffer, numberIn)
  BY DEF IInv, Typed, Finished, Stored
<1>2. PICK P : P = Places(inBuffer, s)
  OBVIOUS
<1>3. P \in SUBSET Number /\ numberIn[s] = Cardinality(P)
  BY <1>1, <1>2 DEF Places, Counted
<1>4. \A n \in Number : n \in P <=> Input(s, n)
  <2> SUFFICES ASSUME NEW n \in Number PROVE n \in P <=> Input(s, n)
    OBVIOUS
  <2>1. n \in P <=> inBuffer[s][n] # NULL
    BY <1>2 DEF Places
  <2>2. inBuffer[s][n] # NULL <=> \E l \in Between : InnerInput(l[2]) = <<s, "in", n>>
    BY <1>1 DEF Wired
  <2>3. Input(s, n) <=> \E l \in Between : InnerInput(l[2]) = <<s, "in", n>>
    BY <1>1, FedIsJoined
  <2> QED
    BY <2>1, <2>2, <2>3
<1>5. \A n \in Number \ {0} : n \in P => n - 1 \in P
  <2> SUFFICES ASSUME NEW n \in Number \ {0}, n \in P PROVE n - 1 \in P
    OBVIOUS
  <2>1. Input(s, n)
    BY <1>4
  <2>2. Contiguous(s)
    <3>1. InTree(s) /\ s \in Block
      BY <1>1, <2>1, UsedInTree
    <3> QED
      BY <1>1, <3>1 DEF Complete
  <2>3. Input(s, n - 1)
    BY <2>1, <2>2 DEF Contiguous, Gapless
  <2>4. n - 1 \in Number
    BY BoundAssumption DEF Number
  <2> QED
    BY <1>4, <2>3, <2>4
<1>6. P = 0..(Cardinality(P) - 1)
  BY <1>3, <1>5, NoGap
<1> QED
  BY <1>2, <1>3, <1>6

(* ConnectAllStars keeps its frames on the tree and its ports in the       *)
(* arrays of a block; no star is given more than IO_BUFFERS buffers.       *)
THEOREM TypeCorrect == Spec => []TypeOK
<1>1. IInv => TypeOK
  BY TypeFollows
<1> QED
  BY <1>1, Invariance, PTL

(* KrnSetupRun returns 0 if and only if the topology is complete: its      *)
(* local tests on the way of the walk miss no mistake, and find none that  *)
(* is not there.                                                           *)
THEOREM AcceptsTheComplete == Spec => []Accepted
<1>1. IInv => Accepted
  BY AcceptedFollows
<1> QED
  BY <1>1, Invariance, PTL

(* The buffers of the stars are the connections of the galaxies, put       *)
(* together at their borders: ConnectTwoStars, which looks for one star at *)
(* either end of every connection, finds each pair once.                   *)
THEOREM BuffersAsConnected == Spec => []SameConnections
<1>1. IInv => SameConnections
  BY SameConnectionsFollows
<1> QED
  BY <1>1, Invariance, PTL

(* The counts that SetStarIn keeps say where the input buffers of a star   *)
(* are, when every galaxy that passes something in is fed: MinimumSamples  *)
(* then asks them all.                                                     *)
THEOREM FedBuffersInPlace == Spec => []FedInPlace
<1>1. IInv => FedInPlace
  BY FedInPlaceFollows
<1> QED
  BY <1>1, Invariance, PTL

=============================================================================
