---------------------------- MODULE ScheduleProofs ----------------------------
(***************************************************************************)
(* Proofs about Schedule for every galaxy and every topology: the order    *)
(* Schedule() leaves is a data order whenever there is one, level 0 finds  *)
(* it, and a second run keeps it.                                          *)
(***************************************************************************)
EXTENDS Schedule, FiniteSetTheorems, TLAPS

LEMMA NInNat == N \in Nat
  BY BlockAssumption, FS_CardinalityType DEF N

LEMMA NoBlocks == N = 0 => Block = {}
  BY BlockAssumption, FS_EmptySet DEF N

-----------------------------------------------------------------------------
(* MoveBlock shuffles the positions from i to k and leaves a list.         *)
LEMMA MovedList ==
    ASSUME NEW s, IsList(s), NEW i \in Positions, NEW k \in i..N
    PROVE  /\ IsList(MoveBlock(s, i, k))
           /\ \A j \in 1..(i - 1) : MoveBlock(s, i, k)[j] = s[j]
           /\ MoveBlock(s, i, k)[i] = s[k]
           /\ \A j \in i..N : \E m \in i..N : MoveBlock(s, i, k)[j] = s[m]
  <1> DEFINE from(j) == IF j = i THEN k ELSE IF j \in (i + 1)..k THEN j - 1 ELSE j
             t == MoveBlock(s, i, k)
  <1>0. /\ N \in Nat /\ i \in 1..N /\ k \in Nat /\ i <= k /\ k <= N
        /\ s \in [1..N -> Block]
        /\ \A x, y \in 1..N : s[x] = s[y] => x = y
    BY NInNat DEF Positions, IsList
  <1>1. ASSUME NEW j \in 1..N
        PROVE  from(j) \in 1..N /\ t[j] = s[from(j)]
    BY <1>0 DEF MoveBlock, Positions
  <1>2. \A j, m \in 1..N : from(j) = from(m) => j = m
    BY <1>0
  <1>3. t \in [1..N -> Block]
    <2>1. t = [j \in 1..N |-> t[j]]
      BY DEF MoveBlock, Positions
    <2> HIDE DEF t, from
    <2>2. \A j \in 1..N : t[j] \in Block
      BY <1>0, <1>1
    <2> QED BY <2>1, <2>2
  <1>4. \A j, m \in 1..N : t[j] = t[m] => j = m
    <2> HIDE DEF t, from
    <2> QED BY <1>0, <1>1, <1>2
  <1>5. ASSUME NEW j \in 1..(i - 1) PROVE t[j] = s[j]
    <2>1. j \in 1..N /\ from(j) = j
      BY <1>0
    <2> QED BY <1>1, <2>1
  <1>6. t[i] = s[k]
    BY <1>0, <1>1
  <1>7. ASSUME NEW j \in i..N PROVE \E m \in i..N : t[j] = s[m]
    <2>1. j \in 1..N /\ from(j) \in i..N
      BY <1>0
    <2> QED BY <1>1, <2>1
  <1> QED BY <1>3, <1>4, <1>5, <1>6, <1>7 DEF IsList, Positions

(* Placing a block without unscheduled inputs at the front of the          *)
(* unscheduled ones extends the sorted part of the list.                   *)
LEMMA PlacedSorted ==
    ASSUME NEW s, IsList(s), NEW i \in Positions, NEW k \in i..N,
           SortedTo(s, i - 1),
           \A j \in i..N : s[j] \notin inputs[s[k]]
    PROVE  SortedTo(MoveBlock(s, i, k), i)
  <1> DEFINE t == MoveBlock(s, i, k)
  <1>0. N \in Nat /\ i \in 1..N
    BY NInNat DEF Positions
  <1>1. /\ IsList(t)
        /\ \A j \in 1..(i - 1) : t[j] = s[j]
        /\ t[i] = s[k]
        /\ \A j \in i..N : \E m \in i..N : t[j] = s[m]
    BY MovedList, Zenon
  <1> HIDE DEF t
  <1>2. ASSUME NEW x \in 1..i, NEW y \in x..N PROVE t[y] \notin inputs[t[x]]
    <2>1. CASE x = i
      BY <1>1, <2>1
    <2>2. CASE x < i /\ y < i
      <3>1. x \in 1..(i - 1) /\ y \in 1..(i - 1) /\ y \in x..N
        BY <1>0, <2>2
      <3> QED BY <1>1, <3>1 DEF SortedTo
    <2>3. CASE x < i /\ y >= i
      <3>1. x \in 1..(i - 1) /\ y \in i..N
        BY <1>0, <2>3
      <3>2. PICK m \in i..N : t[y] = s[m]
        BY <1>1, <3>1
      <3>3. m \in x..N
        BY <1>0, <3>1
      <3> QED BY <1>1, <3>1, <3>2, <3>3 DEF SortedTo
    <2> QED BY <1>0, <2>1, <2>2, <2>3
  <1> QED BY <1>2 DEF SortedTo, t

(* In place, the list is the same.                                         *)
LEMMA MoveInPlace ==
    ASSUME NEW s, IsList(s), NEW i \in Positions
    PROVE  MoveBlock(s, i, i) = s
  <1>1. i \in 1..N /\ N \in Nat /\ s \in [1..N -> Block]
    BY NInNat DEF IsList, Positions
  <1>2. \A j \in 1..N : ~(j \in (i + 1)..i)
    BY <1>1
  <1> QED BY <1>1, <1>2 DEF MoveBlock, Positions

-----------------------------------------------------------------------------
(* The inductive invariant.  Where the scan stands:                        *)
Scan == running => /\ pb_unsched \in 1..N
                   /\ pb_unsched <= pblock

(* What the pass has found out about the blocks it has tested, and what    *)
(* the passes before it have found out about all of them.                  *)
Levels ==
    running =>
      /\ level >= 1 => deadlocked
      /\ level >= 2 => pblock = pb_unsched
      /\ level = 0 /\ deadlocked =>
            \A i \in pb_unsched..(pblock - 1) : ~Ready0(order[i])
      /\ level = 1 =>
            \A i \in pb_unsched..(pblock - 1) : ~Ready1(order[i])
      /\ level >= 1 => \A i \in pb_unsched..N : ~Ready0(order[i])
      /\ level >= 2 => \A i \in pb_unsched..N : ~Ready1(order[i])

(* A pass that is complete so far has placed every block in its place.     *)
Inner ==
    /\ running =>
         /\ Scheduled \cap Galaxies \subseteq scheduled_galaxies
         /\ completed => \/ pblock = pb_unsched
                         \/ /\ pblock = N + 1
                            /\ Galaxies \subseteq scheduled_galaxies
    /\ GalaxiesScheduled

(* Without feedback.                                                       *)
InOrder ==
    /\ level = 0
    /\ running =>
         /\ SortedTo(order, pb_unsched - 1)
         /\ completed => \/ pblock = pb_unsched
                         \/ /\ pblock = N + 1
                            /\ SortedTo(order, N)
    /\ Returned => SortedTo(order, N)
    /\ runs > 1 => /\ order = before
                   /\ SortedTo(order, N)
                   /\ running => completed

IInv == /\ TypeOK
        /\ NoBlockLost
        /\ Scan
        /\ Levels
        /\ Inner
        /\ FeedForward => InOrder

(* A list of the galaxy's blocks has them all.                             *)
LEMMA ListIsAll ==
    ASSUME NEW s, IsList(s)
    PROVE  {s[i] : i \in 1..N} = Block
  <1>1. s \in Injection(1..N, Block)
    BY DEF IsList, Positions, Injection, IsInjective
  <1>2. Cardinality(1..N) = N
    BY NInNat, FS_Interval
  <1>3. s \in Surjection(1..N, Block)
    BY <1>1, <1>2, BlockAssumption, FS_Injection DEF N
  <1> QED BY <1>3 DEF Surjection

LEMMA InitIInv == Init => IInv
  <1> SUFFICES ASSUME Init PROVE IInv
    OBVIOUS
  <1>1. TypeOK
    <2>1. 1 \in 1..(N + 1) /\ 0 \in 0..2 /\ 0 \in 0..MaxRuns
      BY NInNat, RunsAssumption
    <2> QED BY <2>1, TopologyAssumption DEF Init, TypeOK
  <1>2. NoBlockLost /\ Scan /\ Levels
    BY DEF Init, NoBlockLost, Scan, Levels
  <1>3. Inner /\ InOrder
    BY RunsAssumption DEF Init, Inner, GalaxiesScheduled, Returned, InOrder
  <1> QED BY <1>1, <1>2, <1>3 DEF IInv

LEMMA CallIInv == IInv /\ Call => IInv'
  <1> SUFFICES ASSUME IInv, Call PROVE IInv'
    OBVIOUS
  <1> USE NInNat
  <1>0. TypeOK /\ N \in Nat
    BY DEF IInv
  <1>1. TypeOK'
    BY <1>0, RunsAssumption DEF TypeOK, Call
  <1>2. NoBlockLost'
    BY DEF IInv, NoBlockLost, Call
  <1>3. Scan' /\ Levels'
    <2>1. /\ running' => N > 0
          /\ pb_unsched' = 1 /\ pblock' = 1 /\ level' = 0
      BY DEF Call
    <2>2. Scan'
      BY <1>0, <2>1 DEF Scan
    <2>3. ~(level' >= 1) /\ ~(level' >= 2) /\ level' # 1
      BY <2>1
    <2>4. \A i : i \notin (pb_unsched..(pblock - 1))'
      BY <2>1
    <2>5. Levels'
      BY <2>3, <2>4, Zenon DEF Levels
    <2> QED BY <2>2, <2>5
  <1>4. Inner'
    <2>1. ~(N > 0) => Galaxies = {}
      BY NoBlocks, BlockAssumption
    <2>2. Scheduled' = {}
      BY DEF Call, Scheduled
    <2> QED BY <2>1, <2>2 DEF Call, Inner, GalaxiesScheduled, Returned
  <1>5. ASSUME FeedForward' PROVE InOrder'
    <2>0. FeedForward /\ InOrder
      BY <1>5 DEF FeedForward, Call, IInv
    <2>1. ~(N > 0) => N = 0
      OBVIOUS
    <2>2. \A k : SortedTo(order, k)' <=> SortedTo(order, k)
      BY DEF SortedTo, Call
    <2>3. SortedTo(order, 0)
      BY DEF SortedTo
    <2>4. runs' > 1 => SortedTo(order, N)
      BY <1>0, <2>0 DEF Call, InOrder, Returned, TypeOK
    <2>5. SortedTo(order, pb_unsched - 1)'
      BY <2>2, <2>3 DEF Call
    <2> QED BY <2>1, <2>2, <2>3, <2>4, <2>5 DEF Call, InOrder, Returned
  <1> QED BY <1>1, <1>2, <1>3, <1>4, <1>5 DEF IInv

LEMMA PlaceIInv == IInv /\ Place => IInv'
  <1> SUFFICES ASSUME IInv, Place PROVE IInv'
    OBVIOUS
  <1> DEFINE u == pb_unsched
             k == pblock
             t == MoveBlock(order, u, k)
  <1>0. /\ N \in Nat /\ u \in 1..N /\ u \in Positions /\ k \in u..N
        /\ TypeOK /\ IsList(order) /\ running
    BY NInNat DEF IInv, TypeOK, Place, Scan, NoBlockLost, Positions
  <1>1. order' = t
    BY <1>0, MoveInPlace DEF Place
  <1>2. /\ IsList(t)
        /\ \A j \in 1..(u - 1) : t[j] = order[j]
        /\ t[u] = order[k]
    BY <1>0, MovedList
  <1>3. order[k] \in Block
    BY <1>0 DEF IsList, Positions
  <1>4. /\ u' = (IF u = N THEN 1 ELSE u + 1) /\ k' = u + 1
        /\ level' = 0 /\ deadlocked' = FALSE /\ running' = TRUE
        /\ completed' = completed /\ runs' = runs /\ before' = before
        /\ inputs' = inputs
        /\ scheduled_galaxies' = scheduled_galaxies \cup ({order[k]} \cap Galaxies)
    BY <1>0 DEF Place, NextUnscheduled, InnerScheduled
  <1> HIDE DEF t
  <1>5. TypeOK'
    <2>1. order' \in [Positions -> Block]
      BY <1>1, <1>2 DEF IsList
    <2>2. u' \in 1..(N + 1) /\ k' \in 1..(N + 1) /\ u' <= N
      BY <1>0, <1>4
    <2>3. level' \in 0..2 /\ runs' \in 0..MaxRuns
      BY <1>0, <1>4 DEF TypeOK
    <2>4. /\ inputs' \in [Block -> SUBSET (Block \cup {Parent})]
          /\ before' \in [Positions -> Block]
          /\ completed' \in BOOLEAN /\ deadlocked' \in BOOLEAN /\ running' \in BOOLEAN
          /\ scheduled_galaxies' \subseteq Galaxies
      BY <1>0, <1>4 DEF TypeOK
    <2> QED BY <2>1, <2>2, <2>3, <2>4 DEF TypeOK
  <1>6. NoBlockLost'
    BY <1>1, <1>2 DEF NoBlockLost, IsList
  <1>7. Scan' /\ Levels'
    BY <1>0, <1>4 DEF Scan, Levels
  <1>8. Inner'
    <2>1. Scheduled \cap Galaxies \subseteq scheduled_galaxies
      BY <1>0 DEF IInv, Inner
    <2>2. {order'[j] : j \in 1..u} \cap Galaxies \subseteq scheduled_galaxies'
      <3> SUFFICES ASSUME NEW j \in 1..u, order'[j] \in Galaxies
                   PROVE  order'[j] \in scheduled_galaxies'
        OBVIOUS
      <3>1. CASE j = u
        BY <1>1, <1>2, <1>4, <3>1
      <3>2. CASE j # u
        <4>1. j \in 1..(u - 1)
          BY <1>0, <3>2
        <4>2. order'[j] = order[j] /\ order[j] \in Scheduled
          BY <1>1, <1>2, <4>1 DEF Scheduled
        <4> QED BY <1>4, <2>1, <4>2
      <3> QED BY <3>1, <3>2
    <2>3. Scheduled' \cap Galaxies \subseteq scheduled_galaxies'
      <3>1. Scheduled' \subseteq {order'[j] : j \in 1..u}
        <4>1. Scheduled' = {order'[j] : j \in 1..(u' - 1)}
          BY DEF Scheduled
        <4>2. 1..(u' - 1) \subseteq 1..u
          BY <1>0, <1>4
        <4> QED BY <4>1, <4>2
      <3> QED BY <2>2, <3>1
    <2>4. u = N => Galaxies \subseteq scheduled_galaxies'
      <3> SUFFICES ASSUME u = N PROVE Galaxies \subseteq scheduled_galaxies'
        OBVIOUS
      <3>1. {order'[j] : j \in 1..N} = Block
        BY <1>1, <1>2, ListIsAll
      <3> QED BY <2>2, <3>1, BlockAssumption
    <2>5. completed => k = u \/ k = N + 1
      BY <1>0 DEF IInv, Inner
    <2>6. k' = u' \/ (u = N /\ k' = N + 1)
      BY <1>0, <1>4
    <2> QED BY <1>4, <2>3, <2>4, <2>6 DEF Inner, GalaxiesScheduled, Returned
  <1>9. ASSUME FeedForward' PROVE InOrder'
    <2>0. FeedForward /\ InOrder
      BY <1>4, <1>9 DEF FeedForward, IInv
    <2>1. \A j \in u..N : order[j] \notin inputs[order[k]]
      <3>1. Ready0(order[k])
        BY <2>0 DEF Place, Ready, InOrder
      <3> QED BY <3>1 DEF Ready0, Unscheduled
    <2>2. SortedTo(t, u)
      <3>1. SortedTo(order, u - 1)
        BY <1>0, <2>0 DEF InOrder
      <3> QED BY <1>0, <2>1, <3>1, PlacedSorted DEF t
    <2>3. \A j : SortedTo(order, j)' <=> SortedTo(t, j)
      BY <1>1, <1>4 DEF SortedTo
    <2>4. SortedTo(order, u - 1)'
      BY <1>0, <1>4, <2>2, <2>3 DEF SortedTo
    <2>5. completed => k = u
      BY <1>0, <2>0 DEF InOrder
    <2>6. completed => k' = u' \/ (k' = N + 1 /\ SortedTo(order, N)')
      BY <1>0, <1>4, <2>2, <2>3, <2>5
    <2>7. runs > 1 => order' = before' /\ SortedTo(order, N)' /\ completed
      <3> SUFFICES ASSUME runs > 1
                   PROVE  order' = before' /\ SortedTo(order, N)' /\ completed
        OBVIOUS
      <3>1. order = before /\ SortedTo(order, N) /\ completed
        BY <1>0, <2>0 DEF InOrder
      <3>2. t = order
        BY <1>0, <2>5, <3>1, MoveInPlace DEF t
      <3> QED BY <1>1, <1>4, <2>3, <3>1, <3>2
    <2> QED BY <1>4, <2>4, <2>6, <2>7 DEF InOrder, Returned
  <1> QED BY <1>5, <1>6, <1>7, <1>8, <1>9 DEF IInv

LEMMA SkipIInv == IInv /\ Skip => IInv'
  <1> SUFFICES ASSUME IInv, Skip PROVE IInv'
    OBVIOUS
  <1> DEFINE u == pb_unsched
             k == pblock
  <1>0. /\ N \in Nat /\ u \in 1..N /\ k \in u..N
        /\ TypeOK /\ IsList(order) /\ running
    BY NInNat DEF IInv, TypeOK, Skip, Scan, NoBlockLost
  <1>1. /\ k' = k + 1 /\ completed' = FALSE
        /\ u' = u /\ level' = level /\ deadlocked' = deadlocked /\ order' = order
        /\ inputs' = inputs /\ running' = running /\ runs' = runs
        /\ before' = before /\ scheduled_galaxies' = scheduled_galaxies
    BY DEF Skip
  <1>2. /\ \A b : Ready0(b)' <=> Ready0(b)
        /\ \A b : Ready1(b)' <=> Ready1(b)
        /\ Scheduled' = Scheduled
    BY <1>1 DEF Ready0, Ready1, Scheduled, Unscheduled
  <1>3. TypeOK'
    <2>1. k' \in 1..(N + 1)
      BY <1>0, <1>1
    <2> QED BY <1>0, <1>1, <2>1 DEF TypeOK
  <1>4. NoBlockLost' /\ Scan'
    BY <1>0, <1>1 DEF NoBlockLost, IsList, Scan
  <1>5. level < 2 /\ (level = 0 => ~Ready0(order[k])) /\ (level = 1 => ~Ready1(order[k]))
    BY <1>0 DEF Skip, Ready, TypeOK
  <1>6. Levels'
    <2>1. Levels
      BY DEF IInv
    <2>2. \A i \in u..k : i \in u..(k - 1) \/ i = k
      BY <1>0
    <2>3. (u..(k - 1))' = u..k
      BY <1>0, <1>1
    <2>4. level \in 0..1
      BY <1>0, <1>5 DEF TypeOK
    <2>5. level = 0 /\ deadlocked => \A i \in u..k : ~Ready0(order[i])
      BY <1>0, <1>5, <2>1, <2>2 DEF Levels
    <2>6. level = 1 => \A i \in u..k : ~Ready1(order[i])
      BY <1>0, <1>5, <2>1, <2>2 DEF Levels
    <2>7. /\ level >= 1 => deadlocked
          /\ level >= 1 => \A i \in u..N : ~Ready0(order[i])
      BY <1>0, <2>1 DEF Levels
    <2>8. \A i : /\ Ready0(order[i])' <=> Ready0(order[i])
                 /\ Ready1(order[i])' <=> Ready1(order[i])
      BY <1>1, <1>2
    <2>9. /\ (level = 0 /\ deadlocked)' =>
                \A i \in (u..(k - 1))' : ~Ready0(order[i])'
          /\ (level = 1)' => \A i \in (u..(k - 1))' : ~Ready1(order[i])'
          /\ (level >= 1)' => \A i \in (u..N)' : ~Ready0(order[i])'
      BY <1>1, <2>3, <2>5, <2>6, <2>7, <2>8
    <2>10. ~(level' >= 2) /\ (level >= 1 => deadlocked)'
      BY <1>1, <2>4, <2>7
    <2> QED BY <2>9, <2>10, Zenon DEF Levels
  <1>7. Inner'
    BY <1>0, <1>1, <1>2 DEF IInv, Inner, GalaxiesScheduled, Returned
  <1>8. ASSUME FeedForward' PROVE InOrder'
    <2>0. FeedForward /\ InOrder
      BY <1>1, <1>8 DEF FeedForward, IInv
    <2>1. \A j : SortedTo(order, j)' <=> SortedTo(order, j)
      BY <1>1 DEF SortedTo
    <2>2. ~(runs > 1)
      <3> SUFFICES ASSUME runs > 1 PROVE FALSE
        OBVIOUS
      <3>1. SortedTo(order, N) /\ completed
        BY <1>0, <2>0 DEF InOrder
      <3>2. k = u
        BY <1>0, <2>0, <3>1 DEF InOrder
      <3>3. Ready0(order[k])
        BY <1>0, <3>1, <3>2 DEF SortedTo, Ready0, Unscheduled
      <3> QED BY <1>5, <2>0, <3>3 DEF InOrder
    <2> QED BY <1>0, <1>1, <2>0, <2>1, <2>2 DEF InOrder, Returned
  <1> QED BY <1>3, <1>4, <1>6, <1>7, <1>8 DEF IInv

LEMMA NextPassIInv == IInv /\ NextPass => IInv'
  <1> SUFFICES ASSUME IInv, NextPass PROVE IInv'
    OBVIOUS
  <1> DEFINE u == pb_unsched
             k == pblock
  <1>0. /\ N \in Nat /\ u \in 1..N /\ k = N + 1
        /\ TypeOK /\ IsList(order) /\ running /\ ~completed
    BY NInNat DEF IInv, TypeOK, NextPass, Scan, NoBlockLost
  <1>1. /\ k' = u /\ completed' = TRUE /\ deadlocked' = TRUE
        /\ level' = (IF deadlocked THEN level + 1 ELSE level)
        /\ u' = u /\ order' = order
        /\ inputs' = inputs /\ running' = running /\ runs' = runs
        /\ before' = before /\ scheduled_galaxies' = scheduled_galaxies
    BY DEF NextPass
  <1>2. /\ \A b : Ready0(b)' <=> Ready0(b)
        /\ \A b : Ready1(b)' <=> Ready1(b)
        /\ Scheduled' = Scheduled
    BY <1>1 DEF Ready0, Ready1, Scheduled, Unscheduled
  <1>3. /\ level \in 0..1
        /\ level = 1 => deadlocked
        /\ deadlocked => \A i \in u..N : ~Ready0(order[i])
        /\ level = 1 => \A i \in u..N : ~Ready1(order[i])
    <2>1. Levels
      BY DEF IInv
    <2>2. k - 1 = N /\ k # u
      BY <1>0
    <2>3. level \in 0..1
      BY <1>0, <2>1, <2>2 DEF Levels, TypeOK
    <2> QED BY <1>0, <2>1, <2>2, <2>3 DEF Levels
  <1>4. TypeOK'
    <2>1. k' \in 1..(N + 1) /\ level' \in 0..2
      BY <1>0, <1>1, <1>3
    <2> QED BY <1>0, <1>1, <2>1 DEF TypeOK
  <1>5. NoBlockLost' /\ Scan'
    BY <1>0, <1>1 DEF NoBlockLost, IsList, Scan
  <1>6. Levels'
    <2>1. (u..(k - 1))' = {}
      BY <1>0, <1>1
    <2>2. level' >= 1 => deadlocked
      BY <1>1, <1>3
    <2>3. level' >= 2 => level = 1
      BY <1>1, <1>3
    <2> QED BY <1>0, <1>1, <1>2, <1>3, <2>1, <2>2, <2>3 DEF Levels
  <1>7. Inner'
    BY <1>0, <1>1, <1>2 DEF IInv, Inner, GalaxiesScheduled, Returned
  <1>8. ASSUME FeedForward' PROVE InOrder'
    <2>0. FeedForward /\ InOrder
      BY <1>1, <1>8 DEF FeedForward, IInv
    <2>1. \A j : SortedTo(order, j)' <=> SortedTo(order, j)
      BY <1>1 DEF SortedTo
    <2>2. ~deadlocked
      <3>1. Unscheduled \in (SUBSET Block) \ {{}}
        <4>1. Unscheduled \subseteq Block
          BY <1>0 DEF Unscheduled, IsList, Positions
        <4>2. order[u] \in Unscheduled
          BY <1>0 DEF Unscheduled
        <4> QED BY <4>1, <4>2
      <3>2. PICK b \in Unscheduled : inputs[b] \cap Unscheduled = {}
        BY <2>0, <3>1 DEF FeedForward
      <3>3. \E i \in u..N : Ready0(order[i])
        BY <3>2 DEF Unscheduled, Ready0
      <3> QED BY <1>3, <3>3
    <2>3. ~(runs > 1)
      BY <1>0, <2>0 DEF InOrder
    <2> QED BY <1>0, <1>1, <2>0, <2>1, <2>2, <2>3 DEF InOrder, Returned
  <1> QED BY <1>4, <1>5, <1>6, <1>7, <1>8 DEF IInv

LEMMA ReturnIInv == IInv /\ Return => IInv'
  <1> SUFFICES ASSUME IInv, Return PROVE IInv'
    OBVIOUS
  <1>0. /\ N \in Nat /\ pb_unsched \in 1..N /\ pblock = N + 1
        /\ TypeOK /\ IsList(order) /\ running /\ completed
    BY NInNat DEF IInv, TypeOK, Return, Scan, NoBlockLost
  <1>1. /\ running' = FALSE
        /\ pblock' = pblock /\ pb_unsched' = pb_unsched /\ level' = level
        /\ completed' = completed /\ deadlocked' = deadlocked /\ order' = order
        /\ inputs' = inputs /\ runs' = runs /\ before' = before
        /\ scheduled_galaxies' = scheduled_galaxies
    BY DEF Return
  <1>2. pblock # pb_unsched
    BY <1>0
  <1>3. TypeOK' /\ NoBlockLost' /\ Scan' /\ Levels'
    BY <1>0, <1>1 DEF TypeOK, NoBlockLost, IsList, Scan, Levels
  <1>4. Inner'
    BY <1>0, <1>1, <1>2 DEF IInv, Inner, GalaxiesScheduled, Returned, TypeOK
  <1>5. ASSUME FeedForward' PROVE InOrder'
    <2>0. FeedForward /\ InOrder
      BY <1>1, <1>5 DEF FeedForward, IInv
    <2>1. \A j : SortedTo(order, j)' <=> SortedTo(order, j)
      BY <1>1 DEF SortedTo
    <2> QED BY <1>0, <1>1, <1>2, <2>0, <2>1 DEF InOrder, Returned
  <1> QED BY <1>3, <1>4, <1>5 DEF IInv

LEMMA NextIInv == IInv /\ [Next]_vars => IInv'
  <1> SUFFICES ASSUME IInv, [Next]_vars PROVE IInv'
    OBVIOUS
  <1>1. CASE Call
    BY <1>1, CallIInv
  <1>2. CASE Place
    BY <1>2, PlaceIInv
  <1>3. CASE Skip
    BY <1>3, SkipIInv
  <1>4. CASE NextPass
    BY <1>4, NextPassIInv
  <1>5. CASE Return
    BY <1>5, ReturnIInv
  <1>6. CASE UNCHANGED vars
    <2>1. /\ UNCHANGED <<pb_unsched, pblock, level, deadlocked, running, runs>>
          /\ UNCHANGED <<inputs, order, completed, before, scheduled_galaxies>>
      BY <1>6 DEF vars
    <2>2. TypeOK' /\ NoBlockLost' /\ Scan'
      BY <2>1 DEF IInv, TypeOK, NoBlockLost, IsList, Scan
    <2>3. Levels'
      BY <2>1 DEF IInv, Levels, Ready0, Ready1, Scheduled, Unscheduled
    <2>4. Inner'
      BY <2>1 DEF IInv, Inner, GalaxiesScheduled, Returned, Scheduled
    <2>5. (FeedForward => InOrder)'
      BY <2>1 DEF IInv, InOrder, Returned, FeedForward, SortedTo
    <2> QED BY <2>2, <2>3, <2>4, <2>5 DEF IInv
  <1> QED BY <1>1, <1>2, <1>3, <1>4, <1>5, <1>6 DEF Next

(* IInv is an invariant.                                                   *)
LEMMA Inductive == Spec => []IInv
  BY InitIInv, NextIInv, PTL DEF Spec

-----------------------------------------------------------------------------
(* The positions and the level stay in range: pb_unsched wraps to the      *)
(* first block behind the last, and no pass raises the level beyond 2.     *)
THEOREM TypeCorrect == Spec => []TypeOK
  <1>1. IInv => TypeOK
    BY DEF IInv
  <1> QED BY <1>1, Inductive, PTL

(* Whatever the topology, the sibling list holds every block of the galaxy *)
(* exactly once after any number of moves.                                 *)
THEOREM ListIsKept == Spec => []NoBlockLost
  <1>1. IInv => NoBlockLost
    BY DEF IInv
  <1> QED BY <1>1, Inductive, PTL

(* When Schedule() returns for a topology without feedback, every block    *)
(* stands behind all blocks it takes input from.                           *)
THEOREM ExecutionInDataOrder == Spec => []DataOrder
  <1>1. IInv => DataOrder
    BY DEF IInv, InOrder, DataOrder
  <1> QED BY <1>1, Inductive, PTL

(* Level 0 "is sufficient to schedule normal feedforward topologies        *)
(* completely".                                                            *)
THEOREM NoForcing == Spec => []Level0Suffices
  <1>1. IInv => Level0Suffices
    BY DEF IInv, InOrder, Level0Suffices
  <1> QED BY <1>1, Inductive, PTL

(* Levels 1 and 2 force a block only when the rules below have no          *)
(* candidate left among all the unscheduled blocks.                        *)
THEOREM ForcingIsLastResort == Spec => []ForcedOnlyWhenStuck
  <1>1. IInv => ForcedOnlyWhenStuck
    <2> SUFFICES ASSUME IInv, running PROVE ForcedOnlyWhenStuck
      BY DEF ForcedOnlyWhenStuck
    <2>1. /\ level >= 1 => \A i \in pb_unsched..N : ~Ready0(order[i])
          /\ level >= 2 => \A i \in pb_unsched..N : ~Ready1(order[i])
      BY DEF IInv, Levels
    <2> QED BY <2>1 DEF ForcedOnlyWhenStuck, Unscheduled
  <1> QED BY <1>1, Inductive, PTL

(* A further run command leaves the order of a topology without feedback   *)
(* alone.                                                                  *)
THEOREM SecondRunKeepsOrder == Spec => []OrderIsStable
  <1>1. IInv => OrderIsStable
    BY DEF IInv, InOrder, OrderIsStable
  <1> QED BY <1>1, Inductive, PTL

(* With or without feedback, Schedule() has called itself for every inner  *)
(* galaxy by the time it returns.                                          *)
THEOREM InnerGalaxiesScheduled == Spec => []GalaxiesScheduled
  <1>1. IInv => GalaxiesScheduled
    BY DEF IInv, Inner
  <1> QED BY <1>1, Inductive, PTL
=============================================================================
