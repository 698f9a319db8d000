--------------------------- MODULE BufferCellsProofs ---------------------------
(***************************************************************************)
(* The linked cells of BufferCells are the ring of Buffer, for every size, *)
(* delay, chunk and segment limit.                                         *)
(*                                                                         *)
(* What a walk along the links does is known once the cells are listed by  *)
(* age: a list at, from pnewest along pold, that meets every cell once and *)
(* whose last cell leads back to pnewest.  The invariant is that there is  *)
(* such a list; each operator of krn_buffer.c has a lemma that gives the   *)
(* list after it and compares the buffer, seen by age, with what the       *)
(* operator of Buffer makes.                                               *)
(***************************************************************************)
EXTENDS BufferCells, WellFoundedInduction, TLAPS

(* A set of numbers that is not empty has a smallest element.              *)
LEMMA NatBelow ==
    ASSUME NEW S \in SUBSET Nat, S # {}
    PROVE  \E x \in S : \A y \in S : x <= y
  <1>1. IsWellFoundedOn({ss \in Nat \X Nat : ss[1] < ss[2]}, Nat)
    BY NatLessThanWellFounded DEF OpToRel
  <1>2. \E x \in S : \A y \in S : ~(<<y, x>> \in {ss \in Nat \X Nat : ss[1] < ss[2]})
    BY <1>1, WFMin
  <1>3. PICK x \in S : \A y \in S : ~(<<y, x>> \in {ss \in Nat \X Nat : ss[1] < ss[2]})
    BY <1>2
  <1>4. \A y \in S : x <= y
    <2> SUFFICES ASSUME NEW y \in S PROVE x <= y
      OBVIOUS
    <2>1. <<y, x>> \in Nat \X Nat => ~(y < x)
      BY <1>3
    <2> QED BY <2>1
  <1> QED BY <1>4

(* Induction over 0..N, as a fact about a set of numbers.                  *)
LEMMA SetInduction ==
    ASSUME NEW N \in Nat, NEW T, 0 \in T, \A n \in 0..(N - 1) : n \in T => n + 1 \in T
    PROVE  0..N \subseteq T
  <1> SUFFICES ASSUME ~(0..N \subseteq T) PROVE FALSE
    OBVIOUS
  <1>1. PICK m \in (0..N) \ T : \A k \in (0..N) \ T : m <= k
    <2>1. (0..N) \ T \in SUBSET Nat /\ (0..N) \ T # {}
      OBVIOUS
    <2> QED BY <2>1, NatBelow
  <1>2. m - 1 \in 0..(N - 1) /\ m - 1 \in T
    BY <1>1
  <1> QED BY <1>1, <1>2

-----------------------------------------------------------------------------
(* Stepping around a circle of n cells. *)

(* Division with remainder, stated for the solver.                         *)
LEMMA Divided ==
    ASSUME NEW n \in Nat \ {0}, NEW x \in Int
    PROVE  /\ x = n * (x \div n) + (x % n)
           /\ x \div n \in Int /\ x % n \in 0..(n - 1)
  OBVIOUS

(* Less than one turn apart is no turn apart.                              *)
LEMMA NoTurn ==
    ASSUME NEW n \in Nat \ {0}, NEW d \in Int, NEW x \in (1 - n)..(n - 1), n * d = x
    PROVE  d = 0
  OBVIOUS

(* The remainder is unique.                                                *)
LEMMA SameRest ==
    ASSUME NEW n \in Nat \ {0}, NEW q \in Int, NEW p \in Int,
           NEW r \in 0..(n - 1), NEW s \in 0..(n - 1), n * q + r = n * p + s
    PROVE  r = s
  <1>1. n * (q - p) = s - r
    <2>1. n * (q - p) = n * q - n * p
      OBVIOUS
    <2> QED BY <2>1
  <1>2. s - r \in (1 - n)..(n - 1) /\ q - p \in Int
    OBVIOUS
  <1>3. q - p = 0
    BY <1>1, <1>2, NoTurn
  <1> QED BY <1>3

(* What has been written as a multiple and a rest has that rest.           *)
LEMMA RestIs ==
    ASSUME NEW n \in Nat \ {0}, NEW q \in Int, NEW r \in 0..(n - 1)
    PROVE  (n * q + r) % n = r
  <1>1. PICK y : y = n * q + r
    OBVIOUS
  <1>2. y \in Int
    BY <1>1
  <1>3. y = n * (y \div n) + (y % n) /\ y \div n \in Int /\ y % n \in 0..(n - 1)
    BY <1>2, Divided
  <1> QED BY <1>1, <1>3, SameRest

(* The ages one older and one newer than a. *)
Older(n, a) == IF a = n - 1 THEN 0 ELSE a + 1
Newer(n, a) == IF a = 0 THEN n - 1 ELSE a - 1

(* One step on along a circle of n cells, by age: the last is followed by  *)
(* the first.                                                              *)
LEMMA OneOlder ==
    ASSUME NEW n \in Nat \ {0}, NEW x \in Int
    PROVE  (x + 1) % n = Older(n, x % n)
  <1>1. PICK q \in Int, r \in 0..(n - 1) : x = n * q + r /\ r = x % n
    BY Divided
  <1>0. x = n * q + r
    BY <1>1
  <1>2. CASE r = n - 1
    <2>0. n * (q + 1) = n * q + n
      OBVIOUS
    <2>1. x + 1 = n * (q + 1) + 0 /\ q + 1 \in Int /\ 0 \in 0..(n - 1)
      <3>1. PICK y \in Int : y = n * q
        OBVIOUS
      <3>2. n * (q + 1) = y + n
        BY <2>0, <3>1
      <3>3. x = y + (n - 1)
        BY <1>0, <1>2, <3>1
      <3> QED BY <3>2, <3>3
    <2>2. (n * (q + 1) + 0) % n = 0
      BY <2>1, RestIs
    <2> QED BY <1>1, <1>2, <2>1, <2>2 DEF Older
  <1>3. CASE r # n - 1
    <2>1. x + 1 = n * q + (r + 1) /\ r + 1 \in 0..(n - 1)
      BY <1>0, <1>3
    <2>2. (n * q + (r + 1)) % n = r + 1
      BY <2>1, RestIs
    <2> QED BY <1>1, <1>3, <2>1, <2>2 DEF Older
  <1> QED BY <1>2, <1>3

(* One step back along a circle of n cells, by age.                        *)
LEMMA OneNewer ==
    ASSUME NEW n \in Nat \ {0}, NEW x \in Int
    PROVE  (x - 1) % n = Newer(n, x % n)
  <1>1. PICK q \in Int, r \in 0..(n - 1) : x = n * q + r /\ r = x % n
    BY Divided
  <1>0. x = n * q + r
    BY <1>1
  <1>2. CASE r = 0
    <2>0. n * (q - 1) = n * q - n
      OBVIOUS
    <2>1. x - 1 = n * (q - 1) + (n - 1) /\ q - 1 \in Int /\ n - 1 \in 0..(n - 1)
      <3>1. PICK y \in Int : y = n * q
        OBVIOUS
      <3>2. n * (q - 1) = y - n
        BY <2>0, <3>1
      <3>3. x = y
        BY <1>0, <1>2, <3>1
      <3> QED BY <3>2, <3>3
    <2>2. (n * (q - 1) + (n - 1)) % n = n - 1
      BY <2>1, RestIs
    <2> QED BY <1>1, <1>2, <2>1, <2>2 DEF Newer
  <1>3. CASE r # 0
    <2>1. x - 1 = n * q + (r - 1) /\ r - 1 \in 0..(n - 1)
      BY <1>0, <1>3
    <2>2. (n * q + (r - 1)) % n = r - 1
      BY <2>1, RestIs
    <2> QED BY <1>1, <1>3, <2>1, <2>2 DEF Newer
  <1> QED BY <1>2, <1>3

(* An age is its own rest.                                                 *)
LEMMA AgeIs ==
    ASSUME NEW n \in Nat \ {0}, NEW a \in 0..(n - 1)
    PROVE  a % n = a
  OBVIOUS

-----------------------------------------------------------------------------
(* Walks. *)

Steps(p, link, c, k) ==
    p = [i \in 0..k |-> IF i = 0 THEN c ELSE link[p[i - 1]]]

(* Following a link k times is defined, wherever it leads.                 *)
LEMMA StepsRun ==
    ASSUME NEW link, NEW c, NEW k \in Nat
    PROVE  \E p : Steps(p, link, c, k)
<1> DEFINE T == {n \in 0..k : \E p : Steps(p, link, c, n)}
<1>1. 0 \in T
  <2>1. Steps([i \in 0..0 |-> c], link, c, 0)
    BY DEF Steps
  <2> QED
    BY <2>1
<1>2. ASSUME NEW n \in 0..(k - 1), n \in T PROVE n + 1 \in T
  <2>1. PICK p : Steps(p, link, c, n)
    BY <1>2
  <2> DEFINE q == [i \in 0..(n + 1) |-> IF i <= n THEN p[i] ELSE link[p[n]]]
  <2>2. \A i \in 0..n : p[i] = IF i = 0 THEN c ELSE link[p[i - 1]]
    BY <2>1 DEF Steps
  <2>3. ASSUME NEW i \in 0..(n + 1)
        PROVE  q[i] = IF i = 0 THEN c ELSE link[q[i - 1]]
    <3>1. CASE i \in 1..n
      <4>1. i - 1 \in 0..(n + 1) /\ i - 1 <= n /\ i \in 0..n /\ i # 0
        BY <3>1
      <4>2. q[i] = p[i] /\ q[i - 1] = p[i - 1]
        BY <4>1
      <4> QED
        BY <2>2, <4>1, <4>2
    <3>2. CASE i = 0
      BY <2>2, <3>2
    <3>3. CASE i = n + 1
      <4>1. q[i] = link[p[n]] /\ i - 1 = n /\ n \in 0..(n + 1) /\ i # 0
        BY <3>3
      <4>2. q[n] = p[n]
        BY <4>1
      <4> QED
        BY <4>1, <4>2
    <3> QED
      BY <3>1, <3>2, <3>3
  <2>4. q = [i \in 0..(n + 1) |-> IF i = 0 THEN c ELSE link[q[i - 1]]]
    <3> DEFINE r == [i \in 0..(n + 1) |-> IF i = 0 THEN c ELSE link[q[i - 1]]]
    <3>1. \A i \in 0..(n + 1) : q[i] = r[i]
      BY <2>3
    <3> QED
      BY <3>1
  <2>5. Steps(q, link, c, n + 1) /\ n + 1 \in 0..k
    <3> HIDE DEF q
    <3> QED
      BY <2>4 DEF Steps
  <2> QED
    BY <2>5
<1>3. 0..k \subseteq T
  <2> HIDE DEF T
  <2> QED
    BY <1>1, <1>2, SetInduction
<1> QED
  BY <1>3

(* The cells on the way of a walk. *)
Way(p, link, c, k) ==
    p[0] = c /\ \A i \in 1..k : p[i] = link[p[i - 1]]

(* The function that Walked defines takes one link at each step.           *)
LEMMA StepsWay ==
    ASSUME NEW link, NEW c, NEW k \in Nat, NEW p, Steps(p, link, c, k)
    PROVE  Way(p, link, c, k)
  <1>1. \A i \in 0..k : p[i] = IF i = 0 THEN c ELSE link[p[i - 1]]
    BY DEF Steps
  <1> QED BY <1>1 DEF Way

(* Walking to older cells takes k steps along pold.                        *)
LEMMA WalkedOlder ==
    ASSUME NEW b, NEW c, NEW k \in Nat \ {0}
    PROVE  \E p : Way(p, b.pold, c, k) /\ Walked(b, c, k) = p[k]
<1> DEFINE u == CHOOSE p : Steps(p, b.pold, c, k)
<1>1. Steps(u, b.pold, c, k)
  BY StepsRun
<1>2. Walked(b, c, k) = u[k]
  <2>1. k > 0
    OBVIOUS
  <2> QED
    BY <2>1 DEF Walked, Steps
<1> HIDE DEF u
<1> QED
  BY <1>1, <1>2, StepsWay

(* Walking to newer cells takes -k steps along pnew.                       *)
LEMMA WalkedNewer ==
    ASSUME NEW b, NEW c, NEW k \in Int, k <= 0
    PROVE  \E p : Way(p, b.pnew, c, -k) /\ Walked(b, c, k) = p[-k]
<1> DEFINE u == CHOOSE p : Steps(p, b.pnew, c, -k)
<1>0. -k \in Nat /\ ~(k > 0)
  OBVIOUS
<1>1. Steps(u, b.pnew, c, -k)
  BY <1>0, StepsRun
<1>2. Walked(b, c, k) = u[-k]
  BY <1>0 DEF Walked, Steps
<1> HIDE DEF u
<1> QED
  BY <1>0, <1>1, <1>2, StepsWay

-----------------------------------------------------------------------------
(* The cells of b listed by age: from pnewest along pold, each cell once,  *)
(* with pnew the way back, and pnewest the next after the oldest.          *)
Order(b, at) ==
    /\ b.used \in Nat \ {0}
    /\ at \in [0..(b.used - 1) -> 1..b.used]
    /\ at[0] = b.pnewest
    /\ \A a, c \in 0..(b.used - 1) : at[a] = at[c] => a = c
    /\ \A c \in 1..b.used : \E a \in 0..(b.used - 1) : at[a] = c
    /\ \A a \in 0..(b.used - 1) : /\ b.pold[at[a]] = at[Older(b.used, a)]
                                  /\ b.pnew[at[a]] = at[Newer(b.used, a)]

(* The ages next to an age are ages.                                       *)
LEMMA NextAge ==
    ASSUME NEW n \in Nat \ {0}, NEW a \in 0..(n - 1)
    PROVE  Older(n, a) \in 0..(n - 1) /\ Newer(n, a) \in 0..(n - 1)
  BY DEF Older, Newer

(* They are the sums with 1 and -1 modulo n that Buffer computes.          *)
LEMMA OneStep ==
    ASSUME NEW n \in Nat \ {0}, NEW a \in 0..(n - 1)
    PROVE  /\ (a + 1) % n = Older(n, a) /\ (a + 1) % n \in 0..(n - 1)
           /\ (a + -1) % n = Newer(n, a) /\ (a + -1) % n \in 0..(n - 1)
  <1>1. a \in Int /\ a % n = a /\ a + -1 = a - 1
    BY AgeIs
  <1>2. (a + 1) % n = Older(n, a) /\ (a - 1) % n = Newer(n, a)
    BY <1>1, OneOlder, OneNewer
  <1> QED
    BY <1>1, <1>2, NextAge

(* A walk goes around the circle, whatever its length and direction.       *)
LEMMA WalkedIs ==
    ASSUME NEW b, NEW at, Order(b, at), NEW a \in 0..(b.used - 1), NEW k \in Int
    PROVE  /\ Walked(b, at[a], k) = at[(a + k) % b.used]
           /\ (a + k) % b.used \in 0..(b.used - 1)
<1> DEFINE n == b.used
<1>0. n \in Nat \ {0} /\ a \in Int
  BY DEF Order
<1>1. (a + k) % n \in 0..(n - 1)
  <2>1. a + k \in Int
    BY <1>0
  <2> QED
    BY <1>0, <2>1, Divided
<1>2. CASE k > 0
  <2>0. k \in Nat \ {0}
    BY <1>2
  <2>1. PICK p : Way(p, b.pold, at[a], k) /\ Walked(b, at[a], k) = p[k]
    BY <2>0, WalkedOlder
  <2> DEFINE T == {j \in 0..k : p[j] = at[(a + j) % n]}
  <2>2. 0 \in T
    <3>1. p[0] = at[a] /\ a + 0 = a
      BY <1>0, <2>1 DEF Way
    <3>2. a % n = a
      BY <1>0, AgeIs
    <3> QED
      BY <2>0, <3>1, <3>2
  <2>3. ASSUME NEW j \in 0..(k - 1), j \in T PROVE j + 1 \in T
    <3>1. PICK r : r = (a + j) % n
      OBVIOUS
    <3>2. r \in 0..(n - 1)
      <4>1. a + j \in Int
        BY <1>0
      <4> QED
        BY <1>0, <3>1, <4>1, Divided
    <3>3. j + 1 \in 1..k /\ (j + 1) - 1 = j
      OBVIOUS
    <3>4. p[j + 1] = b.pold[p[j]]
      BY <2>1, <3>3 DEF Way
    <3>5. p[j] = at[r]
      BY <2>3, <3>1
    <3>6. b.pold[at[r]] = at[Older(n, r)]
      BY <3>2 DEF Order
    <3>7. (a + (j + 1)) % n = Older(n, r)
      <4>1. a + j \in Int /\ a + (j + 1) = (a + j) + 1
        BY <1>0
      <4>2. ((a + j) + 1) % n = Older(n, (a + j) % n)
        BY <1>0, <4>1, OneOlder
      <4> QED
        BY <3>1, <4>1, <4>2
    <3> QED
      BY <3>3, <3>4, <3>5, <3>6, <3>7
  <2>4. k \in T
    <3> HIDE DEF T
    <3>1. 0..k \subseteq T
      BY <2>0, <2>2, <2>3, SetInduction
    <3> QED
      BY <2>0, <3>1
  <2> QED
    BY <1>1, <2>1, <2>4
<1>3. CASE k <= 0
  <2> DEFINE m == -k
  <2>0. m \in Nat
    BY <1>3
  <2>1. PICK p : Way(p, b.pnew, at[a], m) /\ Walked(b, at[a], k) = p[m]
    BY <1>3, WalkedNewer
  <2> DEFINE T == {j \in 0..m : p[j] = at[(a - j) % n]}
  <2>2. 0 \in T
    <3>1. p[0] = at[a] /\ a - 0 = a
      BY <1>0, <2>1 DEF Way
    <3>2. a % n = a
      BY <1>0, AgeIs
    <3> QED
      BY <2>0, <3>1, <3>2
  <2>3. ASSUME NEW j \in 0..(m - 1), j \in T PROVE j + 1 \in T
    <3>1. PICK r : r = (a - j) % n
      OBVIOUS
    <3>2. r \in 0..(n - 1)
      <4>1. a - j \in Int
        BY <1>0, <2>0
      <4> QED
        BY <1>0, <3>1, <4>1, Divided
    <3>3. j + 1 \in 1..m /\ (j + 1) - 1 = j /\ j + 1 \in 0..m
      BY <2>0
    <3>4. p[j + 1] = b.pnew[p[j]]
      BY <2>1, <3>3 DEF Way
    <3>5. p[j] = at[r]
      BY <2>3, <3>1
    <3>6. b.pnew[at[r]] = at[Newer(n, r)]
      BY <3>2 DEF Order
    <3>7. (a - (j + 1)) % n = Newer(n, r)
      <4>1. a - j \in Int /\ a - (j + 1) = (a - j) - 1
        BY <1>0, <2>0
      <4>2. ((a - j) - 1) % n = Newer(n, (a - j) % n)
        BY <1>0, <4>1, OneNewer
      <4> QED
        BY <3>1, <4>1, <4>2
    <3> QED
      BY <3>3, <3>4, <3>5, <3>6, <3>7
  <2>4. m \in T
    <3> HIDE DEF T
    <3>1. 0..m \subseteq T
      <4> HIDE DEF m
      <4> QED
        BY <2>0, <2>2, <2>3, SetInduction
    <3> QED
      BY <2>0, <3>1
  <2>5. a - m = a + k
    BY <1>0
  <2> QED
    BY <1>1, <2>1, <2>4, <2>5
<1> QED
  BY <1>1, <1>2, <1>3

-----------------------------------------------------------------------------
(* A buffer of linked cells: before it is opened it has none, after that   *)
(* all of them are in one circle.                                          *)
CellRecords(b) ==
    [ cellsize : Int, dmax : Nat, dmin : Nat, init_buffer : BOOLEAN,
      used : Nat, pnew : {b.pnew}, pold : {b.pold}, pdata : {b.pdata},
      cells_alloc : Nat, cells_stored : Int, pnewest : Nat,
      plast_wr : Nat, dlast_wr : Int, plast_rd : Nat, dlast_rd : Int,
      memseg : Nat ]

Closed(b) == b.cells_alloc = 0 /\ b.dlast_wr = 0 /\ b.dlast_rd = 0

Opened(b) ==
    /\ b.used = b.cells_alloc
    /\ b.pdata \in [1..b.used -> Sample]
    /\ b.plast_wr \in 1..b.used /\ b.plast_rd \in 1..b.used
    /\ \E at : Order(b, at)

CellsOK(b) ==
    /\ b \in CellRecords(b)
    /\ IF b.init_buffer THEN Opened(b) ELSE Closed(b)

(* The list has the cell of every age, and Age finds it.                   *)
LEMMA Aged ==
    ASSUME NEW b, NEW at, Order(b, at), b.used = b.cells_alloc,
           NEW a \in 0..(b.used - 1)
    PROVE  CellAt(b, a) = at[a] /\ Age(b, at[a]) = a
<1>0. b.used \in Nat \ {0} /\ at[0] = b.pnewest
  BY DEF Order
<1>1. ASSUME NEW c \in 0..(b.used - 1) PROVE CellAt(b, c) = at[c]
  <2>1. 0 \in 0..(b.used - 1) /\ c \in Int /\ 0 + c = c
    BY <1>0
  <2>2. Walked(b, at[0], c) = at[(0 + c) % b.used]
    BY <2>1, WalkedIs
  <2>3. c % b.used = c
    BY <1>0, AgeIs
  <2> QED
    BY <1>0, <2>1, <2>2, <2>3 DEF CellAt
<1>2. \A c \in 0..(b.used - 1) : CellAt(b, c) = at[a] => c = a
  BY <1>1 DEF Order
<1>3. Age(b, at[a]) \in 0..(b.used - 1) /\ CellAt(b, Age(b, at[a])) = at[a]
  BY <1>1 DEF Age
<1> QED
  BY <1>1, <1>2, <1>3

-----------------------------------------------------------------------------
(* add_cells. *)

(* The new cells are the oldest, the last of them allocated the youngest   *)
(* of them.                                                                *)
Spread(n, N, at) ==
    [a \in 0..(N - 1) |-> IF a < n THEN at[a] ELSE n + N - a]

(* d is b with m cells more between ins and the cell pnew of it. *)
Added(b, ins, m, d) ==
    /\ d \in CellRecords(d)
    /\ d.used = b.used + m
    /\ d.pdata = [c \in 1..(b.used + m) |-> IF c < b.used + 1 THEN b.pdata[c] ELSE Zero]
    /\ d.pnew = [c \in 1..(b.used + m) |->
                   IF c = ins THEN b.used + 1
                   ELSE IF c < b.used + 1 THEN b.pnew[c]
                   ELSE IF c < b.used + m THEN c + 1 ELSE b.pnew[ins]]
    /\ d.pold = [c \in 1..(b.used + m) |->
                   IF c = b.pnew[ins] THEN b.used + m
                   ELSE IF c < b.used + 1 THEN b.pold[c]
                   ELSE IF c = b.used + 1 THEN ins ELSE c - 1]
    /\ d.cellsize = b.cellsize /\ d.dmax = b.dmax /\ d.dmin = b.dmin
    /\ d.init_buffer = b.init_buffer
    /\ d.cells_alloc = b.cells_alloc /\ d.cells_stored = b.cells_stored
    /\ d.pnewest = b.pnewest
    /\ d.plast_wr = b.plast_wr /\ d.dlast_wr = b.dlast_wr
    /\ d.plast_rd = b.plast_rd /\ d.dlast_rd = b.dlast_rd
    /\ d.memseg = b.memseg

(* The fields of the buffer after add_cells, one by one.                   *)
LEMMA AddedFields ==
    ASSUME NEW b, b \in CellRecords(b), NEW m \in Nat, NEW ins
    PROVE  Added(b, ins, m, AddCells(b, ins, m))
<1>1. PICK pd : pd = [c \in 1..(b.used + m) |-> IF c < b.used + 1 THEN b.pdata[c] ELSE Zero]
  OBVIOUS
<1>2. PICK pn : pn = [c \in 1..(b.used + m) |->
                        IF c = ins THEN b.used + 1
                        ELSE IF c < b.used + 1 THEN b.pnew[c]
                        ELSE IF c < b.used + m THEN c + 1 ELSE b.pnew[ins]]
  OBVIOUS
<1>3. PICK po : po = [c \in 1..(b.used + m) |->
                        IF c = b.pnew[ins] THEN b.used + m
                        ELSE IF c < b.used + 1 THEN b.pold[c]
                        ELSE IF c = b.used + 1 THEN ins ELSE c - 1]
  OBVIOUS
<1>4. PICK d : d = AddCells(b, ins, m)
  OBVIOUS
<1>5. d = [b EXCEPT !.used = b.used + m, !.pdata = pd, !.pnew = pn, !.pold = po]
  BY <1>1, <1>2, <1>3, <1>4, Zenon DEF AddCells
<1>6. b.used + m \in Nat
  BY DEF CellRecords
<1>7. /\ d \in CellRecords(d)
      /\ d.used = b.used + m /\ d.pdata = pd /\ d.pnew = pn /\ d.pold = po
      /\ d.cellsize = b.cellsize /\ d.dmax = b.dmax /\ d.dmin = b.dmin
      /\ d.init_buffer = b.init_buffer
      /\ d.cells_alloc = b.cells_alloc /\ d.cells_stored = b.cells_stored
      /\ d.pnewest = b.pnewest
      /\ d.plast_wr = b.plast_wr /\ d.dlast_wr = b.dlast_wr
      /\ d.plast_rd = b.plast_rd /\ d.dlast_rd = b.dlast_rd
      /\ d.memseg = b.memseg
  BY <1>5, <1>6 DEF CellRecords
<1>8. Added(b, ins, m, d)
  BY <1>1, <1>2, <1>3, <1>7, Zenon DEF Added
<1> QED
  BY <1>4, <1>8

(* add_cells behind pnewest puts the new cells, the last allocated first,  *)
(* between pnewest and the oldest.                                         *)
LEMMA CellsAdded ==
    ASSUME NEW b, b \in CellRecords(b), NEW m \in Nat \ {0}, NEW at, Order(b, at)
    PROVE  Order(AddCells(b, b.pnewest, m), Spread(b.used, b.used + m, at))
<1>1. PICK d : d = AddCells(b, b.pnewest, m)
  OBVIOUS
<1>2. PICK n : n = b.used
  OBVIOUS
<1>0. PICK N : N = n + m
  OBVIOUS
<1>3. PICK to : to = Spread(n, N, at)
  OBVIOUS
<1>4. PICK behind : behind = b.pnew[b.pnewest]
  OBVIOUS
<1>5. n \in Nat \ {0} /\ N \in Nat \ {0} /\ N = n + m /\ n < N
  BY <1>2, <1>0 DEF Order
<1>6. /\ at \in [0..(n - 1) -> 1..n] /\ at[0] = b.pnewest
      /\ \A a, c \in 0..(n - 1) : at[a] = at[c] => a = c
      /\ \A c \in 1..n : \E a \in 0..(n - 1) : at[a] = c
      /\ \A a \in 0..(n - 1) : b.pold[at[a]] = at[Older(n, a)] /\ b.pnew[at[a]] = at[Newer(n, a)]
  BY <1>2 DEF Order
<1>7. behind = at[n - 1] /\ n - 1 \in 0..(n - 1) /\ 0 \in 0..(n - 1) /\ behind \in 1..n /\ at[0] \in 1..n
  <2>1. 0 \in 0..(n - 1) /\ n - 1 \in 0..(n - 1)
    BY <1>5
  <2>2. b.pnew[at[0]] = at[Newer(n, 0)] /\ Newer(n, 0) = n - 1
    BY <1>6, <2>1 DEF Newer
  <2> QED
    BY <1>4, <1>6, <2>1, <2>2
<1>8. /\ d.used = N /\ d.pnewest = at[0]
      /\ \A c \in 1..N :
           /\ d.pnew[c] = IF c = at[0] THEN n + 1
                          ELSE IF c < n + 1 THEN b.pnew[c]
                          ELSE IF c < N THEN c + 1 ELSE behind
           /\ d.pold[c] = IF c = behind THEN N
                          ELSE IF c < n + 1 THEN b.pold[c]
                          ELSE IF c = n + 1 THEN at[0] ELSE c - 1
  <2>1. Added(b, b.pnewest, m, d)
    BY <1>1, AddedFields
  <2>2. N = b.used + m /\ at[0] = b.pnewest
    BY <1>2, <1>5, <1>6
  <2>3. d.used = N /\ d.pnewest = at[0]
    BY <2>1, <2>2 DEF Added
  <2>4. ASSUME NEW c \in 1..N
        PROVE  d.pnew[c] = IF c = at[0] THEN n + 1
                           ELSE IF c < n + 1 THEN b.pnew[c]
                           ELSE IF c < N THEN c + 1 ELSE behind
    <3>1. d.pnew = [e \in 1..(b.used + m) |->
                      IF e = b.pnewest THEN b.used + 1
                      ELSE IF e < b.used + 1 THEN b.pnew[e]
                      ELSE IF e < b.used + m THEN e + 1 ELSE b.pnew[b.pnewest]]
      BY <2>1 DEF Added
    <3>2. d.pnew[c] = IF c = b.pnewest THEN b.used + 1
                      ELSE IF c < b.used + 1 THEN b.pnew[c]
                      ELSE IF c < b.used + m THEN c + 1 ELSE b.pnew[b.pnewest]
      BY <2>2, <3>1
    <3> QED
      BY <1>2, <1>4, <2>2, <3>2
  <2>5. ASSUME NEW c \in 1..N
        PROVE  d.pold[c] = IF c = behind THEN N
                           ELSE IF c < n + 1 THEN b.pold[c]
                           ELSE IF c = n + 1 THEN at[0] ELSE c - 1
    <3>1. d.pold = [e \in 1..(b.used + m) |->
                      IF e = b.pnew[b.pnewest] THEN b.used + m
                      ELSE IF e < b.used + 1 THEN b.pold[e]
                      ELSE IF e = b.used + 1 THEN b.pnewest ELSE e - 1]
      BY <2>1 DEF Added
    <3>2. d.pold[c] = IF c = b.pnew[b.pnewest] THEN b.used + m
                      ELSE IF c < b.used + 1 THEN b.pold[c]
                      ELSE IF c = b.used + 1 THEN b.pnewest ELSE c - 1
      BY <2>2, <3>1
    <3> QED
      BY <1>2, <1>4, <2>2, <3>2
  <2> QED
    BY <2>3, <2>4, <2>5
<1>9. to = [a \in 0..(N - 1) |-> IF a < n THEN at[a] ELSE n + N - a]
  BY <1>3 DEF Spread
<1>10. \A a \in 0..(N - 1) : a < n => a \in 0..(n - 1) /\ to[a] = at[a] /\ to[a] \in 1..n /\ to[a] \in 1..N
  <2> SUFFICES ASSUME NEW a \in 0..(N - 1), a < n
               PROVE  a \in 0..(n - 1) /\ to[a] = at[a] /\ to[a] \in 1..n /\ to[a] \in 1..N
    OBVIOUS
  <2>1. a \in 0..(n - 1) /\ to[a] = at[a]
    BY <1>5, <1>9
  <2>2. at[a] \in 1..n
    BY <1>6, <2>1
  <2> QED
    BY <1>5, <2>1, <2>2
<1>11. \A a \in 0..(N - 1) : ~(a < n) => to[a] = n + N - a /\ to[a] \in (n + 1)..N /\ to[a] \in 1..N
  BY <1>5, <1>9
<1>12. to \in [0..(N - 1) -> 1..N]
  <2>1. \A a \in 0..(N - 1) : to[a] \in 1..N
    BY <1>10, <1>11
  <2> QED
    BY <1>9, <2>1
<1>13. to[0] = at[0] /\ 0 \in 0..(N - 1)
  BY <1>5, <1>10
<1>14. ASSUME NEW a \in 0..(N - 1), NEW c \in 0..(N - 1), to[a] = to[c] PROVE a = c
  <2>1. a < n <=> c < n
    BY <1>5, <1>10, <1>11, <1>14
  <2>2. CASE a < n
    <3>1. at[a] = at[c] /\ a \in 0..(n - 1) /\ c \in 0..(n - 1)
      BY <1>10, <1>14, <2>1, <2>2
    <3> QED
      BY <1>6, <3>1
  <2>3. CASE ~(a < n)
    <3>1. n + N - a = n + N - c
      BY <1>11, <1>14, <2>1, <2>3
    <3> QED
      BY <1>5, <3>1
  <2> QED
    BY <2>2, <2>3
<1>15. ASSUME NEW c \in 1..N PROVE \E a \in 0..(N - 1) : to[a] = c
  <2>1. CASE c <= n
    <3>1. c \in 1..n
      BY <1>5, <2>1
    <3>2. PICK a \in 0..(n - 1) : at[a] = c
      BY <1>6, <3>1
    <3>3. a \in 0..(N - 1) /\ a < n
      BY <1>5
    <3> QED
      BY <1>10, <3>2, <3>3
  <2>2. CASE c > n
    <3>1. n + N - c \in 0..(N - 1) /\ ~(n + N - c < n) /\ n + N - (n + N - c) = c
      BY <1>5, <2>2
    <3> QED
      BY <1>11, <3>1
  <2> QED
    BY <1>5, <2>1, <2>2
<1>16. ASSUME NEW a \in 0..(N - 1) PROVE d.pold[to[a]] = to[Older(N, a)]
  <2>0. to[a] \in 1..N /\ a \in Nat
    BY <1>12
  <2>1. CASE a < n - 1
    <3>1. a < n /\ Older(N, a) = a + 1 /\ Older(n, a) = a + 1 /\ a + 1 < n /\ a + 1 \in 0..(N - 1)
          /\ a \in 0..(n - 1) /\ a # n - 1
      BY <1>5, <2>0, <2>1 DEF Older
    <3>2. to[a] = at[a] /\ to[a + 1] = at[a + 1] /\ at[a] \in 1..n
      BY <1>10, <3>1
    <3>3. at[a] # behind /\ at[a] < n + 1
      BY <1>5, <1>6, <1>7, <3>1, <3>2, SMTT(30)
    <3>4. d.pold[to[a]] = b.pold[at[a]]
      BY <1>8, <2>0, <3>2, <3>3
    <3> QED
      BY <1>6, <3>1, <3>2, <3>4
  <2>2. CASE a = n - 1
    <3>1. a < n /\ Older(N, a) = n /\ n \in 0..(N - 1) /\ ~(n < n)
      BY <1>5, <2>0, <2>2 DEF Older
    <3>2. to[a] = behind
      BY <1>7, <1>10, <2>2, <3>1
    <3>3. to[n] = n + N - n /\ n + N - n = N
      BY <1>5, <1>11, <3>1
    <3> QED
      BY <1>8, <2>0, <3>1, <3>2, <3>3
  <2>3. CASE a >= n /\ a # N - 1
    <3>1. ~(a < n) /\ Older(N, a) = a + 1 /\ a + 1 \in 0..(N - 1) /\ ~(a + 1 < n)
      BY <1>5, <2>0, <2>3 DEF Older
    <3>2. to[a] = n + N - a /\ to[a + 1] = n + N - (a + 1)
      BY <1>11, <3>1
    <3>3. to[a] # behind /\ ~(to[a] < n + 1) /\ to[a] # n + 1 /\ to[a] - 1 = to[a + 1]
      BY <1>5, <1>7, <2>0, <2>3, <3>1, <3>2
    <3> QED
      BY <1>8, <2>0, <3>1, <3>3
  <2>4. CASE a = N - 1
    <3>1. ~(a < n) /\ Older(N, a) = 0
      BY <1>5, <2>4 DEF Older
    <3>2. to[a] = n + N - a /\ n + N - a = n + 1
      BY <1>5, <1>11, <2>4, <3>1
    <3>3. to[a] # behind /\ ~(to[a] < n + 1) /\ to[a] = n + 1
      BY <1>5, <1>7, <3>2
    <3> QED
      BY <1>8, <1>13, <2>0, <3>1, <3>3
  <2> QED
    BY <1>5, <2>0, <2>1, <2>2, <2>3, <2>4
<1>17. ASSUME NEW a \in 0..(N - 1) PROVE d.pnew[to[a]] = to[Newer(N, a)]
  <2>0. to[a] \in 1..N /\ a \in Nat
    BY <1>12
  <2>1. CASE a = 0
    <3>1. Newer(N, a) = N - 1 /\ N - 1 \in 0..(N - 1) /\ ~(N - 1 < n)
      BY <1>5, <2>1 DEF Newer
    <3>2. to[N - 1] = n + N - (N - 1) /\ n + N - (N - 1) = n + 1
      BY <1>5, <1>11, <3>1
    <3> QED
      BY <1>8, <1>13, <2>0, <2>1, <3>1, <3>2
  <2>2. CASE a > 0 /\ a < n
    <3>1. Newer(N, a) = a - 1 /\ Newer(n, a) = a - 1 /\ a - 1 < n /\ a - 1 \in 0..(N - 1)
          /\ a \in 0..(n - 1) /\ a # 0
      BY <1>5, <2>0, <2>2 DEF Newer
    <3>2. to[a] = at[a] /\ to[a - 1] = at[a - 1] /\ at[a] \in 1..n
      BY <1>10, <2>2, <3>1
    <3>3. at[a] # at[0] /\ at[a] < n + 1
      BY <1>5, <1>6, <1>7, <3>1, <3>2, SMTT(30)
    <3>4. d.pnew[to[a]] = b.pnew[at[a]]
      BY <1>8, <2>0, <3>2, <3>3
    <3> QED
      BY <1>6, <3>1, <3>2, <3>4
  <2>3. CASE a = n
    <3>1. ~(a < n) /\ Newer(N, a) = n - 1 /\ n - 1 < n /\ n - 1 \in 0..(N - 1)
      BY <1>5, <2>3 DEF Newer
    <3>2. to[a] = N /\ to[n - 1] = behind
      BY <1>5, <1>7, <1>10, <1>11, <2>3, <3>1
    <3>3. to[a] # at[0] /\ ~(to[a] < n + 1) /\ ~(to[a] < N)
      BY <1>5, <1>7, <3>2
    <3> QED
      BY <1>8, <2>0, <3>1, <3>2, <3>3
  <2>4. CASE a > n
    <3>1. ~(a < n) /\ Newer(N, a) = a - 1 /\ a - 1 \in 0..(N - 1) /\ ~(a - 1 < n)
      BY <1>5, <2>0, <2>4 DEF Newer
    <3>2. to[a] = n + N - a /\ to[a - 1] = n + N - (a - 1)
      BY <1>11, <3>1
    <3>3. to[a] # at[0] /\ ~(to[a] < n + 1) /\ to[a] < N /\ to[a] + 1 = to[a - 1]
      BY <1>5, <1>7, <2>0, <2>4, <3>1, <3>2
    <3> QED
      BY <1>8, <2>0, <3>1, <3>3
  <2> QED
    BY <1>5, <2>0, <2>1, <2>2, <2>3, <2>4
<1>18. Order(d, to)
  BY <1>5, <1>8, <1>12, <1>13, <1>14, <1>15, <1>16, <1>17 DEF Order
<1> QED
  BY <1>1, <1>2, <1>0, <1>3, <1>18

-----------------------------------------------------------------------------
(* The buffer by age, for a list of its cells and the ages of the pointers. *)
View(b, at, i, j) ==
    [ cellsize |-> b.cellsize, dmax |-> b.dmax, dmin |-> b.dmin,
      init_buffer |-> b.init_buffer,
      ring |-> [a \in 0..(b.used - 1) |-> b.pdata[at[a]]],
      cells_alloc |-> b.used, cells_stored |-> b.cells_stored,
      plast_wr |-> i, dlast_wr |-> b.dlast_wr,
      plast_rd |-> j, dlast_rd |-> b.dlast_rd,
      memseg |-> b.memseg ]

(* A record of Buffer as the singleton of its fields: two records with the *)
(* same fields are the same.                                               *)
Fields(b, ring, n, stored, pw, dw, pr, dr, seg) ==
    [ cellsize : {b.cellsize}, dmax : {b.dmax}, dmin : {b.dmin},
      init_buffer : {b.init_buffer}, ring : {ring},
      cells_alloc : {n}, cells_stored : {stored},
      plast_wr : {pw}, dlast_wr : {dw}, plast_rd : {pr}, dlast_rd : {dr},
      memseg : {seg} ]

(* A buffer is known when each of its fields is.                           *)
LEMMA SameFields ==
    ASSUME NEW b, NEW ring, NEW n, NEW stored, NEW pw, NEW dw, NEW pr, NEW dr, NEW seg,
           NEW v \in Fields(b, ring, n, stored, pw, dw, pr, dr, seg),
           NEW w \in Fields(b, ring, n, stored, pw, dw, pr, dr, seg)
    PROVE  v = w
  BY DEF Fields

(* The fields of a buffer seen through a list of its cells.                *)
LEMMA ViewFields ==
    ASSUME NEW b, NEW at, NEW i, NEW j
    PROVE  View(b, at, i, j)
             \in Fields(b, [a \in 0..(b.used - 1) |-> b.pdata[at[a]]], b.used,
                        b.cells_stored, i, b.dlast_wr, j, b.dlast_rd, b.memseg)
<1>1. PICK ring : ring = [a \in 0..(b.used - 1) |-> b.pdata[at[a]]]
  OBVIOUS
<1>2. View(b, at, i, j)
        \in Fields(b, ring, b.used,
                   b.cells_stored, i, b.dlast_wr, j, b.dlast_rd, b.memseg)
  BY <1>1 DEF View, Fields
<1> QED
  BY <1>1, <1>2

Listed(b, at, i, j) ==
    /\ b \in CellRecords(b) /\ b.init_buffer = TRUE
    /\ b.used = b.cells_alloc
    /\ b.pdata \in [1..b.used -> Sample]
    /\ Order(b, at)
    /\ i \in 0..(b.used - 1) /\ j \in 0..(b.used - 1)
    /\ b.plast_wr = at[i] /\ b.plast_rd = at[j]

(* An open buffer has a list of its cells by age, with its two pointers in *)
(* it.                                                                     *)
LEMMA IsListed ==
    ASSUME NEW b, CellsOK(b), b.init_buffer
    PROVE  \E at, i, j : Listed(b, at, i, j)
<1>1. /\ b \in CellRecords(b) /\ b.init_buffer = TRUE /\ Opened(b)
  BY DEF CellsOK, CellRecords
<1>2. PICK at : Order(b, at)
  BY <1>1 DEF Opened
<1>3. PICK i \in 0..(b.used - 1) : at[i] = b.plast_wr
  BY <1>1, <1>2 DEF Order, Opened
<1>4. PICK j \in 0..(b.used - 1) : at[j] = b.plast_rd
  BY <1>1, <1>2 DEF Order, Opened
<1>5. Listed(b, at, i, j)
  BY <1>1, <1>2, <1>3, <1>4 DEF Listed, Opened
<1> QED
  BY <1>5

(* What is listed is a buffer of linked cells, and what Buffer sees of it. *)
LEMMA Viewed ==
    ASSUME NEW b, NEW at, NEW i, NEW j, Listed(b, at, i, j)
    PROVE  /\ CellsOK(b) /\ b.init_buffer
           /\ ByAge(b) = View(b, at, i, j)
<1>1. /\ b \in CellRecords(b) /\ b.init_buffer = TRUE /\ Order(b, at)
      /\ b.used = b.cells_alloc /\ b.used \in Nat \ {0}
      /\ i \in 0..(b.used - 1) /\ j \in 0..(b.used - 1)
      /\ b.plast_wr = at[i] /\ b.plast_rd = at[j]
      /\ at \in [0..(b.used - 1) -> 1..b.used]
  BY DEF Listed, Order
<1>2. CellsOK(b)
  <2>1. b.plast_wr \in 1..b.used /\ b.plast_rd \in 1..b.used
    BY <1>1
  <2> QED
    BY <1>1, <2>1 DEF CellsOK, Opened, Listed
<1>3. \A a \in 0..(b.used - 1) : CellAt(b, a) = at[a] /\ Age(b, at[a]) = a
  BY <1>1, Aged
<1>4. [a \in 0..(b.cells_alloc - 1) |-> b.pdata[CellAt(b, a)]]
        = [a \in 0..(b.used - 1) |-> b.pdata[at[a]]]
  BY <1>1, <1>3
<1>5. Age(b, b.plast_wr) = i /\ Age(b, b.plast_rd) = j
  BY <1>1, <1>3
<1>6. ByAge(b) = View(b, at, i, j)
  BY <1>1, <1>4, <1>5 DEF ByAge, View
<1> QED
  BY <1>1, <1>2, <1>6

(* An operation on listed cells that gives listed cells again, seen by age. *)
LEMMA ViewedBoth ==
    ASSUME NEW b, NEW at, NEW i, NEW j, Listed(b, at, i, j),
           NEW d, NEW to, NEW k, NEW l, Listed(d, to, k, l),
           NEW v, View(d, to, k, l) = v
    PROVE  CellsOK(d) /\ d.init_buffer /\ ByAge(d) = v
  BY Viewed

(* plast_rd = plast_rd->pnew *)
LEMMA ConsumedAs ==
    ASSUME NEW b, CellsOK(b), b.init_buffer
    PROVE  /\ CellsOK(Consumed(b)) /\ Consumed(b).init_buffer
           /\ ByAge(Consumed(b)) = Ring!Consumed(ByAge(b))
<1>1. PICK at, i, j : Listed(b, at, i, j)
  BY IsListed
<1>2. PICK d : d = Consumed(b)
  OBVIOUS
<1>3. PICK l : l = (j + -1) % b.used
  OBVIOUS
<1>4. b.used \in Nat \ {0} /\ j \in 0..(b.used - 1) /\ b \in CellRecords(b)
  BY <1>1 DEF Listed, Order
<1>5. l \in 0..(b.used - 1) /\ l = Newer(b.used, j)
  BY <1>3, <1>4, OneStep
<1>6. b.pnew[b.plast_rd] = at[l]
  BY <1>1, <1>4, <1>5 DEF Listed, Order
<1>7. at[l] \in Nat /\ b.cells_stored - 1 \in Int
  BY <1>1, <1>4, <1>5 DEF Listed, Order, CellRecords
<1>8. /\ d = [b EXCEPT !.plast_rd = at[l], !.cells_stored = b.cells_stored - 1]
  BY <1>2, <1>6 DEF Consumed
<1>9. /\ d \in CellRecords(d) /\ d.init_buffer = b.init_buffer
      /\ d.used = b.used /\ d.cells_alloc = b.cells_alloc
      /\ d.pdata = b.pdata /\ d.pnew = b.pnew /\ d.pold = b.pold /\ d.pnewest = b.pnewest
      /\ d.plast_wr = b.plast_wr /\ d.plast_rd = at[l]
      /\ d.cellsize = b.cellsize /\ d.dmax = b.dmax /\ d.dmin = b.dmin
      /\ d.cells_stored = b.cells_stored - 1 /\ d.memseg = b.memseg
      /\ d.dlast_wr = b.dlast_wr /\ d.dlast_rd = b.dlast_rd
  BY <1>4, <1>7, <1>8 DEF CellRecords
<1>10. Order(d, at)
  BY <1>1, <1>9 DEF Listed, Order
<1>11. Listed(d, at, i, l)
  BY <1>1, <1>5, <1>9, <1>10 DEF Listed
<1>12. View(d, at, i, l) = Ring!Consumed(View(b, at, i, j))
  <2>1. PICK ring : ring = [a \in 0..(b.used - 1) |-> b.pdata[at[a]]]
    OBVIOUS
  <2>2. [a \in 0..(d.used - 1) |-> d.pdata[at[a]]] = ring
    BY <1>9, <2>1
  <2>3. PICK v : v = View(b, at, i, j)
    OBVIOUS
  <2>4. v \in Fields(b, ring, b.used, b.cells_stored, i, b.dlast_wr, j, b.dlast_rd, b.memseg)
    BY <2>1, <2>3, ViewFields
  <2>5. Ring!Consumed(v) = [v EXCEPT !.plast_rd = l, !.cells_stored = b.cells_stored - 1]
    BY <1>3, <2>4 DEF Ring!Consumed, Ring!Walk, Fields
  <2>6. Ring!Consumed(v)
          \in Fields(b, ring, b.used, b.cells_stored - 1, i, b.dlast_wr, l, b.dlast_rd, b.memseg)
    BY <2>4, <2>5 DEF Fields
  <2>7. View(d, at, i, l)
          \in Fields(b, ring, b.used, b.cells_stored - 1, i, b.dlast_wr, l, b.dlast_rd, b.memseg)
    BY <1>9, <2>2 DEF View, Fields
  <2> QED
    BY <2>3, <2>6, <2>7, SameFields
<1> QED
  BY <1>1, <1>2, <1>11, <1>12, Viewed

(* BufferAccess(.., 1, delay). *)
LEMMA ReaderAtAs ==
    ASSUME NEW b, CellsOK(b), b.init_buffer, NEW delay \in Int
    PROVE  /\ CellsOK(ReaderAt(b, delay)) /\ ReaderAt(b, delay).init_buffer
           /\ ByAge(ReaderAt(b, delay)) = Ring!ReaderAt(ByAge(b), delay)
           /\ ReaderAt(b, delay).pdata[ReaderAt(b, delay).plast_rd]
                = ByAge(b).ring[Ring!ReaderAt(ByAge(b), delay).plast_rd]
           /\ ReaderAt(b, delay).pdata = b.pdata
<1>1. PICK at, i, j : Listed(b, at, i, j)
  BY IsListed
<1>2. PICK d : d = ReaderAt(b, delay)
  OBVIOUS
<1>3. PICK l : l = (j + (delay - b.dlast_rd)) % b.used
  OBVIOUS
<1>4. b.used \in Nat \ {0} /\ j \in 0..(b.used - 1) /\ b \in CellRecords(b) /\ Order(b, at)
      /\ b.plast_rd = at[j]
  BY <1>1 DEF Listed, Order
<1>5. delay - b.dlast_rd \in Int
  BY <1>4 DEF CellRecords
<1>6. Walked(b, b.plast_rd, delay - b.dlast_rd) = at[l] /\ l \in 0..(b.used - 1)
  <2>1. PICK k \in Int : k = delay - b.dlast_rd
    BY <1>5
  <2>2. Walked(b, at[j], k) = at[(j + k) % b.used] /\ (j + k) % b.used \in 0..(b.used - 1)
    BY <1>4, WalkedIs
  <2> QED
    BY <1>3, <1>4, <2>1, <2>2
<1>7. at[l] \in Nat
  BY <1>4, <1>6 DEF Order
<1>8. d = [b EXCEPT !.plast_rd = at[l], !.dlast_rd = delay]
  BY <1>2, <1>6 DEF ReaderAt
<1>9. /\ d \in CellRecords(d) /\ d.init_buffer = b.init_buffer
      /\ d.used = b.used /\ d.cells_alloc = b.cells_alloc
      /\ d.pdata = b.pdata /\ d.pnew = b.pnew /\ d.pold = b.pold /\ d.pnewest = b.pnewest
      /\ d.plast_wr = b.plast_wr /\ d.plast_rd = at[l]
      /\ d.cellsize = b.cellsize /\ d.dmax = b.dmax /\ d.dmin = b.dmin
      /\ d.cells_stored = b.cells_stored /\ d.memseg = b.memseg
      /\ d.dlast_wr = b.dlast_wr /\ d.dlast_rd = delay
  BY <1>4, <1>7, <1>8 DEF CellRecords
<1>10. Order(d, at)
  BY <1>4, <1>9 DEF Order
<1>11. Listed(d, at, i, l)
  BY <1>1, <1>6, <1>9, <1>10 DEF Listed
<1>12. PICK ring : ring = [a \in 0..(b.used - 1) |-> b.pdata[at[a]]]
  OBVIOUS
<1>13. PICK v : v = View(b, at, i, j)
  OBVIOUS
<1>14. v \in Fields(b, ring, b.used, b.cells_stored, i, b.dlast_wr, j, b.dlast_rd, b.memseg)
  BY <1>12, <1>13, ViewFields
<1>15. Ring!ReaderAt(v, delay) = [v EXCEPT !.plast_rd = l, !.dlast_rd = delay]
  BY <1>3, <1>14 DEF Ring!ReaderAt, Ring!Walk, Fields
<1>16. Ring!ReaderAt(v, delay)
         \in Fields(b, ring, b.used, b.cells_stored, i, b.dlast_wr, l, delay, b.memseg)
  BY <1>14, <1>15 DEF Fields
<1>17. View(d, at, i, l)
         \in Fields(b, ring, b.used, b.cells_stored, i, b.dlast_wr, l, delay, b.memseg)
  <2>1. [a \in 0..(d.used - 1) |-> d.pdata[at[a]]] = ring
    BY <1>9, <1>12
  <2> QED
    BY <1>9, <2>1 DEF View, Fields
<1>18. View(d, at, i, l) = Ring!ReaderAt(v, delay)
  BY <1>16, <1>17, SameFields
<1>19. ByAge(b) = v
  BY <1>1, <1>13, Viewed
<1>20. d.pdata[d.plast_rd] = v.ring[Ring!ReaderAt(v, delay).plast_rd]
  <2>1. Ring!ReaderAt(v, delay).plast_rd = l /\ v.ring = ring
    BY <1>14, <1>16 DEF Fields
  <2> QED
    BY <1>6, <1>9, <1>12, <2>1
<1>21. CellsOK(d) /\ d.init_buffer /\ ByAge(d) = View(d, at, i, l)
  BY <1>11, Viewed
<1> QED
  BY <1>2, <1>9, <1>18, <1>19, <1>20, <1>21

(* BufferAccess(.., 0, delay). *)
LEMMA WriterAtAs ==
    ASSUME NEW b, CellsOK(b), b.init_buffer, NEW delay \in Int
    PROVE  /\ CellsOK(WriterAt(b, delay)) /\ WriterAt(b, delay).init_buffer
           /\ ByAge(WriterAt(b, delay)) = Ring!WriterAt(ByAge(b), delay)
<1>1. PICK at, i, j : Listed(b, at, i, j)
  BY IsListed
<1>2. PICK d : d = WriterAt(b, delay)
  OBVIOUS
<1>3. PICK k : k = (i + (delay - b.dlast_wr)) % b.used
  OBVIOUS
<1>4. b.used \in Nat \ {0} /\ i \in 0..(b.used - 1) /\ b \in CellRecords(b) /\ Order(b, at)
      /\ b.plast_wr = at[i]
  BY <1>1 DEF Listed, Order
<1>5. delay - b.dlast_wr \in Int
  BY <1>4 DEF CellRecords
<1>6. Walked(b, b.plast_wr, delay - b.dlast_wr) = at[k] /\ k \in 0..(b.used - 1)
  <2>1. PICK m \in Int : m = delay - b.dlast_wr
    BY <1>5
  <2>2. Walked(b, at[i], m) = at[(i + m) % b.used] /\ (i + m) % b.used \in 0..(b.used - 1)
    BY <1>4, WalkedIs
  <2> QED
    BY <1>3, <1>4, <2>1, <2>2
<1>7. at[k] \in Nat
  BY <1>4, <1>6 DEF Order
<1>8. d = [b EXCEPT !.plast_wr = at[k], !.dlast_wr = delay]
  BY <1>2, <1>6 DEF WriterAt
<1>9. /\ d \in CellRecords(d) /\ d.init_buffer = b.init_buffer
      /\ d.used = b.used /\ d.cells_alloc = b.cells_alloc
      /\ d.pdata = b.pdata /\ d.pnew = b.pnew /\ d.pold = b.pold /\ d.pnewest = b.pnewest
      /\ d.plast_wr = at[k] /\ d.plast_rd = b.plast_rd
      /\ d.cellsize = b.cellsize /\ d.dmax = b.dmax /\ d.dmin = b.dmin
      /\ d.cells_stored = b.cells_stored /\ d.memseg = b.memseg
      /\ d.dlast_wr = delay /\ d.dlast_rd = b.dlast_rd
  BY <1>4, <1>7, <1>8 DEF CellRecords
<1>10. Order(d, at)
  BY <1>4, <1>9 DEF Order
<1>11. Listed(d, at, k, j)
  BY <1>1, <1>6, <1>9, <1>10 DEF Listed
<1>12. PICK ring : ring = [a \in 0..(b.used - 1) |-> b.pdata[at[a]]]
  OBVIOUS
<1>13. PICK v : v = View(b, at, i, j)
  OBVIOUS
<1>14. v \in Fields(b, ring, b.used, b.cells_stored, i, b.dlast_wr, j, b.dlast_rd, b.memseg)
  BY <1>12, <1>13, ViewFields
<1>15. Ring!WriterAt(v, delay) = [v EXCEPT !.plast_wr = k, !.dlast_wr = delay]
  BY <1>3, <1>14 DEF Ring!WriterAt, Ring!Walk, Fields
<1>16. Ring!WriterAt(v, delay)
         \in Fields(b, ring, b.used, b.cells_stored, k, delay, j, b.dlast_rd, b.memseg)
  BY <1>14, <1>15 DEF Fields
<1>17. View(d, at, k, j)
         \in Fields(b, ring, b.used, b.cells_stored, k, delay, j, b.dlast_rd, b.memseg)
  <2>1. [a \in 0..(d.used - 1) |-> d.pdata[at[a]]] = ring
    BY <1>9, <1>12
  <2> QED
    BY <1>9, <2>1 DEF View, Fields
<1>18. View(d, at, k, j) = Ring!WriterAt(v, delay)
  BY <1>16, <1>17, SameFields
<1> QED
  BY <1>1, <1>2, <1>11, <1>13, <1>18, Viewed

(* The star stores through the pointer it was given. *)
Written(b, x) == [b EXCEPT !.pdata[b.plast_wr] = x]

(* Storing a sample in the cell of the writer stores it at the writer's    *)
(* age.                                                                    *)
LEMMA WrittenAs ==
    ASSUME NEW b, CellsOK(b), b.init_buffer, NEW x \in Sample
    PROVE  /\ CellsOK(Written(b, x)) /\ Written(b, x).init_buffer
           /\ ByAge(Written(b, x)) = Ring!Stored(ByAge(b), x)
<1>1. PICK at, i, j : Listed(b, at, i, j)
  BY IsListed
<1>2. PICK d : d = Written(b, x)
  OBVIOUS
<1>3. PICK data : data = [b.pdata EXCEPT ![b.plast_wr] = x]
  OBVIOUS
<1>4. b.used \in Nat \ {0} /\ b \in CellRecords(b) /\ Order(b, at)
      /\ i \in 0..(b.used - 1) /\ b.plast_wr = at[i] /\ b.pdata \in [1..b.used -> Sample]
      /\ at \in [0..(b.used - 1) -> 1..b.used]
      /\ \A a, c \in 0..(b.used - 1) : at[a] = at[c] => a = c
  BY <1>1 DEF Listed, Order
<1>5. data \in [1..b.used -> Sample]
  BY <1>3, <1>4
<1>6. d = [b EXCEPT !.pdata = data]
  BY <1>2, <1>3, <1>4 DEF Written, CellRecords
<1>7. /\ d \in CellRecords(d) /\ d.init_buffer = b.init_buffer
      /\ d.used = b.used /\ d.cells_alloc = b.cells_alloc
      /\ d.pdata = data /\ d.pnew = b.pnew /\ d.pold = b.pold /\ d.pnewest = b.pnewest
      /\ d.plast_wr = b.plast_wr /\ d.plast_rd = b.plast_rd
      /\ d.cellsize = b.cellsize /\ d.dmax = b.dmax /\ d.dmin = b.dmin
      /\ d.cells_stored = b.cells_stored /\ d.memseg = b.memseg
      /\ d.dlast_wr = b.dlast_wr /\ d.dlast_rd = b.dlast_rd
  BY <1>4, <1>6 DEF CellRecords
<1>8. Order(d, at)
  BY <1>4, <1>7 DEF Order
<1>9. Listed(d, at, i, j)
  BY <1>1, <1>5, <1>7, <1>8 DEF Listed
<1>10. PICK ring : ring = [a \in 0..(b.used - 1) |-> b.pdata[at[a]]]
  OBVIOUS
<1>11. PICK ring1 : ring1 = [a \in 0..(b.used - 1) |-> IF a = i THEN x ELSE ring[a]]
  OBVIOUS
<1>12. PICK v : v = View(b, at, i, j)
  OBVIOUS
<1>13. v \in Fields(b, ring, b.used, b.cells_stored, i, b.dlast_wr, j, b.dlast_rd, b.memseg)
  BY <1>10, <1>12, ViewFields
<1>14. Ring!Stored(v, x) = [v EXCEPT !.ring = ring1]
  <2>1. v.cells_alloc = b.used /\ v.plast_wr = i /\ v.ring = ring
    BY <1>13 DEF Fields
  <2> QED
    BY <1>11, <2>1 DEF Ring!Stored
<1>15. Ring!Stored(v, x)
         \in Fields(b, ring1, b.used, b.cells_stored, i, b.dlast_wr, j, b.dlast_rd, b.memseg)
  BY <1>13, <1>14 DEF Fields
<1>16. View(d, at, i, j)
         \in Fields(b, ring1, b.used, b.cells_stored, i, b.dlast_wr, j, b.dlast_rd, b.memseg)
  <2>1. ASSUME NEW a \in 0..(b.used - 1) PROVE data[at[a]] = IF a = i THEN x ELSE ring[a]
    <3>1. at[a] \in 1..b.used /\ (at[a] = at[i] <=> a = i)
      BY <1>4
    <3>2. ring[a] = b.pdata[at[a]]
      BY <1>10
    <3> QED
      BY <1>3, <1>4, <3>1, <3>2
  <2>2. [a \in 0..(d.used - 1) |-> d.pdata[at[a]]] = ring1
    BY <1>7, <1>11, <2>1
  <2> QED
    BY <1>7, <2>2 DEF View, Fields
<1>17. View(d, at, i, j) = Ring!Stored(v, x)
  BY <1>15, <1>16, SameFields
<1> QED
  BY <1>1, <1>2, <1>9, <1>12, <1>17, Viewed

(* A step to the older cell and one to the newer undo each other.          *)
LEMMA BackAndForth ==
    ASSUME NEW n \in Nat \ {0}, NEW a \in 0..(n - 1)
    PROVE  Newer(n, Older(n, a)) = a /\ Older(n, Newer(n, a)) = a
  BY DEF Older, Newer

(* pnewest = pnewest->pnew: the list from the cell that was the oldest.    *)
LEMMA AdvancedAs ==
    ASSUME NEW b, CellsOK(b), b.init_buffer
    PROVE  /\ CellsOK(Advanced(b)) /\ Advanced(b).init_buffer
           /\ ByAge(Advanced(b)) = Ring!Advanced(ByAge(b))
<1>1. PICK at, i, j : Listed(b, at, i, j)
  BY IsListed
<1>2. PICK d : d = Advanced(b)
  OBVIOUS
<1>3. PICK n : n = b.used
  OBVIOUS
<1>4. /\ n \in Nat \ {0} /\ b \in CellRecords(b)
      /\ j \in 0..(n - 1) /\ b.plast_rd = at[j] /\ b.cells_alloc = n
      /\ at \in [0..(n - 1) -> 1..n] /\ at[0] = b.pnewest
      /\ \A a, c \in 0..(n - 1) : at[a] = at[c] => a = c
      /\ \A c \in 1..n : \E a \in 0..(n - 1) : at[a] = c
      /\ \A a \in 0..(n - 1) : b.pold[at[a]] = at[Older(n, a)] /\ b.pnew[at[a]] = at[Newer(n, a)]
  BY <1>1, <1>3 DEF Listed, Order
<1>5. PICK to : to = [a \in 0..(n - 1) |-> at[(a + -1) % n]]
  OBVIOUS
<1>6. \A a \in 0..(n - 1) : /\ to[a] = at[Newer(n, a)]
                            /\ Newer(n, a) \in 0..(n - 1) /\ Older(n, a) \in 0..(n - 1)
                            /\ Newer(n, Older(n, a)) = a /\ Older(n, Newer(n, a)) = a
  BY <1>4, <1>5, OneStep, NextAge, BackAndForth
<1>7. 0 \in 0..(n - 1) /\ b.pnew[b.pnewest] = to[0] /\ to[0] \in Nat
  <2>1. 0 \in 0..(n - 1)
    BY <1>4
  <2>2. PICK o \in 0..(n - 1) : o = Newer(n, 0)
    BY <1>6, <2>1
  <2>3. at[o] \in 1..n /\ to[0] = at[o] /\ b.pnew[at[0]] = at[o]
    BY <1>4, <1>6, <2>1, <2>2
  <2> QED
    BY <1>4, <2>1, <2>3
<1>8. d = [b EXCEPT !.pnewest = to[0], !.plast_wr = to[0], !.dlast_wr = 0,
                    !.cells_stored = b.cells_stored + 1]
  BY <1>2, <1>7 DEF Advanced
<1>9. /\ d \in CellRecords(d) /\ d.init_buffer = b.init_buffer
      /\ d.used = n /\ d.cells_alloc = b.cells_alloc
      /\ d.pdata = b.pdata /\ d.pnew = b.pnew /\ d.pold = b.pold /\ d.pnewest = to[0]
      /\ d.plast_wr = to[0] /\ d.plast_rd = b.plast_rd
      /\ d.cellsize = b.cellsize /\ d.dmax = b.dmax /\ d.dmin = b.dmin
      /\ d.cells_stored = b.cells_stored + 1 /\ d.memseg = b.memseg
      /\ d.dlast_wr = 0 /\ d.dlast_rd = b.dlast_rd
  <2>1. b \in CellRecords(b) /\ b.used = n /\ to[0] \in Nat
    BY <1>3, <1>4, <1>7
  <2>2. PICK s \in Int : s = b.cells_stored + 1
    BY <2>1 DEF CellRecords
  <2>3. PICK c \in Nat : c = to[0]
    BY <2>1
  <2>4. d = [b EXCEPT !.pnewest = c, !.plast_wr = c, !.dlast_wr = 0, !.cells_stored = s]
    BY <1>8, <2>2, <2>3
  <2>5. d \in CellRecords(b)
    <3>1. PICK e : e = [b EXCEPT !.pnewest = c, !.plast_wr = c]
      OBVIOUS
    <3>2. e \in CellRecords(b)
      BY <2>1, <3>1 DEF CellRecords
    <3>0. PICK z \in Int : z = 0
      OBVIOUS
    <3>3. d = [e EXCEPT !.dlast_wr = z, !.cells_stored = s]
      BY <2>4, <3>0, <3>1
    <3> QED
      BY <3>2, <3>3 DEF CellRecords
  <2>6. /\ d.init_buffer = b.init_buffer
        /\ d.used = b.used /\ d.cells_alloc = b.cells_alloc
        /\ d.pdata = b.pdata /\ d.pnew = b.pnew /\ d.pold = b.pold /\ d.pnewest = c
        /\ d.plast_wr = c /\ d.plast_rd = b.plast_rd
        /\ d.cellsize = b.cellsize /\ d.dmax = b.dmax /\ d.dmin = b.dmin
        /\ d.cells_stored = s /\ d.memseg = b.memseg
        /\ d.dlast_wr = 0 /\ d.dlast_rd = b.dlast_rd
    BY <2>1, <2>4 DEF CellRecords
  <2>7. d \in CellRecords(d)
    BY <2>5, <2>6 DEF CellRecords
  <2> QED
    BY <2>1, <2>2, <2>3, <2>6, <2>7
<1>10. Order(d, to)
  <2>1. to \in [0..(n - 1) -> 1..n]
    <3>1. ASSUME NEW a \in 0..(n - 1) PROVE to[a] \in 1..n
      <4>1. PICK o \in 0..(n - 1) : o = Newer(n, a)
        BY <1>6
      <4>2. at[o] \in 1..n /\ to[a] = at[o]
        BY <1>4, <1>6, <4>1
      <4> QED
        BY <4>2
    <3> QED
      BY <1>5, <3>1
  <2>2. ASSUME NEW a \in 0..(n - 1), NEW c \in 0..(n - 1), to[a] = to[c] PROVE a = c
    <3>1. Newer(n, a) = Newer(n, c)
      BY <1>4, <1>6, <2>2, SMTT(30)
    <3> QED
      BY <1>6, <3>1
  <2>3. ASSUME NEW c \in 1..n PROVE \E a \in 0..(n - 1) : to[a] = c
    <3>1. PICK a \in 0..(n - 1) : at[a] = c
      BY <1>4
    <3>2. Older(n, a) \in 0..(n - 1) /\ to[Older(n, a)] = at[a]
      BY <1>6
    <3> QED
      BY <3>1, <3>2
  <2>4. ASSUME NEW a \in 0..(n - 1)
        PROVE  d.pold[to[a]] = to[Older(n, a)] /\ d.pnew[to[a]] = to[Newer(n, a)]
    <3>1. PICK c : c = Newer(n, a)
      OBVIOUS
    <3>2. c \in 0..(n - 1) /\ to[a] = at[c] /\ Older(n, c) = a
      BY <1>6, <3>1
    <3>3. b.pold[at[c]] = at[a] /\ b.pnew[at[c]] = at[Newer(n, c)]
      BY <1>4, <3>2
    <3>4. to[Older(n, a)] = at[a] /\ to[c] = at[Newer(n, c)]
      BY <1>6, <3>2
    <3> QED
      BY <1>9, <3>1, <3>2, <3>3, <3>4
  <2>5. n \in Nat \ {0} /\ d.used = n /\ to[0] = d.pnewest
    BY <1>4, <1>9
  <2> QED
    BY <2>1, <2>2, <2>3, <2>4, <2>5 DEF Order
<1>11. PICK l : l = (j + 1) % n
  OBVIOUS
<1>12. l \in 0..(n - 1) /\ to[l] = at[j]
  <2>1. l = Older(n, j)
    BY <1>4, <1>11, OneStep
  <2>2. Newer(n, l) = j /\ l \in 0..(n - 1)
    BY <1>4, <1>6, <2>1
  <2> QED
    BY <1>6, <2>2
<1>13. Listed(d, to, 0, l)
  BY <1>1, <1>3, <1>4, <1>7, <1>9, <1>10, <1>12 DEF Listed
<1>14. PICK ring : ring = [a \in 0..(n - 1) |-> b.pdata[at[a]]]
  OBVIOUS
<1>15. PICK ring1 : ring1 = [a \in 0..(n - 1) |-> ring[(a + -1) % n]]
  OBVIOUS
<1>16. PICK v : v = View(b, at, i, j)
  OBVIOUS
<1>17. v \in Fields(b, ring, n, b.cells_stored, i, b.dlast_wr, j, b.dlast_rd, b.memseg)
  BY <1>3, <1>14, <1>16, ViewFields
<1>18. Ring!Advanced(v) = [v EXCEPT !.ring = ring1, !.plast_rd = l, !.plast_wr = 0,
                                    !.dlast_wr = 0, !.cells_stored = b.cells_stored + 1]
  <2>1. /\ v.cells_alloc = n /\ v.ring = ring /\ v.plast_rd = j
        /\ v.cells_stored = b.cells_stored
    BY <1>17 DEF Fields
  <2>2. [a \in 0..(v.cells_alloc - 1) |-> v.ring[(a + -1) % v.cells_alloc]] = ring1
    BY <1>15, <2>1
  <2> QED
    BY <1>11, <2>1, <2>2 DEF Ring!Advanced, Ring!Walk
<1>19. Ring!Advanced(v)
         \in Fields(b, ring1, n, b.cells_stored + 1, 0, 0, l, b.dlast_rd, b.memseg)
  BY <1>17, <1>18, ZenonT(30) DEF Fields
<1>20. View(d, to, 0, l)
         \in Fields(b, ring1, n, b.cells_stored + 1, 0, 0, l, b.dlast_rd, b.memseg)
  <2>1. ASSUME NEW a \in 0..(n - 1) PROVE b.pdata[to[a]] = ring[(a + -1) % n]
    <3>1. (a + -1) % n \in 0..(n - 1) /\ to[a] = at[(a + -1) % n]
      BY <1>4, <1>5, OneStep
    <3> QED
      BY <1>14, <3>1
  <2>2. [a \in 0..(d.used - 1) |-> d.pdata[to[a]]] = ring1
    BY <1>9, <1>15, <2>1
  <2> QED
    BY <1>9, <2>2 DEF View, Fields
<1>21. View(d, to, 0, l) = Ring!Advanced(v)
  BY <1>19, <1>20, SameFields
<1> QED
  BY <1>1, <1>2, <1>13, <1>16, <1>21, Viewed

(* The growth of IncWrPtr. *)
LEMMA GrownAs ==
    ASSUME NEW b, CellsOK(b), b.init_buffer
    PROVE  /\ CellsOK(Grown(b)) /\ Grown(b).init_buffer
           /\ ByAge(Grown(b)) = Ring!Grown(ByAge(b))
           /\ NoRoom(b) <=> Ring!NoRoom(ByAge(b))
           /\ SegmentsFull(b) <=> Ring!SegmentsFull(ByAge(b))
           /\ Grown(b).cells_alloc = Ring!Grown(ByAge(b)).cells_alloc
<1>1. PICK at, i, j : Listed(b, at, i, j)
  BY IsListed
<1>2. PICK v : v = View(b, at, i, j)
  OBVIOUS
<1>3. ByAge(b) = v
  BY <1>1, <1>2, Viewed
<1>4. PICK n : n = b.used
  OBVIOUS
<1>5. /\ n \in Nat \ {0} /\ b \in CellRecords(b)
      /\ i \in 0..(n - 1) /\ j \in 0..(n - 1) /\ b.plast_wr = at[i] /\ b.plast_rd = at[j]
      /\ b.cells_alloc = n /\ b.pdata \in [1..n -> Sample]
      /\ at \in [0..(n - 1) -> 1..n] /\ Order(b, at)
  BY <1>1, <1>4 DEF Listed, Order
<1>6. PICK ring : ring = [a \in 0..(n - 1) |-> b.pdata[at[a]]]
  OBVIOUS
<1>7. v \in Fields(b, ring, n, b.cells_stored, i, b.dlast_wr, j, b.dlast_rd, b.memseg)
  BY <1>2, <1>4, <1>6, ViewFields
<1>8. /\ NoRoom(b) <=> Ring!NoRoom(v)
      /\ SegmentsFull(b) <=> Ring!SegmentsFull(v)
  BY <1>5, <1>7 DEF NoRoom, Ring!NoRoom, SegmentsFull, Ring!SegmentsFull, Fields
<1>9. CASE ~NoRoom(b)
  <2>1. Grown(b) = b /\ Ring!Grown(v) = v
    BY <1>8, <1>9 DEF Grown, Ring!Grown
  <2> QED
    BY <1>3, <1>5, <1>7, <1>8, <2>1 DEF Fields
<1>10. CASE NoRoom(b)
  <2>1. PICK d : d = AddCells(b, b.pnewest, CELL_INC)
    OBVIOUS
  <2>2. PICK N : N = n + CELL_INC
    OBVIOUS
  <2>3. PICK to : to = Spread(n, N, at)
    OBVIOUS
  <2>4. PICK seg : seg = IF SegmentsFull(b) THEN b.memseg ELSE b.memseg + 1
    OBVIOUS
  <2>5. PICK g : g = Grown(b)
    OBVIOUS
  <2>6. N \in Nat \ {0} /\ n < N /\ CELL_INC \in Nat \ {0} /\ seg \in Nat
    <3>1. b.memseg \in Nat
      BY <1>5 DEF CellRecords
    <3>2. seg \in Nat
      BY <2>4, <3>1
    <3> QED
      BY <1>5, <2>2, <3>2, SegmentAssumption
  <2>7. Order(d, to)
    BY <1>4, <1>5, <2>1, <2>2, <2>3, <2>6, CellsAdded
  <2>8. Added(b, b.pnewest, CELL_INC, d)
    BY <1>5, <2>1, <2>6, AddedFields
  <2>9. d \in CellRecords(d) /\ d.cells_alloc = b.cells_alloc /\ d.memseg = b.memseg
        /\ d.used = N
    BY <1>4, <2>2, <2>8 DEF Added
  <2>10. g = [d EXCEPT !.cells_alloc = N, !.memseg = seg]
    BY <1>5, <1>10, <2>1, <2>2, <2>4, <2>5, <2>9 DEF Grown
  <2>11. /\ g \in CellRecords(g) /\ g.init_buffer = d.init_buffer
         /\ g.used = N /\ g.cells_alloc = N
         /\ g.pdata = d.pdata /\ g.pnew = d.pnew /\ g.pold = d.pold /\ g.pnewest = d.pnewest
         /\ g.plast_wr = d.plast_wr /\ g.plast_rd = d.plast_rd
         /\ g.cellsize = d.cellsize /\ g.dmax = d.dmax /\ g.dmin = d.dmin
         /\ g.cells_stored = d.cells_stored /\ g.memseg = seg
         /\ g.dlast_wr = d.dlast_wr /\ g.dlast_rd = d.dlast_rd
    BY <2>6, <2>9, <2>10 DEF CellRecords
  <2>12. /\ g.init_buffer = b.init_buffer
         /\ g.plast_wr = b.plast_wr /\ g.plast_rd = b.plast_rd
         /\ g.cellsize = b.cellsize /\ g.dmax = b.dmax /\ g.dmin = b.dmin
         /\ g.cells_stored = b.cells_stored
         /\ g.dlast_wr = b.dlast_wr /\ g.dlast_rd = b.dlast_rd
    BY <2>8, <2>11 DEF Added
  <2>13. Order(g, to)
    BY <2>7, <2>9, <2>11 DEF Order
  <2>14. /\ \A c \in 1..N : g.pdata[c] = IF c < n + 1 THEN b.pdata[c] ELSE Zero
         /\ g.pdata \in [1..N -> Sample]
    <3>1. d.pdata = [c \in 1..(b.used + CELL_INC) |->
                       IF c < b.used + 1 THEN b.pdata[c] ELSE Zero]
      BY <2>8 DEF Added
    <3>2. g.pdata = [c \in 1..N |-> IF c < n + 1 THEN b.pdata[c] ELSE Zero]
      BY <1>4, <2>2, <2>11, <3>1
    <3>3. ASSUME NEW c \in 1..N PROVE (IF c < n + 1 THEN b.pdata[c] ELSE Zero) \in Sample
      <4>1. c < n + 1 => c \in 1..n
        BY <1>5, <2>6
      <4> QED
        BY <1>5, <4>1, SampleAssumption
    <3> QED
      BY <3>2, <3>3
  <2>15. /\ \A a \in 0..(N - 1) : a < n => a \in 0..(n - 1) /\ to[a] = at[a] /\ at[a] \in 1..n
         /\ \A a \in 0..(N - 1) : ~(a < n) => to[a] = n + N - a
    BY <1>5, <2>3, <2>6 DEF Spread
  <2>16. Listed(g, to, i, j)
    <3>1. i \in 0..(N - 1) /\ j \in 0..(N - 1) /\ i < n /\ j < n
      BY <1>5, <2>6
    <3>2. to[i] = at[i] /\ to[j] = at[j]
      BY <2>15, <3>1
    <3>3. b.init_buffer = TRUE
      BY <1>1 DEF Listed
    <3> QED
      BY <1>5, <2>11, <2>12, <2>13, <2>14, <3>1, <3>2, <3>3 DEF Listed
  <2>17. PICK ring1 : ring1 = [a \in 0..(N - 1) |-> IF a < n THEN ring[a] ELSE Zero]
    OBVIOUS
  <2>18. View(g, to, i, j)
           \in Fields(b, ring1, N, b.cells_stored, i, b.dlast_wr, j, b.dlast_rd, seg)
    <3>1. ASSUME NEW a \in 0..(N - 1) PROVE g.pdata[to[a]] = IF a < n THEN ring[a] ELSE Zero
      <4>1. CASE a < n
        <5>1. a \in 0..(n - 1) /\ to[a] = at[a] /\ at[a] \in 1..n
          BY <2>15, <4>1
        <5>2. at[a] \in 1..N /\ at[a] < n + 1
          BY <1>5, <2>6, <5>1
        <5>3. ring[a] = b.pdata[at[a]]
          BY <1>6, <5>1
        <5> QED
          BY <2>14, <4>1, <5>1, <5>2, <5>3
      <4>2. CASE ~(a < n)
        <5>1. to[a] = n + N - a
          BY <2>15, <4>2
        <5>2. n + N - a \in 1..N /\ ~(n + N - a < n + 1)
          BY <1>5, <2>6, <4>2
        <5>3. g.pdata[n + N - a] = Zero
          BY <2>14, <5>2
        <5> QED
          BY <4>2, <5>1, <5>3
      <4> QED
        BY <4>1, <4>2
    <3>2. [a \in 0..(g.used - 1) |-> g.pdata[to[a]]] = ring1
      BY <2>11, <2>17, <3>1
    <3> QED
      BY <2>11, <2>12, <3>2 DEF View, Fields
  <2>19. PICK w : w = Ring!WithCells(v)
    OBVIOUS
  <2>20. w = [v EXCEPT !.ring = ring1, !.cells_alloc = N]
    <3>1. v.cells_alloc = n /\ v.ring = ring
      BY <1>7 DEF Fields
    <3> QED
      BY <2>2, <2>17, <2>19, <3>1 DEF Ring!WithCells
  <2>21. w \in Fields(b, ring1, N, b.cells_stored, i, b.dlast_wr, j, b.dlast_rd, b.memseg)
    BY <1>7, <2>20 DEF Fields
  <2>22. Ring!Grown(v) = IF SegmentsFull(b) THEN w ELSE [w EXCEPT !.memseg = v.memseg + 1]
    BY <1>8, <1>10, <2>19 DEF Ring!Grown
  <2>23. v.memseg = b.memseg
    BY <1>7 DEF Fields
  <2>24. Ring!Grown(v)
           \in Fields(b, ring1, N, b.cells_stored, i, b.dlast_wr, j, b.dlast_rd, seg)
    <3>1. CASE SegmentsFull(b)
      BY <2>4, <2>21, <2>22, <3>1
    <3>2. CASE ~SegmentsFull(b)
      <4>1. Ring!Grown(v) = [w EXCEPT !.memseg = seg]
        BY <2>4, <2>22, <2>23, <3>2
      <4> QED
        BY <2>21, <4>1 DEF Fields
    <3> QED
      BY <3>1, <3>2
  <2>25. View(g, to, i, j) = Ring!Grown(v)
    BY <2>18, <2>24, SameFields
  <2>26. Ring!Grown(v).cells_alloc = N
    BY <2>24 DEF Fields
  <2> QED
    BY <1>3, <1>8, <2>5, <2>11, <2>16, <2>25, <2>26, Viewed
<1> QED
  BY <1>9, <1>10

-----------------------------------------------------------------------------
(* Opening: a lone cell, and dmax + 1 more.                                *)
Lone(b) ==
    [ b EXCEPT !.cellsize = IF @ < 0 THEN DefaultSize ELSE @,
               !.init_buffer = TRUE,
               !.used = 1,
               !.pnew = <<1>>, !.pold = <<1>>, !.pdata = <<Zero>>,
               !.cells_alloc = b.dmax + 2,
               !.cells_stored = b.dmin,
               !.pnewest = 1, !.plast_wr = 1, !.plast_rd = 1,
               !.memseg = 2 ]

(* The fields of the buffer that init_buffer starts from, its only cell    *)
(* linked to itself.                                                       *)
LEMMA LoneFields ==
    ASSUME NEW b, b \in CellRecords(b), NEW e, e = Lone(b)
    PROVE  /\ e \in CellRecords(e)
           /\ e.cellsize = IF b.cellsize < 0 THEN DefaultSize ELSE b.cellsize
           /\ e.dmax = b.dmax /\ e.dmin = b.dmin /\ e.init_buffer = TRUE
           /\ e.used = 1 /\ e.pnew = <<1>> /\ e.pold = <<1>> /\ e.pdata = <<Zero>>
           /\ e.cells_alloc = b.dmax + 2 /\ e.cells_stored = b.dmin
           /\ e.pnewest = 1 /\ e.plast_wr = 1 /\ e.plast_rd = 1
           /\ e.dlast_wr = b.dlast_wr /\ e.dlast_rd = b.dlast_rd
           /\ e.memseg = 2
<1>1. PICK size \in Int : size = IF b.cellsize < 0 THEN DefaultSize ELSE b.cellsize
  BY SizeAssumption DEF CellRecords
<1>2. PICK one \in Nat, two \in Nat, alloc \in Nat : one = 1 /\ two = 2 /\ alloc = b.dmax + 2
  BY DEF CellRecords
<1>3. PICK data : data = <<Zero>>
  OBVIOUS
<1>4. PICK link : link = <<1>>
  OBVIOUS
<1>5. PICK min \in Int : min = b.dmin
  BY DEF CellRecords
<1>6. PICK open \in BOOLEAN : open = TRUE
  OBVIOUS
<1>7. e = [b EXCEPT !.cellsize = size, !.init_buffer = open,
                    !.used = one,
                    !.pnew = link, !.pold = link, !.pdata = data,
                    !.cells_alloc = alloc,
                    !.cells_stored = min,
                    !.pnewest = one, !.plast_wr = one, !.plast_rd = one,
                    !.memseg = two]
  BY <1>1, <1>2, <1>3, <1>4, <1>5, <1>6, Zenon DEF Lone
<1>8. PICK e1 : e1 = [b EXCEPT !.cellsize = size, !.init_buffer = open]
  OBVIOUS
<1>9. PICK e2 : e2 = [e1 EXCEPT !.used = one, !.pnew = link]
  OBVIOUS
<1>10. PICK e3 : e3 = [e2 EXCEPT !.pold = link, !.pdata = data]
  OBVIOUS
<1>11. PICK e4 : e4 = [e3 EXCEPT !.cells_alloc = alloc, !.cells_stored = min]
  OBVIOUS
<1>12. PICK e5 : e5 = [e4 EXCEPT !.pnewest = one, !.plast_wr = one]
  OBVIOUS
<1>13. e = [e5 EXCEPT !.plast_rd = one, !.memseg = two]
  BY <1>7, <1>8, <1>9, <1>10, <1>11, <1>12, Zenon
<1>14. e1 \in CellRecords(b) /\ e1.cellsize = size /\ e1.init_buffer = open
       /\ e1.dmax = b.dmax /\ e1.dmin = b.dmin
       /\ e1.dlast_wr = b.dlast_wr /\ e1.dlast_rd = b.dlast_rd
  BY <1>8 DEF CellRecords
<1>15. e2 \in CellRecords(e2) /\ e2.used = one /\ e2.pnew = link
       /\ e2.cellsize = size /\ e2.init_buffer = open
       /\ e2.dmax = b.dmax /\ e2.dmin = b.dmin
       /\ e2.dlast_wr = b.dlast_wr /\ e2.dlast_rd = b.dlast_rd
  BY <1>9, <1>14 DEF CellRecords
<1>16. e3 \in CellRecords(e3) /\ e3.used = one /\ e3.pnew = link
       /\ e3.pold = link /\ e3.pdata = data
       /\ e3.cellsize = size /\ e3.init_buffer = open
       /\ e3.dmax = b.dmax /\ e3.dmin = b.dmin
       /\ e3.dlast_wr = b.dlast_wr /\ e3.dlast_rd = b.dlast_rd
  BY <1>10, <1>15 DEF CellRecords
<1>17. e4 \in CellRecords(e4) /\ e4.used = one /\ e4.pnew = link
       /\ e4.pold = link /\ e4.pdata = data
       /\ e4.cells_alloc = alloc /\ e4.cells_stored = min
       /\ e4.cellsize = size /\ e4.init_buffer = open
       /\ e4.dmax = b.dmax /\ e4.dmin = b.dmin
       /\ e4.dlast_wr = b.dlast_wr /\ e4.dlast_rd = b.dlast_rd
  BY <1>11, <1>16 DEF CellRecords
<1>18. e5 \in CellRecords(e5) /\ e5.used = one /\ e5.pnew = link
       /\ e5.pold = link /\ e5.pdata = data
       /\ e5.cells_alloc = alloc /\ e5.cells_stored = min
       /\ e5.pnewest = one /\ e5.plast_wr = one
       /\ e5.cellsize = size /\ e5.init_buffer = open
       /\ e5.dmax = b.dmax /\ e5.dmin = b.dmin
       /\ e5.dlast_wr = b.dlast_wr /\ e5.dlast_rd = b.dlast_rd
  BY <1>12, <1>17 DEF CellRecords
<1>19. e \in CellRecords(e) /\ e.used = one /\ e.pnew = link
       /\ e.pold = link /\ e.pdata = data
       /\ e.cells_alloc = alloc /\ e.cells_stored = min
       /\ e.pnewest = one /\ e.plast_wr = one /\ e.plast_rd = one /\ e.memseg = two
       /\ e.cellsize = size /\ e.init_buffer = open
       /\ e.dmax = b.dmax /\ e.dmin = b.dmin
       /\ e.dlast_wr = b.dlast_wr /\ e.dlast_rd = b.dlast_rd
  BY <1>13, <1>18 DEF CellRecords
<1> QED
  BY <1>1, <1>2, <1>3, <1>4, <1>5, <1>6, <1>19

(* init_buffer makes a circle of all cells, and seen by age the ring that  *)
(* Buffer starts with.                                                     *)
LEMMA InitialisedAs ==
    ASSUME NEW b, CellsOK(b)
    PROVE  /\ CellsOK(Initialised(b)) /\ Initialised(b).init_buffer
           /\ ByAge(Initialised(b)) = Ring!Initialised(ByAge(b))
           /\ Initialised(b).cells_alloc = Ring!Initialised(ByAge(b)).cells_alloc
<1>1. b \in CellRecords(b) /\ ByAge(b).init_buffer = b.init_buffer
      /\ ByAge(b).dmax = b.dmax /\ ByAge(b).dmin = b.dmin /\ ByAge(b).cellsize = b.cellsize
      /\ ByAge(b).cells_alloc = b.cells_alloc
  BY DEF CellsOK, ByAge
<1>2. CASE b.init_buffer
  <2>1. Initialised(b) = b /\ Ring!Initialised(ByAge(b)) = ByAge(b)
    BY <1>1, <1>2 DEF Initialised, Ring!Initialised
  <2> QED
    BY <1>1, <1>2, <2>1
<1>3. CASE ~b.init_buffer
  <2>1. PICK e : e = Lone(b)
    OBVIOUS
  <2>2. PICK m : m = b.dmax + 1
    OBVIOUS
  <2>3. PICK d : d = AddCells(e, 1, m)
    OBVIOUS
  <2>4. Initialised(b) = d
    BY <1>3, <2>1, <2>2, <2>3 DEF Initialised, Lone
  <2>5. m \in Nat \ {0} /\ b.dmax \in Nat /\ b.dlast_wr = 0 /\ b.dlast_rd = 0
    BY <1>1, <1>3, <2>2 DEF CellRecords, CellsOK, Closed
  <2>6. /\ e \in CellRecords(e)
        /\ e.cellsize = IF b.cellsize < 0 THEN DefaultSize ELSE b.cellsize
        /\ e.dmax = b.dmax /\ e.dmin = b.dmin /\ e.init_buffer = TRUE
        /\ e.used = 1 /\ e.pnew = <<1>> /\ e.pold = <<1>> /\ e.pdata = <<Zero>>
        /\ e.cells_alloc = b.dmax + 2 /\ e.cells_stored = b.dmin
        /\ e.pnewest = 1 /\ e.plast_wr = 1 /\ e.plast_rd = 1
        /\ e.dlast_wr = b.dlast_wr /\ e.dlast_rd = b.dlast_rd
        /\ e.memseg = 2
    BY <1>1, <2>1, LoneFields, ZenonT(30)
  <2>7. PICK at : at = [a \in 0..0 |-> 1]
    OBVIOUS
  <2>8. Order(e, at)
    <3>1. 0..(e.used - 1) = {0} /\ 1..e.used = {1} /\ e.used \in Nat \ {0}
      BY <2>6
    <3>2. Older(e.used, 0) = 0 /\ Newer(e.used, 0) = 0
      BY <2>6 DEF Older, Newer
    <3>3. at[0] = 1 /\ at \in [{0} -> {1}]
      BY <2>7
    <3>4. e.pnew[1] = 1 /\ e.pold[1] = 1
      BY <2>6
    <3> QED
      BY <2>6, <3>1, <3>2, <3>3, <3>4 DEF Order
  <2>9. PICK N : N = 1 + m
    OBVIOUS
  <2>10. PICK to : to = Spread(1, N, at)
    OBVIOUS
  <2>11. d = AddCells(e, e.pnewest, m)
    BY <2>3, <2>6
  <2>12. Order(d, to)
    <3>1. Order(AddCells(e, e.pnewest, m), Spread(e.used, e.used + m, at))
      BY <2>5, <2>6, <2>8, CellsAdded
    <3> QED
      BY <2>6, <2>9, <2>10, <2>11, <3>1
  <2>13. Added(e, e.pnewest, m, d)
    BY <2>5, <2>6, <2>11, AddedFields
  <2>14. N \in Nat \ {0} /\ N = b.dmax + 2 /\ 0 \in 0..(N - 1)
    BY <2>2, <2>5, <2>9
  <2>15. /\ d \in CellRecords(d) /\ d.used = N
         /\ d.cellsize = e.cellsize /\ d.dmax = e.dmax /\ d.dmin = e.dmin
         /\ d.init_buffer = e.init_buffer
         /\ d.cells_alloc = N /\ d.cells_stored = b.dmin
         /\ d.plast_wr = 1 /\ d.dlast_wr = 0
         /\ d.plast_rd = 1 /\ d.dlast_rd = 0
         /\ d.memseg = 2
    BY <2>5, <2>6, <2>9, <2>13, <2>14 DEF Added
  <2>16. d.pdata = [c \in 1..N |-> Zero]
    <3>1. d.pdata = [c \in 1..(e.used + m) |-> IF c < e.used + 1 THEN e.pdata[c] ELSE Zero]
      BY <2>13 DEF Added
    <3>2. e.pdata[1] = Zero /\ e.used + m = N
      BY <2>6, <2>9
    <3>3. ASSUME NEW c \in 1..N PROVE (IF c < e.used + 1 THEN e.pdata[c] ELSE Zero) = Zero
      <4>1. c < e.used + 1 => c = 1
        BY <2>6, <2>14
      <4> QED
        BY <3>2, <4>1
    <3> QED
      BY <3>1, <3>2, <3>3
  <2>17. to[0] = 1
    BY <2>7, <2>10, <2>14 DEF Spread
  <2>18. Listed(d, to, 0, 0)
    <3>1. d.pdata \in [1..N -> Sample]
      BY <2>16, SampleAssumption
    <3> QED
      BY <2>6, <2>12, <2>14, <2>15, <2>17, <3>1 DEF Listed
  <2>19. PICK ring : ring = [a \in 0..(b.dmax + 1) |-> Zero]
    OBVIOUS
  <2>20. View(d, to, 0, 0) \in Fields(d, ring, N, b.dmin, 0, 0, 0, 0, 2)
    <3>1. ASSUME NEW a \in 0..(N - 1) PROVE d.pdata[to[a]] = Zero
      <4>1. to[a] \in 1..N
        BY <2>12, <2>15 DEF Order
      <4> QED
        BY <2>16, <4>1
    <3>2. 0..(d.used - 1) = 0..(N - 1) /\ 0..(b.dmax + 1) = 0..(N - 1)
      BY <2>5, <2>14, <2>15
    <3>3. [a \in 0..(d.used - 1) |-> d.pdata[to[a]]] = ring
      BY <2>19, <3>1, <3>2
    <3> QED
      BY <2>15, <3>3 DEF View, Fields
  <2>21. Ring!Initialised(ByAge(b)) \in Fields(d, ring, N, b.dmin, 0, 0, 0, 0, 2)
    <3>1. PICK v : v = Ring!Initialised(ByAge(b))
      OBVIOUS
    <3>2. v = [ cellsize |-> d.cellsize, dmax |-> d.dmax, dmin |-> d.dmin,
                init_buffer |-> TRUE, ring |-> ring, cells_alloc |-> N,
                cells_stored |-> b.dmin, plast_wr |-> 0, dlast_wr |-> 0,
                plast_rd |-> 0, dlast_rd |-> 0, memseg |-> 2 ]
      BY <1>1, <1>3, <2>6, <2>14, <2>15, <2>19, <3>1 DEF Ring!Initialised
    <3>3. d.init_buffer = TRUE
      BY <2>6, <2>15
    <3>4. v = [ cellsize |-> d.cellsize, dmax |-> d.dmax, dmin |-> d.dmin,
                init_buffer |-> d.init_buffer, ring |-> ring, cells_alloc |-> N,
                cells_stored |-> b.dmin, plast_wr |-> 0, dlast_wr |-> 0,
                plast_rd |-> 0, dlast_rd |-> 0, memseg |-> 2 ]
      BY <3>2, <3>3
    <3>5. v \in Fields(d, ring, N, b.dmin, 0, 0, 0, 0, 2)
      BY <3>4 DEF Fields
    <3> QED
      BY <3>1, <3>5
  <2>22. View(d, to, 0, 0) = Ring!Initialised(ByAge(b))
    BY <2>20, <2>21, SameFields
  <2>23. Ring!Initialised(ByAge(b)).cells_alloc = N
    BY <2>21 DEF Fields
  <2> QED
    BY <2>4, <2>15, <2>18, <2>22, <2>23, Viewed
<1> QED
  BY <1>2, <1>3

-----------------------------------------------------------------------------
(* The settings, before the buffer has cells. *)

(* A buffer not accessed yet has no cells, and no ages to compute.         *)
LEMMA ClosedFields ==
    ASSUME NEW b, CellsOK(b), ~b.init_buffer
    PROVE  ByAge(b) \in Fields(b, [a \in 0..-1 |-> Zero], 0, b.cells_stored, 0, 0, 0, 0, b.memseg)
<1>1. b \in CellRecords(b) /\ Closed(b)
  BY DEF CellsOK
<1>2. b.cells_alloc = 0 /\ b.dlast_wr = 0 /\ b.dlast_rd = 0
  BY <1>1 DEF Closed
<1>3. PICK ring : ring = [a \in 0..-1 |-> Zero]
  OBVIOUS
<1>4. [a \in 0..(b.cells_alloc - 1) |-> b.pdata[CellAt(b, a)]] = ring
  BY <1>2, <1>3
<1>5. ByAge(b) = [ cellsize |-> b.cellsize, dmax |-> b.dmax, dmin |-> b.dmin,
                   init_buffer |-> b.init_buffer, ring |-> ring,
                   cells_alloc |-> 0, cells_stored |-> b.cells_stored,
                   plast_wr |-> 0, dlast_wr |-> 0, plast_rd |-> 0, dlast_rd |-> 0,
                   memseg |-> b.memseg ]
  BY <1>2, <1>4 DEF ByAge
<1>6. ByAge(b) \in Fields(b, ring, 0, b.cells_stored, 0, 0, 0, 0, b.memseg)
  BY <1>5 DEF Fields
<1> QED
  BY <1>3, <1>6

(* CellSize is seen by age as it is.                                       *)
LEMMA SizedAs ==
    ASSUME NEW b, CellsOK(b), ~b.init_buffer, NEW size \in Int
    PROVE  /\ CellsOK([b EXCEPT !.cellsize = size])
           /\ ByAge([b EXCEPT !.cellsize = size]) = [ByAge(b) EXCEPT !.cellsize = size]
<1>1. PICK d : d = [b EXCEPT !.cellsize = size]
  OBVIOUS
<1>2. b \in CellRecords(b) /\ Closed(b)
  BY DEF CellsOK
<1>3. /\ d \in CellRecords(d) /\ d.init_buffer = b.init_buffer
      /\ d.cells_alloc = b.cells_alloc /\ d.cells_stored = b.cells_stored
      /\ d.cellsize = size /\ d.dmax = b.dmax /\ d.dmin = b.dmin
      /\ d.dlast_wr = b.dlast_wr /\ d.dlast_rd = b.dlast_rd /\ d.memseg = b.memseg
  BY <1>1, <1>2 DEF CellRecords
<1>4. CellsOK(d) /\ ~d.init_buffer
  BY <1>2, <1>3 DEF CellsOK, Closed
<1>5. PICK ring : ring = [a \in 0..-1 |-> Zero]
  OBVIOUS
<1>6. /\ ByAge(b) \in Fields(b, ring, 0, b.cells_stored, 0, 0, 0, 0, b.memseg)
      /\ ByAge(d) \in Fields(d, ring, 0, d.cells_stored, 0, 0, 0, 0, d.memseg)
  BY <1>4, <1>5, ClosedFields
<1>7. [ByAge(b) EXCEPT !.cellsize = size]
        \in Fields(d, ring, 0, d.cells_stored, 0, 0, 0, 0, d.memseg)
  BY <1>3, <1>6 DEF Fields
<1>8. ByAge(d) = [ByAge(b) EXCEPT !.cellsize = size]
  BY <1>6, <1>7, SameFields
<1> QED
  BY <1>1, <1>4, <1>8

(* So is delay_max.                                                        *)
LEMMA LongerDelayAs ==
    ASSUME NEW b, CellsOK(b), ~b.init_buffer, NEW x \in Nat
    PROVE  /\ CellsOK([b EXCEPT !.dmax = x])
           /\ ByAge([b EXCEPT !.dmax = x]) = [ByAge(b) EXCEPT !.dmax = x]
<1>1. PICK d : d = [b EXCEPT !.dmax = x]
  OBVIOUS
<1>2. b \in CellRecords(b) /\ Closed(b)
  BY DEF CellsOK
<1>3. /\ d \in CellRecords(d) /\ d.init_buffer = b.init_buffer
      /\ d.cells_alloc = b.cells_alloc /\ d.cells_stored = b.cells_stored
      /\ d.cellsize = b.cellsize /\ d.dmax = x /\ d.dmin = b.dmin
      /\ d.dlast_wr = b.dlast_wr /\ d.dlast_rd = b.dlast_rd /\ d.memseg = b.memseg
  BY <1>1, <1>2 DEF CellRecords
<1>4. CellsOK(d) /\ ~d.init_buffer
  BY <1>2, <1>3 DEF CellsOK, Closed
<1>5. PICK ring : ring = [a \in 0..-1 |-> Zero]
  OBVIOUS
<1>6. /\ ByAge(b) \in Fields(b, ring, 0, b.cells_stored, 0, 0, 0, 0, b.memseg)
      /\ ByAge(d) \in Fields(d, ring, 0, d.cells_stored, 0, 0, 0, 0, d.memseg)
  BY <1>4, <1>5, ClosedFields
<1>7. [ByAge(b) EXCEPT !.dmax = x]
        \in Fields(d, ring, 0, d.cells_stored, 0, 0, 0, 0, d.memseg)
  BY <1>3, <1>6 DEF Fields
<1>8. ByAge(d) = [ByAge(b) EXCEPT !.dmax = x]
  BY <1>6, <1>7, SameFields
<1> QED
  BY <1>1, <1>4, <1>8

WithDelays(b, x, y) == [b EXCEPT !.dmin = x, !.dmax = y]

(* So is delay_min.                                                        *)
LEMMA ShorterDelayAs ==
    ASSUME NEW b, CellsOK(b), ~b.init_buffer, NEW x \in Nat, NEW y \in Nat
    PROVE  CellsOK(WithDelays(b, x, y)) /\ ByAge(WithDelays(b, x, y)) = WithDelays(ByAge(b), x, y)
<1>1. PICK d : d = WithDelays(b, x, y)
  OBVIOUS
<1>2. b \in CellRecords(b) /\ Closed(b)
  BY DEF CellsOK
<1>3. /\ d \in CellRecords(d) /\ d.init_buffer = b.init_buffer
      /\ d.cells_alloc = b.cells_alloc /\ d.cells_stored = b.cells_stored
      /\ d.cellsize = b.cellsize /\ d.dmax = y /\ d.dmin = x
      /\ d.dlast_wr = b.dlast_wr /\ d.dlast_rd = b.dlast_rd /\ d.memseg = b.memseg
  BY <1>1, <1>2 DEF CellRecords, WithDelays
<1>4. CellsOK(d) /\ ~d.init_buffer
  BY <1>2, <1>3 DEF CellsOK, Closed
<1>5. PICK ring : ring = [a \in 0..-1 |-> Zero]
  OBVIOUS
<1>6. /\ ByAge(b) \in Fields(b, ring, 0, b.cells_stored, 0, 0, 0, 0, b.memseg)
      /\ ByAge(d) \in Fields(d, ring, 0, d.cells_stored, 0, 0, 0, 0, d.memseg)
  BY <1>4, <1>5, ClosedFields
<1>7. WithDelays(ByAge(b), x, y)
        \in Fields(d, ring, 0, d.cells_stored, 0, 0, 0, 0, d.memseg)
  BY <1>3, <1>6 DEF Fields, WithDelays
<1>8. ByAge(d) = WithDelays(ByAge(b), x, y)
  BY <1>6, <1>7, SameFields
<1> QED
  BY <1>1, <1>4, <1>8

-----------------------------------------------------------------------------
(* The steps. *)

IInv == CellsOK(buf) /\ active \in BOOLEAN

(* What can be read off both buffers is the same.                          *)
LEMMA SameByAge ==
    ASSUME NEW b
    PROVE  /\ ByAge(b).cellsize = b.cellsize /\ ByAge(b).dmax = b.dmax
           /\ ByAge(b).dmin = b.dmin /\ ByAge(b).init_buffer = b.init_buffer
           /\ ByAge(b).cells_alloc = b.cells_alloc /\ ByAge(b).cells_stored = b.cells_stored
           /\ \A reading \in BOOLEAN : \A delay \in Int :
                AccessErrors(b, reading, delay) = Ring!AccessErrors(ByAge(b), reading, delay)
<1>1. /\ ByAge(b).cellsize = b.cellsize /\ ByAge(b).dmax = b.dmax
      /\ ByAge(b).dmin = b.dmin /\ ByAge(b).init_buffer = b.init_buffer
      /\ ByAge(b).cells_alloc = b.cells_alloc /\ ByAge(b).cells_stored = b.cells_stored
  BY DEF ByAge
<1> QED
  BY <1>1 DEF AccessErrors, Ring!AccessErrors

(* A buffer just created is a ring just created.                           *)
LEMMA InitRing == Init => IInv /\ Ring!Init
<1> SUFFICES ASSUME Init PROVE IInv /\ Ring!Init
  OBVIOUS
<1>1. buf = CreateBuffer /\ active = FALSE /\ ret = 0 /\ fetched = Zero /\ reported = {}
  BY DEF Init
<1>2. PICK b : b = CreateBuffer
  OBVIOUS
<1>3. b \in CellRecords(b) /\ Closed(b) /\ ~b.init_buffer
  <2>1. -1 \in Int /\ DefaultDmax \in Nat
    BY DelayAssumption
  <2> QED
    BY <1>2, <2>1 DEF CreateBuffer, CellRecords, Closed
<1>4. CellsOK(b)
  BY <1>3 DEF CellsOK
<1>5. PICK ring : ring = [a \in 0..-1 |-> Zero]
  OBVIOUS
<1>6. ByAge(b) \in Fields(b, ring, 0, 0, 0, 0, 0, 0, 0)
  <2>1. b.cells_stored = 0 /\ b.memseg = 0
    BY <1>2 DEF CreateBuffer
  <2>2. ByAge(b) \in Fields(b, ring, 0, b.cells_stored, 0, 0, 0, 0, b.memseg)
    BY <1>3, <1>4, <1>5, ClosedFields
  <2> QED
    BY <2>1, <2>2
<1>7. Ring!CreateBuffer \in Fields(b, ring, 0, 0, 0, 0, 0, 0, 0)
  <2>1. Ring!CreateBuffer
          = [ cellsize |-> b.cellsize, dmax |-> b.dmax, dmin |-> b.dmin,
              init_buffer |-> b.init_buffer, ring |-> ring,
              cells_alloc |-> 0, cells_stored |-> 0,
              plast_wr |-> 0, dlast_wr |-> 0, plast_rd |-> 0, dlast_rd |-> 0,
              memseg |-> 0 ]
    BY <1>2, <1>5 DEF CreateBuffer, Ring!CreateBuffer
  <2> QED
    BY <2>1 DEF Fields
<1>8. ByAge(b) = Ring!CreateBuffer
  BY <1>6, <1>7, SameFields
<1> QED
  BY <1>1, <1>2, <1>4, <1>8 DEF IInv, Ring!Init

(* One lemma for each call: it keeps the invariant, and is the same call   *)
(* on the ring.                                                            *)
LEMMA CellSizeStep ==
    ASSUME IInv, NEW size \in CellSizes, CellSize(size)
    PROVE  IInv' /\ Ring!CellSize(size)
<1>1. CellsOK(buf) /\ ~buf.init_buffer /\ size \in Int /\ buf.cellsize \in Int
  BY SizeAssumption DEF IInv, CellSize, CellsOK, CellRecords
<1>2. CASE buf.cellsize < 0
  <2>1. buf' = [buf EXCEPT !.cellsize = size]
    BY <1>2 DEF CellSize
  <2>2. CellsOK(buf') /\ ByAge(buf') = [ByAge(buf) EXCEPT !.cellsize = size]
    BY <1>1, <2>1, SizedAs
  <2> QED
    BY <1>1, <1>2, <2>2, SameByAge DEF IInv, CellSize, Ring!CellSize, Ring!Settable
<1>3. CASE ~(buf.cellsize < 0)
  <2>1. buf' = buf
    BY <1>3 DEF CellSize
  <2> QED
    BY <1>1, <1>3, <2>1, SameByAge DEF IInv, CellSize, Ring!CellSize, Ring!Settable
<1> QED
  BY <1>2, <1>3

(* delay_max before the first access.                                      *)
LEMMA DelayMaxStep ==
    ASSUME IInv, NEW d \in Delays, delay_max(d)
    PROVE  IInv' /\ Ring!delay_max(d)
<1>1. CellsOK(buf) /\ ~buf.init_buffer /\ d \in Int /\ buf.dmax \in Nat
  BY DelayAssumption DEF IInv, delay_max, CellsOK, CellRecords
<1>2. CASE d > buf.dmax
  <2>1. buf' = [buf EXCEPT !.dmax = d] /\ d \in Nat
    BY <1>1, <1>2 DEF delay_max
  <2>2. CellsOK(buf') /\ ByAge(buf') = [ByAge(buf) EXCEPT !.dmax = d]
    BY <1>1, <2>1, LongerDelayAs
  <2> QED
    BY <1>1, <1>2, <2>2, SameByAge DEF IInv, delay_max, Ring!delay_max, Ring!Settable
<1>3. CASE ~(d > buf.dmax)
  <2>1. buf' = buf
    BY <1>3 DEF delay_max
  <2> QED
    BY <1>1, <1>3, <2>1, SameByAge DEF IInv, delay_max, Ring!delay_max, Ring!Settable
<1> QED
  BY <1>2, <1>3

(* delay_min before the first access, which may raise dmax.                *)
LEMMA DelayMinStep ==
    ASSUME IInv, NEW d \in Delays, delay_min(d)
    PROVE  IInv' /\ Ring!delay_min(d)
<1>1. CellsOK(buf) /\ ~buf.init_buffer /\ d \in Nat /\ buf.dmax \in Nat
  BY DelayAssumption DEF IInv, delay_min, CellsOK, CellRecords
<1>2. PICK x \in Nat : x = IF buf.dmax < d THEN d ELSE buf.dmax
  BY <1>1
<1>3. buf' = [buf EXCEPT !.dmin = d, !.dmax = x]
  BY <1>2 DEF delay_min
<1>4. d \in Nat
  BY <1>1
<1>5. CellsOK(buf) /\ ~buf.init_buffer
  BY <1>1
<1>6. CellsOK(WithDelays(buf, d, x)) /\ ByAge(WithDelays(buf, d, x)) = WithDelays(ByAge(buf), d, x)
  BY <1>4, <1>5, ShorterDelayAs
<1>7. buf' = WithDelays(buf, d, x)
  BY <1>3 DEF WithDelays
<1>8. CellsOK(buf') /\ ByAge(buf') = [ByAge(buf) EXCEPT !.dmin = d, !.dmax = x]
  BY <1>6, <1>7 DEF WithDelays
<1>9. ByAge(buf).dmax = buf.dmax /\ ~ByAge(buf).init_buffer
  BY <1>1, SameByAge
<1> QED
  BY <1>2, <1>8, <1>9 DEF IInv, delay_min, Ring!delay_min, Ring!Settable

(* IncWrPtr opens, grows and advances, or refuses for want of segments.    *)
LEMMA IncWrPtrStep ==
    ASSUME IInv, IncWrPtr
    PROVE  IInv' /\ Ring!IncWrPtr
<1>1. PICK b : b = Initialised(buf)
  OBVIOUS
<1>2. PICK r : r = Ring!Initialised(ByAge(buf))
  OBVIOUS
<1>3. CellsOK(b) /\ b.init_buffer /\ ByAge(b) = r
  BY <1>1, <1>2, InitialisedAs DEF IInv
<1>4. PICK g : g = Grown(b)
  OBVIOUS
<1>5. /\ CellsOK(g) /\ g.init_buffer /\ ByAge(g) = Ring!Grown(r)
      /\ NoRoom(b) <=> Ring!NoRoom(r)
      /\ SegmentsFull(b) <=> Ring!SegmentsFull(r)
      /\ g.cells_alloc = Ring!Grown(r).cells_alloc
  BY <1>3, <1>4, GrownAs
<1>6. CellsOK(Advanced(g)) /\ ByAge(Advanced(g)) = Ring!Advanced(Ring!Grown(r))
  BY <1>5, AdvancedAs
<1>7. ByAge(buf).init_buffer = buf.init_buffer
  BY SameByAge
<1>8. PICK full \in BOOLEAN : full <=> (NoRoom(b) /\ SegmentsFull(b))
  OBVIOUS
<1>9. full <=> (Ring!NoRoom(r) /\ Ring!SegmentsFull(r))
  BY <1>5, <1>8
<1>10. /\ HeapHolds(g)
       /\ buf' = IF full THEN g ELSE Advanced(g)
       /\ active' = (active \/ ~full \/ ~buf.init_buffer)
       /\ ret' = IF full THEN 1 ELSE 0
       /\ UNCHANGED <<fetched, reported>>
  BY <1>1, <1>4, <1>8 DEF IncWrPtr, ActiveIf
<1>11. Ring!HeapHolds(Ring!Grown(r))
  BY <1>5, <1>10 DEF HeapHolds, Ring!HeapHolds
<1>12. CellsOK(buf') /\ ByAge(buf') = IF full THEN Ring!Grown(r) ELSE Ring!Advanced(Ring!Grown(r))
  BY <1>5, <1>6, <1>10
<1>13. active' = IF full THEN active \/ ~ByAge(buf).init_buffer ELSE TRUE
  <2>1. active \in BOOLEAN
    BY DEF IInv
  <2>2. CASE full
    BY <1>7, <1>10, <2>2
  <2>3. CASE ~full
    BY <1>10, <2>3
  <2> QED
    BY <2>2, <2>3
<1>14. active' \in BOOLEAN
  BY <1>10
<1>15. Ring!IncWrPtr
  BY <1>2, <1>9, <1>10, <1>11, <1>12, <1>13 DEF Ring!IncWrPtr
<1> QED
  BY <1>12, <1>14, <1>15 DEF IInv

(* IncRdPtr opens the buffer and, if a sample is there, forgets the        *)
(* oldest.                                                                 *)
LEMMA IncRdPtrStep ==
    ASSUME IInv, IncRdPtr
    PROVE  IInv' /\ Ring!IncRdPtr
<1>1. PICK b : b = Initialised(buf)
  OBVIOUS
<1>2. PICK r : r = Ring!Initialised(ByAge(buf))
  OBVIOUS
<1>3. CellsOK(b) /\ b.init_buffer /\ ByAge(b) = r /\ b.cells_alloc = r.cells_alloc
  BY <1>1, <1>2, InitialisedAs DEF IInv
<1>4. CellsOK(Consumed(b)) /\ ByAge(Consumed(b)) = Ring!Consumed(r)
  BY <1>3, ConsumedAs
<1>5. ByAge(buf).init_buffer = buf.init_buffer /\ r.cells_stored = b.cells_stored
  BY <1>3, SameByAge
<1>6. PICK empty \in BOOLEAN : empty <=> b.cells_stored = 0
  OBVIOUS
<1>7. /\ HeapHolds(b)
      /\ buf' = IF empty THEN b ELSE Consumed(b)
      /\ active' = (active \/ ~empty \/ ~buf.init_buffer)
      /\ ret' = b.cells_stored
      /\ UNCHANGED <<fetched, reported>>
  BY <1>1, <1>6 DEF IncRdPtr, ActiveIf
<1>8. Ring!HeapHolds(r)
  BY <1>3, <1>7 DEF HeapHolds, Ring!HeapHolds
<1>9. CellsOK(buf') /\ ByAge(buf') = IF empty THEN r ELSE Ring!Consumed(r)
  BY <1>3, <1>4, <1>7
<1>10. active' = IF empty THEN active \/ ~ByAge(buf).init_buffer ELSE TRUE
  <2>1. active \in BOOLEAN
    BY DEF IInv
  <2>2. CASE empty
    BY <1>5, <1>7, <2>2
  <2>3. CASE ~empty
    BY <1>7, <2>3
  <2> QED
    BY <2>2, <2>3
<1>11. active' \in BOOLEAN
  BY <1>7
<1>12. Ring!IncRdPtr
  BY <1>2, <1>5, <1>6, <1>7, <1>8, <1>9, <1>10 DEF Ring!IncRdPtr
<1> QED
  BY <1>9, <1>11, <1>12 DEF IInv

(* A read walks to its cell and fetches the sample which the ring has at   *)
(* that age.                                                               *)
LEMMA ReadAccessStep ==
    ASSUME IInv, NEW delay \in Delays, ReadAccess(delay)
    PROVE  IInv' /\ Ring!ReadAccess(delay)
<1>0. delay \in Int
  BY DelayAssumption
<1>1. PICK b : b = Initialised(buf)
  OBVIOUS
<1>2. PICK r : r = Ring!Initialised(ByAge(buf))
  OBVIOUS
<1>3. CellsOK(b) /\ b.init_buffer /\ ByAge(b) = r /\ b.cells_alloc = r.cells_alloc
  BY <1>1, <1>2, InitialisedAs DEF IInv
<1>4. PICK d : d = ReaderAt(b, delay)
  OBVIOUS
<1>5. /\ CellsOK(d) /\ ByAge(d) = Ring!ReaderAt(r, delay)
      /\ d.pdata[d.plast_rd] = r.ring[Ring!ReaderAt(r, delay).plast_rd]
      /\ d.pdata = b.pdata
  BY <1>0, <1>3, <1>4, ReaderAtAs
<1>6. ByAge(buf).init_buffer = buf.init_buffer
      /\ AccessErrors(b, TRUE, delay) = Ring!AccessErrors(r, TRUE, delay)
  BY <1>0, <1>3, SameByAge
<1>7. /\ HeapHolds(b)
      /\ buf' = d
      /\ active' = (active \/ ~buf.init_buffer)
      /\ fetched' \in IF 800 \in reported THEN Sample ELSE {b.pdata[d.plast_rd]}
      /\ reported' = reported \cup AccessErrors(b, TRUE, delay)
      /\ ret' = ret
  <2>1. active \in BOOLEAN
    BY DEF IInv
  <2>2. buf' = d /\ active' = (active \/ FALSE \/ ~buf.init_buffer)
    BY <1>1, <1>4 DEF ReadAccess, ActiveIf
  <2>3. active' = (active \/ ~buf.init_buffer)
    BY <2>1, <2>2
  <2>4. fetched' \in IF 800 \in reported THEN Sample ELSE {b.pdata[buf'.plast_rd]}
    BY <1>1 DEF ReadAccess
  <2> QED
    BY <1>1, <2>2, <2>3, <2>4 DEF ReadAccess
<1>8. Ring!HeapHolds(r)
  BY <1>3, <1>7 DEF HeapHolds, Ring!HeapHolds
<1>9. ByAge(buf') = Ring!ReaderAt(r, delay)
  BY <1>5, <1>7
<1>10. fetched' \in IF 800 \in reported THEN Sample ELSE {r.ring[ByAge(buf').plast_rd]}
  BY <1>5, <1>7, <1>9
<1>11. Ring!ReadAccess(delay)
  BY <1>2, <1>6, <1>7, <1>8, <1>9, <1>10, ZenonT(30) DEF Ring!ReadAccess
<1>12. active' \in BOOLEAN
  BY <1>7
<1> QED
  BY <1>5, <1>7, <1>11, <1>12 DEF IInv

(* A write walks to its cell and stores there.                             *)
LEMMA WriteAccessStep ==
    ASSUME IInv, NEW delay \in Delays, NEW v \in Sample, WriteAccess(delay, v)
    PROVE  IInv' /\ Ring!WriteAccess(delay, v)
<1>0. delay \in Int
  BY DelayAssumption
<1>1. PICK b : b = Initialised(buf)
  OBVIOUS
<1>2. PICK r : r = Ring!Initialised(ByAge(buf))
  OBVIOUS
<1>3. CellsOK(b) /\ b.init_buffer /\ ByAge(b) = r /\ b.cells_alloc = r.cells_alloc
  BY <1>1, <1>2, InitialisedAs DEF IInv
<1>4. PICK w : w = WriterAt(b, delay)
  OBVIOUS
<1>5. CellsOK(w) /\ w.init_buffer /\ ByAge(w) = Ring!WriterAt(r, delay)
  BY <1>0, <1>3, <1>4, WriterAtAs
<1>6. PICK d : d = Written(w, v)
  OBVIOUS
<1>7. CellsOK(d) /\ ByAge(d) = Ring!Stored(Ring!WriterAt(r, delay), v)
  BY <1>5, <1>6, WrittenAs
<1>8. ByAge(buf).init_buffer = buf.init_buffer
      /\ AccessErrors(b, FALSE, delay) = Ring!AccessErrors(r, FALSE, delay)
  BY <1>0, <1>3, SameByAge
<1>9. /\ HeapHolds(b)
      /\ buf' = d
      /\ active' = (active \/ ~buf.init_buffer)
      /\ reported' = reported \cup AccessErrors(b, FALSE, delay)
      /\ UNCHANGED <<ret, fetched>>
  <2>1. active \in BOOLEAN
    BY DEF IInv
  <2>2. buf' = d /\ active' = (active \/ FALSE \/ ~buf.init_buffer)
    BY <1>1, <1>4, <1>6 DEF WriteAccess, ActiveIf, Written
  <2>3. active' = (active \/ ~buf.init_buffer)
    BY <2>1, <2>2
  <2> QED
    BY <1>1, <2>2, <2>3 DEF WriteAccess
<1>10. Ring!HeapHolds(r)
  BY <1>3, <1>9 DEF HeapHolds, Ring!HeapHolds
<1>11. Ring!WriteAccess(delay, v)
  BY <1>2, <1>7, <1>8, <1>9, <1>10 DEF Ring!WriteAccess
<1>12. active' \in BOOLEAN
  BY <1>9
<1> QED
  BY <1>7, <1>9, <1>11, <1>12 DEF IInv

(* BufferLength opens the buffer and answers what the ring answers.        *)
LEMMA BufferLengthStep ==
    ASSUME IInv, BufferLength
    PROVE  IInv' /\ Ring!BufferLength
<1>1. PICK b : b = Initialised(buf)
  OBVIOUS
<1>2. PICK r : r = Ring!Initialised(ByAge(buf))
  OBVIOUS
<1>3. CellsOK(b) /\ b.init_buffer /\ ByAge(b) = r /\ b.cells_alloc = r.cells_alloc
  BY <1>1, <1>2, InitialisedAs DEF IInv
<1>4. ByAge(buf).init_buffer = buf.init_buffer /\ r.cells_stored = b.cells_stored
  BY <1>3, SameByAge
<1>5. /\ HeapHolds(b)
      /\ buf' = b
      /\ active' = (active \/ ~buf.init_buffer)
      /\ ret' = b.cells_stored
      /\ UNCHANGED <<fetched, reported>>
  <2>1. active \in BOOLEAN
    BY DEF IInv
  <2>2. active' = (active \/ FALSE \/ ~buf.init_buffer)
    BY DEF BufferLength, ActiveIf
  <2>3. active' = (active \/ ~buf.init_buffer)
    BY <2>1, <2>2
  <2> QED
    BY <1>1, <2>3 DEF BufferLength
<1>6. Ring!HeapHolds(r)
  BY <1>3, <1>5 DEF HeapHolds, Ring!HeapHolds
<1>7. Ring!BufferLength
  BY <1>2, <1>3, <1>4, <1>5, <1>6 DEF Ring!BufferLength
<1>8. active' \in BOOLEAN
  BY <1>5
<1> QED
  BY <1>3, <1>5, <1>7, <1>8 DEF IInv

(* Every call keeps the cells in one circle and is a call on the ring.     *)
LEMMA StepRing == IInv /\ [Next]_vars => IInv' /\ [Ring!Next]_(Ring!vars)
<1> SUFFICES ASSUME IInv, [Next]_vars PROVE IInv' /\ [Ring!Next]_(Ring!vars)
  OBVIOUS
<1>1. ASSUME NEW size \in CellSizes, CellSize(size)
      PROVE  IInv' /\ [Ring!Next]_(Ring!vars)
  BY <1>1, CellSizeStep DEF Ring!Next, Ring!Settings
<1>2. ASSUME NEW d \in Delays, delay_max(d)
      PROVE  IInv' /\ [Ring!Next]_(Ring!vars)
  BY <1>2, DelayMaxStep DEF Ring!Next, Ring!Settings
<1>3. ASSUME NEW d \in Delays, delay_min(d)
      PROVE  IInv' /\ [Ring!Next]_(Ring!vars)
  BY <1>3, DelayMinStep DEF Ring!Next, Ring!Settings
<1>4. ASSUME NEW d \in Delays, ReadAccess(d)
      PROVE  IInv' /\ [Ring!Next]_(Ring!vars)
  BY <1>4, ReadAccessStep DEF Ring!Next, Ring!Reader
<1>5. ASSUME NEW d \in Delays, NEW v \in Sample, WriteAccess(d, v)
      PROVE  IInv' /\ [Ring!Next]_(Ring!vars)
  BY <1>5, WriteAccessStep DEF Ring!Next, Ring!Writer
<1>6. CASE IncWrPtr
  BY <1>6, IncWrPtrStep DEF Ring!Next, Ring!Writer
<1>7. CASE IncRdPtr
  BY <1>7, IncRdPtrStep DEF Ring!Next, Ring!Reader
<1>8. CASE BufferLength
  BY <1>8, BufferLengthStep DEF Ring!Next, Ring!Reader
<1>9. CASE BufferActive
  BY <1>9 DEF BufferActive, IInv, Ring!BufferActive, Ring!Next
<1>10. CASE UNCHANGED vars
  BY <1>10 DEF vars, IInv, Ring!vars
<1> QED
  BY <1>1, <1>2, <1>3, <1>4, <1>5, <1>6, <1>7, <1>8, <1>9, <1>10 DEF Next

-----------------------------------------------------------------------------

(* The cells are listed by age after any sequence of calls.                *)
LEMMA Invariant == Spec => []IInv
<1>1. Init => IInv
  BY InitRing
<1>2. IInv /\ [Next]_vars => IInv'
  BY StepRing
<1> QED
  BY <1>1, <1>2, PTL DEF Spec

(* add_cells and init_buffer join the cells in one circle whose two links  *)
(* are the reverse of each other, and no call takes a pointer out of it.   *)
THEOREM CellsStayJoined == Spec => []OneCircle
<1>1. IInv => OneCircle
  <2> SUFFICES ASSUME CellsOK(buf), buf.init_buffer PROVE OneCircle
    BY DEF IInv, OneCircle
  <2>1. PICK at, i, j : Listed(buf, at, i, j)
    BY IsListed
  <2>2. PICK n : n = buf.used
    OBVIOUS
  <2>3. /\ n \in Nat \ {0} /\ Order(buf, at) /\ buf.used = buf.cells_alloc
        /\ at \in [0..(n - 1) -> 1..n]
        /\ \A c \in 1..n : \E a \in 0..(n - 1) : at[a] = c
        /\ \A a \in 0..(n - 1) : /\ buf.pold[at[a]] = at[Older(n, a)]
                                 /\ buf.pnew[at[a]] = at[Newer(n, a)]
        /\ i \in 0..(n - 1) /\ j \in 0..(n - 1)
        /\ buf.plast_wr = at[i] /\ buf.plast_rd = at[j]
    BY <2>1, <2>2 DEF Listed, Order
  <2>4. ASSUME NEW c \in 1..n
        PROVE  buf.pold[buf.pnew[c]] = c /\ buf.pnew[buf.pold[c]] = c
    <3>1. PICK a \in 0..(n - 1) : at[a] = c
      BY <2>3
    <3>2. PICK o \in 0..(n - 1), w \in 0..(n - 1) : o = Older(n, a) /\ w = Newer(n, a)
      BY <2>3, NextAge
    <3>3. Older(n, w) = a /\ Newer(n, o) = a
      BY <2>3, <3>2, BackAndForth
    <3>4. buf.pnew[c] = at[w] /\ buf.pold[c] = at[o]
      BY <2>3, <3>1, <3>2
    <3>5. buf.pold[at[w]] = at[a] /\ buf.pnew[at[o]] = at[a]
      BY <2>3, <3>3
    <3> QED
      BY <3>1, <3>4, <3>5
  <2>5. \A a \in 0..(n - 1) : CellAt(buf, a) = at[a]
    BY <2>2, <2>3, Aged
  <2>6. {CellAt(buf, a) : a \in 0..(n - 1)} = 1..n
    BY <2>3, <2>5
  <2>7. buf.plast_wr \in 1..n /\ buf.plast_rd \in 1..n
    BY <2>3
  <2> QED
    BY <2>2, <2>3, <2>4, <2>6, <2>7 DEF OneCircle
<1> QED
  BY <1>1, Invariant, PTL

(* The buffer that follows links delivers what the ring delivers: seen by  *)
(* age, every call on the linked cells is the same call on the ring.       *)
THEOREM LinksAreARing == Spec => ImplementsRing
<1>1. Init => Ring!Init
  BY InitRing
<1>2. IInv /\ [Next]_vars => [Ring!Next]_(Ring!vars)
  BY StepRing
<1> QED
  BY <1>1, <1>2, Invariant, PTL DEF Spec, ImplementsRing, Ring!Spec

=============================================================================
