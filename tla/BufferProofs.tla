----------------------------- MODULE BufferProofs -----------------------------
(***************************************************************************)
(* Proofs about Buffer for every size, delay, chunk and segment limit.     *)
(*                                                                         *)
(* The operators of Buffer are the functions of krn_buffer.c on a buffer_t *)
(* record, so the proof has one lemma per operator: what it leaves of      *)
(* BufferOK, Room and InStep.  The actions follow from the lemmas.         *)
(***************************************************************************)
EXTENDS Buffer, TLAPS

-----------------------------------------------------------------------------
(* Stepping around a ring of n cells. *)

LEMMA ModRange ==
    ASSUME NEW n \in Nat \ {0}, NEW x \in Int
    PROVE  x % n \in 0..(n - 1)
  OBVIOUS

LEMMA ModSame ==
    ASSUME NEW n \in Nat \ {0}, NEW x \in 0..(n - 1)
    PROVE  x % n = x
  OBVIOUS

LEMMA ModAbove ==
    ASSUME NEW n \in Nat \ {0}, NEW x \in n..(2 * n - 1)
    PROVE  x % n = x - n
  OBVIOUS

LEMMA ModBelow ==
    ASSUME NEW n \in Nat \ {0}, NEW x \in (-n)..(-1)
    PROVE  x % n = x + n
  OBVIOUS

(* A walk of i and then of k is a walk of i + k, for walks that stay       *)
(* within one turn of the ring.                                            *)
LEMMA ModThen ==
    ASSUME NEW n \in Nat \ {0}, NEW i \in (-n)..(n - 1), NEW k \in Int,
           i + k \in (-n)..(n - 1), k \in (-n)..n
    PROVE  ((i % n) + k) % n = (i + k) % n
  <1>1. CASE i >= 0 /\ i + k \in (-n)..(n - 1)
    BY <1>1, ModSame
  <1>2. CASE i < 0
    <2>1. i % n = i + n
      BY <1>2, ModBelow
    <2>2. i + n + k \in (-n)..(2 * n - 1)
      BY <1>2
    <2>3. CASE i + k < 0 /\ i + n + k < 0
      BY <2>1, <2>3, ModBelow
    <2>4. CASE i + k < 0 /\ i + n + k >= 0
      BY <2>1, <2>4, ModBelow, ModSame
    <2>5. CASE i + k >= 0
      <3>1. i + n + k \in n..(2 * n - 1) /\ i + k \in 0..(n - 1)
        BY <2>5
      <3>2. (i + n + k) % n = (i + n + k) - n /\ (i + k) % n = i + k
        BY <3>1, ModAbove, ModSame
      <3> QED BY <2>1, <3>2
    <2> QED BY <2>3, <2>4, <2>5
  <1> QED BY <1>1, <1>2

-----------------------------------------------------------------------------
(* The operators on one buffer_t. *)

LEMMA InitialisedOK ==
    ASSUME NEW b, BufferOK(b), Room(b)
    PROVE  /\ BufferOK(Initialised(b))
           /\ Room(Initialised(b))
           /\ Initialised(b).init_buffer
           /\ InStep(b) => InStep(Initialised(b))
  <1> DEFINE c == Initialised(b)
  <1>1. CASE b.init_buffer
    BY <1>1 DEF Initialised
  <1>2. CASE ~b.init_buffer
    <2>1. b \in BufferRecords({b.ring})
      BY DEF BufferOK
    <2>2. /\ c.dmax = b.dmax /\ c.dmin = b.dmin
          /\ c.cells_alloc = b.dmax + 2 /\ c.cells_stored = b.dmin
          /\ c.plast_wr = 0 /\ c.dlast_wr = 0 /\ c.plast_rd = 0 /\ c.dlast_rd = 0
          /\ c.init_buffer
          /\ c.ring = [a \in 0..(b.dmax + 1) |-> Zero]
      BY <1>2, <2>1 DEF Initialised, BufferRecords
    <2>4. b.dmax \in Nat /\ b.dmin \in Nat
      BY <2>1 DEF BufferRecords
    <2>3. c \in BufferRecords({c.ring})
      <3>1. (IF b.cellsize < 0 THEN DefaultSize ELSE b.cellsize)
              \in {-1, DefaultSize} \cup CellSizes
        BY <2>1 DEF BufferRecords
      <3> QED BY <1>2, <2>1, <2>4, <3>1 DEF Initialised, BufferRecords
    <2>5. c.ring \in [0..(c.cells_alloc - 1) -> Sample]
      BY <2>2, <2>4, SampleAssumption
    <2>6. BufferOK(c)
      BY <2>2, <2>3, <2>4, <2>5 DEF BufferOK
    <2>7. Room(c)
      BY <2>2, <2>4 DEF Room
    <2>8. InStep(c)
      <3>1. 0 % (b.dmax + 2) = 0
        BY <2>4, ModSame
      <3> QED BY <2>2, <2>4, <3>1 DEF InStep, Walk
    <2> QED BY <2>2, <2>6, <2>7, <2>8
  <1> QED BY <1>1, <1>2

(* What a usable buffer has, conjunct by conjunct. *)
Shape(b) ==
    /\ b \in BufferRecords({b.ring})
    /\ b.ring \in [0..(b.cells_alloc - 1) -> Sample]
    /\ b.init_buffer

Counts(b) ==
    /\ b.dmax \in Nat /\ b.dmin \in Nat /\ b.cells_stored \in Nat
    /\ b.memseg \in Nat
    /\ b.cells_alloc \in Nat /\ b.cells_alloc > 0
    /\ b.plast_wr \in Nat /\ b.plast_wr < b.cells_alloc
    /\ b.plast_rd \in Nat /\ b.plast_rd < b.cells_alloc
    /\ b.dlast_wr \in Int /\ b.dlast_rd \in Int
    /\ b.dmin <= b.dmax
    /\ b.cells_alloc >= b.dmax + 2
    /\ b.cells_alloc >= 1 + b.cells_stored + b.dmax - b.dmin

LEMMA Usable ==
    ASSUME NEW b, BufferOK(b), Room(b), b.init_buffer
    PROVE  Shape(b) /\ Counts(b)
  <1>1. /\ b \in BufferRecords({b.ring})
        /\ b.ring \in [0..(b.cells_alloc - 1) -> Sample]
        /\ {b.plast_wr, b.plast_rd} \subseteq 0..(b.cells_alloc - 1)
    BY DEF BufferOK
  <1>2. /\ b.dmax \in Nat /\ b.dmin \in Nat /\ b.cells_stored \in Nat
        /\ b.memseg \in Nat /\ b.cells_alloc \in Nat
        /\ b.dlast_wr \in Int /\ b.dlast_rd \in Int
    BY <1>1 DEF BufferRecords
  <1>3. /\ b.dmin <= b.dmax /\ b.cells_alloc >= b.dmax + 2
        /\ b.cells_alloc >= 1 + b.cells_stored + b.dmax - b.dmin
    BY DEF Room
  <1>4. \A x \in 0..(b.cells_alloc - 1) : x \in Nat /\ x < b.cells_alloc
    BY <1>2
  <1>5. Shape(b)
    BY <1>1 DEF Shape
  <1>6. /\ b.plast_wr \in Nat /\ b.plast_wr < b.cells_alloc
        /\ b.plast_rd \in Nat /\ b.plast_rd < b.cells_alloc
    BY <1>1, <1>4
  <1>7. b.cells_alloc > 0
    BY <1>2, <1>3
  <1> QED BY <1>2, <1>3, <1>5, <1>6, <1>7 DEF Counts

(* Growth happens only while the reader is behind the newest sample, so    *)
(* that the new, oldest cells do not come between pnewest and plast_rd.    *)
LEMMA GrownOK ==
    ASSUME NEW b, BufferOK(b), Room(b), b.init_buffer
    PROVE  /\ BufferOK(Grown(b))
           /\ Room(Grown(b))
           /\ Grown(b).init_buffer
           /\ Grown(b).cells_stored = b.cells_stored
           /\ Grown(b).dmin = b.dmin /\ Grown(b).dmax = b.dmax
           /\ ~NoRoom(Grown(b))
           /\ InStep(b) => InStep(Grown(b))
           /\ b.cells_alloc <= Grown(b).cells_alloc
           /\ \A a \in 0..(b.cells_alloc - 1) : Grown(b).ring[a] = b.ring[a]
  <1> DEFINE c == Grown(b)
  <1>1. /\ b \in BufferRecords({b.ring})
        /\ b.ring \in [0..(b.cells_alloc - 1) -> Sample]
        /\ {b.plast_wr, b.plast_rd} \subseteq 0..(b.cells_alloc - 1)
    BY DEF BufferOK
  <1>2. /\ b.dmax \in Nat /\ b.dmin \in Nat /\ b.cells_alloc \in Nat
        /\ b.cells_stored \in Nat /\ b.memseg \in Nat
        /\ b.plast_wr \in Nat /\ b.plast_rd \in Nat
        /\ b.dlast_wr \in Int /\ b.dlast_rd \in Int
    BY Usable DEF Shape, Counts
  <1>5. /\ b.dmin <= b.dmax /\ b.cells_alloc >= b.dmax + 2
        /\ b.cells_alloc >= 1 + b.cells_stored + b.dmax - b.dmin
    BY Usable DEF Shape, Counts
  <1>3. CASE ~NoRoom(b)
    <2>1. Grown(b) = b
      BY <1>3 DEF Grown
    <2> QED BY <1>2, <1>3, <2>1
  <1>4. CASE NoRoom(b)
    <2> DEFINE w == WithCells(b)
               n == b.cells_alloc + CELL_INC
    <2>n. n \in Nat /\ n > b.cells_alloc
      BY <1>2, SegmentAssumption
    <2>w. w \in BufferRecords({w.ring}) /\ w.memseg = b.memseg
      BY <1>1, <2>n DEF WithCells, BufferRecords
    <2>1. c \in BufferRecords({c.ring})
      <3>1. CASE SegmentsFull(b)
        BY <1>4, <2>w, <3>1 DEF Grown
      <3>2. CASE ~SegmentsFull(b)
        <4>1. c = [w EXCEPT !.memseg = b.memseg + 1]
          BY <1>4, <3>2 DEF Grown
        <4> HIDE DEF w
        <4>2. [w EXCEPT !.memseg = b.memseg + 1] \in BufferRecords({w.ring})
          BY <1>2, <2>w DEF BufferRecords
        <4>3. c.ring = w.ring
          BY <2>w, <4>1 DEF BufferRecords
        <4> QED BY <4>1, <4>2, <4>3
      <3> QED BY <3>1, <3>2
    <2>2. /\ c.dmax = b.dmax /\ c.dmin = b.dmin /\ c.init_buffer
          /\ c.cells_alloc = n
          /\ c.cells_stored = b.cells_stored
          /\ c.plast_wr = b.plast_wr /\ c.dlast_wr = b.dlast_wr
          /\ c.plast_rd = b.plast_rd /\ c.dlast_rd = b.dlast_rd
          /\ c.ring = [a \in 0..(n - 1) |->
                         IF a < b.cells_alloc THEN b.ring[a] ELSE Zero]
      <3> DEFINE r == [a \in 0..(n - 1) |->
                         IF a < b.cells_alloc THEN b.ring[a] ELSE Zero]
      <3>1. w = [b EXCEPT !.ring = r, !.cells_alloc = n]
        BY DEF WithCells
      <3>2. c = w \/ c = [w EXCEPT !.memseg = b.memseg + 1]
        BY <1>4 DEF Grown
      <3> HIDE DEF c, w, n, r
      <3>3. /\ w.dmax = b.dmax /\ w.dmin = b.dmin /\ w.init_buffer
            /\ w.cells_alloc = n
            /\ w.cells_stored = b.cells_stored
            /\ w.plast_wr = b.plast_wr /\ w.dlast_wr = b.dlast_wr
            /\ w.plast_rd = b.plast_rd /\ w.dlast_rd = b.dlast_rd
            /\ w.ring = r
        BY <1>1, <3>1 DEF BufferRecords
      <3>4. /\ c.dmax = b.dmax /\ c.dmin = b.dmin /\ c.init_buffer
            /\ c.cells_alloc = n
            /\ c.cells_stored = b.cells_stored
            /\ c.plast_wr = b.plast_wr /\ c.dlast_wr = b.dlast_wr
            /\ c.plast_rd = b.plast_rd /\ c.dlast_rd = b.dlast_rd
            /\ c.ring = r
        BY <2>w, <3>2, <3>3 DEF BufferRecords
      <3> QED BY <3>4 DEF r
    <2>3. c.ring \in [0..(c.cells_alloc - 1) -> Sample]
      <3>1. \A a \in 0..(n - 1) :
              (IF a < b.cells_alloc THEN b.ring[a] ELSE Zero) \in Sample
        <4> SUFFICES ASSUME NEW a \in 0..(n - 1), a < b.cells_alloc
                     PROVE  b.ring[a] \in Sample
          BY SampleAssumption
        <4>1. a \in 0..(b.cells_alloc - 1)
          BY <1>2, <2>n
        <4> QED BY <1>1, <4>1
      <3> HIDE DEF c, n
      <3> QED BY <2>2, <3>1
    <2>4. BufferOK(c)
      BY <1>1, <1>2, <2>n, <2>1, <2>2, <2>3 DEF BufferOK
    <2>5. Room(c) /\ ~NoRoom(c)
      <3>1. n = b.cells_alloc + CELL_INC /\ CELL_INC \in Nat \ {0}
        BY SegmentAssumption
      <3> HIDE DEF c, n
      <3>2. n >= b.dmax + 2 /\ n > 1 + b.cells_stored + b.dmax - b.dmin
        BY <1>2, <1>5, <2>n
      <3>3. n >= 1 + b.cells_stored + b.dmax - b.dmin
        BY <1>2, <2>n, <3>2
      <3>4. ~(n <= 1 + b.cells_stored + b.dmax - b.dmin)
        BY <1>2, <2>n, <3>2
      <3>5. Room(c)
        BY <1>5, <2>2, <3>2, <3>3 DEF Room
      <3> QED BY <2>2, <3>4, <3>5 DEF NoRoom
    <2>6. ASSUME InStep(b) PROVE InStep(c)
      <3> DEFINE i == b.cells_stored - b.dmin + b.dlast_rd
      <3>1. i \in 0..(b.cells_alloc - 1)
        BY <1>2, <1>4, <2>6 DEF Room, NoRoom, InStep
      <3>2. i % b.cells_alloc = i /\ i % c.cells_alloc = i
        <4> HIDE DEF c, n, i
        <4>1. b.cells_alloc \in Nat \ {0} /\ n \in Nat \ {0} /\ i \in 0..(n - 1)
          BY <1>2, <1>5, <2>n, <3>1
        <4> QED BY <2>2, <3>1, <4>1, ModSame
      <3> QED BY <2>2, <2>6, <3>2 DEF InStep, Walk
    <2>7. \A a \in 0..(b.cells_alloc - 1) : c.ring[a] = b.ring[a]
      BY <1>2, <2>n, <2>2
    <2>8. b.cells_alloc <= c.cells_alloc
      BY <1>2, <2>n, <2>2
    <2> QED BY <2>2, <2>4, <2>5, <2>6, <2>7, <2>8
  <1> QED BY <1>3, <1>4

(* Moving a pointer or changing the count keeps the record. *)
LEMMA MovedRecord ==
    ASSUME NEW r, NEW d \in BufferRecords({r}), NEW p \in Nat, NEW k \in Int
    PROVE  /\ [d EXCEPT !.plast_wr = p, !.dlast_wr = k] \in BufferRecords({r})
           /\ [d EXCEPT !.plast_rd = p, !.dlast_rd = k] \in BufferRecords({r})
  BY DEF BufferRecords

LEMMA CountedRecord ==
    ASSUME NEW r, NEW d \in BufferRecords({r}), NEW i \in Nat
    PROVE  [d EXCEPT !.cells_stored = i] \in BufferRecords({r})
  BY DEF BufferRecords

(* After an advance the reader is one sample further behind. *)
LEMMA AdvancedOK ==
    ASSUME NEW b, BufferOK(b), Room(b), b.init_buffer, ~NoRoom(b)
    PROVE  /\ BufferOK(Advanced(b))
           /\ Room(Advanced(b))
           /\ Advanced(b).init_buffer
           /\ InStep(b) => InStep(Advanced(b))
           /\ Advanced(b).cells_stored = b.cells_stored + 1
           /\ Advanced(b).dmin = b.dmin /\ Advanced(b).dmax = b.dmax
           /\ \A a \in 1..(b.cells_alloc - 1) : Advanced(b).ring[a] = b.ring[a - 1]
  <1> DEFINE n == b.cells_alloc
             r == [a \in 0..(n - 1) |-> b.ring[Walk(b, a, -1)]]
             p == Walk(b, b.plast_rd, 1)
             c == Advanced(b)
  <1>u. Shape(b) /\ Counts(b)
    BY Usable
  <1>1. n \in Nat \ {0} /\ p \in 0..(n - 1)
    <2>1. n \in Nat \ {0} /\ b.plast_rd + 1 \in Int
      BY <1>u DEF Counts
    <2> QED BY <2>1, ModRange DEF Walk
  <1>2. c = [b EXCEPT !.ring = r, !.plast_rd = p, !.plast_wr = 0, !.dlast_wr = 0,
                      !.cells_stored = b.cells_stored + 1]
    BY DEF Advanced
  <1> HIDE DEF c, p, r
  <1>3. c \in BufferRecords({r})
    <2>1. p \in Nat /\ b.cells_stored + 1 \in Nat
      BY <1>1, <1>u DEF Counts
    <2> DEFINE d == [b EXCEPT !.ring = r, !.plast_rd = p]
               e == [d EXCEPT !.plast_wr = 0, !.dlast_wr = 0]
    <2>2. d \in BufferRecords({r})
      BY <1>u, <2>1 DEF Shape, BufferRecords
    <2>3. c = [e EXCEPT !.cells_stored = b.cells_stored + 1]
      BY <1>2
    <2> HIDE DEF d
    <2>4. e \in BufferRecords({r})
      <3>1. 0 \in Nat /\ 0 \in Int
        OBVIOUS
      <3> QED BY <2>2, <3>1, MovedRecord
    <2> HIDE DEF e
    <2> QED BY <2>1, <2>3, <2>4, CountedRecord
  <1>4. /\ c.dmax = b.dmax /\ c.dmin = b.dmin /\ c.init_buffer
        /\ c.cells_alloc = n
        /\ c.cells_stored = b.cells_stored + 1
        /\ c.plast_wr = 0 /\ c.dlast_wr = 0
        /\ c.plast_rd = p /\ c.dlast_rd = b.dlast_rd
        /\ c.ring = r
    BY <1>2, <1>u DEF Shape, BufferRecords
  <1>5. r \in [0..(n - 1) -> Sample]
    <2>1. \A a \in 0..(n - 1) : Walk(b, a, -1) \in 0..(n - 1)
      BY <1>1, ModRange DEF Walk
    <2> QED BY <2>1, <1>u DEF Shape, r
  <1>6. BufferOK(c)
    BY <1>1, <1>3, <1>4, <1>5 DEF BufferOK
  <1>7. Room(c)
    BY <1>4, <1>u DEF Counts, Room, NoRoom
  <1>8. ASSUME InStep(b) PROVE InStep(c)
    <2> DEFINE i == b.cells_stored - b.dmin + b.dlast_rd
    <2>1. b.plast_rd = i % n /\ b.dlast_rd \in 0..b.dmax
      BY <1>8 DEF InStep, Walk
    <2>2. i \in (-n)..(n - 1) /\ i + 1 \in (-n)..(n - 1)
      BY <2>1, <1>u DEF Counts, NoRoom
    <2>3. ((i % n) + 1) % n = (i + 1) % n
      BY <1>1, <2>2, ModThen
    <2>4. c.cells_stored - c.dmin + c.dlast_rd = i + 1
      BY <1>4, <2>1, <1>u DEF Counts
    <2>5. c.plast_rd = (c.cells_stored - c.dmin + c.dlast_rd) % c.cells_alloc
      BY <1>4, <2>1, <2>3, <2>4 DEF p, Walk
    <2> QED BY <1>4, <2>1, <2>5, <1>u DEF Counts, InStep, Walk
  <1>9. ASSUME NEW a \in 1..(n - 1) PROVE c.ring[a] = b.ring[a - 1]
    <2>1. Walk(b, a, -1) = a - 1
      <3>1. a - 1 \in 0..(n - 1) /\ a + (-1) = a - 1
        BY <1>1, <1>9
      <3> QED BY <1>1, <3>1, ModSame DEF Walk
    <2> QED BY <1>1, <1>4, <2>1 DEF r
  <1> QED BY <1>4, <1>6, <1>7, <1>8, <1>9 DEF c

LEMMA ConsumedOK ==
    ASSUME NEW b, BufferOK(b), Room(b), b.init_buffer, b.cells_stored # 0
    PROVE  /\ BufferOK(Consumed(b))
           /\ Room(Consumed(b))
           /\ Consumed(b).init_buffer
           /\ InStep(b) => InStep(Consumed(b))
           /\ Consumed(b).cells_stored = b.cells_stored - 1
           /\ Consumed(b).dmin = b.dmin /\ Consumed(b).dmax = b.dmax
           /\ Consumed(b).ring = b.ring
  <1> DEFINE n == b.cells_alloc
             p == Walk(b, b.plast_rd, -1)
             c == Consumed(b)
  <1>u. Shape(b) /\ Counts(b)
    BY Usable
  <1>1. n \in Nat \ {0} /\ p \in 0..(n - 1)
    <2>1. n \in Nat \ {0} /\ b.plast_rd + (-1) \in Int
      BY <1>u DEF Counts
    <2> QED BY <2>1, ModRange DEF Walk
  <1>2. c = [b EXCEPT !.plast_rd = p, !.cells_stored = b.cells_stored - 1]
    BY DEF Consumed
  <1> HIDE DEF c, p
  <1>3. c \in BufferRecords({b.ring})
    <2>1. p \in Nat /\ b.cells_stored - 1 \in Nat
      BY <1>1, <1>u DEF Counts
    <2> QED BY <1>2, <1>u, <2>1 DEF Shape, BufferRecords
  <1>4. /\ c.dmax = b.dmax /\ c.dmin = b.dmin /\ c.init_buffer
        /\ c.cells_alloc = n
        /\ c.cells_stored = b.cells_stored - 1
        /\ c.plast_wr = b.plast_wr /\ c.dlast_wr = b.dlast_wr
        /\ c.plast_rd = p /\ c.dlast_rd = b.dlast_rd
        /\ c.ring = b.ring
    BY <1>2, <1>u DEF Shape, BufferRecords
  <1>5. BufferOK(c)
    BY <1>1, <1>3, <1>4, <1>u DEF Shape, Counts, BufferOK
  <1>6. Room(c)
    BY <1>4, <1>u DEF Counts, Room
  <1>7. ASSUME InStep(b) PROVE InStep(c)
    <2> DEFINE i == b.cells_stored - b.dmin + b.dlast_rd
    <2>1. b.plast_rd = i % n /\ b.dlast_rd \in 0..b.dmax
      BY <1>7 DEF InStep, Walk
    <2>2. i \in (-n)..(n - 1) /\ i + (-1) \in (-n)..(n - 1)
      BY <2>1, <1>u DEF Counts
    <2>3. ((i % n) + (-1)) % n = (i + (-1)) % n
      BY <1>1, <2>2, ModThen
    <2>4. c.cells_stored - c.dmin + c.dlast_rd = i + (-1)
      BY <1>4, <2>1, <1>u DEF Counts
    <2>5. c.plast_rd = (c.cells_stored - c.dmin + c.dlast_rd) % c.cells_alloc
      BY <1>4, <2>1, <2>3, <2>4 DEF p, Walk
    <2> QED BY <1>4, <1>7, <2>1, <2>5, <1>u DEF Counts, InStep, Walk
  <1> QED BY <1>4, <1>5, <1>6, <1>7 DEF c

(* A legal access leaves the reader's pointer where a walk of the new      *)
(* delay from the read position would end: the sample it stands on is the  *)
(* one the reader means.                                                   *)
LEMMA ReaderAtOK ==
    ASSUME NEW b, BufferOK(b), Room(b), b.init_buffer, NEW delay \in Int
    PROVE  /\ BufferOK(ReaderAt(b, delay))
           /\ Room(ReaderAt(b, delay))
           /\ ReaderAt(b, delay).init_buffer
           /\ ReaderAt(b, delay).cells_stored = b.cells_stored
           /\ ReaderAt(b, delay).dmin = b.dmin /\ ReaderAt(b, delay).dmax = b.dmax
           /\ ReaderAt(b, delay).ring = b.ring
           /\ ReaderAt(b, delay).plast_rd \in DOMAIN b.ring
           /\ InStep(b) /\ delay \in b.dmin..b.dmax =>
                /\ InStep(ReaderAt(b, delay))
                /\ ReaderAt(b, delay).plast_rd = b.cells_stored - b.dmin + delay
  <1> DEFINE n == b.cells_alloc
             k == delay - b.dlast_rd
             p == Walk(b, b.plast_rd, k)
             c == ReaderAt(b, delay)
  <1>u. Shape(b) /\ Counts(b)
    BY Usable
  <1>1. n \in Nat \ {0} /\ p \in 0..(n - 1)
    <2>1. n \in Nat \ {0} /\ b.plast_rd + k \in Int
      BY <1>u DEF Counts
    <2> QED BY <2>1, ModRange DEF Walk
  <1>2. c = [b EXCEPT !.plast_rd = p, !.dlast_rd = delay]
    BY DEF ReaderAt
  <1> HIDE DEF c, p
  <1>3. c \in BufferRecords({b.ring})
    <2>1. p \in Nat
      BY <1>1
    <2> QED BY <1>2, <1>u, <2>1, MovedRecord DEF Shape
  <1>4. /\ c.dmax = b.dmax /\ c.dmin = b.dmin /\ c.init_buffer
        /\ c.cells_alloc = n
        /\ c.cells_stored = b.cells_stored
        /\ c.plast_wr = b.plast_wr /\ c.dlast_wr = b.dlast_wr
        /\ c.plast_rd = p /\ c.dlast_rd = delay
        /\ c.ring = b.ring
    BY <1>2, <1>u DEF Shape, BufferRecords
  <1>5. BufferOK(c)
    BY <1>1, <1>3, <1>4, <1>u DEF Shape, Counts, BufferOK
  <1>6. Room(c)
    BY <1>4, <1>u DEF Counts, Room
  <1>7. c.plast_rd \in DOMAIN b.ring
    BY <1>1, <1>4, <1>u DEF Shape
  <1>8. ASSUME InStep(b), delay \in b.dmin..b.dmax
        PROVE  InStep(c) /\ c.plast_rd = b.cells_stored - b.dmin + delay
    <2> DEFINE i == b.cells_stored - b.dmin + b.dlast_rd
               j == b.cells_stored - b.dmin + delay
    <2>1. b.plast_rd = i % n /\ b.dlast_rd \in 0..b.dmax
      BY <1>8 DEF InStep, Walk
    <2>2. i \in (-n)..(n - 1) /\ j \in 0..(n - 1) /\ k \in (-n)..n /\ i + k = j
      BY <1>8, <2>1, <1>u DEF Counts
    <2>3. ((i % n) + k) % n = (i + k) % n
      <3> HIDE DEF i, j, k, n
      <3>1. i + k \in (-n)..(n - 1) /\ k \in Int
        BY <1>1, <2>2
      <3> QED BY <1>1, <2>2, <3>1, ModThen
    <2>4. j % n = j
      <3> HIDE DEF j, n
      <3> QED BY <1>1, <2>2, ModSame
    <2>5. c.plast_rd = j
      BY <1>4, <2>1, <2>2, <2>3, <2>4 DEF p, Walk
    <2>6. c.plast_rd = (c.cells_stored - c.dmin + c.dlast_rd) % c.cells_alloc
      BY <1>4, <2>4, <2>5
    <2>7. c.dlast_rd \in 0..c.dmax
      BY <1>4, <1>8, <1>u DEF Counts
    <2> QED BY <1>4, <1>8, <2>5, <2>6, <2>7 DEF InStep, Walk
  <1> QED BY <1>4, <1>5, <1>6, <1>7, <1>8 DEF c

LEMMA WriterAtOK ==
    ASSUME NEW b, BufferOK(b), Room(b), b.init_buffer, NEW delay \in Int
    PROVE  /\ BufferOK(WriterAt(b, delay))
           /\ Room(WriterAt(b, delay))
           /\ WriterAt(b, delay).init_buffer
           /\ WriterAt(b, delay).cells_stored = b.cells_stored
           /\ WriterAt(b, delay).cells_alloc = b.cells_alloc
           /\ WriterAt(b, delay).dmin = b.dmin /\ WriterAt(b, delay).dmax = b.dmax
           /\ WriterAt(b, delay).ring = b.ring
           /\ InStep(b) /\ delay \in 0..b.dmax =>
                /\ InStep(WriterAt(b, delay))
                /\ WriterAt(b, delay).plast_wr = delay
  <1> DEFINE n == b.cells_alloc
             k == delay - b.dlast_wr
             p == Walk(b, b.plast_wr, k)
             c == WriterAt(b, delay)
  <1>u. Shape(b) /\ Counts(b)
    BY Usable
  <1>1. n \in Nat \ {0} /\ p \in 0..(n - 1)
    <2>1. n \in Nat \ {0} /\ b.plast_wr + k \in Int
      BY <1>u DEF Counts
    <2> QED BY <2>1, ModRange DEF Walk
  <1>2. c = [b EXCEPT !.plast_wr = p, !.dlast_wr = delay]
    BY DEF WriterAt
  <1> HIDE DEF c, p
  <1>3. c \in BufferRecords({b.ring})
    <2>1. p \in Nat
      BY <1>1
    <2> QED BY <1>2, <1>u, <2>1, MovedRecord DEF Shape
  <1>4. /\ c.dmax = b.dmax /\ c.dmin = b.dmin /\ c.init_buffer
        /\ c.cells_alloc = n
        /\ c.cells_stored = b.cells_stored
        /\ c.plast_rd = b.plast_rd /\ c.dlast_rd = b.dlast_rd
        /\ c.plast_wr = p /\ c.dlast_wr = delay
        /\ c.ring = b.ring
    BY <1>2, <1>u DEF Shape, BufferRecords
  <1>5. BufferOK(c)
    BY <1>1, <1>3, <1>4, <1>u DEF Shape, Counts, BufferOK
  <1>6. Room(c)
    BY <1>4, <1>u DEF Counts, Room
  <1>7. ASSUME InStep(b), delay \in 0..b.dmax
        PROVE  InStep(c) /\ c.plast_wr = delay
    <2>1. b.plast_wr + k = delay /\ delay \in 0..(n - 1)
      BY <1>7, <1>u DEF InStep, Counts
    <2>2. p = delay
      BY <1>1, <2>1, ModSame DEF p, Walk
    <2> QED BY <1>4, <1>7, <2>2 DEF InStep, Walk
  <1> QED BY <1>4, <1>5, <1>6, <1>7 DEF c

(* A store changes one cell and nothing else. *)
LEMMA StoredOK ==
    ASSUME NEW b, BufferOK(b), Room(b), b.init_buffer, NEW v \in Sample
    PROVE  /\ BufferOK(Stored(b, v))
           /\ Room(Stored(b, v))
           /\ Stored(b, v).init_buffer
           /\ Stored(b, v).cells_stored = b.cells_stored
           /\ Stored(b, v).dmin = b.dmin /\ Stored(b, v).dmax = b.dmax
           /\ InStep(b) => InStep(Stored(b, v))
           /\ \A a \in 0..(b.cells_alloc - 1) :
                Stored(b, v).ring[a] = IF a = b.plast_wr THEN v ELSE b.ring[a]
  <1> DEFINE r == [a \in 0..(b.cells_alloc - 1) |->
                     IF a = b.plast_wr THEN v ELSE b.ring[a]]
             c == Stored(b, v)
  <1>u. Shape(b) /\ Counts(b)
    BY Usable
  <1>1. c = [b EXCEPT !.ring = r]
    BY DEF Stored
  <1>2. r \in [0..(b.cells_alloc - 1) -> Sample]
    BY <1>u DEF Shape
  <1> HIDE DEF c, r
  <1>3. c \in BufferRecords({r})
    BY <1>1, <1>u DEF Shape, BufferRecords
  <1>4. /\ c.dmax = b.dmax /\ c.dmin = b.dmin /\ c.init_buffer
        /\ c.cells_alloc = b.cells_alloc
        /\ c.cells_stored = b.cells_stored
        /\ c.plast_rd = b.plast_rd /\ c.dlast_rd = b.dlast_rd
        /\ c.plast_wr = b.plast_wr /\ c.dlast_wr = b.dlast_wr
        /\ c.ring = r
    BY <1>1, <1>u DEF Shape, BufferRecords
  <1>5. BufferOK(c)
    BY <1>2, <1>3, <1>4 DEF BufferOK
  <1>6. Room(c)
    BY <1>4 DEF Room
  <1>7. InStep(b) => InStep(c)
    BY <1>4 DEF InStep, Walk
  <1>8. \A a \in 0..(b.cells_alloc - 1) :
          c.ring[a] = IF a = b.plast_wr THEN v ELSE b.ring[a]
    BY <1>4 DEF r
  <1> QED BY <1>4, <1>5, <1>6, <1>7, <1>8 DEF c

-----------------------------------------------------------------------------
(* The three invariants together are inductive. *)

IInv == TypeOK /\ NeverOverrun /\ PointersInStep

LEMMA InitIInv == Init => IInv
  <1> SUFFICES ASSUME Init PROVE IInv
    OBVIOUS
  <1> DEFINE b == CreateBuffer
  <1>1. /\ b.init_buffer = FALSE /\ b.cells_alloc = 0
        /\ b.dmin = 0 /\ b.dmax = DefaultDmax
        /\ b.ring = [a \in 0..-1 |-> Zero]
    BY DEF CreateBuffer
  <1>2. b \in BufferRecords({b.ring})
    BY DelayAssumption DEF CreateBuffer, BufferRecords
  <1>3. BufferOK(b) /\ Room(b) /\ InStep(b)
    BY <1>1, <1>2, DelayAssumption, SampleAssumption DEF BufferOK, Room, InStep
  <1> QED BY <1>3, SampleAssumption
      DEF Init, IInv, TypeOK, NeverOverrun, PointersInStep

(* Settings change a buffer nobody has used. *)
LEMMA SettingsOK ==
    ASSUME BufferOK(buf), Room(buf), Settings
    PROVE  /\ BufferOK(buf') /\ Room(buf') /\ ~buf'.init_buffer
           /\ reported \subseteq reported'
           /\ reported' \subseteq reported \cup {800}
           /\ UNCHANGED <<active, ret, fetched>>
  <1>1. /\ buf \in BufferRecords({buf.ring})
        /\ buf.ring \in [0..(buf.cells_alloc - 1) -> Sample]
        /\ buf.dmin <= buf.dmax /\ buf.dmin \in Nat /\ buf.dmax \in Nat
    BY DEF BufferOK, Room, BufferRecords
  <1>2. CASE \E size \in CellSizes : CellSize(size)
    <2> PICK size \in CellSizes : CellSize(size)
      BY <1>2
    <2>1. CASE buf' = buf
      BY <2>1 DEF CellSize, Settable
    <2>2. CASE buf' = [buf EXCEPT !.cellsize = size]
      <3>1. buf' \in BufferRecords({buf.ring})
        BY <1>1, <2>2 DEF BufferRecords
      <3>2. /\ buf'.ring = buf.ring /\ buf'.cells_alloc = buf.cells_alloc
            /\ buf'.init_buffer = buf.init_buffer
            /\ buf'.dmin = buf.dmin /\ buf'.dmax = buf.dmax
        BY <1>1, <2>2 DEF BufferRecords
      <3> QED BY <1>1, <3>1, <3>2 DEF CellSize, Settable, BufferOK, Room
    <2> QED BY <2>1, <2>2 DEF CellSize
  <1>3. CASE \E d \in Delays : delay_max(d)
    <2> PICK d \in Delays : delay_max(d)
      BY <1>3
    <2>1. CASE buf' = buf
      BY <2>1 DEF delay_max, Settable
    <2>2. CASE d > buf.dmax /\ buf' = [buf EXCEPT !.dmax = d]
      <3>0. d \in Nat
        BY <1>1, <2>2, DelayAssumption
      <3>1. buf' \in BufferRecords({buf.ring})
        BY <1>1, <2>2, <3>0 DEF BufferRecords
      <3>2. /\ buf'.ring = buf.ring /\ buf'.cells_alloc = buf.cells_alloc
            /\ buf'.init_buffer = buf.init_buffer
            /\ buf'.dmin = buf.dmin /\ buf'.dmax = d
        BY <1>1, <2>2 DEF BufferRecords
      <3> QED BY <1>1, <2>2, <3>0, <3>1, <3>2 DEF delay_max, Settable, BufferOK, Room
    <2> QED BY <2>1, <2>2 DEF delay_max
  <1>4. CASE \E d \in Delays : delay_min(d)
    <2> PICK d \in Delays : delay_min(d)
      BY <1>4
    <2> DEFINE m == IF buf.dmax < d THEN d ELSE buf.dmax
    <2>1. d \in Nat /\ m \in Nat /\ d <= m
      BY <1>1, DelayAssumption DEF delay_min
    <2>2. buf' = [buf EXCEPT !.dmin = d, !.dmax = m]
      BY DEF delay_min
    <2> HIDE DEF m
    <2>3. buf' \in BufferRecords({buf.ring})
      BY <1>1, <2>1, <2>2 DEF BufferRecords
    <2>4. /\ buf'.ring = buf.ring /\ buf'.cells_alloc = buf.cells_alloc
          /\ buf'.init_buffer = buf.init_buffer
          /\ buf'.dmin = d /\ buf'.dmax = m
      BY <1>1, <2>2 DEF BufferRecords
    <2> QED BY <1>1, <2>1, <2>3, <2>4 DEF delay_min, Settable, BufferOK, Room
  <1> QED BY <1>2, <1>3, <1>4 DEF Settings

LEMMA NextIInv == IInv /\ [Next]_vars => IInv'
  <1> SUFFICES ASSUME IInv, [Next]_vars PROVE IInv'
    OBVIOUS
  <1> DEFINE b == Initialised(buf)
  <1>t. /\ BufferOK(buf) /\ Room(buf)
        /\ active \in BOOLEAN /\ ret \in Nat /\ fetched \in Sample
        /\ reported \subseteq 800..803
        /\ ~Faulty => InStep(buf)
    BY DEF IInv, TypeOK, NeverOverrun, PointersInStep
  <1>b. /\ BufferOK(b) /\ Room(b) /\ b.init_buffer
        /\ ~Faulty => InStep(b)
    BY <1>t, InitialisedOK
  <1>n. b.cells_stored \in Nat
    BY <1>b, Usable DEF Counts
  <1> HIDE DEF b
  <1>1. CASE Settings
    <2>1. /\ BufferOK(buf') /\ Room(buf') /\ ~buf'.init_buffer
          /\ reported' \subseteq 800..803
          /\ UNCHANGED <<active, ret, fetched>>
      <3>1. 800 \in 800..803
        OBVIOUS
      <3>2. reported' \subseteq reported \cup {800}
        BY <1>1, <1>t, SettingsOK
      <3> QED BY <1>1, <1>t, <3>1, <3>2, SettingsOK
    <2>2. InStep(buf)'
      BY <2>1 DEF InStep
    <2> QED BY <1>t, <2>1, <2>2 DEF IInv, TypeOK, NeverOverrun, PointersInStep
  <1>2. CASE IncWrPtr
    <2> DEFINE g == Grown(b)
    <2>1. /\ BufferOK(g) /\ Room(g) /\ g.init_buffer /\ ~NoRoom(g)
          /\ ~Faulty => InStep(g)
      BY <1>b, GrownOK
    <2>2. /\ BufferOK(Advanced(g)) /\ Room(Advanced(g))
          /\ ~Faulty => InStep(Advanced(g))
      BY <2>1, AdvancedOK
    <2>3. /\ buf' = g \/ buf' = Advanced(g)
          /\ active' \in BOOLEAN /\ ret' \in {0, 1}
          /\ UNCHANGED <<fetched, reported>>
      <3>1. /\ buf' = IF NoRoom(b) /\ SegmentsFull(b) THEN g ELSE Advanced(g)
            /\ active' \in {active \/ ~buf.init_buffer, TRUE}
            /\ ret' = IF NoRoom(b) /\ SegmentsFull(b) THEN 1 ELSE 0
            /\ UNCHANGED <<fetched, reported>>
        BY <1>2, Zenon DEF IncWrPtr, b
      <3> HIDE DEF g
      <3>2. active' \in BOOLEAN
        <4>1. (active \/ ~buf.init_buffer) \in BOOLEAN
          OBVIOUS
        <4> QED BY <3>1, <4>1, Zenon
      <3> QED BY <3>1, <3>2
    <2> HIDE DEF g
    <2>4. BufferOK(buf') /\ Room(buf') /\ (~Faulty => InStep(buf'))
      BY <2>1, <2>2, <2>3
    <2> QED BY <1>t, <2>3, <2>4 DEF IInv, TypeOK, NeverOverrun, PointersInStep, Faulty
  <1>3. CASE IncRdPtr
    <2>1. /\ buf' = b \/ (b.cells_stored # 0 /\ buf' = Consumed(b))
          /\ active' \in BOOLEAN /\ ret' \in Nat
          /\ UNCHANGED <<fetched, reported>>
      <3>1. /\ buf' = IF b.cells_stored = 0 THEN b ELSE Consumed(b)
            /\ active' \in {active \/ ~buf.init_buffer, TRUE}
            /\ ret' = b.cells_stored
            /\ UNCHANGED <<fetched, reported>>
        BY <1>3, Zenon DEF IncRdPtr, b
      <3>2. active' \in BOOLEAN
        <4>1. (active \/ ~buf.init_buffer) \in BOOLEAN
          OBVIOUS
        <4> QED BY <3>1, <4>1, Zenon
      <3> QED BY <1>n, <3>1, <3>2
    <2>2. BufferOK(buf') /\ Room(buf') /\ (~Faulty => InStep(buf'))
      BY <1>b, <2>1, ConsumedOK
    <2> QED BY <1>t, <2>1, <2>2 DEF IInv, TypeOK, NeverOverrun, PointersInStep, Faulty
  <1>4. CASE BufferLength
    <2>1. /\ buf' = b
          /\ active' \in BOOLEAN /\ ret' \in Nat
          /\ UNCHANGED <<fetched, reported>>
      BY <1>4, <1>t, <1>n DEF BufferLength, b
    <2> QED BY <1>t, <1>b, <2>1 DEF IInv, TypeOK, NeverOverrun, PointersInStep, Faulty
  <1>5. ASSUME NEW d \in Delays, ReadAccess(d) PROVE IInv'
    <2>0. d \in Int
      BY DelayAssumption
    <2>1. /\ buf' = ReaderAt(b, d)
          /\ active' \in BOOLEAN /\ UNCHANGED ret
          /\ fetched' \in Sample \/ fetched' = b.ring[buf'.plast_rd]
          /\ reported' = reported \cup AccessErrors(b, TRUE, d)
      BY <1>5, <1>t DEF ReadAccess, b
    <2>2. /\ BufferOK(buf') /\ Room(buf')
          /\ buf'.plast_rd \in DOMAIN b.ring
          /\ InStep(b) /\ d \in b.dmin..b.dmax => InStep(buf')
      BY <1>b, <2>0, <2>1, ReaderAtOK
    <2>3. b.ring \in [DOMAIN b.ring -> Sample] /\ b.dmin \in Nat /\ b.dmax \in Nat
      BY <1>b, Usable DEF Shape, Counts
    <2>4. fetched' \in Sample
      BY <2>1, <2>2, <2>3
    <2>5. reported' \subseteq 800..803
      BY <1>t, <2>1 DEF AccessErrors
    <2>6. ~Faulty' => InStep(buf')
      <3> SUFFICES ASSUME reported' = {} PROVE InStep(buf')
        BY DEF Faulty
      <3>1. reported = {} /\ AccessErrors(b, TRUE, d) = {}
        BY <2>1
      <3>2. d \in b.dmin..b.dmax
        BY <2>0, <2>3, <3>1 DEF AccessErrors
      <3> QED BY <1>b, <2>2, <3>1, <3>2 DEF Faulty
    <2> QED BY <1>t, <2>1, <2>2, <2>4, <2>5, <2>6
        DEF IInv, TypeOK, NeverOverrun, PointersInStep
  <1>6. ASSUME NEW d \in Delays, NEW v \in Sample, WriteAccess(d, v) PROVE IInv'
    <2> DEFINE w == WriterAt(b, d)
    <2>0. d \in Int
      BY DelayAssumption
    <2>1. /\ buf' = Stored(w, v)
          /\ active' \in BOOLEAN /\ UNCHANGED <<ret, fetched>>
          /\ reported' = reported \cup AccessErrors(b, FALSE, d)
      BY <1>6, <1>t DEF WriteAccess, b
    <2>2. /\ BufferOK(w) /\ Room(w) /\ w.init_buffer
          /\ InStep(b) /\ d \in 0..b.dmax => InStep(w)
      BY <1>b, <2>0, WriterAtOK
    <2> HIDE DEF w
    <2>3. /\ BufferOK(buf') /\ Room(buf')
          /\ InStep(w) => InStep(buf')
      BY <2>1, <2>2, StoredOK
    <2>4. reported' \subseteq 800..803
      BY <1>t, <2>1 DEF AccessErrors
    <2>5. ~Faulty' => InStep(buf')
      <3> SUFFICES ASSUME reported' = {} PROVE InStep(buf')
        BY DEF Faulty
      <3>1. reported = {} /\ AccessErrors(b, FALSE, d) = {}
        BY <2>1
      <3>2. b.dmax \in Nat
        BY <1>b, Usable DEF Counts
      <3>3. d \in 0..b.dmax
        BY <2>0, <3>1, <3>2 DEF AccessErrors
      <3> QED BY <1>b, <2>2, <2>3, <3>1, <3>3 DEF Faulty
    <2> QED BY <1>t, <2>1, <2>3, <2>4, <2>5
        DEF IInv, TypeOK, NeverOverrun, PointersInStep
  <1>7. CASE BufferActive
    <2>1. /\ active' \in BOOLEAN /\ ret' \in Nat
          /\ UNCHANGED <<buf, fetched, reported>>
      BY <1>7 DEF BufferActive
    <2> QED BY <1>t, <2>1 DEF IInv, TypeOK, NeverOverrun, PointersInStep, Faulty
  <1>8. CASE UNCHANGED vars
    BY <1>8, <1>t DEF vars, IInv, TypeOK, NeverOverrun, PointersInStep, Faulty
  <1> QED BY <1>1, <1>2, <1>3, <1>4, <1>5, <1>6, <1>7, <1>8 DEF Next, Writer, Reader

(* Whatever the two stars do, the buffer keeps its type: in particular the *)
(* kept pointers never leave the ring (IncWrPtr, IncRdPtr, BufferAccess).  *)
THEOREM TypeCorrect == Spec => []TypeOK
  <1>1. IInv => TypeOK
    BY DEF IInv
  <1> QED BY <1>1, InitIInv, NextIInv, PTL DEF Spec

(* IncWrPtr never overwrites a sample the reader may still ask for: the    *)
(* room test of krn_buffer.c is enough for every delay and chunk size.     *)
THEOREM NoOverrun == Spec => []NeverOverrun
  <1>1. IInv => NeverOverrun
    BY DEF IInv
  <1> QED BY <1>1, InitIInv, NextIInv, PTL DEF Spec

(* As long as no star broke its contract, the pointers kept between        *)
(* accesses stay in step with the counts, through growth and wrap-around.  *)
THEOREM PointersStayInStep == Spec => []PointersInStep
  <1>1. IInv => PointersInStep
    BY DEF IInv
  <1> QED BY <1>1, InitIInv, NextIInv, PTL DEF Spec

-----------------------------------------------------------------------------
(* The refinement.  Last(b) is the age of the oldest sample the reader may *)
(* still ask for; Room says that it is a cell of the ring.                 *)

Last(b) == b.cells_stored - b.dmin + b.dmax

LEMMA LineUsable ==
    ASSUME NEW b, BufferOK(b), Room(b), b.init_buffer
    PROVE  /\ Last(b) \in Nat /\ Last(b) < b.cells_alloc
           /\ Line(b) = [a \in 0..Last(b) |-> b.ring[a]]
           /\ Line(b) \in [0..Last(b) -> Sample]
           /\ Available(b) = b.cells_stored
  <1>1. Shape(b) /\ Counts(b)
    BY Usable
  <1>2. Last(b) \in Nat /\ Last(b) < b.cells_alloc
    BY <1>1 DEF Counts, Last
  <1>3. Line(b) = [a \in 0..Last(b) |-> b.ring[a]]
    BY DEF Line, Last
  <1>4. \A a \in 0..Last(b) : b.ring[a] \in Sample
    <2>1. \A a \in 0..Last(b) : a \in 0..(b.cells_alloc - 1)
      BY <1>1, <1>2 DEF Counts
    <2> QED BY <1>1, <2>1 DEF Shape
  <1> QED BY <1>2, <1>3, <1>4 DEF Available

(* A buffer nobody has used looks to the stars like an initialised one.    *)
LEMMA LineInitialised ==
    ASSUME NEW b, BufferOK(b), Room(b)
    PROVE  /\ Line(Initialised(b)) = Line(b)
           /\ Available(Initialised(b)) = Available(b)
           /\ Initialised(b).dmin = b.dmin /\ Initialised(b).dmax = b.dmax
  <1>1. CASE b.init_buffer
    BY <1>1 DEF Initialised
  <1>2. CASE ~b.init_buffer
    <2> DEFINE c == Initialised(b)
    <2>1. /\ c.dmax = b.dmax /\ c.dmin = b.dmin /\ c.init_buffer
          /\ c.cells_stored = b.dmin
          /\ c.ring = [a \in 0..(b.dmax + 1) |-> Zero]
      BY <1>2 DEF Initialised
    <2> HIDE DEF c
    <2>2. b.dmax \in Nat /\ b.dmin \in Nat
      BY DEF BufferOK, BufferRecords
    <2>3. c.cells_stored - c.dmin + c.dmax = b.dmax
      BY <2>1, <2>2
    <2>4. \A a \in 0..b.dmax : c.ring[a] = Zero
      BY <2>1, <2>2
    <2>5. Line(c) = [a \in 0..b.dmax |-> Zero]
      BY <2>1, <2>3, <2>4 DEF Line
    <2>6. Line(b) = [a \in 0..b.dmax |-> Zero]
      BY <1>2 DEF Line
    <2> QED BY <1>2, <2>1, <2>5, <2>6 DEF Available, c
  <1> QED BY <1>1, <1>2

(* Growth is invisible: every sample in reach keeps its age.               *)
LEMMA LineGrown ==
    ASSUME NEW b, BufferOK(b), Room(b), b.init_buffer
    PROVE  /\ Line(Grown(b)) = Line(b)
           /\ Available(Grown(b)) = Available(b)
  <1> DEFINE c == Grown(b)
  <1>1. /\ c.init_buffer /\ c.cells_stored = b.cells_stored
        /\ c.dmin = b.dmin /\ c.dmax = b.dmax
        /\ \A a \in 0..(b.cells_alloc - 1) : c.ring[a] = b.ring[a]
    BY GrownOK
  <1> HIDE DEF c
  <1>2. Last(b) \in Nat /\ Last(b) < b.cells_alloc /\ b.cells_alloc \in Nat
    BY LineUsable, Usable DEF Counts
  <1>3. \A a \in 0..Last(b) : c.ring[a] = b.ring[a]
    BY <1>1, <1>2
  <1>4. Line(c) = [a \in 0..Last(b) |-> c.ring[a]]
    BY <1>1 DEF Line, Last
  <1>5. Line(b) = [a \in 0..Last(b) |-> b.ring[a]]
    BY DEF Line, Last
  <1> QED BY <1>1, <1>3, <1>4, <1>5 DEF Available, c

LEMMA LineAdvanced ==
    ASSUME NEW b, BufferOK(b), Room(b), b.init_buffer, ~NoRoom(b)
    PROVE  /\ \E v \in Sample :
                Line(Advanced(b)) =
                  [a \in 0..(Available(b) + 1 - b.dmin + b.dmax) |->
                     IF a = 0 THEN v ELSE Line(b)[a - 1]]
           /\ Available(Advanced(b)) = Available(b) + 1
  <1> DEFINE c == Advanced(b)
             m == b.cells_stored + 1 - b.dmin + b.dmax
  <1>1. /\ BufferOK(c) /\ Room(c) /\ c.init_buffer
        /\ c.cells_stored = b.cells_stored + 1
        /\ c.dmin = b.dmin /\ c.dmax = b.dmax
        /\ \A a \in 1..(b.cells_alloc - 1) : c.ring[a] = b.ring[a - 1]
    BY AdvancedOK
  <1>2. /\ Last(b) \in Nat /\ Last(b) < b.cells_alloc
        /\ Line(b) = [a \in 0..Last(b) |-> b.ring[a]]
        /\ Available(b) = b.cells_stored
    BY LineUsable
  <1>3. /\ Last(c) \in Nat
        /\ Line(c) = [a \in 0..Last(c) |-> c.ring[a]]
        /\ Line(c) \in [0..Last(c) -> Sample]
        /\ Available(c) = c.cells_stored
    BY <1>1, LineUsable
  <1>4. /\ b.cells_alloc \in Nat /\ b.cells_stored \in Nat
        /\ b.dmin \in Nat /\ b.dmax \in Nat
    BY Usable DEF Counts
  <1> HIDE DEF c
  <1>5. Last(c) = m /\ m = Last(b) + 1 /\ m \in Nat /\ Last(b) + 1 < b.cells_alloc
    <2>1. Last(c) = m
      BY <1>1, <1>4 DEF Last
    <2>2. m = Last(b) + 1
      BY <1>4 DEF Last
    <2>3. b.cells_alloc > 1 + b.cells_stored + b.dmax - b.dmin
      BY <1>4 DEF NoRoom
    <2>4. m < b.cells_alloc
      BY <1>4, <2>3
    <2> HIDE DEF m
    <2> QED BY <1>2, <2>1, <2>2, <2>4
  <1> HIDE DEF m
  <1>6. c.ring[0] \in Sample
    <2>1. 0 \in 0..Last(c)
      BY <1>3
    <2> QED BY <1>3, <2>1
  <1>7. ASSUME NEW a \in 0..m
        PROVE  c.ring[a] = IF a = 0 THEN c.ring[0] ELSE Line(b)[a - 1]
    <2>1. CASE a = 0
      BY <2>1
    <2>2. CASE a # 0
      <3>1. a \in 1..(b.cells_alloc - 1) /\ a - 1 \in 0..Last(b)
        BY <1>2, <1>4, <1>5, <2>2
      <3> QED BY <1>1, <1>2, <2>2, <3>1
    <2> QED BY <2>1, <2>2
  <1>8. Line(c) = [a \in 0..m |-> IF a = 0 THEN c.ring[0] ELSE Line(b)[a - 1]]
    BY <1>3, <1>5, <1>7
  <1> QED BY <1>1, <1>2, <1>3, <1>6, <1>8 DEF c, m

LEMMA LineConsumed ==
    ASSUME NEW b, BufferOK(b), Room(b), b.init_buffer, b.cells_stored # 0
    PROVE  /\ Line(Consumed(b)) =
                 [a \in 0..(Available(b) - 1 - b.dmin + b.dmax) |-> Line(b)[a]]
           /\ Available(Consumed(b)) = Available(b) - 1
           /\ Available(b) > 0
  <1> DEFINE c == Consumed(b)
             m == b.cells_stored - 1 - b.dmin + b.dmax
  <1>1. /\ c.init_buffer
        /\ c.cells_stored = b.cells_stored - 1
        /\ c.dmin = b.dmin /\ c.dmax = b.dmax /\ c.ring = b.ring
    BY ConsumedOK
  <1>2. /\ Last(b) \in Nat
        /\ Line(b) = [a \in 0..Last(b) |-> b.ring[a]]
        /\ Available(b) = b.cells_stored
    BY LineUsable
  <1>3. b.cells_stored \in Nat /\ b.dmin \in Nat /\ b.dmax \in Nat /\ b.dmin <= b.dmax
    BY Usable DEF Counts
  <1> HIDE DEF c
  <1>4. m \in Int /\ m < Last(b) /\ c.cells_stored - c.dmin + c.dmax = m
    BY <1>1, <1>3 DEF Last
  <1> HIDE DEF m
  <1>5. Line(c) = [a \in 0..m |-> b.ring[a]]
    BY <1>1, <1>4 DEF Line
  <1>6. \A a \in 0..m : Line(b)[a] = b.ring[a]
    BY <1>2, <1>4
  <1>7. Line(c) = [a \in 0..m |-> Line(b)[a]]
    BY <1>5, <1>6
  <1> QED BY <1>1, <1>2, <1>3, <1>7 DEF Available, c, m

LEMMA LineStored ==
    ASSUME NEW b, BufferOK(b), Room(b), b.init_buffer, NEW v \in Sample
    PROVE  /\ Line(Stored(b, v)) =
                 [a \in DOMAIN Line(b) |-> IF a = b.plast_wr THEN v ELSE Line(b)[a]]
           /\ Line(Stored(b, v)) \in [DOMAIN Line(b) -> Sample]
           /\ Available(Stored(b, v)) = Available(b)
  <1> DEFINE c == Stored(b, v)
  <1>1. /\ BufferOK(c) /\ Room(c) /\ c.init_buffer
        /\ c.cells_stored = b.cells_stored
        /\ c.dmin = b.dmin /\ c.dmax = b.dmax
        /\ \A a \in 0..(b.cells_alloc - 1) :
              c.ring[a] = IF a = b.plast_wr THEN v ELSE b.ring[a]
    BY StoredOK
  <1>2. /\ Last(b) \in Nat /\ Last(b) < b.cells_alloc /\ b.cells_alloc \in Nat
        /\ Line(b) = [a \in 0..Last(b) |-> b.ring[a]]
        /\ Available(b) = b.cells_stored
    BY LineUsable, Usable DEF Counts
  <1>3. /\ Line(c) = [a \in 0..Last(c) |-> c.ring[a]]
        /\ Line(c) \in [0..Last(c) -> Sample]
        /\ Available(c) = c.cells_stored
    BY <1>1, LineUsable
  <1> HIDE DEF c
  <1>4. Last(c) = Last(b)
    BY <1>1 DEF Last
  <1>5. \A a \in 0..Last(b) : c.ring[a] = IF a = b.plast_wr THEN v ELSE Line(b)[a]
    BY <1>1, <1>2
  <1>6. Line(c) = [a \in DOMAIN Line(b) |-> IF a = b.plast_wr THEN v ELSE Line(b)[a]]
    BY <1>2, <1>3, <1>4, <1>5
  <1> QED BY <1>1, <1>2, <1>3, <1>4, <1>6 DEF c

LEMMA InitStream == Init => Stream!Init
  <1> SUFFICES ASSUME Init PROVE Stream!Init
    OBVIOUS
  <1>1. /\ buf.init_buffer = FALSE /\ buf.dmin = 0 /\ buf.dmax = DefaultDmax
        /\ reported = {}
    BY DEF Init, CreateBuffer
  <1>2. Line(buf) = Stream!Zeros(buf.dmax) /\ Available(buf) = 0
    BY <1>1 DEF Line, Available, Stream!Zeros
  <1> QED BY <1>1, <1>2, DelayAssumption DEF Init, Stream!Init, Faulty

(* Every step of the buffer is a step of the stream or leaves it alone.    *)
LEMMA StepStream == IInv /\ [Next]_vars => [Stream!Next]_(Stream!vars)
  <1> SUFFICES ASSUME IInv, [Next]_vars PROVE [Stream!Next]_(Stream!vars)
    OBVIOUS
  <1> DEFINE b == Initialised(buf)
  <1>t. /\ BufferOK(buf) /\ Room(buf)
        /\ active \in BOOLEAN /\ fetched \in Sample
        /\ ~Faulty => InStep(buf)
    BY DEF IInv, TypeOK, NeverOverrun, PointersInStep
  <1>b. /\ BufferOK(b) /\ Room(b) /\ b.init_buffer
        /\ ~Faulty => InStep(b)
    BY <1>t, InitialisedOK
  <1>l. /\ Line(b) = Line(buf) /\ Available(b) = Available(buf)
        /\ b.dmin = buf.dmin /\ b.dmax = buf.dmax
    BY <1>t, LineInitialised
  <1>u. /\ Shape(b) /\ Counts(b)
        /\ Available(b) = b.cells_stored
        /\ Line(b) = [a \in 0..Last(b) |-> b.ring[a]]
        /\ Line(b) \in [0..Last(b) -> Sample]
        /\ Last(b) \in Nat /\ Last(b) < b.cells_alloc
    BY <1>b, Usable, LineUsable
  <1> HIDE DEF b
  <1>1. CASE Settings
    <2>1. /\ BufferOK(buf') /\ Room(buf') /\ ~buf'.init_buffer
          /\ reported \subseteq reported'
          /\ UNCHANGED <<active, ret, fetched>>
      BY <1>1, <1>t, SettingsOK
    <2>2. ~buf.init_buffer
      BY <1>1 DEF Settings, CellSize, delay_max, delay_min, Settable
    <2>3. buf.init_buffer \in BOOLEAN /\ buf'.init_buffer \in BOOLEAN
      BY <1>t, <2>1 DEF BufferOK, BufferRecords
    <2>4. buf'.dmin \in Nat /\ buf'.dmax \in Nat /\ buf'.dmin <= buf'.dmax
      BY <2>1 DEF BufferOK, BufferRecords, Room
    <2>5. Line(buf)' = Stream!Zeros(buf'.dmax) /\ Available(buf)' = buf'.dmin
      BY <2>1 DEF Line, Available, Stream!Zeros
    <2>6. Faulty' \in {Faulty, TRUE}
      BY <2>1 DEF Faulty
    <2>7. Stream!Configure
      BY <2>1, <2>2, <2>3, <2>4, <2>5, <2>6 DEF Stream!Configure
    <2> QED BY <2>7 DEF Stream!Next
  <1>2. CASE IncWrPtr
    <2> DEFINE g == Grown(b)
    <2>1. /\ BufferOK(g) /\ Room(g) /\ g.init_buffer /\ ~NoRoom(g)
          /\ g.dmin = b.dmin /\ g.dmax = b.dmax
          /\ Line(g) = Line(b) /\ Available(g) = Available(b)
      BY <1>b, GrownOK, LineGrown
    <2>2. /\ Advanced(g).init_buffer
          /\ Advanced(g).dmin = b.dmin /\ Advanced(g).dmax = b.dmax
          /\ \E v \in Sample :
                Line(Advanced(g)) =
                  [a \in 0..(Available(g) + 1 - g.dmin + g.dmax) |->
                     IF a = 0 THEN v ELSE Line(g)[a - 1]]
          /\ Available(Advanced(g)) = Available(g) + 1
      BY <2>1, AdvancedOK, LineAdvanced
    <2>3. \/ /\ buf' = g
             /\ active' = (active \/ ~buf.init_buffer)
             /\ ret' = 1
             /\ UNCHANGED <<fetched, reported>>
          \/ /\ buf' = Advanced(g)
             /\ active' = TRUE
             /\ ret' = 0
             /\ UNCHANGED <<fetched, reported>>
      BY <1>2 DEF IncWrPtr, b
    <2> HIDE DEF g
    <2>4. CASE buf' = g /\ active' = (active \/ ~buf.init_buffer) /\ ret' = 1
      <3>1. Stream!Refuse
        <4>1. g.init_buffer = TRUE
          BY <2>1, <2>3 DEF BufferOK, BufferRecords
        <4> QED BY <1>l, <2>1, <2>3, <2>4, <4>1
            DEF Stream!Refuse, Stream!Open, Stream!Touched, Faulty
      <3> QED BY <3>1 DEF Stream!Next
    <2>5. CASE buf' = Advanced(g) /\ active' = TRUE /\ ret' = 0
      <3>1. Stream!Produce
        <4>1. Advanced(g).init_buffer = TRUE
          BY <2>1, <2>2, AdvancedOK DEF BufferOK, BufferRecords
        <4> QED BY <1>l, <2>1, <2>2, <2>3, <2>5, <4>1
            DEF Stream!Produce, Stream!Open, Faulty
      <3> QED BY <3>1 DEF Stream!Next
    <2> QED BY <2>3, <2>4, <2>5
  <1>3. CASE IncRdPtr
    <2>1. CASE b.cells_stored = 0
      <3>1. /\ buf' = b /\ active' = (active \/ ~buf.init_buffer)
            /\ ret' = b.cells_stored /\ UNCHANGED <<fetched, reported>>
        BY <1>3, <2>1 DEF IncRdPtr, b
      <3>2. b.init_buffer = TRUE
        BY <1>b DEF BufferOK, BufferRecords
      <3>3. Stream!Count
        BY <1>l, <1>u, <3>1, <3>2 DEF Stream!Count, Stream!Open, Stream!Touched, Faulty
      <3> QED BY <3>3 DEF Stream!Next
    <2>2. CASE b.cells_stored # 0
      <3> DEFINE c == Consumed(b)
      <3>1. /\ buf' = c /\ active' = TRUE
            /\ ret' = b.cells_stored /\ UNCHANGED <<fetched, reported>>
        BY <1>3, <2>2 DEF IncRdPtr, b
      <3>2. /\ BufferOK(c) /\ c.init_buffer
            /\ c.dmin = b.dmin /\ c.dmax = b.dmax
            /\ Line(c) = [a \in 0..(Available(b) - 1 - b.dmin + b.dmax) |-> Line(b)[a]]
            /\ Available(c) = Available(b) - 1
            /\ Available(b) > 0
        BY <1>b, <2>2, ConsumedOK, LineConsumed
      <3> HIDE DEF c
      <3>3. c.init_buffer = TRUE
        BY <3>2 DEF BufferOK, BufferRecords
      <3>4. Stream!Consume
        BY <1>l, <1>u, <3>1, <3>2, <3>3 DEF Stream!Consume, Stream!Open, Faulty
      <3> QED BY <3>4 DEF Stream!Next
    <2> QED BY <2>1, <2>2
  <1>4. CASE BufferLength
    <2>1. /\ buf' = b /\ active' = (active \/ ~buf.init_buffer)
          /\ ret' = b.cells_stored /\ UNCHANGED <<fetched, reported>>
      BY <1>4 DEF BufferLength, b
    <2>2. b.init_buffer = TRUE
      BY <1>b DEF BufferOK, BufferRecords
    <2>3. Stream!Count
      BY <1>l, <1>u, <2>1, <2>2 DEF Stream!Count, Stream!Open, Stream!Touched, Faulty
    <2> QED BY <2>3 DEF Stream!Next
  <1>5. ASSUME NEW d \in Delays, ReadAccess(d) PROVE Stream!Next
    <2> DEFINE c == ReaderAt(b, d)
    <2>0. d \in Int
      BY DelayAssumption
    <2>1. /\ buf' = c
          /\ active' = (active \/ ~buf.init_buffer) /\ UNCHANGED ret
          /\ 800 \notin reported => fetched' = b.ring[c.plast_rd]
          /\ fetched' \in Sample \/ fetched' = b.ring[c.plast_rd]
          /\ reported' = reported \cup AccessErrors(b, TRUE, d)
      BY <1>5 DEF ReadAccess, b
    <2>2. /\ BufferOK(c) /\ Room(c) /\ c.init_buffer
          /\ c.cells_stored = b.cells_stored /\ c.ring = b.ring
          /\ c.dmin = b.dmin /\ c.dmax = b.dmax
          /\ c.plast_rd \in DOMAIN b.ring
          /\ InStep(b) /\ d \in b.dmin..b.dmax =>
               c.plast_rd = b.cells_stored - b.dmin + d
      BY <1>b, <2>0, ReaderAtOK
    <2> HIDE DEF c
    <2>3. Line(c) = Line(b) /\ Available(c) = Available(b)
      BY <1>b, <2>2 DEF Line, Available
    <2>4. b.ring[c.plast_rd] \in Sample
      BY <1>u, <2>2 DEF Shape
    <2>5. c.init_buffer = TRUE
      BY <2>2 DEF BufferOK, BufferRecords
    <2>6. CASE reported' = {}
      <3>1. reported = {} /\ AccessErrors(b, TRUE, d) = {}
        BY <2>1, <2>6
      <3>2. d \in b.dmin..b.dmax
        BY <1>u, <2>0, <3>1 DEF AccessErrors, Counts
      <3>3. /\ c.plast_rd = Available(b) - b.dmin + d
            /\ c.plast_rd \in 0..Last(b)
        <4>1. c.plast_rd = b.cells_stored - b.dmin + d
          BY <1>b, <2>2, <3>1, <3>2 DEF Faulty
        <4>2. /\ b.cells_stored \in Nat /\ b.dmin \in Nat /\ b.dmax \in Nat
              /\ d \in Int /\ b.dmin <= d /\ d <= b.dmax
          BY <1>u, <2>0, <3>2 DEF Counts
        <4>3. b.cells_stored - b.dmin + d \in 0..(b.cells_stored - b.dmin + b.dmax)
          BY <4>2
        <4> QED BY <1>b, <4>1, <4>3 DEF Last, Available
      <3>4. fetched' = Line(b)[Available(b) - b.dmin + d]
        BY <1>u, <2>1, <3>1, <3>3
      <3>5. Stream!Read(d)
        BY <1>l, <2>1, <2>2, <2>3, <2>5, <3>1, <3>4, <2>6
        DEF Stream!Read, Stream!Open, Stream!Touched, Faulty
      <3> QED BY <1>l, <3>2, <3>5 DEF Stream!Next
    <2>7. CASE reported' # {}
      <3>1. Line(c) \in [DOMAIN Line(b) -> Sample] /\ fetched' \in Sample
        BY <1>u, <2>1, <2>3, <2>4
      <3>2. Stream!Misuse
        BY <1>l, <2>1, <2>2, <2>3, <2>5, <2>7, <3>1
        DEF Stream!Misuse, Stream!Open, Stream!Touched, Faulty
      <3> QED BY <3>2 DEF Stream!Next
    <2> QED BY <2>6, <2>7
  <1>6. ASSUME NEW d \in Delays, NEW v \in Sample, WriteAccess(d, v) PROVE Stream!Next
    <2> DEFINE w == WriterAt(b, d)
               c == Stored(w, v)
    <2>0. d \in Int
      BY DelayAssumption
    <2>1. /\ buf' = c
          /\ active' = (active \/ ~buf.init_buffer) /\ UNCHANGED <<ret, fetched>>
          /\ reported' = reported \cup AccessErrors(b, FALSE, d)
      BY <1>6 DEF WriteAccess, b
    <2>2. /\ BufferOK(w) /\ Room(w) /\ w.init_buffer
          /\ w.cells_stored = b.cells_stored /\ w.ring = b.ring
          /\ w.dmin = b.dmin /\ w.dmax = b.dmax
          /\ InStep(b) /\ d \in 0..b.dmax => w.plast_wr = d
      BY <1>b, <2>0, WriterAtOK
    <2> HIDE DEF w
    <2>3. Line(w) = Line(b) /\ Available(w) = Available(b)
      BY <1>b, <2>2 DEF Line, Available
    <2>4. /\ BufferOK(c) /\ c.init_buffer
          /\ c.dmin = b.dmin /\ c.dmax = b.dmax
          /\ Line(c) = [a \in DOMAIN Line(w) |-> IF a = w.plast_wr THEN v ELSE Line(w)[a]]
          /\ Line(c) \in [DOMAIN Line(w) -> Sample]
          /\ Available(c) = Available(w)
      BY <2>2, StoredOK, LineStored
    <2> HIDE DEF c
    <2>5. c.init_buffer = TRUE
      BY <2>4 DEF BufferOK, BufferRecords
    <2>6. CASE reported' = {}
      <3>1. reported = {} /\ AccessErrors(b, FALSE, d) = {}
        BY <2>1, <2>6
      <3>2. d \in 0..b.dmax
        BY <1>u, <2>0, <3>1 DEF AccessErrors, Counts
      <3>3. w.plast_wr = d
        BY <1>b, <2>2, <3>1, <3>2 DEF Faulty
      <3>4. Stream!Store(d, v)
        <4>1. Line(buf') = [a \in DOMAIN Line(buf) |-> IF a = d THEN v ELSE Line(buf)[a]]
          BY <1>l, <2>1, <2>3, <2>4, <3>3
        <4>2. /\ buf'.dmin = buf.dmin /\ buf'.dmax = buf.dmax
              /\ Available(buf') = Available(buf) /\ buf'.init_buffer = TRUE
          BY <1>l, <2>1, <2>3, <2>4, <2>5
        <4>3. Faulty' = Faulty
          BY <2>6, <3>1 DEF Faulty
        <4>4. active' = (active \/ ~buf.init_buffer) /\ UNCHANGED <<ret, fetched>>
          BY <2>1
        <4> QED BY <4>1, <4>2, <4>3, <4>4, Zenon
            DEF Stream!Store, Stream!Open, Stream!Touched
      <3> QED BY <1>l, <3>2, <3>4 DEF Stream!Next
    <2>7. CASE reported' # {}
      <3>1. Stream!Misuse
        BY <1>l, <1>t, <2>1, <2>3, <2>4, <2>5, <2>7
        DEF Stream!Misuse, Stream!Open, Stream!Touched, Faulty
      <3> QED BY <3>1 DEF Stream!Next
    <2> QED BY <2>6, <2>7
  <1>7. CASE BufferActive
    <2>1. Stream!Look
      BY <1>7 DEF BufferActive, Stream!Look, Faulty
    <2> QED BY <2>1 DEF Stream!Next
  <1>8. CASE UNCHANGED vars
    BY <1>8 DEF vars, Stream!vars, Line, Available, Faulty
  <1> QED BY <1>1, <1>2, <1>3, <1>4, <1>5, <1>6, <1>7, <1>8 DEF Next, Writer, Reader

(* The growing ring implements a plain delay line: for every chunk size,   *)
(* delay and segment limit a contract-keeping reader sees exactly the      *)
(* samples the writer stored, at the delays it asked for.                  *)
THEOREM RingIsADelayLine == Spec => ImplementsStream
  BY InitStream, InitIInv, NextIInv, StepStream, PTL
  DEF Spec, ImplementsStream, Stream!Spec
=============================================================================
