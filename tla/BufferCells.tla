------------------------------ MODULE BufferCells ------------------------------
(***************************************************************************)
(* The buffer of src/KERNEL/krn_buffer.c with its cells and their links:   *)
(* a circular list whose cells are joined by pnew (the next newer cell)    *)
(* and pold (the next older one).  Cells are the numbers 1..used in the    *)
(* order of their allocation; a pointer is the number of its cell.         *)
(*                                                                         *)
(* It implements Buffer, where the same pointers are ages, so what is      *)
(* proved there of the ring holds of the linked cells.                     *)
(***************************************************************************)
EXTENDS Integers

CONSTANTS Sample, Zero, DefaultSize, CellSizes, Delays, DefaultDmax,
          CELL_INC, MaxMemSegments, MaxCells        \* as in Buffer

ASSUME SampleAssumption == Zero \in Sample
ASSUME SizeAssumption == DefaultSize \in Nat \ {0} /\ CellSizes \subseteq Nat \ {0}
ASSUME DelayAssumption == Delays \subseteq Int /\ DefaultDmax \in Nat
ASSUME SegmentAssumption == CELL_INC \in Nat \ {0} /\ MaxMemSegments \in Nat \ 0..2
ASSUME HeapAssumption == MaxCells \in Nat

VARIABLES
    buf,            \* the buffer_t and the cells it has allocated
    active, ret, fetched, reported

vars == <<buf, active, ret, fetched, reported>>

-----------------------------------------------------------------------------
(* Mistakes in add_cells: the cell behind keeps its old pold link, and the *)
(* chunk is put in on the other side.                                      *)
AddCellsHalf(b, ins, n) ==
    LET first == b.used + 1
        last  == b.used + n
    IN [ b EXCEPT
           !.used = last,
           !.pdata = [c \in 1..last |-> IF c < first THEN b.pdata[c] ELSE Zero],
           !.pnew = [c \in 1..last |-> IF c = ins THEN first
                                       ELSE IF c < first THEN b.pnew[c]
                                       ELSE IF c < last THEN c + 1
                                       ELSE b.pnew[ins]],
           !.pold = [c \in 1..last |-> IF c < first THEN b.pold[c]
                                       ELSE IF c = first THEN ins
                                       ELSE c - 1] ]

AddCellsBehind(b, ins, n) ==
    LET first == b.used + 1
        last  == b.used + n
        old == b.pold[ins]
    IN [ b EXCEPT
           !.used = last,
           !.pdata = [c \in 1..last |-> IF c < first THEN b.pdata[c] ELSE Zero],
           !.pnew = [c \in 1..last |-> IF c = old THEN first
                                       ELSE IF c < first THEN b.pnew[c]
                                       ELSE IF c < last THEN c + 1
                                       ELSE ins],
           !.pold = [c \in 1..last |-> IF c = ins THEN last
                                       ELSE IF c < first THEN b.pold[c]
                                       ELSE IF c = first THEN old
                                       ELSE c - 1] ]

(* add_cells(ins, cellsize, n): n new cells between ins and the cell pnew  *)
(* of it; from a lone cell that is ins itself.                             *)
AddCells(b, ins, n) ==
    LET first == b.used + 1
        last  == b.used + n
        behind == b.pnew[ins]
    IN [ b EXCEPT
           !.used = last,
           !.pdata = [c \in 1..last |-> IF c < first THEN b.pdata[c] ELSE Zero],
           !.pnew = [c \in 1..last |-> IF c = ins THEN first
                                       ELSE IF c < first THEN b.pnew[c]
                                       ELSE IF c < last THEN c + 1
                                       ELSE behind],
           !.pold = [c \in 1..last |-> IF c = behind THEN last
                                       ELSE IF c < first THEN b.pold[c]
                                       ELSE IF c = first THEN ins
                                       ELSE c - 1] ]

CreateBuffer ==
    [ cellsize    |-> -1,
      dmax        |-> DefaultDmax,
      dmin        |-> 0,
      init_buffer |-> FALSE,
      used        |-> 0,
      pnew |-> <<>>, pold |-> <<>>, pdata |-> <<>>,
      cells_alloc |-> 0, cells_stored |-> 0,
      pnewest     |-> 0,
      plast_wr    |-> 0, dlast_wr |-> 0,
      plast_rd    |-> 0, dlast_rd |-> 0,
      memseg      |-> 0 ]

(* init_buffer(): a lone cell, linked to itself, and dmax + 1 more. *)
Initialised(b) ==
    IF b.init_buffer THEN b ELSE
    AddCells([ b EXCEPT
                 !.cellsize = IF @ < 0 THEN DefaultSize ELSE @,
                 !.init_buffer = TRUE,
                 !.used = 1,
                 !.pnew = <<1>>, !.pold = <<1>>, !.pdata = <<Zero>>,
                 !.cells_alloc = b.dmax + 2,
                 !.cells_stored = b.dmin,
                 !.pnewest = 1, !.plast_wr = 1, !.plast_rd = 1,
                 !.memseg = 2 ],
             1, b.dmax + 1)

(* The cell dinc links older than c, or -dinc links newer. *)
Walked(b, c, dinc) ==
    LET link  == IF dinc > 0 THEN b.pold ELSE b.pnew
        steps == IF dinc > 0 THEN dinc ELSE -dinc
        p[i \in 0..steps] == IF i = 0 THEN c ELSE link[p[i - 1]]
    IN  p[steps]

NoRoom(b) == b.cells_alloc <= 1 + b.cells_stored + b.dmax - b.dmin
SegmentsFull(b) == b.memseg > MaxMemSegments - 2

Grown(b) ==
    IF ~NoRoom(b) THEN b
    ELSE [ AddCells(b, b.pnewest, CELL_INC) EXCEPT
             !.cells_alloc = @ + CELL_INC,
             !.memseg = IF SegmentsFull(b) THEN @ ELSE @ + 1 ]

Advanced(b) ==
    [ b EXCEPT !.pnewest = b.pnew[@],
               !.plast_wr = b.pnew[b.pnewest],
               !.dlast_wr = 0,
               !.cells_stored = @ + 1 ]

Consumed(b) ==
    [ b EXCEPT !.plast_rd = b.pnew[@],
               !.cells_stored = @ - 1 ]

ReaderAt(b, delay) ==
    [ b EXCEPT !.plast_rd = Walked(b, @, delay - b.dlast_rd), !.dlast_rd = delay ]

WriterAt(b, delay) ==
    [ b EXCEPT !.plast_wr = Walked(b, @, delay - b.dlast_wr), !.dlast_wr = delay ]

AccessErrors(b, reading, delay) ==
         (IF delay < 0 THEN {801} ELSE {})
    \cup (IF delay > b.dmax THEN {802} ELSE {})
    \cup (IF reading /\ delay < b.dmin THEN {803} ELSE {})

-----------------------------------------------------------------------------
Init ==
    /\ buf = CreateBuffer
    /\ active = FALSE
    /\ ret = 0
    /\ fetched = Zero
    /\ reported = {}

CellSize(size) ==
    /\ ~buf.init_buffer
    /\ buf' = IF buf.cellsize < 0 THEN [buf EXCEPT !.cellsize = size] ELSE buf
    /\ reported' = IF buf.cellsize >= 0 /\ buf.cellsize # size
                     THEN reported \cup {800} ELSE reported
    /\ UNCHANGED <<active, ret, fetched>>

delay_max(d) ==
    /\ ~buf.init_buffer
    /\ buf' = IF d > buf.dmax THEN [buf EXCEPT !.dmax = d] ELSE buf
    /\ UNCHANGED <<active, ret, fetched, reported>>

delay_min(d) ==
    /\ ~buf.init_buffer
    /\ d >= 0
    /\ buf' = [buf EXCEPT !.dmin = d, !.dmax = IF @ < d THEN d ELSE @]
    /\ UNCHANGED <<active, ret, fetched, reported>>

HeapHolds(b) == b.cells_alloc <= MaxCells

(* Opening a buffer is activity. *)
ActiveIf(moved) == active' = (active \/ moved \/ ~buf.init_buffer)

IncWrPtr ==
    LET b == Initialised(buf)
        full == NoRoom(b) /\ SegmentsFull(b)
    IN  /\ HeapHolds(Grown(b))
        /\ buf' = IF full THEN Grown(b) ELSE Advanced(Grown(b))
        /\ ActiveIf(~full)
        /\ ret' = IF full THEN 1 ELSE 0
        /\ UNCHANGED <<fetched, reported>>

IncRdPtr ==
    LET b == Initialised(buf)
        empty == b.cells_stored = 0
    IN  /\ HeapHolds(b)
        /\ buf' = IF empty THEN b ELSE Consumed(b)
        /\ ActiveIf(~empty)
        /\ ret' = b.cells_stored
        /\ UNCHANGED <<fetched, reported>>

ReadAccess(delay) ==
    LET b == Initialised(buf)
    IN  /\ HeapHolds(b)
        /\ buf' = ReaderAt(b, delay)
        /\ ActiveIf(FALSE)
        /\ fetched' \in IF 800 \in reported THEN Sample
                        ELSE {b.pdata[buf'.plast_rd]}
        /\ reported' = reported \cup AccessErrors(b, TRUE, delay)
        /\ UNCHANGED ret

WriteAccess(delay, v) ==
    LET b == Initialised(buf)
        w == WriterAt(b, delay)
    IN  /\ HeapHolds(b)
        /\ buf' = [w EXCEPT !.pdata[w.plast_wr] = v]
        /\ ActiveIf(FALSE)
        /\ reported' = reported \cup AccessErrors(b, FALSE, delay)
        /\ UNCHANGED <<ret, fetched>>

BufferLength ==
    LET b == Initialised(buf)
    IN  /\ HeapHolds(b)
        /\ buf' = b
        /\ ActiveIf(FALSE)
        /\ ret' = b.cells_stored
        /\ UNCHANGED <<fetched, reported>>

BufferActive ==
    /\ active' = FALSE
    /\ ret' = IF active THEN 1 ELSE 0
    /\ UNCHANGED <<buf, fetched, reported>>

Next ==
    \/ \E size \in CellSizes : CellSize(size)
    \/ \E d \in Delays : delay_max(d) \/ delay_min(d) \/ ReadAccess(d)
    \/ \E d \in Delays, v \in Sample : WriteAccess(d, v)
    \/ IncWrPtr \/ IncRdPtr \/ BufferLength \/ BufferActive

Spec == Init /\ [][Next]_vars

-----------------------------------------------------------------------------
(* The cell a links older than pnewest, and the age of a cell. *)
CellAt(b, a) == Walked(b, b.pnewest, a)
Age(b, c) == CHOOSE a \in 0..(b.cells_alloc - 1) : CellAt(b, a) = c

(* All allocated cells are in one circle, the two links of which are the   *)
(* reverse of each other, and the kept pointers are cells of it: growing   *)
(* the ring in the middle of it neither loses a cell nor leaves a link     *)
(* into the old order.                                                     *)
OneCircle ==
    buf.init_buffer =>
      /\ buf.used = buf.cells_alloc
      /\ \A c \in 1..buf.used : /\ buf.pold[buf.pnew[c]] = c
                                /\ buf.pnew[buf.pold[c]] = c
      /\ {CellAt(buf, a) : a \in 0..(buf.used - 1)} = 1..buf.used
      /\ {buf.plast_wr, buf.plast_rd} \subseteq 1..buf.used

(* The buffer_t of Buffer: its ring has the samples of the cells by age.   *)
ByAge(b) ==
    [ cellsize |-> b.cellsize, dmax |-> b.dmax, dmin |-> b.dmin,
      init_buffer |-> b.init_buffer,
      ring |-> [a \in 0..(b.cells_alloc - 1) |-> b.pdata[CellAt(b, a)]],
      cells_alloc |-> b.cells_alloc, cells_stored |-> b.cells_stored,
      plast_wr |-> IF b.init_buffer THEN Age(b, b.plast_wr) ELSE 0,
      dlast_wr |-> b.dlast_wr,
      plast_rd |-> IF b.init_buffer THEN Age(b, b.plast_rd) ELSE 0,
      dlast_rd |-> b.dlast_rd,
      memseg |-> b.memseg ]

(* The linked cells are the ring of Buffer: whatever the calls, they       *)
(* deliver what its ring delivers.                                         *)
Ring == INSTANCE Buffer WITH buf <- ByAge(buf)

ImplementsRing == Ring!Spec
=============================================================================
