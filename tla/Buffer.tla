-------------------------------- MODULE Buffer --------------------------------
(***************************************************************************)
(* One data buffer of src/KERNEL/krn_buffer.c: the growing ring of cells   *)
(* behind every connection between two stars.  The star at its output end  *)
(* calls IncWrPtr and stores through BufferAccess(.., 0, delay); the star  *)
(* at its input end calls IncRdPtr, BufferLength and                       *)
(* BufferAccess(.., 1, delay).                                             *)
(*                                                                         *)
(* Cells are named by their AGE, the number of pold steps from pnewest:    *)
(* ring[0] is the cell pnewest points at, ring[cells_alloc - 1] the cell   *)
(* it reaches with one pnew step.  A pointer into the ring is the age of   *)
(* its cell, so that pnewest = pnewest->pnew renumbers every cell.         *)
(* Module BufferCells refines this view down to the pnew and pold links.   *)
(***************************************************************************)
EXTENDS Integers

CONSTANTS
    Sample,         \* the payloads stars exchange
    Zero,           \* what calloc leaves in a cell
    DefaultSize,    \* sizeof(float)
    CellSizes,      \* the cell sizes the stars' blocks ask for
    Delays,         \* the delays the stars set and access
    DefaultDmax,    \* the dmax a buffer is created with (5)
    CELL_INC,       \* cells added when the ring is full (krn_numberSamples)
    MaxMemSegments, \* krn_maxMemSegments
    MaxCells        \* bound of the model: cells the heap has room for

ASSUME SampleAssumption == Zero \in Sample
ASSUME SizeAssumption == DefaultSize \in Nat \ {0} /\ CellSizes \subseteq Nat \ {0}
ASSUME DelayAssumption == Delays \subseteq Int /\ DefaultDmax \in Nat
(* L_setCellInc never lets it drop below 1; init_buffer itself records two *)
(* segments and a NULL after them.                                         *)
ASSUME SegmentAssumption == CELL_INC \in Nat \ {0} /\ MaxMemSegments \in Nat \ 0..2
ASSUME HeapAssumption == MaxCells \in Nat

VARIABLES
    buf,            \* the buffer_t
    active,         \* the flag `active' shared by all buffers
    ret,            \* the number returned by the last call that returns one
    fetched,        \* the sample the reader last fetched
    reported        \* the codes given to ErrorPrint so far

vars == <<buf, active, ret, fetched, reported>>

-----------------------------------------------------------------------------
(* The buffer_t record.  memseg is the number of recorded segments: the    *)
(* index of the first NULL entry of memseg[].                              *)

CreateBuffer ==
    [ cellsize    |-> -1,
      dmax        |-> DefaultDmax,
      dmin        |-> 0,
      init_buffer |-> FALSE,
      ring        |-> [a \in 0..-1 |-> Zero],
      cells_alloc |-> 0, cells_stored |-> 0,
      plast_wr    |-> 0, dlast_wr |-> 0,
      plast_rd    |-> 0, dlast_rd |-> 0,
      memseg      |-> 0 ]

(* init_buffer(), called by every access as long as init_buffer is 0. *)
Initialised(b) ==
    IF b.init_buffer THEN b ELSE
    [ cellsize     |-> IF b.cellsize < 0 THEN DefaultSize ELSE b.cellsize,
      dmax         |-> b.dmax,
      dmin         |-> b.dmin,
      init_buffer  |-> TRUE,
      ring         |-> [a \in 0..(b.dmax + 1) |-> Zero],
      cells_alloc  |-> b.dmax + 2,
      cells_stored |-> b.dmin,
      plast_wr     |-> 0, dlast_wr |-> 0,
      plast_rd     |-> 0, dlast_rd |-> 0,
      memseg       |-> 2 ]

(* The cell k pold steps from a, or -k pnew steps when k is negative. *)
Walk(b, a, k) == (a + k) % b.cells_alloc

(* A mistake in growth: the new cells put in on the pold side of pnewest.  *)
WithCellsOlder(b) ==
    LET n == b.cells_alloc + CELL_INC
    IN  [ b EXCEPT !.ring = [a \in 0..(n - 1) |->
                               IF a = 0 THEN b.ring[0]
                               ELSE IF a <= CELL_INC THEN Zero
                               ELSE b.ring[a - CELL_INC]],
                   !.cells_alloc = n ]

(* add_cells(pnewest, cellsize, CELL_INC): the new cells follow pnewest in *)
(* the pnew direction, so they are the oldest of the ring.                 *)
WithCells(b) ==
    LET n == b.cells_alloc + CELL_INC
    IN  [ b EXCEPT !.ring = [a \in 0..(n - 1) |->
                               IF a < b.cells_alloc THEN b.ring[a] ELSE Zero],
                   !.cells_alloc = n ]

(* A mistake in the test for room: off by one. *)
NoRoomLate(b) == b.cells_alloc < 1 + b.cells_stored + b.dmax - b.dmin

NoRoom(b) == b.cells_alloc <= 1 + b.cells_stored + b.dmax - b.dmin

SegmentsFull(b) == b.memseg > MaxMemSegments - 2

(* The growth of IncWrPtr: the cells are added before the limit is looked  *)
(* at, and a segment beyond the limit is not recorded.                     *)
Grown(b) ==
    IF ~NoRoom(b) THEN b
    ELSE IF SegmentsFull(b) THEN WithCells(b)
    ELSE [WithCells(b) EXCEPT !.memseg = b.memseg + 1]

(* Mistakes in the advance: a read pointer that leaves the ring, and a     *)
(* write delay that survives.                                              *)
AdvancedUnwrapped(b) ==
    [ b EXCEPT !.plast_rd = b.plast_rd + 1,
               !.plast_wr = 0, !.dlast_wr = 0,
               !.cells_stored = b.cells_stored + 1 ]

AdvancedStale(b) ==
    [ b EXCEPT !.ring = [a \in 0..(b.cells_alloc - 1) |-> b.ring[Walk(b, a, -1)]],
               !.plast_rd = Walk(b, b.plast_rd, 1),
               !.plast_wr = 0,
               !.cells_stored = b.cells_stored + 1 ]

(* pnewest = pnewest->pnew: the oldest cell becomes the newest. *)
Advanced(b) ==
    [ b EXCEPT !.ring = [a \in 0..(b.cells_alloc - 1) |-> b.ring[Walk(b, a, -1)]],
               !.plast_rd = Walk(b, b.plast_rd, 1),
               !.plast_wr = 0,
               !.dlast_wr = 0,
               !.cells_stored = b.cells_stored + 1 ]

(* plast_rd = plast_rd->pnew *)
Consumed(b) ==
    [ b EXCEPT !.plast_rd = Walk(b, b.plast_rd, -1),
               !.cells_stored = b.cells_stored - 1 ]

(* The pointer moves of BufferAccess. *)
ReaderAt(b, delay) ==
    [ b EXCEPT !.plast_rd = Walk(b, b.plast_rd, delay - b.dlast_rd),
               !.dlast_rd = delay ]

WriterAt(b, delay) ==
    [ b EXCEPT !.plast_wr = Walk(b, b.plast_wr, delay - b.dlast_wr),
               !.dlast_wr = delay ]

(* The star then stores through the pointer BufferAccess returned. *)
Stored(b, v) ==
    [ b EXCEPT !.ring = [a \in 0..(b.cells_alloc - 1) |->
                           IF a = b.plast_wr THEN v ELSE b.ring[a]] ]

(* What BufferAccess reports; it goes on all the same. *)
AccessErrors(b, reading, delay) ==
         (IF delay < 0 THEN {801} ELSE {})
    \cup (IF delay > b.dmax THEN {802} ELSE {})
    \cup (IF reading /\ delay < b.dmin THEN {803} ELSE {})

-----------------------------------------------------------------------------
Init ==
    /\ buf = CreateBuffer
    /\ active = FALSE
    /\ ret = 0
    /\ fetched = Zero
    /\ reported = {}

(* The stars set sizes and delays in SYSTEM_INIT and USER_INIT, which      *)
(* KrnRunPhases runs for every star before any MAIN_CODE: before the       *)
(* first access.                                                           *)
Settable == ~buf.init_buffer

CellSize(size) ==
    /\ Settable
    /\ buf' = IF buf.cellsize < 0 THEN [buf EXCEPT !.cellsize = size] ELSE buf
    /\ reported' = IF buf.cellsize >= 0 /\ buf.cellsize # size
                     THEN reported \cup {800} ELSE reported
    /\ UNCHANGED <<active, ret, fetched>>

delay_max(d) ==
    /\ Settable
    /\ buf' = IF d > buf.dmax THEN [buf EXCEPT !.dmax = d] ELSE buf
    /\ UNCHANGED <<active, ret, fetched, reported>>

delay_min(d) ==
    /\ Settable
    /\ d >= 0    \* a contract of the stars: the code does not look
    /\ buf' = [buf EXCEPT !.dmin = d,
                          !.dmax = IF buf.dmax < d THEN d ELSE buf.dmax]
    /\ UNCHANGED <<active, ret, fetched, reported>>

(* Without memory for the cells ErrorAlloc ends the program. *)
HeapHolds(b) == b.cells_alloc <= MaxCells

IncWrPtr ==
    LET b == Initialised(buf)
        full == NoRoom(b) /\ SegmentsFull(b)
    IN  /\ HeapHolds(Grown(b))
        /\ buf' = IF full THEN Grown(b) ELSE Advanced(Grown(b))
        /\ active' = IF full THEN active \/ ~buf.init_buffer ELSE TRUE
        /\ ret' = IF full THEN 1 ELSE 0
        /\ UNCHANGED <<fetched, reported>>

IncRdPtr ==
    LET b == Initialised(buf)
        empty == b.cells_stored = 0
    IN  /\ HeapHolds(b)
        /\ buf' = IF empty THEN b ELSE Consumed(b)
        /\ active' = IF empty THEN active \/ ~buf.init_buffer ELSE TRUE
        /\ ret' = b.cells_stored
        /\ UNCHANGED <<fetched, reported>>

(* When the stars disagree on the size of a cell (800), what a pointer     *)
(* into it delivers is not one sample: any value.                          *)
ReadAccess(delay) ==
    LET b == Initialised(buf)
    IN  /\ HeapHolds(b)
        /\ buf' = ReaderAt(b, delay)
        /\ active' = (active \/ ~buf.init_buffer)
        /\ fetched' \in IF 800 \in reported THEN Sample
                        ELSE {b.ring[buf'.plast_rd]}
        /\ reported' = reported \cup AccessErrors(b, TRUE, delay)
        /\ UNCHANGED ret

WriteAccess(delay, v) ==
    LET b == Initialised(buf)
    IN  /\ HeapHolds(b)
        /\ buf' = Stored(WriterAt(b, delay), v)
        /\ active' = (active \/ ~buf.init_buffer)
        /\ reported' = reported \cup AccessErrors(b, FALSE, delay)
        /\ UNCHANGED <<ret, fetched>>

BufferLength ==
    LET b == Initialised(buf)
    IN  /\ HeapHolds(b)
        /\ buf' = b
        /\ active' = (active \/ ~buf.init_buffer)
        /\ ret' = b.cells_stored
        /\ UNCHANGED <<fetched, reported>>

(* MultiRun calls it after every star. *)
BufferActive ==
    /\ active' = FALSE
    /\ ret' = IF active THEN 1 ELSE 0
    /\ UNCHANGED <<buf, fetched, reported>>

Settings ==
    \/ \E size \in CellSizes : CellSize(size)
    \/ \E d \in Delays : delay_max(d)
    \/ \E d \in Delays : delay_min(d)

Writer ==
    \/ IncWrPtr
    \/ \E d \in Delays, v \in Sample : WriteAccess(d, v)

Reader ==
    \/ IncRdPtr
    \/ BufferLength
    \/ \E d \in Delays : ReadAccess(d)

Next == Settings \/ Writer \/ Reader \/ BufferActive

Spec == Init /\ [][Next]_vars

-----------------------------------------------------------------------------
Faulty == reported # {}

(* The buffer_t records whose ring is one of Rings. *)
BufferRecords(Rings) ==
    [ cellsize : {-1, DefaultSize} \cup CellSizes,
      dmax : Nat, dmin : Nat, init_buffer : BOOLEAN,
      ring : Rings, cells_alloc : Nat, cells_stored : Nat,
      plast_wr : Nat, dlast_wr : Int,
      plast_rd : Nat, dlast_rd : Int, memseg : Nat ]

(* The ring has cells_alloc cells, and the kept pointers are cells of it. *)
BufferOK(b) ==
    /\ b \in BufferRecords({b.ring})
    /\ b.ring \in [0..(b.cells_alloc - 1) -> Sample]
    /\ b.init_buffer => {b.plast_wr, b.plast_rd} \subseteq 0..(b.cells_alloc - 1)

(* The type invariant: no pointer leaves its ring, whatever the stars do. *)
TypeOK ==
    /\ BufferOK(buf)
    /\ active \in BOOLEAN
    /\ ret \in Nat
    /\ fetched \in Sample
    /\ reported \subseteq 800..803

(* Every sample the reader may still ask for, up to delay dmax, has a cell *)
(* of its own, and the cell IncWrPtr overwrites next is none of them.      *)
Room(b) ==
    /\ b.dmin <= b.dmax
    /\ b.init_buffer =>
         /\ b.cells_alloc >= b.dmax + 2
         /\ b.cells_alloc >= 1 + b.cells_stored + b.dmax - b.dmin

NeverOverrun == Room(buf)

(* The pointers kept from the last access stand where a walk from pnewest  *)
(* would find them, also after the ring grew between two accesses.         *)
InStep(b) ==
    b.init_buffer =>
         /\ b.dlast_wr \in 0..b.dmax
         /\ b.plast_wr = b.dlast_wr
         /\ b.dlast_rd \in 0..b.dmax
         /\ b.plast_rd = Walk(b, b.cells_stored - b.dmin, b.dlast_rd)

PointersInStep == ~Faulty => InStep(buf)

(* The ring delivers what a delay line would: reads return the sample the  *)
(* writer stored that many samples ago, whatever growth, wrap-around or    *)
(* refusal came between.                                                   *)
Line(b) ==
    [a \in 0..(IF b.init_buffer THEN b.cells_stored - b.dmin + b.dmax ELSE b.dmax)
       |-> IF b.init_buffer THEN b.ring[a] ELSE Zero]

Available(b) == IF b.init_buffer THEN b.cells_stored ELSE b.dmin

Stream == INSTANCE SampleStream WITH
    dmin <- buf.dmin, dmax <- buf.dmax, open <- buf.init_buffer,
    line <- Line(buf), avail <- Available(buf), faulty <- Faulty

ImplementsStream == Stream!Spec
=============================================================================
