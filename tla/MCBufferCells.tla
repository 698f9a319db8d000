----------------------------- MODULE MCBufferCells -----------------------------
(* A first circle of two or three cells (one of them added to the lone     *)
(* first cell, the special case in add_cells, or two) and chunks of two.   *)
EXTENDS BufferCells

MCSample == {0, 1}
MCDelays == 0..1
=============================================================================
