------------------------------ MODULE MCSchedule ------------------------------
(* Every topology of a galaxy of three blocks with inputs of the galaxy.   *)
EXTENDS Schedule

MCInner == [Block -> SUBSET (Block \cup {Parent})]
=============================================================================
