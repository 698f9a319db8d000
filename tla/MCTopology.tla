------------------------------- MODULE MCTopology -------------------------------
(* Three blocks with two ports each way: the fewest with which a block can *)
(* be inserted between two others or deleted from between them.            *)
EXTENDS Topology

(* What comes after an insert over a connection in use is not followed.    *)
Unclobbered == ~clobbered
=============================================================================
