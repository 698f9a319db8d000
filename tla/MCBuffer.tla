------------------------------- MODULE MCBuffer -------------------------------
(* Small instances of Buffer: two payloads, short delays, chunks of two    *)
(* cells, and a heap that lets the ring grow twice.                        *)
EXTENDS Buffer

MCSample == {0, 1}
MCDelays == 0..2
=============================================================================
