---------------------------- MODULE SampleStream ----------------------------
(***************************************************************************)
(* What a connection between two stars promises, without rings, pointers   *)
(* or memory: a delay line.  line[0] is the newest sample, line[a] the     *)
(* sample written a samples before it.  The reader is avail samples        *)
(* behind: the sample it sees with delay d is line[avail - dmin + d].      *)
(* The line keeps exactly the samples that the reader may still ask for.   *)
(*                                                                         *)
(* Module Buffer, the ring of src/KERNEL/krn_buffer.c, implements this.    *)
(***************************************************************************)
EXTENDS Integers

CONSTANTS Sample,   \* the payloads stars exchange
          Zero      \* the payload of a cell nobody has stored to

VARIABLES
    dmin, dmax,     \* the least and the greatest delay the reader may use
    open,           \* some star has used the connection
    line,           \* the samples the reader may still see, newest first
    avail,          \* samples the reader has not yet advanced over
    active,         \* a sample moved (or the line opened) since the last look
    ret,            \* the number the last counting call returned
    fetched,        \* the sample the last read delivered
    faulty          \* a star has broken its contract

vars == <<dmin, dmax, open, line, avail, active, ret, fetched, faulty>>

Zeros(last) == [a \in 0..last |-> Zero]

Init ==
    /\ dmin = 0
    /\ dmax \in Nat
    /\ open = FALSE
    /\ line = Zeros(dmax)
    /\ avail = 0
    /\ active = FALSE
    /\ ret = 0
    /\ fetched = Zero
    /\ faulty = FALSE

(* Until it is used, the reader and the writer may set its delays: the     *)
(* line then starts with dmin zero samples to read.                        *)
Configure ==
    /\ ~open
    /\ dmin' \in Nat
    /\ dmax' \in Nat
    /\ dmin' <= dmax'
    /\ line' = Zeros(dmax')
    /\ avail' = dmin'
    /\ faulty' \in {faulty, TRUE}
    /\ UNCHANGED <<open, active, ret, fetched>>

(* Using the connection opens it; opening counts as activity. *)
Open == open' = TRUE

Touched == active' = (active \/ ~open)

(* A new sample.  Its content is unspecified until it is stored. *)
Produce ==
    /\ Open
    /\ avail' = avail + 1
    /\ \E v \in Sample :
         line' = [a \in 0..(avail + 1 - dmin + dmax) |->
                    IF a = 0 THEN v ELSE line[a - 1]]
    /\ active' = TRUE
    /\ ret' = 0
    /\ UNCHANGED <<dmin, dmax, fetched, faulty>>

(* The connection may refuse a new sample, and then nothing is lost. *)
Refuse ==
    /\ Open
    /\ Touched
    /\ ret' = 1
    /\ UNCHANGED <<dmin, dmax, line, avail, fetched, faulty>>

(* The writer stores to one of its last dmax + 1 samples. *)
Store(d, v) ==
    /\ Open
    /\ Touched
    /\ line' = [a \in DOMAIN line |-> IF a = d THEN v ELSE line[a]]
    /\ UNCHANGED <<dmin, dmax, avail, ret, fetched, faulty>>

(* The reader advances by one sample, if there is one. *)
Consume ==
    /\ Open
    /\ avail > 0
    /\ avail' = avail - 1
    /\ line' = [a \in 0..(avail - 1 - dmin + dmax) |-> line[a]]
    /\ active' = TRUE
    /\ ret' = avail
    /\ UNCHANGED <<dmin, dmax, fetched, faulty>>

(* The reader asks how far behind it is, or fails to advance. *)
Count ==
    /\ Open
    /\ Touched
    /\ ret' = avail
    /\ UNCHANGED <<dmin, dmax, line, avail, fetched, faulty>>

(* The reader looks at one of the samples it may see. *)
Read(d) ==
    /\ ~faulty
    /\ Open
    /\ Touched
    /\ fetched' = line[avail - dmin + d]
    /\ UNCHANGED <<dmin, dmax, line, avail, ret, faulty>>

(* Once a star breaks its contract (a delay outside the limits, two cell   *)
(* sizes), what is read or stored is unspecified; the counts still hold.   *)
Misuse ==
    /\ Open
    /\ Touched
    /\ faulty' = TRUE
    /\ line' \in [DOMAIN line -> Sample]
    /\ fetched' \in Sample
    /\ UNCHANGED <<dmin, dmax, avail, ret>>

(* The scheduler looks whether anything moved, and clears the flag. *)
Look ==
    /\ active' = FALSE
    /\ ret' = IF active THEN 1 ELSE 0
    /\ UNCHANGED <<dmin, dmax, open, line, avail, fetched, faulty>>

Next ==
    \/ Configure
    \/ Produce
    \/ Refuse
    \/ \E d \in 0..dmax, v \in Sample : Store(d, v)
    \/ Consume
    \/ Count
    \/ \E d \in dmin..dmax : Read(d)
    \/ Misuse
    \/ Look

Spec == Init /\ [][Next]_vars
=============================================================================
