-------------------------------- MODULE Topology --------------------------------
(***************************************************************************)
(* The commands that edit the connections of one galaxy, pg_current:       *)
(* connect, disconnect, insert, remove, delete, new and makecontig of      *)
(* src/KERNEL/krn_connect.c, krn_block.c and krn_command.c.                *)
(*                                                                         *)
(* A connection is written down at both of its ends: the block it comes    *)
(* from has outputs[o] and input_no[o], the block it goes to inputs[i] and *)
(* output_no[i].  Here outputs[b][o] is the end <<block, input number>>,   *)
(* inputs[b][i] the end <<block, output number>>, or None.  The terminals  *)
(* of the galaxy are ends of the galaxy itself: they are written down only *)
(* in the block inside.                                                    *)
(*                                                                         *)
(* A command that is refused changes nothing.  The order of the siblings   *)
(* is not modelled: the block that follows another one in the list is any  *)
(* other block.  Signal names are not modelled.                            *)
(***************************************************************************)
EXTENDS Naturals, FiniteSets, FiniteSetsExt

CONSTANTS
    Block,          \* the blocks there may be
    Galaxy,         \* pg_current
    None,           \* the NULL pointer
    Missing,        \* a port number that a command does not give
    IO_BUFFERS,     \* ports per block and direction
    MaxLinks        \* bound of the model: connections at a time

ASSUME PortAssumption == IO_BUFFERS \in Nat \ {0} /\ Missing \notin Nat /\ MaxLinks \in Nat

Port == 0..(IO_BUFFERS - 1)
End == (Block \cup {Galaxy}) \X Port

ASSUME BlockAssumption == Galaxy \notin Block /\ None \notin Block \cup {Galaxy} \cup End

VARIABLES
    blocks,         \* the children of pg_current
    inputs, outputs,
    current,        \* pb_current
    contig,         \* where makecontig stands: ports tested, twice each
    clobbered       \* an insert has written over a connection in use

vars == <<blocks, inputs, outputs, current, contig, clobbered>>
ports == <<inputs, outputs>>

Idle == 2 * IO_BUFFERS

IsAt(end, b) == end # None /\ end[1] = b

(* Connections are counted where they start: at an output or outside.      *)
LinkCount == Cardinality({e \in blocks \X Port : outputs[e[1]][e[2]] # None})
             + Cardinality({e \in blocks \X Port : IsAt(inputs[e[1]][e[2]], Galaxy)})

RoomForLink == LinkCount < MaxLinks

(* FindInput and FindOutput: who is connected to terminal k of the galaxy. *)
AtInput(k)  == {e \in blocks \X Port : inputs[e[1]][e[2]] = <<Galaxy, k>>}
AtOutput(k) == {e \in blocks \X Port : outputs[e[1]][e[2]] = <<Galaxy, k>>}

(* The ports a connection may still start from or lead to; a mistake: the  *)
(* galaxy's inputs are not looked at.                                      *)
FreeOutAny(from) == IF from = Galaxy THEN Port
                    ELSE {o \in Port : outputs[from][o] = None}

FreeOut(from) == IF from = Galaxy THEN {k \in Port : AtInput(k) = {}}
                 ELSE {o \in Port : outputs[from][o] = None}
FreeIn(to)    == IF to = Galaxy THEN {k \in Port : AtOutput(k) = {}}
                 ELSE {i \in Port : inputs[to][i] = None}

(* A table with v for end; ends at the galaxy are in no table. *)
Put(table, end, v) ==
    IF end = None \/ IsAt(end, Galaxy) THEN table
    ELSE [table EXCEPT ![end[1]][end[2]] = v]

-----------------------------------------------------------------------------
Init ==
    /\ blocks = {}
    /\ inputs = [b \in Block |-> [p \in Port |-> None]]
    /\ outputs = [b \in Block |-> [p \in Port |-> None]]
    /\ current = None
    /\ contig = Idle
    /\ clobbered = FALSE

(* block and hblock: a block without connections becomes the current one. *)
CreateBlock(b) ==
    /\ contig = Idle
    /\ b \notin blocks
    /\ blocks' = blocks \cup {b}
    /\ inputs' = [inputs EXCEPT ![b] = [p \in Port |-> None]]
    /\ outputs' = [outputs EXCEPT ![b] = [p \in Port |-> None]]
    /\ current' = b
    /\ UNCHANGED <<contig, clobbered>>

(* forward, back and to. *)
Select ==
    /\ contig = Idle
    /\ current # None
    /\ current' \in blocks
    /\ UNCHANGED <<blocks, inputs, outputs, contig, clobbered>>

(* The number given, if it is free, or the first free one. *)
Chosen(number, free) ==
    IF number # Missing THEN {number} \cap free
    ELSE IF free = {} THEN {} ELSE {Min(free)}

LineConnect(from, to, outNum, inNum) ==
    /\ contig = Idle
    /\ RoomForLink
    /\ {from, to} \subseteq blocks \cup {Galaxy} /\ ~(from = Galaxy /\ to = Galaxy)
    /\ \E o \in Chosen(outNum, FreeOut(from)), i \in Chosen(inNum, FreeIn(to)) :
         /\ outputs' = Put(outputs, <<from, o>>, <<to, i>>)
         /\ inputs' = Put(inputs, <<to, i>>, <<from, o>>)
    /\ UNCHANGED <<blocks, current, contig, clobbered>>

(* The connections from a block to another as either end has them.  *)
WrittenOut(from, to) ==
    {c \in Port \X Port : from # Galaxy /\ outputs[from][c[1]] = <<to, c[2]>>}
WrittenIn(from, to) ==
    {c \in Port \X Port : to # Galaxy /\ inputs[to][c[2]] = <<from, c[1]>>}

(* The connection that disconnect takes.  With both numbers both ends must *)
(* have it; with one of them, or none, one end is looked at.  For an input *)
(* of the galaxy whose block's number is missing, that missing number is   *)
(* compared with the numbers in output_no, and nothing is found.           *)
Selected(from, to, outNum, inNum) ==
    LET out == WrittenOut(from, to)
        in  == WrittenIn(from, to)
        highest(k, S) == {c \in S : \A d \in S : d[k] <= c[k]}
    IN  IF outNum # Missing /\ inNum # Missing
          THEN {<<outNum, inNum>>} \cap (IF from = Galaxy THEN in
                                         ELSE IF to = Galaxy THEN out
                                         ELSE in \cap out)
        ELSE IF outNum # Missing
          THEN IF from = Galaxy THEN {} ELSE {c \in out : c[1] = outNum}
        ELSE IF inNum # Missing
          THEN IF to = Galaxy THEN highest(1, {c \in out : c[2] = inNum})
               ELSE {c \in in : c[2] = inNum}
        ELSE IF from = Galaxy THEN highest(2, in) ELSE highest(1, out)

LineDisConnect(from, to, outNum, inNum) ==
    /\ contig = Idle
    /\ {from, to} \subseteq blocks \cup {Galaxy} /\ ~(from = Galaxy /\ to = Galaxy)
    /\ \E c \in Selected(from, to, outNum, inNum) :
         /\ outputs' = Put(outputs, <<from, c[1]>>, None)
         /\ inputs' = Put(inputs, <<to, c[2]>>, None)
    /\ UNCHANGED <<blocks, current, contig, clobbered>>

-----------------------------------------------------------------------------
(* insert: the ports of the current block that it uses.  The first free    *)
(* output is looked for among the inputs.                                  *)
cbInNum  == Min(FreeIn(current))
cbOutNum == Min({p \in Port : inputs[current][p] = None})

CanInsert == contig = Idle /\ current # None /\ FreeIn(current) # {} /\ RoomForLink

Clobbering == clobbered' = (clobbered \/ outputs[current][cbOutNum] # None)

(* The current block in front of input inNum of inBlk. *)
InsertBefore(inBlk, inNum) ==
    LET source == inputs[inBlk][inNum]
    IN  /\ inBlk # current
        /\ ~IsAt(source, current)
        /\ outputs' = [Put(outputs, source, <<current, cbInNum>>) EXCEPT
                         ![current][cbOutNum] = <<inBlk, inNum>>]
        /\ inputs' = [inputs EXCEPT ![current][cbInNum] = source,
                                    ![inBlk][inNum] = <<current, cbOutNum>>]
        /\ Clobbering

(* The current block behind output outNum of outBlk. *)
InsertAfter(outBlk, outNum) ==
    LET target == outputs[outBlk][outNum]
    IN  /\ outBlk # current
        /\ ~IsAt(target, current)
        /\ inputs' = [Put(inputs, target, <<current, cbOutNum>>) EXCEPT
                        ![current][cbInNum] = <<outBlk, outNum>>]
        /\ outputs' = [outputs EXCEPT
                         ![outBlk][outNum] = <<current, cbInNum>>,
                         ![current][cbOutNum] = IF target = None THEN @ ELSE target]
        /\ IF target = None THEN UNCHANGED clobbered ELSE Clobbering

(* insert - b k and insert + b k; the second may also be refused, for it   *)
(* compares the current block with a pointer that is not set yet.          *)
LineInsertBlock(b, k) ==
    /\ CanInsert
    /\ b \in blocks
    /\ InsertBefore(b, k) \/ InsertAfter(b, k)
    /\ UNCHANGED <<blocks, current, contig>>

(* insert + input k *)
LineInsertInput(k) ==
    /\ CanInsert
    /\ \/ /\ AtInput(k) = {}
          /\ inputs' = [inputs EXCEPT ![current][cbInNum] = <<Galaxy, k>>]
          /\ UNCHANGED <<outputs, clobbered>>
       \/ \E e \in AtInput(k) : InsertBefore(e[1], e[2])
    /\ UNCHANGED <<blocks, current, contig>>

(* insert - output k *)
LineInsertOutput(k) ==
    /\ CanInsert
    /\ \/ /\ AtOutput(k) = {}
          /\ outputs' = [outputs EXCEPT ![current][cbOutNum] = <<Galaxy, k>>]
          /\ Clobbering
          /\ UNCHANGED inputs
       \/ \E e \in AtOutput(k) : InsertAfter(e[1], e[2])
    /\ UNCHANGED <<blocks, current, contig>>

LineInsert(k) ==
    \/ \E b \in blocks : LineInsertBlock(b, k)
    \/ LineInsertInput(k)
    \/ LineInsertOutput(k)

-----------------------------------------------------------------------------
(* RemoveBlock on the tables: the other ends are cleared, as far as the    *)
(* block knows them; a mistake: only its own are.                          *)
RemovedAlone(table, other, b) ==
    [c \in Block |-> [p \in Port |-> IF c = b THEN None ELSE table[c][p]]]

Removed(table, other, b) ==
    [c \in Block |-> [p \in Port |->
       IF c = b \/ \E q \in Port : other[b][q] = <<c, p>> THEN None ELSE table[c][p]]]

(* The list goes on with the next sibling of the block removed; a mistake: *)
(* the block itself if it was the last.                                    *)
MoveOnLast(b) ==
    IF blocks = {b} THEN UNCHANGED current ELSE current' \in blocks \ {b}

MoveOn(b) ==
    IF blocks = {b} THEN current' = None ELSE current' \in blocks \ {b}

L_remove ==
    /\ contig = Idle
    /\ current # None
    /\ blocks' = blocks \ {current}
    /\ outputs' = Removed(outputs, inputs, current)
    /\ inputs' = Removed(inputs, outputs, current)
    /\ MoveOn(current)
    /\ UNCHANGED <<contig, clobbered>>

(* DeleteBlock, port after port: what comes in at port i is joined with    *)
(* what goes out of output i.  A mistake: also when that is one block.     *)
JoinedAlways(net, b, i) ==
    LET source == net.inputs[b][i]
        target == net.outputs[b][i]
        meet   == source # None /\ target # None
    IN  [inputs |-> Put([net.inputs EXCEPT ![b][i] = None], target,
                        IF meet THEN source ELSE None),
         outputs |-> Put([net.outputs EXCEPT ![b][i] = None], source,
                         IF meet THEN target ELSE None)]

Joined(net, b, i) ==
    LET source == net.inputs[b][i]
        target == net.outputs[b][i]
        meet   == source # None /\ target # None /\ source[1] # target[1]
    IN  [inputs |-> Put([net.inputs EXCEPT ![b][i] = None], target,
                        IF meet THEN source ELSE None),
         outputs |-> Put([net.outputs EXCEPT ![b][i] = None], source,
                         IF meet THEN target ELSE None)]

JoinedUpTo(b) ==
    LET upto[n \in 0..IO_BUFFERS] ==
          IF n = 0 THEN [inputs |-> inputs, outputs |-> outputs]
          ELSE Joined(upto[n - 1], b, n - 1)
    IN  upto

JoinedAll(b) == JoinedUpTo(b)[IO_BUFFERS]

L_delete ==
    /\ contig = Idle
    /\ current # None
    /\ blocks' = blocks \ {current}
    /\ LET net == JoinedAll(current)
       IN  /\ outputs' = Removed(net.outputs, net.inputs, current)
           /\ inputs' = Removed(net.inputs, net.outputs, current)
    /\ MoveOn(current)
    /\ UNCHANGED <<contig, clobbered>>

L_new ==
    /\ contig = Idle
    /\ blocks' = {}
    /\ inputs' = [b \in Block |-> [p \in Port |-> None]]
    /\ outputs' = [b \in Block |-> [p \in Port |-> None]]
    /\ current' = None
    /\ UNCHANGED <<contig, clobbered>>

-----------------------------------------------------------------------------
(* KrnMakeContiguous: as long as the current block has a port in use       *)
(* behind a free one, KrnMakeSingleContiguous goes through its ports; at   *)
(* each it looks at the outputs (contig even) and then at the inputs.      *)
(* Each connection is moved by a disconnect and a connect command; when    *)
(* one of them is refused, it starts again.                                *)
Gap(table, p) == table[current][p] = None /\ table[current][p + 1] # None

Contiguous == \A p \in Port : p + 1 \in Port => ~Gap(inputs, p) /\ ~Gap(outputs, p)

(* Commands that name the galaxy itself are refused, and so are those for  *)
(* a connection on which the two ends disagree.  A mistake: the command    *)
(* names the port that is free.                                            *)
MovableWrong(table, other, p) ==
    LET end == table[current][p + 1]
    IN  end[1] \in blocks /\ other[end[1]][end[2]] = <<current, p>>

Movable(table, other, p) ==
    LET end == table[current][p + 1]
    IN  end[1] \in blocks /\ other[end[1]][end[2]] = <<current, p + 1>>

L_makecontig ==
    /\ contig = Idle
    /\ current # None
    /\ ~Contiguous
    /\ contig' = 0
    /\ UNCHANGED <<blocks, inputs, outputs, current, clobbered>>

(* A mistake: the connection is cut and not made again. *)
MoveOutputHalf ==
    LET p == contig \div 2
        end == outputs[current][p + 1]
    IN  /\ contig < Idle /\ contig % 2 = 0 /\ p + 1 \in Port
        /\ Gap(outputs, p) /\ Movable(outputs, inputs, p)
        /\ outputs' = [outputs EXCEPT ![current][p + 1] = None]
        /\ inputs' = Put(inputs, end, None)
        /\ contig' = contig + 1
        /\ UNCHANGED <<blocks, current, clobbered>>

MoveOutput ==
    LET p == contig \div 2
        end == outputs[current][p + 1]
    IN  /\ contig < Idle /\ contig % 2 = 0 /\ p + 1 \in Port
        /\ Gap(outputs, p) /\ Movable(outputs, inputs, p)
        /\ outputs' = [outputs EXCEPT ![current][p] = end, ![current][p + 1] = None]
        /\ inputs' = Put(inputs, end, <<current, p>>)
        /\ contig' = contig + 1
        /\ UNCHANGED <<blocks, current, clobbered>>

MoveInput ==
    LET p == contig \div 2
        end == inputs[current][p + 1]
    IN  /\ contig < Idle /\ contig % 2 = 1 /\ p + 1 \in Port
        /\ Gap(inputs, p) /\ Movable(inputs, outputs, p)
        /\ inputs' = [inputs EXCEPT ![current][p] = end, ![current][p + 1] = None]
        /\ outputs' = Put(outputs, end, <<current, p>>)
        /\ contig' = contig + 1
        /\ UNCHANGED <<blocks, current, clobbered>>

GapHere ==
    LET p == contig \div 2
    IN  p + 1 \in Port /\ Gap(IF contig % 2 = 0 THEN outputs ELSE inputs, p)

NoGap ==
    /\ contig < Idle
    /\ contig \div 2 + 1 \in Port
    /\ ~GapHere
    /\ contig' = contig + 1
    /\ UNCHANGED <<blocks, inputs, outputs, current, clobbered>>

(* A command is refused: KrnMakeSingleContiguous returns. *)
Refused ==
    LET p == contig \div 2
    IN  /\ contig < Idle
        /\ GapHere
        /\ IF contig % 2 = 0 THEN ~Movable(outputs, inputs, p)
           ELSE ~Movable(inputs, outputs, p)
        /\ contig' = Idle - 2
        /\ UNCHANGED <<blocks, inputs, outputs, current, clobbered>>

(* The loop of KrnMakeContiguous tests again. *)
Retest ==
    /\ contig < Idle
    /\ contig \div 2 + 1 \notin Port
    /\ contig' = IF Contiguous THEN Idle ELSE 0
    /\ UNCHANGED <<blocks, inputs, outputs, current, clobbered>>

Renumber == MoveOutput \/ MoveInput \/ NoGap \/ Refused \/ Retest

Next ==
    \/ \E b \in Block : CreateBlock(b)
    \/ Select
    \/ \E from, to \in Block \cup {Galaxy}, o, i \in Port \cup {Missing} :
         LineConnect(from, to, o, i) \/ LineDisConnect(from, to, o, i)
    \/ \E k \in Port : LineInsert(k)
    \/ L_remove \/ L_delete \/ L_new \/ L_makecontig \/ Renumber

Spec == Init /\ [][Next]_vars

(* makecontig is a loop in one thread; nothing makes the user type a command. *)
FairSpec == Spec /\ WF_vars(Renumber)

-----------------------------------------------------------------------------
Table == [Block -> [Port -> End \cup {None}]]

TypeOK ==
    /\ blocks \subseteq Block
    /\ inputs \in Table /\ outputs \in Table
    /\ current \in blocks \cup {None}
    /\ (current = None) = (blocks = {})
    /\ contig \in 0..Idle
    /\ contig # Idle => current # None
    /\ clobbered \in BOOLEAN

(* A table and the one for the other direction have the same connections,  *)
(* to blocks that exist.                                                   *)
Mirrored(table, other) ==
    \A b \in blocks : \A p \in Port :
      LET end == table[b][p]
      IN  end # None /\ end[1] # Galaxy =>
            end[1] \in blocks /\ other[end[1]][end[2]] = <<b, p>>

(* Both ends of every connection agree, whatever commands were given, as   *)
(* long as no insert has written over a connection: no block reads from    *)
(* one that does not write to it, and none is left pointing at a block     *)
(* that was removed.                                                       *)
EndsAgree == ~clobbered => Mirrored(inputs, outputs) /\ Mirrored(outputs, inputs)

(* A terminal of the galaxy is connected to one block at most, so that     *)
(* FindInput and FindOutput have one answer.                               *)
OneToATerminal ==
    \A k \in Port : Cardinality(AtInput(k)) <= 1 /\ Cardinality(AtOutput(k)) <= 1

(* Port p of block c without b, the connections of b joined where their    *)
(* numbers match.                                                          *)
Spliced(table, b, c, p) ==
    IF ~IsAt(table[c][p], b) THEN table[c][p]
    ELSE LET far == table[b][table[c][p][2]]
         IN  IF IsAt(far, c) THEN None ELSE far

(* The comment on DeleteBlock: it will "repair any connections through the *)
(* block" with matching numbers, but makes no "implied self-connections or *)
(* direct input-output connections".  The connections beside it stay, and  *)
(* so they do when the block is connected to itself.                       *)
DeleteRepairs ==
    [][~clobbered /\ L_delete =>
         \A c \in blocks \ {current}, p \in Port :
            /\ ~IsAt(outputs[c][p], current) => outputs'[c][p] = outputs[c][p]
            /\ ~IsAt(inputs[c][p], current) => inputs'[c][p] = inputs[c][p]
            /\ (\A q \in Port : ~IsAt(outputs[current][q], current)) =>
                 /\ outputs'[c][p] = Spliced(outputs, current, c, p)
                 /\ inputs'[c][p] = Spliced(inputs, current, c, p)]_vars

(* makecontig changes port numbers only: the current block keeps its       *)
(* neighbours in their order.                                              *)
Behind(table, p) == Cardinality({q \in Port : q <= p /\ table[p] # None /\ table[q] # None})
Neighbours(table) == {<<Behind(table, p), table[p][1]>> : p \in {q \in Port : table[q] # None}}

NeighboursKept ==
    [][contig # Idle => /\ Neighbours(inputs[current])' = Neighbours(inputs[current])
                        /\ Neighbours(outputs[current])' = Neighbours(outputs[current])]_vars

(* README.md: "Single command to make buffer numbers contiguous": it ends. *)
ContigEnds == contig # Idle ~> contig = Idle

(* It does for a block without connections to the galaxy's terminals.      *)
Inner == /\ ~clobbered
         /\ \A p \in Port : /\ ~IsAt(inputs[current][p], Galaxy)
                            /\ ~IsAt(outputs[current][p], Galaxy)

InnerContigEnds == contig # Idle /\ Inner ~> contig = Idle

(* The comment on LineInsert: "two new connections made at the NEXT        *)
(* AVAILABLE ports of the current block": no port in use is taken.         *)
InsertTakesFreePorts == ~clobbered
=============================================================================
