------------------------------- MODULE Schedule -------------------------------
(***************************************************************************)
(* Schedule() of src/KERNEL/krn_run.c for the blocks of one galaxy: the    *)
(* sibling list is reordered until every block stands behind the blocks it *)
(* takes input from, forcing blocks through levels 1 and 2 when a feedback *)
(* loop leaves none ready.  The recursive call for a GALAXY block works on *)
(* that galaxy's own list and is recorded in scheduled_galaxies.           *)
(*                                                                         *)
(* The circular sibling list is read from pchild on: order[1] is pchild,   *)
(* order[i + 1] the pfsibling of order[i], and the pfsibling of the last   *)
(* block is pchild.  pb_unsched and pblock are positions in it.            *)
(***************************************************************************)
EXTENDS Naturals, FiniteSets

CONSTANTS
    Block,          \* the blocks of the galaxy
    Galaxies,       \* those of type GTYPE
    Parent,         \* the galaxy itself, as the input of an inner block
    Topologies,     \* the inputs[] the blocks may have
    MaxRuns         \* bound of the model: run commands on one topology

N == Cardinality(Block)

ASSUME BlockAssumption ==
    IsFiniteSet(Block) /\ Galaxies \subseteq Block /\ Parent \notin Block
ASSUME TopologyAssumption ==
    Topologies \subseteq [Block -> SUBSET (Block \cup {Parent})]
ASSUME RunsAssumption == MaxRuns \in Nat

VARIABLES
    inputs,         \* inputs[b]: the blocks b takes input from
    order,          \* the sibling list
    pb_unsched,     \* position of the first block not scheduled
    pblock,         \* position of the block being tested; N + 1 after the last
    level, completed, deadlocked,
    running,        \* Schedule() has not returned
    runs,           \* run commands so far
    before,         \* the list Schedule() was last called with
    scheduled_galaxies

vars == <<inputs, order, pb_unsched, pblock, level, completed, deadlocked,
          running, runs, before, scheduled_galaxies>>

Positions == 1..N

(* A list of the galaxy's blocks, each one once. *)
IsList(s) == /\ s \in [Positions -> Block]
             /\ \A i, j \in Positions : s[i] = s[j] => i = j

-----------------------------------------------------------------------------
Unscheduled == {order[i] : i \in pb_unsched..N}
Scheduled   == {order[i] : i \in 1..(pb_unsched - 1)}

(* A mistake in the test: only the first unscheduled block is compared.    *)
Ready0First(b) == order[pb_unsched] \notin inputs[b]

(* No unscheduled block is an input. *)
Ready0(b) == inputs[b] \cap Unscheduled = {}

(* Some input is a scheduled block or an input of the galaxy. *)
Ready1(b) == inputs[b] \cap (Scheduled \cup {Parent}) # {}

Ready(b) == \/ level = 0 /\ Ready0(b)
            \/ level = 1 /\ Ready1(b)
            \/ level >= 2

(* A mistake in the move: the block in front is written over.              *)
MoveLosing(s, i, k) == [s EXCEPT ![i] = s[k]]

(* The list with the block at position k moved in front of the one at i. *)
MoveBlock(s, i, k) ==
    [j \in Positions |-> IF j = i THEN s[k]
                         ELSE IF j \in (i + 1)..k THEN s[j - 1]
                         ELSE s[j]]

-----------------------------------------------------------------------------
Init ==
    /\ inputs \in Topologies
    /\ order \in [Positions -> Block] /\ IsList(order)
    /\ pb_unsched = 1
    /\ pblock = 1
    /\ level = 0
    /\ completed = TRUE
    /\ deadlocked = TRUE
    /\ running = FALSE
    /\ runs = 0
    /\ before = order
    /\ scheduled_galaxies = {}

(* The run command calls Schedule(); a galaxy without blocks returns. *)
Call ==
    /\ ~running
    /\ runs < MaxRuns
    /\ runs' = runs + 1
    /\ running' = (N > 0)
    /\ before' = order
    /\ pb_unsched' = 1
    /\ pblock' = 1
    /\ level' = 0
    /\ completed' = TRUE
    /\ deadlocked' = TRUE
    /\ scheduled_galaxies' = {}
    /\ UNCHANGED <<inputs, order>>

(* The block after pb_unsched, and mistakes: there is none behind the last *)
(* one, and a block scheduled in its place is not stepped over.            *)
NextUnwrapped == pb_unsched + 1
NextIfMoved == IF pblock = pb_unsched THEN pb_unsched ELSE pb_unsched + 1
NextUnscheduled == IF pb_unsched = N THEN 1 ELSE pb_unsched + 1

(* Schedule() calls itself for a galaxy; a mistake: only for one that had  *)
(* to be moved.                                                            *)
InnerIfMoved ==
    scheduled_galaxies \cup
        IF pblock = pb_unsched THEN {} ELSE {order[pblock]} \cap Galaxies
InnerScheduled == scheduled_galaxies \cup ({order[pblock]} \cap Galaxies)

(* The tested block is scheduled: in its place, or by moving it in front   *)
(* of pb_unsched.  Either way the next block tested is the first one not   *)
(* scheduled; behind the last block of the list that is pchild again.      *)
Place ==
    /\ running
    /\ pblock <= N
    /\ Ready(order[pblock])
    /\ order' = IF pblock = pb_unsched THEN order
                ELSE MoveBlock(order, pb_unsched, pblock)
    /\ pb_unsched' = NextUnscheduled
    /\ pblock' = pb_unsched + 1
    /\ scheduled_galaxies' = InnerScheduled
    /\ deadlocked' = FALSE
    /\ level' = 0
    /\ UNCHANGED <<inputs, completed, running, runs, before>>

(* A mistake at the end of a pass: the level is raised whenever the pass   *)
(* was not complete, although blocks were scheduled in it.                 *)
NextPassForcing ==
    /\ running
    /\ pblock > N
    /\ ~completed
    /\ level' = IF level < 2 THEN level + 1 ELSE level
    /\ pblock' = pb_unsched
    /\ completed' = TRUE
    /\ deadlocked' = TRUE
    /\ UNCHANGED <<inputs, order, pb_unsched, running, runs, before, scheduled_galaxies>>

(* And one where the level is never raised. *)
NextPassPatient ==
    /\ running
    /\ pblock > N
    /\ ~completed
    /\ pblock' = pb_unsched
    /\ completed' = TRUE
    /\ deadlocked' = TRUE
    /\ UNCHANGED <<inputs, order, level, pb_unsched, running, runs, before,
                   scheduled_galaxies>>

Skip ==
    /\ running
    /\ pblock <= N
    /\ ~Ready(order[pblock])
    /\ completed' = FALSE
    /\ pblock' = pblock + 1
    /\ UNCHANGED <<inputs, order, pb_unsched, level, deadlocked, running, runs,
                   before, scheduled_galaxies>>

(* After a pass: another one from pb_unsched, at the next level if nothing *)
(* was scheduled.                                                          *)
NextPass ==
    /\ running
    /\ pblock > N
    /\ ~completed
    /\ level' = IF deadlocked THEN level + 1 ELSE level
    /\ pblock' = pb_unsched
    /\ completed' = TRUE
    /\ deadlocked' = TRUE
    /\ UNCHANGED <<inputs, order, pb_unsched, running, runs, before, scheduled_galaxies>>

Return ==
    /\ running
    /\ pblock > N
    /\ completed
    /\ running' = FALSE
    /\ UNCHANGED <<inputs, order, pb_unsched, pblock, level, completed,
                   deadlocked, runs, before, scheduled_galaxies>>

Next == Call \/ Place \/ Skip \/ NextPass \/ Return

Spec == Init /\ [][Next]_vars

(* The scheduler is a loop in one thread: as long as it can go on, it      *)
(* does.  Nothing makes the user type another run.                         *)
FairSpec == Spec /\ WF_vars(Place \/ Skip \/ NextPass \/ Return)

-----------------------------------------------------------------------------
TypeOK ==
    /\ inputs \in [Block -> SUBSET (Block \cup {Parent})]
    /\ order \in [Positions -> Block] /\ before \in [Positions -> Block]
    /\ pb_unsched \in 1..(N + 1) /\ pblock \in 1..(N + 1)
    /\ running => pb_unsched <= N
    /\ level \in 0..2
    /\ completed \in BOOLEAN /\ deadlocked \in BOOLEAN /\ running \in BOOLEAN
    /\ runs \in 0..MaxRuns
    /\ scheduled_galaxies \subseteq Galaxies

(* No feedback loop among the blocks: every set of blocks has one without  *)
(* an input from the set.                                                  *)
FeedForward ==
    \A S \in (SUBSET Block) \ {{}} : \E b \in S : inputs[b] \cap S = {}

(* The blocks up to position k stand behind their inputs. *)
SortedTo(s, k) ==
    \A i \in 1..k : \A j \in i..N : s[j] \notin inputs[s[i]]

Returned == ~running /\ runs > 0

(* Moving blocks around neither loses nor duplicates one. *)
NoBlockLost == IsList(order)

(* A topology without feedback is executed in data order: when Schedule()  *)
(* returns, every block stands behind all blocks it takes input from.      *)
DataOrder == Returned /\ FeedForward => SortedTo(order, N)

(* The comment on Schedule(): level 0 "is sufficient to schedule normal    *)
(* feedforward topologies completely", so no block of one is ever forced.  *)
Level0Suffices == FeedForward => level = 0

(* A block is forced only when the rules before leave no other choice:     *)
(* level 1 while an unscheduled block has all its inputs scheduled, or     *)
(* level 2 while one has any, would put a feedback loop in the wrong order *)
(* (its "primary" star, the one fed from outside, is to be first).         *)
ForcedOnlyWhenStuck ==
    running =>
      /\ level >= 1 => \A b \in Unscheduled : ~Ready0(b)
      /\ level >= 2 => \A b \in Unscheduled : ~Ready1(b)

(* A second run command on a topology without feedback leaves the order of *)
(* the first one alone.                                                    *)
OrderIsStable == Returned /\ runs > 1 /\ FeedForward => order = before

(* Inner galaxies are scheduled too, whatever the order. *)
GalaxiesScheduled == Returned => scheduled_galaxies = Galaxies

(* Schedule() returns, with feedback loops and without. *)
Terminates == running ~> ~running
=============================================================================
