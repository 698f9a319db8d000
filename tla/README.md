# Verification of the Capsim TMK kernel

Capsim TMK simulates block diagrams.  *Stars* (signal processing functions) exchange
samples through buffers; *galaxies* group stars and other galaxies; the *universe* is the
outermost galaxy.  A user builds a topology with line commands and types `run`.  The
kernel (`src/KERNEL/*.c` with `src/include/capsim.h` and `src/include/stars.h`) keeps the
topology, puts it in order and moves the samples.  This directory holds TLA+ models of
the kernel, TLC configurations that check them on small instances, and TLAPS proofs.

`PROJECT.json` lists components, runs, mutants, the source lines every definition stands
for, the findings, the hazards and the theorems.

## 1. Inventory

| Component (source) | State | Operations | Hard part |
|---|---|---|---|
| Data buffers (`krn_buffer.c`) | per connection a `buffer_t`: delays, cell size, a circle of cells with `pnew`/`pold`, `pnewest`, a read and a write pointer with the delay they stand at, counts; one flag `active` for all buffers | `CreateBuffer`, `CellSize`, `delay_max`, `delay_min`, `init_buffer`, `IncWrPtr`, `IncRdPtr`, `BufferAccess`, `BufferLength`, `BufferActive` | the circle grows in its middle while two pointers stand in it; room, delays and counts must agree; limits |
| Scheduler (`krn_run.c` `Schedule`, `Ready0`, `Ready1`; `krn_block.c` `MoveBlock`) | the sibling list of a galaxy, `pb_unsched`, the level | one call per galaxy and run | it reorders the list it traverses; feedback loops must neither stop it nor be broken at the wrong place |
| Run control (`krn_run.c`) | phase, the recursion of `SingleRun` and `MultiRun`, `active_block`, `active_galaxy`, `first_pass` | `KrnSetupRun`, `KrnRunPhases`, `SingleRun`, `MultiRun`, `InitAll` | termination by quiescence over a hierarchy, errors in the middle, what a second run inherits, bounded buffers |
| Connections (`krn_connect.c`) | `inputs`/`output_no` and `outputs`/`input_no` of every block: each connection is written down twice | `LineConnect`, `LineDisConnect`, `LineInsert`, `KrnMakeContiguous`, `LineName` | both ends must agree after any sequence of edits; default port numbers; a repair loop |
| Resolution (`krn_connect.c`) | the buffers of the stars | `ConnectAllStars`, `ConnectTwoStars`, `FindInput`, `FindOutput` | connections pass through any number of galaxy borders |
| Block list (`krn_block.c`) | the tree: `pparent`, `pchild`, `pfsibling`, `pbsibling`; `change_flag` | `CreateUniverse`, `CreateBlock`, `MoveBlock`, `RemoveBlock`, `RemoveChildren`, `DeleteBlock`, `FindBlock`, `BlockRename`, `CheckChanges`, `ClearChanges` | a removed block must vanish from every pointer, and its children with it |
| Star and galaxy commands (`krn_star.c`) | type, model and name of a block | `LineStar`, `LineGalaxy`, `LineReplace`, `MinimumSamples` | a galaxy is half made while its file is read; a replacement keeps the connections |
| Model library (`krn_starload.c`, `krn_traverse.c`) | model tables | look up, print | - |
| Command interpreter (`krn_command.c`, `krn_main.c`, `krn_getfile.c`) | `pg_current`, `pb_current`, aliases, `line_mode` | command lookup, navigation | the current block and galaxy must be blocks after every edit and every failed load |
| Topology files (`krn_file.c`) | model table, files, the calls of `LineLoad` under way, `line_mode` | `LineLoad`, `LineStore`, `KrnCreateModel`, `KrnToplologyFileReader` | a file contains galaxies with files of their own, possibly itself; errors at any depth |
| Arguments and parameters (`krn_parameter.c`, `krn_arguments.c`, `krn_expeval.c`, `krn_eqneval.y`) | a table of parameters per block and per model | `LineParam`, `LineArg`, `LineChp`, `KrnVerifyParams`, `propagate_arg`, `PrInfoArgs`, `PrInfoParams` | a value passes from galaxy to galaxy; instances share the table of their model; stored arguments get new numbers |
| Printing (`krn_prinfo.c`), Tcl (`krn_tcl*.c`, `krn_sys_calls.c`) | none of their own | format, forward | - |
| Blocks (`src/BLOCKS`) | per star its parameters and states | phases `SYSTEM_INIT` to `WRAPUP` | the loop over `MIN_AVAIL`, `IT_IN`, `IT_OUT` they share |
| Libraries (`SUBS`, `FXSUBS`, `CLAPACK_SOURCE`, `LIBTIFF-3.8.2-LINUX`) | - | numerical and vendored code | not part of the kernel's logic |

Interaction.  Everything is one thread and every call is a plain function call.  `run`
calls `KrnSetupRun`, which has `ConnectAllStars` create a buffer per star-to-star
connection and `Schedule` order every galaxy; then `KrnRunPhases` calls the stars.  A star
knows its buffers only through the macros of `stars.h`; the controller knows the stars
only through their return value and `BufferActive()`.  What is concurrent in spirit is the
order in which the stars at the two ends of a connection use it, and the order in which a
user mixes edits, runs and failed runs.  What must hold:

* buffers: a connection is a delay line; nothing the reader may still ask for is
  overwritten; the pointers stay where the counts say;
* scheduler: no block is lost; data order whenever there is one; forcing is a last resort;
  the order survives the next run; it returns;
* run control: the phases are in step across the hierarchy; a run fires every star exactly
  as often as the network calls for, whatever the hierarchy and the order; buffers stay
  bounded; a run after a failed one is not disturbed; it returns;
* connections: both ends agree; no terminal is used twice; deleting repairs what it says
  it repairs; making port numbers contiguous ends;
* resolution: every star gets the buffers the hierarchy describes, in contiguous places;
* tree and commands: the pointers describe a tree whatever is created, moved, replaced,
  removed or loaded; a name stands for one block of a galaxy; the user is never left at a
  block that is gone; a load ends, with the whole topology or with none of it;
* arguments: a parameter bound to an argument has its value, however deep; what is stored
  is what a later load yields.

## 2. Modules

| Module | Models |
|---|---|
| `SampleStream` | abstract: a connection as a delay line |
| `Buffer` | one `buffer_t`; cells named by age (steps from `pnewest`) |
| `BufferCells` | the same with cells, `pnew` and `pold`, as `add_cells` links them |
| `BufferProofs`, `BufferCellsProofs` | proofs about `Buffer` and `BufferCells` |
| `Schedule`, `ScheduleProofs` | `Schedule`, `Ready0`, `Ready1`, `MoveBlock` on one galaxy, and proofs |
| `Dataflow` | abstract: what a run of a network means, without controller or hierarchy |
| `Run`, `RunProofs` | `KrnSetupRun`, `KrnRunPhases`, `SingleRun`, `MultiRun`, with their recursion, and proofs |
| `Topology` | the commands that edit the connections of one galaxy |
| `TopologyProofs` | proofs about `Topology`: its invariants, and what `makecontig` and `delete` do |
| `Flatten`, `FlattenProofs` | `KrnSetupRun`, `ConnectAllStars`, `ConnectTwoStars`, `FindInput`, `FindOutput` on a hierarchy, and proofs |
| `BlockTree` | abstract: every galaxy has a sequence of blocks, and a command changes one place of it |
| `Siblings` | the pointers of the tree under `CreateBlock`, `MoveBlock`, `RemoveBlock`, `RemoveChildren` |
| `Editor`, `EditorProofs` | the commands that build the tree and move about in it, with the loading of nested files, on the tree of `Siblings`, and proofs: the tree, the walk along `pfsibling`, the refinement of `BlockTree`, loads |
| `Arguments`, `ArgumentsProofs` | parameters and arguments, from a command to the file it is stored in and back, and proofs |
| `MCBuffer`, `MCBufferCells`, `MCSchedule`, `MCRun`, `MCTopology`, `MCFlatten`, `MCEditor`, `MCArguments` | instances for TLC |

`BufferCells` implements `Buffer` implements `SampleStream`; `Run` implements `Dataflow`;
`Editor` implements `BlockTree`.

**Buffer.**  `buf` is the `buffer_t`; a pointer is the age of the cell it points to, so
`pnewest = pnewest->pnew` renumbers the ring.  One action per function; `Initialised` is
the `init_buffer` every access starts with.  The settings come before the first access,
as `KrnRunPhases` has it (`SYSTEM_INIT`, `USER_INIT`, then `MAIN_CODE`).  A read through
disagreeing cell sizes yields any value: `CellSize` reports error 800 ("we had better
abort", its comment says), but `ErrorPrint` only prints and the buffer is used.  A negative
minimum delay is outside the model: the code does not look, no block should ask for it.

**BufferCells.**  Cells are numbered as allocated; `AddCells(b, ins, n)` writes the links
as `add_cells` does, in both of its cases at once.  The refinement mapping walks the
circle to recover ages.

**Schedule.**  The circular list read from `pchild` on is the function `order`;
`pb_unsched` and `pblock` are positions in it, and wrap as the pointers do.  `Place` is
the body of the inner loop for a ready block (move, advance, schedule an inner galaxy,
reset the level), `Skip` for one that is not, `NextPass` the end of a pass, `Return` the
end of the call.  The recursive call works on another list, and is recorded.

**Run.**  `stack` holds the activation records of `SingleRun` or `MultiRun`, the running
one first, with their locals.  A buffer is its `cells_stored` (the rest of it is `Buffer`'s
business); a star is the loop shared by `src/BLOCKS`: a source offers `NumberSamples`
samples per call (`sine.c`), any other star takes a sample from each input while
`MIN_AVAIL()` lasts and adds to each output (`add.c`); it returns an error when an output
refuses.  `MayFail` stars may also fail at any call.  `wired` is the set of stars whose
`inputs[0]` is set, which is what `MultiRun` looks at: it may include stars without a
buffer, namely stars wired to a galaxy input that nothing feeds.  What other parts
guarantee is assumed of a topology: the sibling lists form a tree that reaches every star
(`TreeAssumption`; `Linked` of `Siblings`), and `Expected` has settled by `Horizon`
(`HorizonAssumption`; it excludes a loop that makes more samples than it takes, which a
run ends with a full buffer and nothing else).

**Topology.**  `inputs[b][i]` is `inputs[i]` with `output_no[i]` of block `b`, `outputs`
is `outputs` with `input_no`; an end at `Galaxy` is what the code writes as a pointer to
the galaxy itself, for which nothing is written at the other end.  A command is one
action, from parsing to `change_flag`; one that is refused (return 30 to 64) is no step.
`L_makecontig` is the exception: it is a loop that moves one connection at a time through
further commands, so it is a state `contig` and one action per port and direction, and no
other command is taken meanwhile.  The order of the siblings is left out: `forward`,
`back`, `to` and what follows a removed block select any other block.  `LineInsertBlock`
may or may not be refused where the code compares an unset pointer (line 592).  Signal
names, change flags and the galaxy's own outer connections do not take part.
`clobbered` remembers that `LineInsert` has overwritten an output in use (its search
looks at the wrong table); the other properties are about the states before that.

**Flatten.**  A topology is a set of `links` between ports, each within one galaxy; that the
two ends of a link agree and that a port has one link on a side is what `Topology` shows
for each galaxy.  `stack` holds the calls of `ConnectAllStars`: the galaxy, the block and
the input it has come to.  There is one action per step of its loop: the test for gaps,
an input from the galaxy's own terminal, one from a sibling (`ConnectTwoStars`, which
follows the link through galaxies on both sides, makes a buffer and sets both stars), the
descent into a galaxy, the next sibling, the return.  Buffers are numbered from 1 again
after `KrnListDestroy`, so a pointer left over from the run before may well point to a new
buffer of another star.  An empty galaxy is error 41 from `ConnectAllStars`; `InitAll`
returns 40 for one, which its caller ignores.  The order of siblings is fixed: what is
accepted and connected does not depend on it, only which of several errors is reported.
What `Flatten` yields is the `links` and, up to `FedInPlace`, the `wired` of `Run`.

**Siblings, Editor.**  The fields of `struct block` are functions on the blocks there may
be; a block that is not allocated has type `FREE`, and the set of blocks is the memory:
`ErrorAlloc` exits when it is used up.  `Under(g)` is what the recursion of
`RemoveChildren` reaches, written without recursion as the least closed set.  A topology
file is the sequence of its `block` and `hblock` lines, and `frames` holds the calls of
`LineLoad`: a line of a file is one step (`ReadLine`), as is the end of a file and the
clearing up after an error in it, and `pg_current`, `pb_current` and `line_mode` are saved
and restored where `LineGalaxy` and `LineLoad` do it.  The files there are at the start may
say anything that `store` could have written (`FilesAssumption`): names and models, in any
order, however often.  A typed command is one step, up to
the first line of the file it loads.  `L_run` is the only thing a run does to the tree: it
puts one sibling in front of another, any two, since `Schedule` decides which.  Signal
names, connections and the arguments of the lines are in other modules or left out;
`KrnVerifyParams` may refuse any block.  No more than `MaxOpen` files are open at a time: a
load that would open one more fails (`Opens`; error 26 of `LineLoad`), its galaxy stays empty and
the error ends the calls around it, which is how the load of a file that contains itself ends,
unless memory is used up before.  `replace` and `rename` in an empty galaxy follow
`pb_current`, which is NULL, and end the program: they are no steps.

**Arguments.**  A block is its path; the model of a block is given by its depth, so that
all galaxies have one file and share its table `model[1]` of types and defaults, as
instances of a file do.  A command with all the loading it causes is one step; `net` is
what it leaves.  `LoadFile` is given what completes a block (a galaxy in it is loaded, a
star verified), and `propagate_arg` goes down two levels, which is all there are; the loops
over lines and parameters are recursive functions.  `flag` is the model's mark that its
arguments have been declared: a file without `arg` lines makes them out of the parameters
that refer to them.  `Reached` are the parameters that `propagate_arg` comes to: one that
never got a type ends the call.  `astray` remembers the parameters that have had another
value than their argument since something that explains it: they were not reached
(`Unreached`), an error broke off their verification or a load around them (`Cause`), or
their block was verified from the model of its galaxy, which says something else than the
galaxy itself (`StartsApart`): a star typed with a `param arg` line starts with the model's
value.  The commands take the filled places of a
table to be the first ones and follow NULL otherwise; such a command is no step, and a
behaviour ends when an instance has lost a parameter to a sibling (`Lost`).  `krn_argAssoc_A`
keeps the numbers of the galaxy printed before, for a galaxy that has no arguments:
`L_store` takes any (`before`).  Types are `int` and `float`.  `parname` is `chp` by name,
`charg` is `arg` in a dialogue.

## 3. Runs

| Run | Configuration | Shows |
|---|---|---|
| `buffer` | 2 payloads, one cell size, delays 0..2, created with dmax 1, chunks of 2, 4 segments, 7 cells | types, room, pointer agreement and the refinement of the delay line, under every order of settings, writes, reads, accesses with legal and illegal delays, growth and refusal |
| `buffer_cells` | delays 0..1, dmax 0, chunks of 2, 5 cells | the links form one circle and implement `Buffer` |
| `schedule` | all topologies of 3 blocks, two of them galaxies, of an inner galaxy: any inputs, any feedback, any initial order; two runs | data order, forcing only when stuck, no block lost, order stable, inner galaxies scheduled; it returns |
| `run` | 3 stars in a universe, a galaxy and a galaxy in it, all orders, several networks with and without feedback and initial samples, a star making 2 samples of 1, buffers of 4, one star that may fail, 2 runs | phases in step, each star once per phase, the network fully executed from however deep, buffers bounded, a run after a failed one is not disturbed, the run returns |
| `topology` | 3 blocks, 2 ports each way, 3 connections | both ends agree, terminals used once, delete repairs what its comment says and no more, makecontig keeps the neighbours in order and ends for a block without connections to the galaxy's terminals |
| `flatten` | 3 stars and 2 galaxies in 5 hierarchies, one with an empty galaxy and one with an empty universe; 2 ports each way, 3 links, 2 runs | a topology is accepted if and only if it is complete; the stars share the buffers the links describe; without unfed galaxy inputs the buffers are in place |
| `flatten_unfed` (violation) | as `flatten` | a star with an unfed input has a gap in front of its buffers |
| `topology_insert` (violation) | as `topology` | insert takes an output in use |
| `topology_loop` (violation) | 2 blocks, 2 ports | makecontig does not end |
| `editor` | 4 blocks with the universe, 2 free names and a reserved one, a star model and 3 galaxy models, files that contain another galaxy and a name twice, files that come to contain themselves by `store`, 3 files open at a time; 4 commands that change the topology, any number that move about | pointers form a tree, current galaxy and block are in it, the block during a load too from the first line on that makes one, names are unique, a load ends, with all of its file or nothing, every command is one step of `BlockTree` |
| `editor_changes` (violation) | the same, no files | the change to a galaxy is forgotten with its last block |
| `arguments` | a universe, 2 galaxies of one model with a star each, 2 arguments, 2 values, 2 types, three pairs of files with and without `arg` lines; 4 commands | bound parameters follow their argument through two levels; what is stored and loaded again is the same, if the universe has its model's arguments and every parameter its model's type (`Consistent`) |

Why the bounds are enough.  A ring's behaviour depends on the position of two pointers
relative to the growth point and on the counts; with 7 cells the ring starts with 3 or 4,
grows, wraps and refuses, with reader and writer at each relative place.  Chunks of 1
would hide the order within a chunk.  Three blocks have every kind
of loop (of one, two and three blocks), two loops with a block in common and a block
beside a loop; the list is checked for all topologies of that size and
the theorems remove the bound.  Three stars give a source, a fork, a join and a loop, and
three levels are the fewest where a galaxy is neither first nor last to hear of activity.
`Horizon` only has to exceed the rounds in which `Expected` settles.
Three blocks are the fewest with one to insert or delete between two others, and two
ports the fewest with a gap or a choice of number; three connections are a block with
both sides joined and one that must not be disturbed.  Three links are the fewest that pass
two galaxy borders, on one side of a connection or on both; between two runs one edit is
enough, since the second run must forget the first whatever it was; the theorems of `FlattenProofs`
hold for all trees, ports, links and runs.  Four blocks are a
galaxy with two blocks, or a galaxy in a galaxy with one; four commands are enough to
create, store under another name and load the result, inside itself too.  With three files
open at a time a load can fail at the limit below two others and clear up after all three,
and four blocks are few enough for other loads to use up memory first.  The theorems of `EditorProofs` remove these three bounds.  In `arguments` two levels are what a value needs to
be handed on once, two galaxies what it takes to change a model behind an instance's back,
and two numbers a gap.  Four commands do not reach all that `StartsApart` names: a galaxy that
gives an argument of the universe's model another type needs nine (of `load`, `arg`, `store`,
`hblock` and `remove`), and a first attempt to prove `Follows` without that case is how it
was found; `FollowsAlways` removes the bound.  The constraint
`Unclobbered` of `topology` stops the
search behind an insert that damaged a connection: the state itself is still checked, and
`topology_insert` shows the way there.

Deadlock.  It is checked for the buffers and for the edit commands.  A scheduler, a run or a setting
up that has returned, with no command left (`MaxRuns`), stops: those configurations say `CHECK_DEADLOCK FALSE`, and
`Terminates` makes sure that `Schedule` and `Run` stop nowhere else.  That the walk of
`Flatten` returns is not checked.  `editor` and `arguments` stop at `MaxCommands`, at the
exit for want of memory and at `Lost`; `LoadReturns` says that a load stops nowhere else.

Fairness.  The kernel is one thread and never waits: weak fairness of the scheduler's and
the controller's own steps says that the thread goes on.  Nothing is assumed of the user:
the step that types another `run`, or an edit command, is not fair; in `Topology` only
the loop of `makecontig` is, and in `Editor` the reading of a file that has been opened
(`LoadStep`), for which the program waits on nobody.

Every property has a mutant of the code, defined beside the original in the module and
introduced by the words "a mistake", that breaks it.

## 4. Proofs

*Buffer.*  `TypeCorrect`, `NoOverrun`, `PointersStayInStep` and `RingIsADelayLine`, for all
payloads, delays, chunk sizes and limits; assumed are the constants' types and a limit of
at least 3 segments (`init_buffer` records two and a NULL).  The inductive invariant
joins `BufferOK`, `Room` and, while no star has broken its contract, `InStep`.  `Room`
needs `InStep`'s neighbour: the `+ 2` in `cells_alloc >= dmax + 2` keeps the cell to be
overwritten next apart from the oldest one readable.  There is one lemma per operator
(`GrownOK`, `AdvancedOK`, ...), so the step lemma only combines them.  The refinement maps
each action to a step of `SampleStream` or to a stutter; its lemmas (`LineGrown`,
`LineAdvanced`, ...) say what an operator does to the visible part of the ring.

*Linked cells.*  `CellsStayJoined` and `LinksAreARing`, from the same assumptions; with
`RingIsADelayLine` the buffer that the code follows by `pnew` and `pold` is a delay line.
The mapping finds ages by walking, so a step would compare a walk before with a walk after
the links have changed.  The invariant of `BufferCellsProofs` says instead that the cells can
be listed (`Order`): `at[0]` is `pnewest`, `pold` leads from each to the next and from the last
to the first, `pnew` back, and every cell is in the list once.  A walk of any length, either
way, is then addition modulo the number of cells (`WalkedIs`, by induction on the steps), and
the age of a cell its index (`Aged`).  `CellsAdded` gives the list after `add_cells`: the new
cells come in between `pnewest` and the oldest, the last allocated the newest of them
(`Spread`), also when the circle was a lone cell linked to itself.  Every operator has a lemma that it commutes with
`ByAge` (`InitialisedAs`, `GrownAs`, `AdvancedAs`, ...).

*Schedule.*  For every galaxy and topology: `TypeCorrect`, `ListIsKept`,
`ExecutionInDataOrder`, `NoForcing`, `ForcingIsLastResort`, `SecondRunKeepsOrder`,
`InnerGalaxiesScheduled`.  `DataOrder` is not inductive.  The invariant adds where the
scan stands (`Scan`), what the tests of this pass and the last have found out of the
unscheduled blocks (`Levels`: at level 0, a block passed over has an unscheduled input,
for it could not have lost it without `deadlocked` being reset), that the blocks before
`pb_unsched` are sorted when there is no feedback (`InOrder`), and which galaxies have
been placed (`Inner`).  That level 0 suffices follows: a set of unscheduled blocks each
with an input in the set contradicts `FeedForward`.  `NoForcing` states it, a theorem
without a run.

*Tree and commands.*  For any number of blocks, names, models and files, any nesting of
loads and any number of commands: `TreeStaysLinked`, `NamesStayUnique`, `AlwaysSelected`.
`EditorProofs` starts with a lemma for each way the pointers change (create at the end, move,
take out, free a subtree); that every block outside a subtree keeps its neighbours is what
each rests on, since `Under` frees blocks of many lists at once.  None of the three is
inductive.  The invariant of `EditorProofs` adds that the current galaxy is in use and that
it and all blocks around it are galaxies (`Placed`: a galaxy made a star is never one the
user or a file stands in), that the galaxies of the open files are nested in one another
and the innermost is the current one (`Nest`: what a failing load frees is inside what the
outer loads are still filling, never around it), that commands count as the user's if and
only if no galaxy line is being executed (`Modes`, which makes `line_mode` come back), and
where `pb_current` points between commands (`Chosen`).  A load that frees the galaxy's blocks
leaves `pb_current` pointing at one of them.  The second half of `Selected`
bounds that time: the pointer is that of a block in use unless no line, of any of the open files, has made
a block or is past the one that opened the next file.  Its invariant is
`CurrentLives`: a line that makes a block sets the pointer to it, every return to a caller to the
galaxy the caller is waiting for, which `Nest` keeps in use, also when a failed file has been
cleared up.

*Hierarchy and loads.*  For the same constants: `TreeImplemented`, `LoadsAllOrNothing`,
`EditorTypes`.  All three speak of the blocks of a galaxy as a sequence, the one that the
loop of `FindBlock` finds: `Children` is a recursive function of the number of steps,
started at `pchild`.  That it has a value is proved by induction (`WalkRuns`), that it
comes round with every block of the galaxy once from `Linked` (`WalkRing`: neighbours that
point at each other lead from no two blocks to the same one, so the first to come again is
the first of all; `ChildrenAre`), and that a sequence which follows the pointers round is
the one the walk finds (`WalkIs`).  With this each operation of `krn_block.c` is shown to
do to the sequence what `BlockTree` says (`CreateAdds`, `RemoveChildrenEmpties`,
`RemoveDrops`, `MoveMoves`): the last says that the pointer writes of `MoveBlock` give
`InsertAt` of `RemoveAt`, with the first of the list, its end and direct neighbours as
special cases; where the list has two blocks the writes put back what was there.

`LoadAllOrNothing` is about the return of a load and says nothing of the way there; `LInv`
does, on top of `IInv`.  The file of every galaxy that is being read exists and is not read past its end
(`Reads`; `EditorTypes` needs it as well, for a line to be one), the galaxy is what has been
read of its file so far (`SoFar`), and a galaxy in the outermost one whose file is not being
read any more is what its file says (`InnerLoaded`).  The last needs the nesting of the
open files from `IInv`: a line adds to the innermost galaxy only, so all that were
finished stay as they are.  Both are claimed while no error is pending.  An error empties
the innermost galaxy and is handed to the file around it, which leaves nothing to claim
until the last of them has returned.

*Connections.*  For any number of blocks, ports and connections: `TypeCorrect`,
`ConnectionsAgree`, `TerminalsUsedOnce`, and for single commands `OrderKept`
(`makecontig`) and `DeletionRepairs` (`delete`).  The invariant is `Located` (the current
block is in the list, `makecontig` has one to work on) and `Connected`: a table leads
nowhere that the other table does not lead back from, and no two ports lead to one
terminal.  The agreement is inductive, but the terminals do not follow from it, since the
galaxy has no table of its own; and it is what the other two theorems rest on, for each
command finds the far end of a connection by what the near end says.  Each helper has a
lemma about any two tables (`Joining`, `Cutting`, `Removing`, `Inserting`, `Moving`).
`DeleteBlock`'s loop is a recursive function of the number of turns; that it has a value
(`LoopRuns`) and what holds after each turn are proved by induction, with a set of numbers
in the place of a predicate (`SetInduction`).  An insert that has written over a connection
ends the agreement (`clobbered`); that terminals are used once survives it.

*Run control.*  For every topology, hierarchy, order of the siblings and number of runs:
`TypeCorrect`, `PhasesAgree`, `OncePerPhase`, `Implements`, `DeliveredAll` and
`BuffersStayControlled`; assumed of the constants is what the module says of topologies.
`PhasesInStep` and `Delivered` speak of the end of a phase, where the stack has nothing to
tell; the invariant says what the controller knows on the way there.  The calls under way
divide the blocks: `Visited(D)` says that D holds the blocks in front of the position of
each call and all there is inside them.  As long as no call has noted activity (`Calm`),
all stars of D have been called and, in `MAIN_CODE`, have nothing to do (`Done`): a star
that works disturbs stars of D, but then the flag `active` reaches its call, and a galaxy
hands it on.  In the other phases every call is calm, which gives the order of phases.
When the universe returns calmly, D is everything, so no star can fire: this is what makes
the step to `WRAPUP` a `Finish` of `Dataflow`.  The rest of the refinement is arithmetic on
one star's links (`Balanced`: a buffer holds its delay, plus what was made, less what was
taken).  For `Delivered` two facts meet: no star ever exceeds `Expected`, since that is a
solution of f = `Supply`(f) and supply grows with f (`Bounded`); and firings in which no
star can fire are a solution too, while `Expected` is the least one.
`BuffersStayControlled` needs the count of the stars at the start of a visit (`Levels`):
all have fired equally often, and in the visit each source gets ahead by one call only.

*Resolution of a hierarchy.*  For every tree of finitely many galaxies, any number of ports,
links and runs, and edits between them: `TypeCorrect`, `AcceptsTheComplete`,
`BuffersAsConnected` and `FedBuffersInPlace`.  Assumed is that the sibling lists form a tree
(`TreeAssumption`, what `TreeStaysLinked` and `ChildrenAre` say of the pointers); that links
share no end is not assumed but part of the invariant (`LinksOK`), since `Connect` takes free
ports only.  Both descriptions of a connection are recursive: the loops of `ConnectTwoStars`
go one galaxy deeper `Levels` times, `Leads` follows `Cardinality(links)` links.  That each
comes to its end is proved from the tree: every link leads to a port of a higher rank (`Further`:
outputs from the inside to the outside, then inputs from the outside to the inside), so a chain
uses no link twice (`ChainLength`) and the innermost port has no further link (`InnerInputEnd`).
It follows that stars are joined by a chain if and only
if one link between two blocks has them as its innermost ends (`LeadsJoins`), and that no two
such links share an innermost port (`InputOnce`, `OutputOnce`): a place in a table is written
once.  The three properties speak of the return; the invariant says where the walk is.  Its
calls are `Nested` in the tree, no galaxy twice; there is a set D of the blocks it is through
with (`Visited`), in which, and in the galaxies it is in, it has found nothing wrong
(`Sound`), and the tables are `Wired` as the links say that lead into these blocks and into
the ports passed of the current one (`Through`).  A refusal names something that `Complete`
forbids; when the universe's call returns, D is the whole tree (`AllVisited`).  One part of
`Complete` no step of the walk tests, that nothing leaves the universe at an output: it is
`UniverseTerminals` that has, behind a test that ports are without a gap (`OutputsBefore`).

*Parameters and arguments.*  For any names, values, number of parameters, commands and
initial files: `TypeCorrect`, `FollowsAlways`, `UniverseLoadRights` and `StoredIsLoaded`.  The
inductive invariant of the first two is `TypeOK` and `Follows` together: a value can only be followed in a net whose
lists of children and tables fit, and `store` writes files that later loads read (`FilesStored`).
A command is one step with everything it loads and verifies, so the work is in the operators.
`PropagateApart` says of `propagate_arg` that afterwards no parameter bound to the argument
is apart from it unless it was not reached, and no other that was not before.  `VerifyFacts`
says it of `KrnVerifyParams`: in its loop a parameter takes the value in the model of the galaxy around it,
while those below it get theirs by `propagate_arg`; a later turn may change the type of an
argument in the model, but no parameter that an earlier turn has dealt with (`Settled`).
`GalaxyFacts` and `UniverseFacts` say it of a file that is read to its end.  A star inside a
galaxy that is being loaded starts from a model that has just been read, and so is not apart;
the galaxy starts from the model of the universe, where the model has what the universe
itself has, until the last verification.  What is left is the galaxy a user types or loads by
itself (`StartsApart`), and errors.  Hence the third theorem, which no run states: when a
load of the universe succeeds, every bound parameter has the value of its argument,
whatever went astray before.  These three do not assume `Consistent`: parameters may have
lost their model's type, and a file may be any that `store` can write.

`StoredIsLoaded` is `LoadedAsStored`, which has `Consistent` as its hypothesis, and compares a whole
load with the net that was stored.  It needs one invariant more, `StarsHave`: a star in the tree
has its parameter, and the model of the stars never changes; without it `KrnVerifyParams` would
make one up that was never stored.  `StarsHave` is kept by every command (`NextStars`): only the star that is being verified may be without
(`StarsBut`), `KrnVerifyParams` gives it the model's, and breaks off only at a bound parameter,
which is there.
The numbers that `krn_argAssoc_A` gives are ranks: the k-th argument gets the number of
arguments in front of it (`AssocRank`), which is one-to-one and leaves no gap (`RankTells`,
`NoGap`).  The proof then follows the blocks through the load in their new numbers.  A block all of whose
parameters are of its model, and bound to an argument of their type, is verified without an error, and only
bound values change (`Fits`, `VerifyFits`).  By it a star is read back (`StarReloaded`), with it
its galaxy (`GalaxyReloaded`), then the galaxies of the universe one after the other, the
earlier ones untouched (`ReloadStep`, `ReloadLoop`), and the last verification, of the universe,
changes no more than values of bound parameters (`UniverseVerified`).  Those values the lemmas
leave open; at the end each is that of its argument, in the net that was loaded by
`UniverseFacts`, in the one that was stored by `Consistent`, and the arguments have been read
back (`StarKept`).

*Model-checked only.*  Liveness (`Terminates`, `LoadReturns`, `InnerContigEnds`), since fairness
and `ENABLED` are out of the provers' reach.

## 5. Findings

* `topology_insert`: the comment on `LineInsert` promises "the NEXT AVAILABLE ports"; the
  search for the output tests `pb_current->inputs` (line 541).
* `topology_loop`: the README promises a "single command to make buffer numbers
  contiguous"; a connection to the galaxy's own terminal cannot be moved by the commands
  it uses, their failure is ignored, and the loop goes on for ever (lines 1024-1025).
* `flatten_unfed`: the comment on `MinimumSamples` promises the minimum over "all input
  buffers of a STAR"; it counts `numberInBuffers` places from 0, and an input that leads to
  a galaxy input which nothing feeds leaves its place NULL (line 495).
* `editor_changes`: the README promises that "change checking" prevents an exit "before
  saving a modification"; `remove` marks the next sibling, which is the removed block
  itself when it is the last of its galaxy (`krn_command.c:652`), and `rename` marks
  nothing.

Seen while modelling, without a run: one branch of `LineDisConnect` compares `output_no`
with `inNum` where `outNum` is meant, so a disconnect with one number left out finds
nothing (`krn_connect.c:409`); `IncWrPtr` adds a chunk before it looks at
`krn_maxMemSegments`; a source in a galaxy is visited in every pass of the galaxy around
it and so runs ahead of one outside; `KrnVerifyParams` gives an argument of the universe's model
another type when a galaxy that is bound to it has one and there are no `arg` lines, while the
universe's own parameter keeps the old one (`krn_parameter.c:1331`), so that galaxy gets a
value of the other type until the argument is given again; from then on `store` writes the
model's argument (`krn_prinfo.c:782`), which need not have the universe's value, and loading
gives the stars that one; a load that ends with error 112
leaves the blocks it has made, with the values in the file.

## 6. Not modelled, and the plan

Not modelled: signal names (`LineName`), which nothing but printing and two commands read;
command lookup, abbreviations, aliases and history, which leave the topology alone; the
model library, whose tables are compiled in; expressions, arrays, files and strings as
parameters; printing and the Tcl wrappers; the arithmetic of the blocks and the vendored
libraries; memory exhaustion, except that `ErrorAlloc` exits in `Editor`; the log of
buffer growth; SPICE blocks.

What is left, in order:

1. `Editor` and `Topology` in one module: `replace` keeps the connections of a
   block whose children it frees, and a load that fails leaves the galaxy's own.
2. Signal names, which follow a connection through insert and delete.
