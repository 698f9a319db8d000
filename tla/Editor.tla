--------------------------------- MODULE Editor ---------------------------------
(***************************************************************************)
(* The commands that build a topology and move about in it: block, hblock, *)
(* replace, remove, delete, rename, new, load, store, up, down, to,        *)
(* forward and back (src/KERNEL/krn_star.c, krn_block.c, krn_file.c and    *)
(* krn_command.c), on the tree of module Siblings.                         *)
(*                                                                         *)
(* A topology file is the sequence of the lines that make the blocks of    *)
(* one galaxy.  Loading it executes these lines as commands, and an hblock *)
(* among them loads the file of its model: frames are the calls of         *)
(* LineLoad under way, innermost last, and the actions of LoadStep are     *)
(* what happens between two lines.                                         *)
(*                                                                         *)
(* A command that is refused changes nothing; what matters is that it ends *)
(* the file it stands in.  The form of block and hblock without a name is  *)
(* the one with a name that FindBlock does not find.  Parameters are left  *)
(* out but for KrnVerifyParams, which may refuse any block; connections    *)
(* are in module Topology.  A command that changes its block through a     *)
(* pb_current of NULL (replace and rename in an empty galaxy) ends the     *)
(* program; it is not given here.                                          *)
(***************************************************************************)
EXTENDS Siblings, Functions

CONSTANTS
    Names,          \* names of blocks
    Reserved,       \* input and output
    StarModels,     \* models of mtype LIBRARY
    GalaxyModels,   \* names of topology files
    universeModel,  \* the model the universe starts with
    untitled,       \* the one new stores
    NoFile,
    InitialFiles,   \* the topology files there may be at the start
    MaxOpen,        \* topology files that fopen opens at a time
    MaxCommands     \* bound of the model: commands that change the topology

Models == StarModels \cup GalaxyModels

ASSUME ModelAssumption ==
    /\ StarModels \cap GalaxyModels = {}
    /\ {universeModel, untitled} \subseteq GalaxyModels
    /\ Reserved \subseteq Names
    /\ MaxOpen \in Nat \ {0} /\ MaxCommands \in Nat

VARIABLES
    name, model_index, change_flag,
    pg_current, pb_current,
    line_mode,
    files,          \* topology files: model -> lines
    known,          \* the galaxies in the model table
    frames,         \* calls of LineLoad: galaxy, lines read, saved line_mode
    error,          \* the line of the innermost file has returned an error
    exited,         \* ErrorAlloc has ended the program
    commands        \* commands so far

labels == <<name, model_index, change_flag>>
place == <<pg_current, pb_current, line_mode>>
disk == <<files, known>>
vars == <<tree, labels, place, disk, frames, error, exited, commands>>

Loading == frames # <<>>
Top == frames[Len(frames)]
File == files[model_index[Top.galaxy]]
Waiting == ~Loading /\ ~exited

Command ==
    /\ Waiting
    /\ commands < MaxCommands
    /\ commands' = commands + 1

NameTaken(n) == \E b \in Blocks : pparent[b] = pg_current /\ name[b] = n
(* A mistake: only the last block of the galaxy is looked at. *)
BadNameLast(n) == \/ n \in Reserved
                  \/ pchild[pg_current] # NULL /\ name[pbsibling[pchild[pg_current]]] = n
BadName(n) == n \in Reserved \/ NameTaken(n)

(* What PrInfoAll writes for the children of g. *)
Line == [name : Names, model : Models]
Listing(g) == [i \in 1..Len(Children(g)) |->
                 [name |-> name[Children(g)[i]], model |-> model_index[Children(g)[i]]]]

(* The files there are at the start could have been written by it.         *)
Contents == {NoFile} \cup Seq(Line)
ASSUME FilesAssumption == \A f \in InitialFiles : f \in [GalaxyModels -> Contents]

Fresh == CHOOSE b \in Blocks : type[b] = "FREE"
HeapHolds == Used # Blocks

-----------------------------------------------------------------------------
Init ==
    /\ CreateUniverse
    /\ name = [b \in Blocks |-> NULL]
    /\ model_index = [b \in Blocks |-> universeModel]
    /\ change_flag = [b \in Blocks |-> FALSE]
    /\ pg_current = universe
    /\ pb_current = NULL
    /\ line_mode = TRUE
    /\ files \in InitialFiles
    /\ known = {m \in GalaxyModels : files[m] # NoFile} \cup {universeModel}
    /\ frames = <<>>
    /\ error = FALSE
    /\ exited = FALSE
    /\ commands = 0

(* The frames once the line at hand has been read, in a file or not. *)
LineRead == IF Loading THEN [frames EXCEPT ![Len(frames)].lines = @ + 1] ELSE <<>>

Called(g, inner) == [galaxy |-> g, lines |-> 0, line_mode |-> line_mode, inner |-> inner]

(* A name refused by LineStar, LineGalaxy, or a model they do not know. *)
Refused(l) == BadName(l.name) \/ l.model \notin StarModels \cup known

(* An error of a line in a file is looked at by the reader of the file. *)
Refuse ==
    /\ frames' = LineRead
    /\ error' = Loading
    /\ UNCHANGED <<tree, labels, place, disk, exited>>

ErrorAlloc ==
    /\ exited' = TRUE
    /\ UNCHANGED <<tree, labels, place, disk, frames, error>>

NewBlock(l, t) ==
    /\ CreateBlock(pg_current, Fresh, t)
    /\ name' = [name EXCEPT ![Fresh] = l.name]
    /\ model_index' = [model_index EXCEPT ![Fresh] = l.model]
    /\ change_flag' = [change_flag EXCEPT ![Fresh] = line_mode]

(* LineStar: the block stays, and is the current one, when its parameters  *)
(* are wrong.                                                              *)
LineStar(l) ==
    /\ NewBlock(l, "STYPE")
    /\ pb_current' = Fresh
    /\ frames' = LineRead
    /\ error' \in {FALSE, Loading}
    /\ UNCHANGED <<pg_current, line_mode, disk, exited>>

(* There is a file, and not too many are being read to open another. *)
Opens(m) == files[m] # NoFile /\ Len(frames) < MaxOpen

(* LineGalaxy where LineLoad reads no file: the block stays, and is empty. *)
GalaxyWithoutFile(l) ==
    /\ NewBlock(l, "GTYPE")
    /\ pb_current' = Fresh
    /\ frames' = LineRead
    /\ error' = Loading
    /\ UNCHANGED <<pg_current, line_mode, disk, exited>>

(* LineGalaxy up to the first line of the file; pb_current is not set yet. *)
GalaxyWithFile(l) ==
    /\ NewBlock(l, "GTYPE")
    /\ pg_current' = Fresh
    /\ line_mode' = FALSE
    /\ frames' = Append(LineRead, Called(Fresh, TRUE))
    /\ UNCHANGED <<pb_current, disk, error, exited>>

LineGalaxy(l) == IF Opens(l.model) THEN GalaxyWithFile(l) ELSE GalaxyWithoutFile(l)

Create(l) ==
    IF ~HeapHolds THEN ErrorAlloc
    ELSE IF l.model \in StarModels THEN LineStar(l)
    ELSE LineGalaxy(l)

(* A line of a file. *)
Execute(l) == IF Refused(l) THEN Refuse ELSE Create(l)

-----------------------------------------------------------------------------
(* The labels of the blocks that are left after some have been freed.      *)
Kept(f, nothing) == [b \in Blocks |-> IF type'[b] = "FREE" THEN nothing ELSE f[b]]
LabelsKept ==
    /\ name' = Kept(name, NULL)
    /\ model_index' = Kept(model_index, universeModel)
    /\ change_flag' = Kept(change_flag, FALSE)

(* LineReplace gives the current block a new name and model.  What was in  *)
(* a galaxy stays below the star that replaces it.                         *)
ReplaceByStar(l) ==
    /\ l.model \in StarModels
    /\ type' = [type EXCEPT ![pb_current] = "STYPE"]
    /\ UNCHANGED <<pparent, pchild, pfsibling, pbsibling, place, frames>>

(* LineLoad empties the block before it reads the file, if there is one. *)
ReplaceByGalaxy(l) ==
    /\ l.model \in known
    /\ IF files[l.model] = NoFile
       THEN /\ type' = [type EXCEPT ![pb_current] = "GTYPE"]
            /\ UNCHANGED <<pparent, pchild, pfsibling, pbsibling, place, frames>>
       ELSE /\ RemoveChildren(pb_current, "GTYPE")
            /\ pg_current' = pb_current
            /\ line_mode' = FALSE
            /\ frames' = <<Called(pb_current, TRUE)>>
            /\ UNCHANGED pb_current

LineReplace(l) ==
    /\ Command
    /\ pb_current # NULL
    /\ ~BadName(l.name)
    /\ ReplaceByStar(l) \/ ReplaceByGalaxy(l)
    /\ name' = [Kept(name, NULL) EXCEPT ![pb_current] = l.name]
    /\ model_index' = [Kept(model_index, universeModel) EXCEPT ![pb_current] = l.model]
    /\ change_flag' = [Kept(change_flag, FALSE) EXCEPT ![pb_current] = TRUE]
    /\ UNCHANGED <<disk, error, exited>>

-----------------------------------------------------------------------------
(* remove and delete: the next sibling becomes current and is marked as    *)
(* changed, before the block is freed; it may be the same block.           *)
L_remove ==
    /\ Command
    /\ pb_current # NULL
    /\ RemoveBlock(pb_current)
    /\ name' = Kept(name, NULL)
    /\ model_index' = Kept(model_index, universeModel)
    /\ change_flag' = Kept([change_flag EXCEPT ![pfsibling[pb_current]] = TRUE], FALSE)
    /\ pb_current' = IF pchild'[pg_current] = NULL THEN NULL ELSE pfsibling[pb_current]
    /\ UNCHANGED <<pg_current, line_mode, disk, frames, error, exited>>

L_rename(n) ==
    /\ Command
    /\ pb_current # NULL
    /\ ~NameTaken(n)
    /\ name' = [name EXCEPT ![pb_current] = n]
    /\ UNCHANGED <<tree, model_index, change_flag, place, disk, frames, error, exited>>

(* The changes below g that ApproveChanges asks about. *)
CheckChanges(g) == \E b \in Under(g) : change_flag[b]

(* KrnCreateModel, PrInfoAll and ClearChanges: the children of pg_current  *)
(* are written to the file of model m; their flags, not those of theirs,   *)
(* are cleared.  With a name given the galaxy takes m as its model.        *)
StoreIn(m, named, listing) ==
    /\ files' = [files EXCEPT ![m] = listing]
    /\ known' = known \cup {m}
    /\ model_index' = [Kept(model_index, universeModel) EXCEPT
                         ![pg_current] = IF named THEN m ELSE @]
    /\ change_flag' = [b \in Blocks |->
                         IF pparent'[b] = pg_current THEN FALSE
                         ELSE IF b = pg_current /\ named THEN TRUE
                         ELSE Kept(change_flag, FALSE)[b]]

LineStore(m, named) ==
    /\ Command
    /\ named \/ m = model_index[pg_current]
    /\ UNCHANGED <<tree, name>>
    /\ StoreIn(m, named, Listing(pg_current))
    /\ UNCHANGED <<place, frames, error, exited>>

(* new empties the galaxy, if the user approves, and stores it untitled. *)
L_new ==
    /\ Command
    /\ RemoveChildren(pg_current, type[pg_current])
    /\ name' = Kept(name, NULL)
    /\ pb_current' = NULL
    /\ StoreIn(untitled, TRUE, <<>>)
    /\ UNCHANGED <<pg_current, line_mode, frames, error, exited>>

(* load, if the user approves; pb_current stays until the end of the file  *)
(* or its first block.                                                     *)
L_load(m, named) ==
    /\ Command
    /\ IF named THEN m \in known ELSE m = model_index[pg_current]
    /\ files[m] # NoFile
    /\ RemoveChildren(pg_current, type[pg_current])
    /\ name' = Kept(name, NULL)
    /\ model_index' = [Kept(model_index, universeModel) EXCEPT ![pg_current] = m]
    /\ change_flag' = Kept(change_flag, FALSE)
    /\ frames' = <<Called(pg_current, FALSE)>>
    /\ UNCHANGED <<place, disk, error, exited>>

L_block(l) == Command /\ ~Refused(l) /\ Create(l)

(* Schedule moves a block in front of one before it in the list of their   *)
(* galaxy (module Schedule); the first of the list is not moved.           *)
L_run(first, second) ==
    /\ Command
    /\ first # second
    /\ {first, second} \subseteq Used \ {universe}
    /\ pparent[first] = pparent[second]
    /\ pchild[pparent[second]] # second
    /\ MoveBlock(first, second)
    /\ UNCHANGED <<labels, place, disk, frames, error, exited>>

-----------------------------------------------------------------------------
(* Moving about: nothing but the two pointers of the place changes. *)
L_down ==
    /\ pb_current # NULL
    /\ type[pb_current] = "GTYPE"
    /\ pg_current' = pb_current
    /\ pb_current' = pchild[pb_current]

(* A mistake: the universe is left as well. *)
L_upAlways ==
    /\ pb_current' = pg_current
    /\ pg_current' = pparent[pg_current]

L_up ==
    /\ type[pg_current] # "UTYPE"
    /\ pb_current' = pg_current
    /\ pg_current' = pparent[pg_current]

(* `to *`: up to the child of the universe on the way. *)
ToTop ==
    /\ pparent[pg_current] # NULL
    /\ pg_current' = universe
    /\ pb_current' \in {b \in Blocks : pparent[b] = universe
                                       /\ (b = pg_current \/ pg_current \in Under(b))}

(* `to` with a name, forward and back: a sibling. *)
ToSibling ==
    /\ pb_current # NULL
    /\ pb_current' \in {b \in Blocks : pparent[b] = pparent[pb_current]}
    /\ UNCHANGED pg_current

Move ==
    /\ Waiting
    /\ L_down \/ L_up \/ ToTop \/ ToSibling
    /\ UNCHANGED <<tree, labels, line_mode, disk, frames, error, exited, commands>>

-----------------------------------------------------------------------------
(* Two mistakes: the caller's mode is not restored; the error of an inner  *)
(* file is lost.                                                           *)
ReturnQuiet(failed, block) ==
    /\ frames' = SubSeq(frames, 1, Len(frames) - 1)
    /\ error' = (failed /\ Len(frames) > 1)
    /\ IF Top.inner
       THEN /\ pg_current' = pparent[Top.galaxy]
            /\ pb_current' = Top.galaxy
       ELSE /\ pb_current' = block
            /\ UNCHANGED pg_current
    /\ UNCHANGED <<line_mode, disk, exited, commands>>

ReturnDeaf(failed, block) ==
    /\ frames' = SubSeq(frames, 1, Len(frames) - 1)
    /\ error' = FALSE
    /\ IF Top.inner
       THEN /\ pg_current' = pparent[Top.galaxy]
            /\ pb_current' = Top.galaxy
            /\ line_mode' = Top.line_mode
       ELSE /\ pb_current' = block
            /\ UNCHANGED <<pg_current, line_mode>>
    /\ UNCHANGED <<disk, exited, commands>>

(* LineLoad returns; LineGalaxy and LineReplace then restore the place and *)
(* the mode they found.                                                    *)
Return(failed, block) ==
    /\ frames' = SubSeq(frames, 1, Len(frames) - 1)
    /\ error' = (failed /\ Len(frames) > 1)
    /\ IF Top.inner
       THEN /\ pg_current' = pparent[Top.galaxy]
            /\ pb_current' = Top.galaxy
            /\ line_mode' = Top.line_mode
       ELSE /\ pb_current' = block
            /\ UNCHANGED <<pg_current, line_mode>>
    /\ UNCHANGED <<disk, exited, commands>>

ReadLine ==
    /\ ~error
    /\ Top.lines < Len(File)
    /\ Execute(File[Top.lines + 1])
    /\ UNCHANGED commands

EndOfFile ==
    /\ ~error
    /\ Top.lines = Len(File)
    /\ \E refused \in BOOLEAN : Return(refused, pchild[pg_current])
    /\ UNCHANGED <<tree, labels>>

(* A mistake: the file is read once more, from its first line. *)
FileFailedRetry ==
    /\ error
    /\ RemoveChildren(pg_current, type[pg_current])
    /\ LabelsKept
    /\ pb_current' = NULL
    /\ frames' = [frames EXCEPT ![Len(frames)].lines = 0]
    /\ error' = FALSE
    /\ UNCHANGED <<pg_current, line_mode, disk, exited, commands>>

(* An error in the file: what has been built of the galaxy is removed. *)
FileFailed ==
    /\ error
    /\ RemoveChildren(pg_current, type[pg_current])
    /\ LabelsKept
    /\ Return(TRUE, NULL)

LoadStep == Loading /\ ~exited /\ (ReadLine \/ EndOfFile \/ FileFailed)

Next ==
    \/ \E l \in Line : L_block(l) \/ LineReplace(l)
    \/ L_remove \/ L_new
    \/ \E n \in Names : L_rename(n)
    \/ \E m \in GalaxyModels, named \in BOOLEAN : LineStore(m, named) \/ L_load(m, named)
    \/ \E first, second \in Blocks : L_run(first, second)
    \/ Move
    \/ LoadStep

Spec == Init /\ [][Next]_vars

(* The program reads a file without waiting for anyone. *)
FairSpec == Spec /\ WF_vars(LoadStep)
-----------------------------------------------------------------------------
(* The variables keep their types; the current galaxy is always a block.  *)
TypeOK ==
    /\ TreeTypeOK
    /\ name \in [Blocks -> Names \cup {NULL}]
    /\ model_index \in [Blocks -> Models]
    /\ change_flag \in [Blocks -> BOOLEAN]
    /\ pg_current \in Blocks
    /\ pb_current \in Pointer
    /\ line_mode \in BOOLEAN
    /\ files \in [GalaxyModels -> Contents]
    /\ known \subseteq GalaxyModels
    /\ error \in BOOLEAN /\ exited \in BOOLEAN
    /\ commands \in 0..MaxCommands

(* No line read so far, in any of the files, has made a block current. *)
NothingMade ==
    /\ \A i \in 1..Len(frames) : frames[i].lines <= 1
    /\ Top.lines = 1 => error

(* Between two commands the current galaxy is one, the current block is in *)
(* it, and there is none only if the galaxy is empty; commands are again   *)
(* taken from the user.  A load may free the current block: pb_current     *)
(* points at no block, or at memory that has been freed, no longer than to *)
(* the first line that makes one.                                          *)
Selected ==
    /\ Waiting =>
        /\ type[pg_current] \in {"UTYPE", "GTYPE"}
        /\ pb_current = NULL <=> pchild[pg_current] = NULL
        /\ pb_current # NULL => pb_current \in Used /\ pparent[pb_current] = pg_current
        /\ line_mode
    /\ Loading => pb_current \in Used \/ NothingMade

(* A name stands for one block of a galaxy, for FindBlock to find. *)
NamesUnique ==
    \A a, b \in Used \ {universe} : pparent[a] = pparent[b] /\ name[a] = name[b] => a = b

(* When LineLoad returns, the galaxy is what its file says, as is every    *)
(* galaxy in it; or, after an error in the file, it is empty.              *)
Loaded(g) == Listing(g) = files[model_index[g]]
LoadAllOrNothing ==
    [][Len(frames') < Len(frames) =>
         \A g \in {Top.galaxy} :
            IF error THEN Listing(g)' = <<>>
            ELSE \A h \in {g} \cup Under(g) : type[h] # "STYPE" => Loaded(h)']_vars

(* A load comes to an end, also of files that contain one another: what    *)
(* fopen refuses, or the first error, ends one call of LineLoad after the  *)
(* other; or memory is at its end.                                         *)
LoadReturns == Loading ~> (~Loading \/ exited)

Tree == INSTANCE BlockTree WITH kids <- [g \in Blocks |-> Children(g)]
(* The commands change the tree in the ways BlockTree knows. *)
ImplementsTree == Tree!Spec

(* README.md:107, change checking: a command after which a galaxy does not *)
(* hold the blocks its file says, when it did before, leaves a change noted *)
(* for quit and load to ask about.  (The order is not looked at: run        *)
(* changes it.)                                                            *)
AsInFile(g) ==
    /\ type[g] \in {"UTYPE", "GTYPE"}
    /\ files[model_index[g]] # NoFile
    /\ Range(Listing(g)) = Range(files[model_index[g]])
ChangesNoted ==
    [][Waiting /\ Waiting' /\ files' = files =>
         \A g \in Used : AsInFile(g) => AsInFile(g)' \/ CheckChanges(universe)']_vars
=============================================================================
