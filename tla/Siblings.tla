-------------------------------- MODULE Siblings --------------------------------
(***************************************************************************)
(* The tree of blocks (src/KERNEL/krn_block.c).  A block points at the     *)
(* galaxy it is in, at its first child, and at its neighbours in the       *)
(* circular list of the children of its galaxy.  The fields of struct      *)
(* block are functions on the blocks there may be; one that is not         *)
(* allocated has type FREE.                                                *)
(***************************************************************************)
EXTENDS Naturals, FiniteSets, Sequences

CONSTANTS
    Blocks,         \* the blocks there may be
    universe,       \* the one CreateUniverse allocates
    NULL

ASSUME TreeAssumption == universe \in Blocks /\ NULL \notin Blocks /\ IsFiniteSet(Blocks)

VARIABLES
    type,
    pparent, pchild,
    pfsibling, pbsibling

tree == <<type, pparent, pchild, pfsibling, pbsibling>>

Pointer == Blocks \cup {NULL}
BlockTypes == {"FREE", "UTYPE", "GTYPE", "STYPE"}
Used == {b \in Blocks : type[b] # "FREE"}

(* The fields keep their types. *)
TreeTypeOK ==
    /\ type \in [Blocks -> BlockTypes]
    /\ pparent \in [Blocks -> Pointer]
    /\ pchild \in [Blocks -> Pointer]
    /\ pfsibling \in [Blocks -> Pointer]
    /\ pbsibling \in [Blocks -> Pointer]

(* The blocks at any depth in g: those in every set that holds the         *)
(* children of g and of its own members.                                   *)
Closed(parent, g, S) == \A x \in Blocks : parent[x] \in S \cup {g} => x \in S
Below(parent, g) == {b \in Blocks : \A S \in SUBSET Blocks : Closed(parent, g, S) => b \in S}
Under(g) == Below(pparent, g)

CreateUniverse ==
    /\ type = [b \in Blocks |-> IF b = universe THEN "UTYPE" ELSE "FREE"]
    /\ pparent = [b \in Blocks |-> NULL]
    /\ pchild = [b \in Blocks |-> NULL]
    /\ pfsibling = [b \in Blocks |-> IF b = universe THEN universe ELSE NULL]
    /\ pbsibling = [b \in Blocks |-> IF b = universe THEN universe ELSE NULL]

(* Two mistakes: the block that was last goes on pointing at the first;    *)
(* the new block becomes the first of the list.                            *)
CreateBlockHalf(g, b, t) ==
    /\ type' = [type EXCEPT ![b] = t]
    /\ pparent' = [pparent EXCEPT ![b] = g]
    /\ LET first == pchild[g] IN
       IF first = NULL
       THEN /\ pchild' = [pchild EXCEPT ![g] = b]
            /\ pfsibling' = [pfsibling EXCEPT ![b] = b]
            /\ pbsibling' = [pbsibling EXCEPT ![b] = b]
       ELSE /\ pfsibling' = [pfsibling EXCEPT ![b] = first]
            /\ pbsibling' = [pbsibling EXCEPT ![b] = pbsibling[first], ![first] = b]
            /\ UNCHANGED pchild

CreateBlockFirst(g, b, t) ==
    /\ type' = [type EXCEPT ![b] = t]
    /\ pparent' = [pparent EXCEPT ![b] = g]
    /\ pchild' = [pchild EXCEPT ![g] = b]
    /\ LET first == IF pchild[g] = NULL THEN b ELSE pchild[g]
           last == IF pchild[g] = NULL THEN b ELSE pbsibling[first]
       IN  /\ pfsibling' = [pfsibling EXCEPT ![b] = first, ![last] = b]
           /\ pbsibling' = [pbsibling EXCEPT ![b] = last, ![first] = b]

(* A new block of type t at the end of the list of galaxy g. *)
CreateBlock(g, b, t) ==
    /\ type' = [type EXCEPT ![b] = t]
    /\ pparent' = [pparent EXCEPT ![b] = g]
    /\ LET first == pchild[g] IN
       IF first = NULL
       THEN /\ pchild' = [pchild EXCEPT ![g] = b]
            /\ pfsibling' = [pfsibling EXCEPT ![b] = b]
            /\ pbsibling' = [pbsibling EXCEPT ![b] = b]
       ELSE /\ pfsibling' = [pfsibling EXCEPT ![b] = first, ![pbsibling[first]] = b]
            /\ pbsibling' = [pbsibling EXCEPT ![b] = pbsibling[first], ![first] = b]
            /\ UNCHANGED pchild

(* MoveBlock(pfirst, psecond): psecond is taken out of the list and put in *)
(* front of pfirst.  Out of a list of two this writes the same pointers    *)
(* twice.                                                                  *)
MoveBlock(first, second) ==
    LET f1 == [pfsibling EXCEPT ![pbsibling[second]] = pfsibling[second]]
        b1 == [pbsibling EXCEPT ![pfsibling[second]] = pbsibling[second]]
        before == b1[first]
    IN  /\ pfsibling' = [f1 EXCEPT ![second] = first, ![before] = second]
        /\ pbsibling' = [b1 EXCEPT ![second] = before, ![first] = second]
        /\ pchild' = IF pchild[pparent[first]] = first
                     THEN [pchild EXCEPT ![pparent[first]] = second] ELSE pchild
        /\ UNCHANGED <<type, pparent>>

(* RemoveChildren frees what is under g; g, which stays, is given type t. *)
RemoveChildren(g, t) ==
    LET gone == Under(g)
        Kept(f, nothing) == [b \in Blocks |-> IF b \in gone THEN nothing ELSE f[b]]
    IN  /\ type' = [Kept(type, "FREE") EXCEPT ![g] = t]
        /\ pparent' = Kept(pparent, NULL)
        /\ pchild' = [Kept(pchild, NULL) EXCEPT ![g] = NULL]
        /\ pfsibling' = Kept(pfsibling, NULL)
        /\ pbsibling' = Kept(pbsibling, NULL)

(* RemoveBlock frees b and what is under it; the galaxy's first child is   *)
(* then the next one, or none if b was the last.                           *)
RemoveBlock(b) ==
    LET gone == {b} \cup Under(b)
        g == pparent[b]
        Kept(f, nothing) == [x \in Blocks |-> IF x \in gone THEN nothing ELSE f[x]]
        f1 == [pfsibling EXCEPT ![pbsibling[b]] = pfsibling[b]]
        b1 == [pbsibling EXCEPT ![pfsibling[b]] = pbsibling[b]]
        c1 == IF pchild[g] # b THEN pchild
              ELSE [pchild EXCEPT ![g] = IF pfsibling[b] = b THEN NULL ELSE pfsibling[b]]
    IN  /\ type' = Kept(type, "FREE")
        /\ pparent' = Kept(pparent, NULL)
        /\ pchild' = Kept(c1, NULL)
        /\ pfsibling' = Kept(f1, NULL)
        /\ pbsibling' = Kept(b1, NULL)

(* The blocks from the first along next until it comes round; a walk that  *)
(* does not come round ends with more blocks than there are.               *)
Further(walk, next) ==
    LET on == next[walk[Len(walk)]]
    IN  IF on \in {walk[1], NULL} THEN walk ELSE Append(walk, on)
Walk(first, next) ==
    LET walk[n \in 0..Cardinality(Blocks)] ==
            IF n = 0 THEN <<first>> ELSE Further(walk[n - 1], next)
    IN  walk[Cardinality(Blocks)]

Children(g) == IF pchild[g] = NULL THEN <<>> ELSE Walk(pchild[g], pfsibling)

-----------------------------------------------------------------------------
(* A block in use other than the universe is in a galaxy. *)
Inside == Used \ {universe}

(* The galaxy of a block is in use and has a first child, which is in it.  *)
ParentsFit ==
    /\ universe \in Used /\ pparent[universe] = NULL
    /\ \A b \in Inside : pparent[b] \in Used /\ pchild[pparent[b]] # NULL
    /\ \A g \in Used : pchild[g] # NULL => pchild[g] \in Inside /\ pparent[pchild[g]] = g

(* Neighbours point at each other and are in the same galaxy.              *)
NeighboursFit ==
    /\ pfsibling[universe] = universe
    /\ \A b \in Inside :
        /\ pfsibling[b] \in Inside /\ pbsibling[b] \in Inside
        /\ pbsibling[pfsibling[b]] = b /\ pfsibling[pbsibling[b]] = b
        /\ pparent[pfsibling[b]] = pparent[b]

(* From one block of a galaxy pfsibling leads to all of them: a set with   *)
(* the one that it does not lead out of has the others.                    *)
OneCircle ==
    \A a, b \in Inside : pparent[a] = pparent[b] =>
        \A S \in SUBSET Blocks : a \in S /\ (\A x \in S : pfsibling[x] \in S) => b \in S

(* No block is inside itself, at any depth. *)
NoLoop == \A b \in Blocks : b \notin Under(b)

(* What is freed points nowhere. *)
FreedClean ==
    \A b \in Blocks \ Used : /\ pparent[b] = NULL /\ pchild[b] = NULL
                             /\ pfsibling[b] = NULL /\ pbsibling[b] = NULL

(* The pointers form a tree: the children of every galaxy are one circle,  *)
(* no block is lost from it or left in two, nothing points at what has     *)
(* been freed, whatever the commands of krn_block.c do in whatever order.  *)
Linked ==
    /\ ParentsFit
    /\ NeighboursFit
    /\ OneCircle
    /\ NoLoop
    /\ FreedClean
=============================================================================
