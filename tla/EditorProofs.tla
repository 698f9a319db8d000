------------------------------ MODULE EditorProofs ------------------------------
(***************************************************************************)
(* What the commands of module Editor keep, for any set of blocks, names   *)
(* and models and any topology files: the tree stays a tree (Linked),      *)
(* names are unique in a galaxy, and between two commands the current      *)
(* galaxy and block are what the next command takes them to be.  The       *)
(* commands change the hierarchy as BlockTree does (ImplementsTree), the   *)
(* labels and the files keep their types (TypeOK), and a load leaves a     *)
(* galaxy that is what its file says, or is empty (LoadAllOrNothing).      *)
(*                                                                         *)
(* The first part is about the functions of module Siblings alone: what    *)
(* each does to a tree.  The second is about the pointers.  The invariant  *)
(* IInv adds to Linked, the names and the place what is true in the middle *)
(* of a load: the files that are being read belong to a chain of galaxies, *)
(* each in the one before, that ends with the current one; and each        *)
(* caller's line_mode is saved in the frame of the file it waits for.      *)
(* CurrentLives is added to it for the current block during a load.        *)
(*                                                                         *)
(* The third part is about the blocks of a galaxy as a sequence, the one   *)
(* that the walk along pfsibling finds: there is one, and the operations   *)
(* of krn_block.c do to it what BlockTree says.  The invariant LInv of the *)
(* last part adds to that of the second: every file that is being read     *)
(* exists, its galaxy has the blocks of the lines read so far, and the     *)
(* galaxies whose files have been read to the end are what these say.      *)
(***************************************************************************)
EXTENDS Editor, SequenceTheorems, FiniteSetTheorems, WellFoundedInduction, TLAPS

-----------------------------------------------------------------------------
(* What is in a block at any depth.                                        *)

(* Below holds its children. *)
LEMMA BelowClosed ==
    ASSUME NEW p, NEW g, NEW x \in Blocks, p[x] \in Below(p, g) \cup {g}
    PROVE  x \in Below(p, g)
BY DEF Below, Closed

(* Below is the smallest such set. *)
LEMMA BelowSmallest ==
    ASSUME NEW p, NEW g, NEW S \in SUBSET Blocks, Closed(p, g, S)
    PROVE  Below(p, g) \subseteq S
BY DEF Below

(* What is below g has its parent there, or is a child of g. *)
LEMMA BelowParent ==
    ASSUME NEW p, NEW g, NEW x \in Below(p, g)
    PROVE  p[x] \in Below(p, g) \cup {g}
<1> DEFINE S == {y \in Below(p, g) : p[y] \in Below(p, g) \cup {g}}
<1>1. S \in SUBSET Blocks
  BY DEF Below
<1>2. Closed(p, g, S)
  BY BelowClosed DEF Closed
<1> QED
  BY <1>1, <1>2, BelowSmallest

(* What is below a block below g is below g. *)
LEMMA BelowTransitive ==
    ASSUME NEW p, NEW g, NEW h \in Below(p, g)
    PROVE  Below(p, h) \subseteq Below(p, g)
<1>1. Below(p, g) \in SUBSET Blocks
  BY DEF Below
<1>2. Closed(p, h, Below(p, g))
  BY BelowClosed DEF Closed
<1> QED
  BY <1>1, <1>2, BelowSmallest

(* Fewer links, less below. *)
LEMMA BelowFewer ==
    ASSUME NEW p, NEW q, NEW g,
           \A x \in Blocks : q[x] = p[x] \/ (q[x] \notin Blocks /\ q[x] # g)
    PROVE  Below(q, g) \subseteq Below(p, g)
<1>1. Below(p, g) \in SUBSET Blocks
  BY DEF Below
<1>2. Closed(q, g, Below(p, g))
  BY <1>1, BelowClosed DEF Closed
<1> QED
  BY <1>1, <1>2, BelowSmallest

(* A new block b in g: nothing is below it, and it is below all that g is  *)
(* below, and below g.                                                     *)
LEMMA BelowNew ==
    ASSUME NEW p, NEW q, NEW g \in Blocks, NEW b \in Blocks, b # g,
           p[b] \notin Blocks, q[b] = g,
           \A x \in Blocks : x # b => q[x] = p[x] /\ p[x] # b
    PROVE  /\ Below(q, b) = {}
           /\ \A h \in Blocks : /\ Below(p, h) \subseteq Below(q, h)
                                /\ Below(q, h) \subseteq Below(p, h) \cup {b}
                                /\ b \notin Below(p, h)
                                /\ b \in Below(q, h) <=> (h = g \/ g \in Below(p, h))
<1>1. Below(q, b) = {}
  <2>1. Closed(q, b, {})
    BY DEF Closed
  <2> QED
    BY <2>1, BelowSmallest
<1>2. ASSUME NEW h \in Blocks
      PROVE  /\ Below(p, h) \subseteq Below(q, h)
             /\ Below(q, h) \subseteq Below(p, h) \cup {b}
             /\ b \notin Below(p, h)
             /\ b \in Below(q, h) <=> (h = g \/ g \in Below(p, h))
  <2>0. Below(p, h) \in SUBSET Blocks /\ Below(q, h) \in SUBSET Blocks
    BY DEF Below
  <2>1. b \notin Below(p, h)
    <3>1. p[b] \notin Below(p, h) \cup {h}
      BY <2>0
    <3> QED
      BY <3>1, BelowParent
  <2>3. Below(p, h) \subseteq Below(q, h)
    <3>1. Closed(p, h, Below(q, h))
      BY <2>0, BelowClosed DEF Closed
    <3> QED
      BY <2>0, <3>1, BelowSmallest
  <2>4. CASE h = g \/ g \in Below(p, h)
    <3>1. Closed(q, h, Below(p, h) \cup {b})
      <4> SUFFICES ASSUME NEW x \in Blocks, q[x] \in Below(p, h) \cup {b} \cup {h}, x # b
                   PROVE  x \in Below(p, h)
        BY DEF Closed
      <4>1. p[x] \in Below(p, h) \cup {h}
        OBVIOUS
      <4> QED
        BY <4>1, BelowClosed
    <3>2. Below(q, h) \subseteq Below(p, h) \cup {b}
      BY <2>0, <3>1, BelowSmallest
    <3>3. b \in Below(q, h)
      BY <2>3, <2>4, BelowClosed
    <3> QED
      BY <2>1, <2>3, <2>4, <3>2, <3>3
  <2>5. CASE ~(h = g \/ g \in Below(p, h))
    <3>1. Closed(q, h, Below(p, h) \cup (IF h = b THEN {b} ELSE {}))
      <4> SUFFICES ASSUME NEW x \in Blocks, q[x] \in Below(p, h) \cup {b} \cup {h}, q[x] = b => h = b
                   PROVE  x \in Below(p, h)
        BY DEF Closed
      <4>1. x # b
        BY <2>5
      <4>2. p[x] \in Below(p, h) \cup {h}
        BY <4>1
      <4> QED
        BY <4>2, BelowClosed
    <3>2. Below(q, h) \subseteq Below(p, h) \cup {b}
      BY <2>0, <3>1, BelowSmallest
    <3>3. b \notin Below(q, h)
      <4>1. q[b] \notin Below(q, h) \cup {h}
        BY <2>5, <3>2
      <4> QED
        BY <4>1, BelowParent
    <3> QED
      BY <2>1, <2>3, <2>5, <3>2, <3>3
  <2> QED
    BY <2>4, <2>5
<1> QED
  BY <1>1, <1>2
-----------------------------------------------------------------------------
(* The circle of a galaxy.                                                 *)

(* A set that pfsibling does not lead out of has all or none of a circle.  *)
LEMMA CircleWhole ==
    ASSUME Linked, NEW S \in SUBSET Blocks, \A x \in S : pfsibling[x] \in S
    PROVE  \A a, b \in Inside : pparent[a] = pparent[b] /\ a \in S => b \in S
BY DEF Linked, OneCircle

(* What is not in use has no neighbours, so it is in no such set. *)
LEMMA NeighboursUsed ==
    ASSUME TreeTypeOK, Linked, NEW x \in Blocks
    PROVE  pfsibling[x] \in Blocks => /\ x \in Used /\ pfsibling[x] \in Used
                                      /\ pbsibling[pfsibling[x]] = x \/ x = universe
BY TreeAssumption DEF Linked, ParentsFit, NeighboursFit, FreedClean, Inside, Used

-----------------------------------------------------------------------------
(* A new block.                                                            *)

(* The pointers CreateBlock leaves behind. *)
LEMMA CreateBlockFrame ==
    ASSUME TreeTypeOK, Linked, NEW g \in Used, NEW b \in Blocks \ Used,
           NEW t \in {"GTYPE", "STYPE"}, CreateBlock(g, b, t)
    PROVE  /\ TreeTypeOK'
           /\ Used' = Used \cup {b} /\ Inside' = Inside \cup {b}
           /\ b # universe /\ b # g
           /\ pparent'[b] = g /\ \A x \in Blocks \ {b} : pparent'[x] = pparent[x]
           /\ pchild'[g] = (IF pchild[g] = NULL THEN b ELSE pchild[g])
           /\ \A x \in Blocks \ {g} : pchild'[x] = pchild[x]
           /\ type' = [type EXCEPT ![b] = t]
<1>1. b # universe /\ b # g /\ g \in Blocks /\ b \in Blocks
  BY DEF Linked, ParentsFit, Used
<1>2. pchild[g] # NULL => pchild[g] \in Blocks /\ pbsibling[pchild[g]] \in Blocks
  BY DEF Linked, ParentsFit, NeighboursFit, Inside, Used
<1>3. TreeTypeOK'
  <2>1. type' \in [Blocks -> BlockTypes] /\ pparent' \in [Blocks -> Pointer]
    BY <1>1 DEF CreateBlock, TreeTypeOK, BlockTypes, Pointer
  <2>2. CASE pchild[g] = NULL
    BY <1>1, <2>1, <2>2 DEF CreateBlock, TreeTypeOK, Pointer
  <2>3. CASE pchild[g] # NULL
    BY <1>1, <1>2, <2>1, <2>3 DEF CreateBlock, TreeTypeOK, Pointer
  <2> QED
    BY <2>2, <2>3
<1>4. type' = [type EXCEPT ![b] = t] /\ pparent' = [pparent EXCEPT ![b] = g]
  BY DEF CreateBlock
<1>5. Used' = Used \cup {b}
  BY <1>1, <1>4 DEF Used, TreeTypeOK
<1>6. Inside' = Inside \cup {b}
  BY <1>1, <1>5 DEF Inside
<1>7. pparent'[b] = g /\ \A x \in Blocks \ {b} : pparent'[x] = pparent[x]
  BY <1>1, <1>4 DEF TreeTypeOK
<1>8. /\ pchild'[g] = (IF pchild[g] = NULL THEN b ELSE pchild[g])
      /\ \A x \in Blocks \ {g} : pchild'[x] = pchild[x]
  BY <1>1 DEF CreateBlock, TreeTypeOK
<1> QED
  BY <1>1, <1>3, <1>4, <1>5, <1>6, <1>7, <1>8

(* The circle of g after CreateBlock: b stands between the last and the    *)
(* first of it.                                                            *)
LEMMA CreateBlockCircle ==
    ASSUME TreeTypeOK, Linked, NEW g \in Used, NEW b \in Blocks \ Used,
           NEW t \in {"GTYPE", "STYPE"}, CreateBlock(g, b, t)
    PROVE  /\ pchild[g] = NULL =>
                /\ pfsibling'[b] = b /\ pbsibling'[b] = b
                /\ \A x \in Blocks \ {b} : /\ pfsibling'[x] = pfsibling[x]
                                           /\ pbsibling'[x] = pbsibling[x]
           /\ pchild[g] # NULL =>
                \E first, last \in Inside :
                  /\ first = pchild[g] /\ last = pbsibling[first]
                  /\ pparent[first] = g /\ pparent[last] = g /\ pfsibling[last] = first
                  /\ pfsibling'[b] = first /\ pfsibling'[last] = b
                  /\ pbsibling'[b] = last /\ pbsibling'[first] = b
                  /\ \A x \in Blocks \ {b, last} : pfsibling'[x] = pfsibling[x]
                  /\ \A x \in Blocks \ {b, first} : pbsibling'[x] = pbsibling[x]
<1>1. CASE pchild[g] = NULL
  BY <1>1 DEF CreateBlock, TreeTypeOK
<1>2. CASE pchild[g] # NULL
  <2> DEFINE first == pchild[g]
             last == pbsibling[first]
  <2>1. first \in Inside /\ last \in Inside
    BY <1>2 DEF Linked, ParentsFit, NeighboursFit
  <2>2. pparent[first] = g /\ pfsibling[last] = first
    BY <1>2, <2>1 DEF Linked, ParentsFit, NeighboursFit
  <2>3. pparent[last] = g
    BY <2>1, <2>2 DEF Linked, NeighboursFit
  <2>4. first \in Blocks /\ last \in Blocks /\ first # b /\ last # b
    BY <2>1 DEF Inside, Used
  <2>5. pfsibling' = [pfsibling EXCEPT ![b] = first, ![last] = b]
    BY <1>2 DEF CreateBlock
  <2>6. pbsibling' = [pbsibling EXCEPT ![b] = last, ![first] = b]
    BY <1>2 DEF CreateBlock
  <2>7. /\ pfsibling'[b] = first /\ pfsibling'[last] = b
        /\ \A x \in Blocks \ {b, last} : pfsibling'[x] = pfsibling[x]
    BY <2>4, <2>5 DEF TreeTypeOK
  <2>8. /\ pbsibling'[b] = last /\ pbsibling'[first] = b
        /\ \A x \in Blocks \ {b, first} : pbsibling'[x] = pbsibling[x]
    BY <2>4, <2>6 DEF TreeTypeOK
  <2> QED
    BY <1>2, <2>1, <2>2, <2>3, <2>7, <2>8
<1> QED
  BY <1>1, <1>2

(* A new block is below its galaxy and what that is below; nothing else is *)
(* in a new place.                                                         *)
LEMMA CreateBlockBelow ==
    ASSUME TreeTypeOK, Linked, NEW g \in Used, NEW b \in Blocks \ Used,
           NEW t \in {"GTYPE", "STYPE"}, CreateBlock(g, b, t)
    PROVE  /\ Below(pparent', b) = {}
           /\ \A h \in Blocks :
                /\ Under(h) \subseteq Below(pparent', h)
                /\ Below(pparent', h) \subseteq Under(h) \cup {b}
                /\ b \in Below(pparent', h) <=> (h = g \/ g \in Under(h))
<1>1. /\ b # universe /\ b # g /\ b \in Blocks /\ g \in Blocks /\ NULL \notin Blocks
      /\ pparent'[b] = g /\ \A x \in Blocks \ {b} : pparent'[x] = pparent[x]
  BY CreateBlockFrame, TreeAssumption DEF Used
<1>2. pparent[b] \notin Blocks /\ \A x \in Blocks : x # b => pparent'[x] = pparent[x] /\ pparent[x] # b
  <2>1. pparent[b] = NULL /\ \A x \in Blocks \ Used : pparent[x] = NULL
    BY DEF Linked, FreedClean
  <2>2. pparent[universe] = NULL /\ \A x \in Inside : pparent[x] \in Used
    BY DEF Linked, ParentsFit
  <2> QED
    BY <1>1, <2>1, <2>2 DEF Inside
<1>3. /\ Below(pparent', b) = {}
      /\ \A h \in Blocks : /\ Below(pparent, h) \subseteq Below(pparent', h)
                           /\ Below(pparent', h) \subseteq Below(pparent, h) \cup {b}
                           /\ b \in Below(pparent', h) <=> (h = g \/ g \in Below(pparent, h))
  BY <1>1, <1>2, BelowNew
<1> QED
  BY <1>3 DEF Under

(* CreateBlock leaves a tree. *)
LEMMA CreateBlockLinked ==
    ASSUME TreeTypeOK, Linked, NEW g \in Used, NEW b \in Blocks \ Used,
           NEW t \in {"GTYPE", "STYPE"}, CreateBlock(g, b, t)
    PROVE  Linked'
<1> USE DEF Linked
<1>1. /\ Used' = Used \cup {b} /\ Inside' = Inside \cup {b}
      /\ b # universe /\ b # g /\ b \in Blocks /\ g \in Blocks /\ NULL \notin Blocks
      /\ pparent'[b] = g /\ \A x \in Blocks \ {b} : pparent'[x] = pparent[x]
      /\ pchild'[g] = (IF pchild[g] = NULL THEN b ELSE pchild[g])
      /\ \A x \in Blocks \ {g} : pchild'[x] = pchild[x]
  BY CreateBlockFrame, TreeAssumption DEF Used
<1>2. Inside \subseteq Blocks /\ Used \subseteq Blocks /\ b \notin Inside /\ universe \in Used
  BY DEF Inside, Used, ParentsFit
<1>3. \A x \in Inside : /\ pfsibling[x] \in Inside /\ pbsibling[x] \in Inside
                        /\ pbsibling[pfsibling[x]] = x /\ pfsibling[pbsibling[x]] = x
                        /\ pparent[pfsibling[x]] = pparent[x]
  BY DEF NeighboursFit
<1>4. \A x \in Inside : pparent[x] = g => pchild[g] # NULL
  BY DEF ParentsFit
<1>5. ParentsFit'
  <2>1. universe \in Used' /\ pparent'[universe] = NULL
    BY <1>1, <1>2 DEF ParentsFit
  <2>2. ASSUME NEW x \in Inside' PROVE pparent'[x] \in Used' /\ pchild'[pparent'[x]] # NULL
    <3>1. CASE x = b
      BY <1>1, <3>1
    <3>2. CASE x # b
      <4>1. x \in Inside /\ pparent'[x] = pparent[x] /\ pparent[x] \in Used
        BY <1>1, <1>2, <3>2 DEF ParentsFit
      <4>2. pchild[pparent[x]] # NULL
        BY <4>1 DEF ParentsFit
      <4> QED
        BY <1>1, <1>2, <4>1, <4>2
    <3> QED
      BY <3>1, <3>2
  <2>3. ASSUME NEW h \in Used', pchild'[h] # NULL
        PROVE  pchild'[h] \in Inside' /\ pparent'[pchild'[h]] = h
    <3>1. CASE h = b
      <4>1. pchild'[h] = NULL
        BY <1>1, <3>1 DEF FreedClean
      <4> QED
        BY <2>3, <4>1
    <3>2. CASE h # b /\ (h # g \/ pchild[g] # NULL)
      <4>1. h \in Used /\ h \in Blocks /\ pchild'[h] = pchild[h]
        BY <1>1, <1>2, <3>2
      <4>2. pchild[h] \in Inside /\ pparent[pchild[h]] = h
        BY <2>3, <4>1 DEF ParentsFit
      <4> QED
        BY <1>1, <1>2, <4>1, <4>2
    <3>3. CASE h = g /\ pchild[g] = NULL
      BY <1>1, <3>3
    <3> QED
      BY <3>1, <3>2, <3>3
  <2> QED
    BY <2>1, <2>2, <2>3 DEF ParentsFit
<1>6. ASSUME pchild[g] = NULL PROVE NeighboursFit' /\ OneCircle'
  <2>1. /\ pfsibling'[b] = b /\ pbsibling'[b] = b
        /\ \A x \in Blocks \ {b} : pfsibling'[x] = pfsibling[x] /\ pbsibling'[x] = pbsibling[x]
    BY <1>6, CreateBlockCircle
  <2>2. NeighboursFit'
    <3>1. pfsibling'[universe] = universe
      BY <1>1, <1>2, <2>1 DEF NeighboursFit
    <3>2. ASSUME NEW x \in Inside'
          PROVE  /\ pfsibling'[x] \in Inside' /\ pbsibling'[x] \in Inside'
                 /\ pbsibling'[pfsibling'[x]] = x /\ pfsibling'[pbsibling'[x]] = x
                 /\ pparent'[pfsibling'[x]] = pparent'[x]
      <4>1. CASE x = b
        BY <1>1, <2>1, <4>1
      <4>2. CASE x # b
        BY <1>1, <1>2, <1>3, <2>1, <4>2
      <4> QED
        BY <4>1, <4>2
    <3> QED
      BY <3>1, <3>2 DEF NeighboursFit
  <2>3. OneCircle'
    <3> SUFFICES ASSUME NEW c \in Inside', NEW d \in Inside', pparent'[c] = pparent'[d],
                        NEW S \in SUBSET Blocks, c \in S, \A x \in S : pfsibling'[x] \in S
                 PROVE  d \in S
      BY DEF OneCircle
    <3>1. CASE c = b \/ d = b
      <4>1. c = d
        BY <1>1, <1>2, <1>4, <1>6, <3>1
      <4> QED
        BY <4>1
    <3>2. CASE c # b /\ d # b
      <4> DEFINE T == S \ {b}
      <4>1. c \in Inside /\ d \in Inside /\ pparent[c] = pparent[d] /\ c \in T
        BY <1>1, <1>2, <3>2
      <4>2. T \in SUBSET Blocks
        OBVIOUS
      <4>3. ASSUME NEW x \in T PROVE pfsibling[x] \in T
        <5>1. x \in Blocks /\ x # b /\ pfsibling[x] \in S
          BY <2>1
        <5>2. pfsibling[x] \in Used
          BY <5>1, NeighboursUsed
        <5> QED
          BY <5>1, <5>2
      <4> HIDE DEF T
      <4>4. \A x, y \in Inside : pparent[x] = pparent[y] /\ x \in T => y \in T
        BY <4>2, <4>3, CircleWhole
      <4>5. d \in T
        BY <4>1, <4>4
      <4> QED
        BY <4>5 DEF T
    <3> QED
      BY <3>1, <3>2
  <2> QED
    BY <2>2, <2>3
<1>7. ASSUME pchild[g] # NULL PROVE NeighboursFit' /\ OneCircle'
  <2>1. PICK first \in Inside, last \in Inside :
                  /\ first = pchild[g] /\ last = pbsibling[first]
                  /\ pparent[first] = g /\ pparent[last] = g /\ pfsibling[last] = first
                  /\ pfsibling'[b] = first /\ pfsibling'[last] = b
                  /\ pbsibling'[b] = last /\ pbsibling'[first] = b
                  /\ \A x \in Blocks \ {b, last} : pfsibling'[x] = pfsibling[x]
                  /\ \A x \in Blocks \ {b, first} : pbsibling'[x] = pbsibling[x]
    BY <1>7, CreateBlockCircle
  <2>2. NeighboursFit'
    <3>1. pfsibling'[universe] = universe
      BY <1>1, <1>2, <2>1 DEF NeighboursFit, Inside
    <3>2. ASSUME NEW x \in Inside'
          PROVE  /\ pfsibling'[x] \in Inside' /\ pbsibling'[x] \in Inside'
                 /\ pbsibling'[pfsibling'[x]] = x /\ pfsibling'[pbsibling'[x]] = x
                 /\ pparent'[pfsibling'[x]] = pparent'[x]
      <4>1. CASE x = b
        BY <1>1, <1>2, <2>1, <4>1
      <4>2. CASE x # b
        <5>1. x \in Inside /\ x \in Blocks
          BY <1>1, <1>2, <4>2
        <5>2. pfsibling'[x] \in Inside' /\ pbsibling'[pfsibling'[x]] = x /\ pparent'[pfsibling'[x]] = pparent'[x]
          <6>1. CASE x = last
            BY <1>1, <1>2, <2>1, <6>1
          <6>2. CASE x # last
            BY <1>1, <1>2, <1>3, <2>1, <5>1, <6>2
          <6> QED
            BY <6>1, <6>2
        <5>3. pbsibling'[x] \in Inside' /\ pfsibling'[pbsibling'[x]] = x
          <6>1. CASE x = first
            BY <1>1, <1>2, <2>1, <6>1
          <6>2. CASE x # first
            BY <1>1, <1>2, <1>3, <2>1, <5>1, <6>2
          <6> QED
            BY <6>1, <6>2
        <5> QED
          BY <5>2, <5>3
      <4> QED
        BY <4>1, <4>2
    <3> QED
      BY <3>1, <3>2 DEF NeighboursFit
  <2>3. OneCircle'
    <3> SUFFICES ASSUME NEW c \in Inside', NEW d \in Inside', pparent'[c] = pparent'[d],
                        NEW S \in SUBSET Blocks, c \in S, \A x \in S : pfsibling'[x] \in S
                 PROVE  d \in S
      BY DEF OneCircle
    <3> DEFINE T == S \ {b}
    <3>1. T \in SUBSET Blocks /\ \A x \in T : pfsibling[x] \in T
      <4>1. T \in SUBSET Blocks
        OBVIOUS
      <4>2. ASSUME NEW x \in T, x = last PROVE pfsibling[x] \in T
        <5>1. b \in S
          BY <2>1, <4>2
        <5>2. first \in S /\ first # b
          BY <1>2, <2>1, <5>1
        <5> QED
          BY <2>1, <4>2, <5>2
      <4>3. ASSUME NEW x \in T, x # last PROVE pfsibling[x] \in T
        <5>1. x \in Blocks /\ x # b /\ pfsibling[x] \in S
          BY <2>1, <4>3
        <5>2. pfsibling[x] \in Used
          BY <5>1, NeighboursUsed
        <5> QED
          BY <5>1, <5>2
      <4> QED
        BY <4>1, <4>2, <4>3
    <3>2. \A x, y \in Inside : pparent[x] = pparent[y] /\ x \in T => y \in T
      <4> HIDE DEF T
      <4> QED
        BY <3>1, CircleWhole
    <3>3. CASE c # b /\ d # b
      <4>1. c \in Inside /\ d \in Inside /\ pparent[c] = pparent[d] /\ c \in T
        BY <1>1, <1>2, <3>3
      <4> QED
        BY <3>2, <4>1
    <3>4. CASE c = b /\ d # b
      <4>1. first \in T
        BY <1>2, <2>1, <3>4
      <4>2. d \in Inside /\ pparent[d] = pparent[first]
        BY <1>1, <1>2, <2>1, <3>4
      <4> QED
        BY <3>2, <4>1, <4>2
    <3>5. CASE d = b /\ c # b
      <4>1. c \in Inside /\ pparent[c] = pparent[last] /\ c \in T
        BY <1>1, <1>2, <2>1, <3>5
      <4>2. last \in T
        BY <3>2, <4>1
      <4> QED
        BY <2>1, <3>5, <4>2
    <3> QED
      BY <3>3, <3>4, <3>5
  <2> QED
    BY <2>2, <2>3
<1>8. NoLoop'
  <2>2. /\ Below(pparent', b) = {}
        /\ \A h \in Blocks : Below(pparent', h) \subseteq Under(h) \cup {b}
    BY CreateBlockBelow
  <2>3. \A h \in Blocks : h \notin Under(h)
    BY DEF NoLoop
  <2> QED
    BY <2>2, <2>3 DEF NoLoop, Under
<1>9. FreedClean'
  <2>1. \A x \in Blocks \ Used' : x \in Blocks \ Used /\ x # b /\ x # g
    BY <1>1, <1>2
  <2>2. \A x \in Blocks \ Used : x # b => pfsibling'[x] = pfsibling[x] /\ pbsibling'[x] = pbsibling[x]
    <3>1. CASE pchild[g] = NULL
      BY <3>1, CreateBlockCircle
    <3>2. CASE pchild[g] # NULL
      <4>1. PICK first \in Inside, last \in Inside :
                  /\ \A x \in Blocks \ {b, last} : pfsibling'[x] = pfsibling[x]
                  /\ \A x \in Blocks \ {b, first} : pbsibling'[x] = pbsibling[x]
        BY <3>2, CreateBlockCircle
      <4> QED
        BY <4>1 DEF Inside
    <3> QED
      BY <3>1, <3>2
  <2> QED
    BY <1>1, <2>1, <2>2 DEF FreedClean
<1> QED
  BY <1>5, <1>6, <1>7, <1>8, <1>9

-----------------------------------------------------------------------------
(* Blocks that are freed.                                                  *)

(* When gone, a set that holds what is in its members, is cut off, nothing *)
(* else changes its place.                                                 *)
LEMMA BelowPruned ==
    ASSUME NEW p, NEW q, NEW gone \in SUBSET Blocks,
           \A x \in Blocks : p[x] \in gone => x \in gone,
           \A x \in Blocks \ gone : q[x] = p[x],
           \A x \in gone : q[x] \notin Blocks,
           NEW y \in Blocks
    PROVE  Below(q, y) = Below(p, y) \ gone
<1>1. Below(p, y) \in SUBSET Blocks /\ Below(q, y) \in SUBSET Blocks
  BY DEF Below
<1>2. Below(q, y) \subseteq Below(p, y)
  BY BelowFewer
<1>3. ASSUME NEW x \in gone PROVE x \notin Below(q, y)
  <2>1. q[x] \notin Below(q, y) \cup {y}
    BY <1>1
  <2> QED
    BY <2>1, BelowParent
<1>4. Below(p, y) \subseteq Below(q, y) \cup gone
  <2>1. Closed(p, y, Below(q, y) \cup gone)
    <3> SUFFICES ASSUME NEW x \in Blocks, p[x] \in (Below(q, y) \cup gone) \cup {y}, x \notin gone
                 PROVE  x \in Below(q, y)
      BY DEF Closed
    <3>1. q[x] \in Below(q, y) \cup {y}
      OBVIOUS
    <3> QED
      BY <3>1, BelowClosed
  <2> QED
    BY <1>1, <2>1, BelowSmallest
<1> QED
  BY <1>2, <1>3, <1>4

(* What is in a galaxy is in use, and is not the galaxy. *)
LEMMA UnderInside ==
    ASSUME TreeTypeOK, Linked, NEW g \in Used
    PROVE  /\ Under(g) \subseteq Inside /\ g \notin Under(g) /\ universe \notin Under(g)
           /\ Under(g) \subseteq Blocks
           /\ \A x \in Blocks : pparent[x] \in Under(g) \cup {g} <=> x \in Under(g)
<1>1. \A x \in Blocks : pparent[x] \in Under(g) \cup {g} <=> x \in Under(g)
  BY BelowClosed, BelowParent DEF Under
<1>2. Under(g) \subseteq Blocks /\ g \in Blocks
  BY DEF Under, Below, Used
<1>3. \A x \in Under(g) : pparent[x] # NULL
  BY <1>1, <1>2, TreeAssumption
<1>4. g \notin Under(g)
  BY <1>2 DEF Linked, NoLoop
<1>5. Under(g) \subseteq Inside
  BY <1>2, <1>3 DEF Linked, FreedClean, ParentsFit, Inside
<1> QED
  BY <1>1, <1>2, <1>4, <1>5 DEF Inside

(* The pointers RemoveChildren leaves behind. *)
LEMMA RemoveChildrenFrame ==
    ASSUME TreeTypeOK, Linked, NEW g \in Used, NEW t \in {"UTYPE", "GTYPE"},
           RemoveChildren(g, t)
    PROVE  /\ TreeTypeOK'
           /\ Used' = Used \ Under(g) /\ Inside' = Inside \ Under(g)
           /\ type'[g] = t /\ \A x \in Blocks \ (Under(g) \cup {g}) : type'[x] = type[x]
           /\ \A x \in Under(g) : /\ type'[x] = "FREE" /\ pparent'[x] = NULL
                                  /\ pchild'[x] = NULL
                                  /\ pfsibling'[x] = NULL /\ pbsibling'[x] = NULL
           /\ \A x \in Blocks \ Under(g) : /\ pparent'[x] = pparent[x]
                                           /\ pfsibling'[x] = pfsibling[x]
                                           /\ pbsibling'[x] = pbsibling[x]
           /\ pchild'[g] = NULL
           /\ \A x \in Blocks \ (Under(g) \cup {g}) : pchild'[x] = pchild[x]
           /\ \A y \in Blocks : Below(pparent', y) = Under(y) \ Under(g)
<1>1. /\ Under(g) \subseteq Inside /\ g \notin Under(g) /\ Under(g) \subseteq Blocks
      /\ g \in Blocks /\ universe \notin Under(g)
  BY UnderInside DEF Used
<1>2. /\ type'[g] = t
      /\ \A x \in Blocks \ {g} : type'[x] = IF x \in Under(g) THEN "FREE" ELSE type[x]
      /\ type' \in [Blocks -> BlockTypes]
  BY <1>1 DEF RemoveChildren, TreeTypeOK, BlockTypes
<1>3. /\ pchild'[g] = NULL
      /\ \A x \in Blocks \ {g} : pchild'[x] = IF x \in Under(g) THEN NULL ELSE pchild[x]
      /\ pchild' \in [Blocks -> Pointer]
  BY <1>1 DEF RemoveChildren, TreeTypeOK, Pointer
<1>4. /\ \A x \in Blocks : pparent'[x] = IF x \in Under(g) THEN NULL ELSE pparent[x]
      /\ \A x \in Blocks : pfsibling'[x] = IF x \in Under(g) THEN NULL ELSE pfsibling[x]
      /\ \A x \in Blocks : pbsibling'[x] = IF x \in Under(g) THEN NULL ELSE pbsibling[x]
  BY DEF RemoveChildren
<1>5. /\ pparent' \in [Blocks -> Pointer] /\ pfsibling' \in [Blocks -> Pointer]
      /\ pbsibling' \in [Blocks -> Pointer]
  BY DEF RemoveChildren, TreeTypeOK, Pointer
<1>6. TreeTypeOK'
  BY <1>2, <1>3, <1>5 DEF TreeTypeOK
<1>7. Used' = Used \ Under(g)
  BY <1>1, <1>2 DEF Used
<1>8. Inside' = Inside \ Under(g)
  BY <1>7 DEF Inside
<1>9. \A y \in Blocks : Below(pparent', y) = Under(y) \ Under(g)
  <2>1. \A x \in Blocks : pparent[x] \in Under(g) => x \in Under(g)
    BY UnderInside
  <2>2. \A x \in Under(g) : pparent'[x] \notin Blocks
    BY <1>1, <1>4, TreeAssumption
  <2>3. \A x \in Blocks \ Under(g) : pparent'[x] = pparent[x]
    BY <1>4
  <2>4. Under(g) \in SUBSET Blocks
    BY <1>1
  <2>5. \A y \in Blocks : Below(pparent', y) = Below(pparent, y) \ Under(g)
    BY <2>1, <2>2, <2>3, <2>4, BelowPruned
  <2> QED
    BY <2>5 DEF Under
<1> QED
  BY <1>1, <1>2, <1>3, <1>4, <1>6, <1>7, <1>8, <1>9

(* RemoveChildren leaves a tree. *)
LEMMA RemoveChildrenLinked ==
    ASSUME TreeTypeOK, Linked, NEW g \in Used, NEW t \in {"UTYPE", "GTYPE"},
           RemoveChildren(g, t)
    PROVE  Linked'
<1> DEFINE gone == Under(g)
<1>1. /\ Used' = Used \ gone /\ Inside' = Inside \ gone
      /\ \A x \in gone : /\ pparent'[x] = NULL /\ pchild'[x] = NULL
                         /\ pfsibling'[x] = NULL /\ pbsibling'[x] = NULL
      /\ \A x \in Blocks \ gone : /\ pparent'[x] = pparent[x]
                                  /\ pfsibling'[x] = pfsibling[x]
                                  /\ pbsibling'[x] = pbsibling[x]
      /\ pchild'[g] = NULL
      /\ \A x \in Blocks \ (gone \cup {g}) : pchild'[x] = pchild[x]
  BY RemoveChildrenFrame
<1>2. \A y \in Blocks : Below(pparent', y) = Under(y) \ gone
  BY RemoveChildrenFrame
<1>3. /\ gone \subseteq Inside /\ universe \notin gone /\ gone \subseteq Blocks /\ g \notin gone
      /\ \A x \in Blocks : pparent[x] \in gone \cup {g} <=> x \in gone
  BY UnderInside
<1>4. Inside \subseteq Used /\ Used \subseteq Blocks /\ NULL \notin Blocks /\ universe \in Used
  BY TreeAssumption DEF Inside, Used, Linked, ParentsFit
<1> HIDE DEF gone
<1>5. ParentsFit'
  <2>1. universe \in Used' /\ pparent'[universe] = NULL
    BY <1>1, <1>3, <1>4 DEF Linked, ParentsFit
  <2>2. ASSUME NEW x \in Inside' PROVE pparent'[x] \in Used' /\ pchild'[pparent'[x]] # NULL
    <3>1. x \in Inside /\ x \notin gone /\ pparent'[x] = pparent[x]
      BY <1>1, <1>4
    <3>2. pparent[x] \in Used /\ pchild[pparent[x]] # NULL
      BY <3>1 DEF Linked, ParentsFit
    <3>3. pparent[x] \notin gone \cup {g}
      BY <1>3, <1>4, <3>1
    <3> QED
      BY <1>1, <1>4, <3>1, <3>2, <3>3
  <2>3. ASSUME NEW h \in Used', pchild'[h] # NULL
        PROVE  pchild'[h] \in Inside' /\ pparent'[pchild'[h]] = h
    <3>1. h \in Used /\ h \notin gone /\ h # g /\ pchild'[h] = pchild[h]
      BY <1>1, <1>4, <2>3
    <3>2. pchild[h] \in Inside /\ pparent[pchild[h]] = h
      BY <2>3, <3>1 DEF Linked, ParentsFit
    <3>3. pchild[h] \notin gone
      BY <1>3, <1>4, <3>1, <3>2
    <3> QED
      BY <1>1, <1>4, <3>1, <3>2, <3>3
  <2> QED
    BY <2>1, <2>2, <2>3 DEF ParentsFit
<1>6. NeighboursFit'
  <2>1. pfsibling'[universe] = universe
    BY <1>1, <1>3, <1>4 DEF Linked, NeighboursFit
  <2>2. ASSUME NEW x \in Inside'
        PROVE  /\ pfsibling'[x] \in Inside' /\ pbsibling'[x] \in Inside'
               /\ pbsibling'[pfsibling'[x]] = x /\ pfsibling'[pbsibling'[x]] = x
               /\ pparent'[pfsibling'[x]] = pparent'[x]
    <3>1. x \in Inside /\ x \notin gone
      BY <1>1
    <3>2. /\ pfsibling[x] \in Inside /\ pbsibling[x] \in Inside
          /\ pbsibling[pfsibling[x]] = x /\ pfsibling[pbsibling[x]] = x
          /\ pparent[pfsibling[x]] = pparent[x]
      BY <3>1 DEF Linked, NeighboursFit
    <3>3. pparent[pbsibling[x]] = pparent[x]
      BY <3>2 DEF Linked, NeighboursFit
    <3>4. pparent[x] \notin gone \cup {g}
      BY <1>3, <1>4, <3>1
    <3>5. pfsibling[x] \notin gone /\ pbsibling[x] \notin gone
      BY <1>3, <1>4, <3>2, <3>3, <3>4
    <3> QED
      BY <1>1, <1>4, <3>1, <3>2, <3>5
  <2> QED
    BY <2>1, <2>2 DEF NeighboursFit
<1>7. OneCircle'
  <2> SUFFICES ASSUME NEW c \in Inside', NEW d \in Inside', pparent'[c] = pparent'[d],
                      NEW S \in SUBSET Blocks, c \in S, \A x \in S : pfsibling'[x] \in S
               PROVE  d \in S
    BY DEF OneCircle
  <2>1. \A x \in S : pfsibling[x] \in S
    BY <1>1, <1>4
  <2>2. c \in Inside /\ d \in Inside /\ pparent[c] = pparent[d]
    BY <1>1, <1>4
  <2> QED
    BY <2>1, <2>2, CircleWhole
<1>8. NoLoop'
  BY <1>2 DEF Linked, NoLoop, Under
<1>9. FreedClean'
  BY <1>1, <1>4 DEF Linked, FreedClean
<1> QED
  BY <1>5, <1>6, <1>7, <1>8, <1>9 DEF Linked

(* What surrounds a block: its neighbours are not below it, and the only   *)
(* block of its galaxy is its own neighbour.                               *)
LEMMA BlockPlace ==
    ASSUME TreeTypeOK, Linked, NEW b \in Inside
    PROVE  /\ pfsibling[b] \in Inside /\ pbsibling[b] \in Inside /\ pparent[b] \in Used
           /\ pparent[pfsibling[b]] = pparent[b] /\ pparent[pbsibling[b]] = pparent[b]
           /\ pfsibling[b] \notin Under(b) /\ pbsibling[b] \notin Under(b)
           /\ pparent[b] \notin {b} \cup Under(b)
           /\ pbsibling[pfsibling[b]] = b /\ pfsibling[pbsibling[b]] = b
           /\ pfsibling[b] = b => \A x \in Inside : pparent[x] = pparent[b] => x = b
<1>1. /\ pfsibling[b] \in Inside /\ pbsibling[b] \in Inside /\ pparent[b] \in Used
      /\ pbsibling[pfsibling[b]] = b /\ pfsibling[pbsibling[b]] = b
      /\ pparent[pfsibling[b]] = pparent[b]
  BY DEF Linked, NeighboursFit, ParentsFit
<1>2. pparent[pbsibling[b]] = pparent[b]
  BY <1>1 DEF Linked, NeighboursFit
<1>3. Inside \subseteq Blocks /\ b \in Used
  BY DEF Inside, Used
<1>4. pparent[b] \notin {b} \cup Under(b)
  BY <1>3, UnderInside
<1>5. pfsibling[b] \notin Under(b) /\ pbsibling[b] \notin Under(b)
  BY <1>1, <1>2, <1>3, <1>4, UnderInside
<1>6. ASSUME pfsibling[b] = b, NEW x \in Inside, pparent[x] = pparent[b] PROVE x = b
  <2>1. {b} \in SUBSET Blocks /\ \A y \in {b} : pfsibling[y] \in {b}
    BY <1>3, <1>6
  <2>2. x \in {b}
    BY <1>6, <2>1, CircleWhole
  <2> QED
    BY <2>2
<1> QED
  BY <1>1, <1>2, <1>4, <1>5, <1>6

(* The pointers RemoveBlock leaves behind. *)
LEMMA RemoveBlockFrame ==
    ASSUME TreeTypeOK, Linked, NEW b \in Inside, RemoveBlock(b)
    PROVE  LET gone == {b} \cup Under(b)
               g == pparent[b]
               prev == pbsibling[b]
               next == pfsibling[b]
           IN
           /\ TreeTypeOK'
           /\ gone \subseteq Inside
           /\ \A x \in Blocks : pparent[x] \in gone => x \in gone
           /\ Used' = Used \ gone /\ Inside' = Inside \ gone
           /\ \A x \in Blocks \ gone : /\ pparent'[x] = pparent[x] /\ type'[x] = type[x]
                                       /\ pfsibling'[x] = IF x = prev THEN next ELSE pfsibling[x]
                                       /\ pbsibling'[x] = IF x = next THEN prev ELSE pbsibling[x]
           /\ \A x \in gone : /\ type'[x] = "FREE" /\ pparent'[x] = NULL
                              /\ pchild'[x] = NULL
                              /\ pfsibling'[x] = NULL /\ pbsibling'[x] = NULL
           /\ \A x \in Blocks \ (gone \cup {g}) : pchild'[x] = pchild[x]
           /\ pchild'[g] = IF pchild[g] # b THEN pchild[g]
                           ELSE IF next = b THEN NULL ELSE next
           /\ \A y \in Blocks : Below(pparent', y) = Under(y) \ gone
<1> DEFINE gone == {b} \cup Under(b)
           g == pparent[b]
           prev == pbsibling[b]
           next == pfsibling[b]
<1>0. /\ gone = {b} \cup Under(b) /\ g = pparent[b]
      /\ prev = pbsibling[b] /\ next = pfsibling[b]
  OBVIOUS
<1> HIDE DEF gone, g, prev, next
<1>1. /\ next \in Inside /\ prev \in Inside /\ g \in Used /\ g \notin gone
      /\ b \in Blocks /\ b \in Used /\ Inside \subseteq Blocks /\ Used \subseteq Blocks
      /\ Inside \subseteq Used
  BY <1>0, BlockPlace DEF Inside, Used
<1>2. gone \subseteq Inside /\ gone \in SUBSET Blocks
  BY <1>0, <1>1, UnderInside
<1>3. \A x \in Blocks : pparent[x] \in gone => x \in gone
  BY <1>0, <1>1, UnderInside
<1>4. /\ \A x \in Blocks : type'[x] = IF x \in gone THEN "FREE" ELSE type[x]
      /\ \A x \in Blocks : pparent'[x] = IF x \in gone THEN NULL ELSE pparent[x]
      /\ type' \in [Blocks -> BlockTypes] /\ pparent' \in [Blocks -> Pointer]
  BY <1>0 DEF RemoveBlock, TreeTypeOK, BlockTypes, Pointer
<1>5. /\ pfsibling' = [x \in Blocks |-> IF x \in gone THEN NULL
                                        ELSE [pfsibling EXCEPT ![prev] = next][x]]
      /\ pbsibling' = [x \in Blocks |-> IF x \in gone THEN NULL
                                        ELSE [pbsibling EXCEPT ![next] = prev][x]]
  BY <1>0 DEF RemoveBlock
<1>6. /\ \A x \in Blocks : [pfsibling EXCEPT ![prev] = next][x] = IF x = prev THEN next ELSE pfsibling[x]
      /\ \A x \in Blocks : [pbsibling EXCEPT ![next] = prev][x] = IF x = next THEN prev ELSE pbsibling[x]
  BY <1>1 DEF TreeTypeOK
<1>7. /\ \A x \in Blocks : pfsibling'[x] = IF x \in gone THEN NULL
                                           ELSE IF x = prev THEN next ELSE pfsibling[x]
      /\ \A x \in Blocks : pbsibling'[x] = IF x \in gone THEN NULL
                                           ELSE IF x = next THEN prev ELSE pbsibling[x]
  BY <1>5, <1>6
<1>8. /\ pfsibling' \in [Blocks -> Pointer] /\ pbsibling' \in [Blocks -> Pointer]
  <2>1. \A x \in Blocks : pfsibling'[x] \in Pointer /\ pbsibling'[x] \in Pointer
    BY <1>1, <1>7 DEF TreeTypeOK, Pointer
  <2> QED
    BY <1>5, <2>1
<1>9. pchild' = [x \in Blocks |-> IF x \in gone THEN NULL
                                  ELSE (IF pchild[g] # b THEN pchild
                                        ELSE [pchild EXCEPT ![g] = IF next = b THEN NULL ELSE next])[x]]
  BY <1>0 DEF RemoveBlock
<1>10. /\ \A x \in Blocks \ (gone \cup {g}) : pchild'[x] = pchild[x]
       /\ pchild'[g] = IF pchild[g] # b THEN pchild[g]
                       ELSE IF next = b THEN NULL ELSE next
       /\ \A x \in gone : pchild'[x] = NULL
  <2>1. CASE pchild[g] # b
    BY <1>1, <1>2, <1>9, <2>1
  <2>2. CASE pchild[g] = b
    <3>1. \A x \in Blocks : [pchild EXCEPT ![g] = IF next = b THEN NULL ELSE next][x]
                              = IF x = g THEN IF next = b THEN NULL ELSE next ELSE pchild[x]
      BY <1>1 DEF TreeTypeOK
    <3> QED
      BY <1>1, <1>2, <1>9, <2>2, <3>1
  <2> QED
    BY <2>1, <2>2
<1>11. pchild' \in [Blocks -> Pointer]
  <2>1. \A x \in Blocks : pchild'[x] \in Pointer
    BY <1>1, <1>10 DEF TreeTypeOK, Pointer
  <2> QED
    BY <1>9, <2>1
<1>12. Used' = Used \ gone
  BY <1>4 DEF Used
<1>13. Inside' = Inside \ gone
  BY <1>12 DEF Inside
<1>14. \A y \in Blocks : Below(pparent', y) = Under(y) \ gone
  <2>1. \A x \in gone : pparent'[x] \notin Blocks
    BY <1>2, <1>4, TreeAssumption
  <2>2. \A x \in Blocks \ gone : pparent'[x] = pparent[x]
    BY <1>4
  <2>3. \A y \in Blocks : Below(pparent', y) = Below(pparent, y) \ gone
    BY <1>2, <1>3, <2>1, <2>2, BelowPruned
  <2> QED
    BY <2>3 DEF Under
<1>15. TreeTypeOK'
  BY <1>4, <1>8, <1>11 DEF TreeTypeOK
<1>16. /\ \A x \in Blocks \ gone : /\ pparent'[x] = pparent[x] /\ type'[x] = type[x]
                                   /\ pfsibling'[x] = IF x = prev THEN next ELSE pfsibling[x]
                                   /\ pbsibling'[x] = IF x = next THEN prev ELSE pbsibling[x]
       /\ \A x \in gone : /\ type'[x] = "FREE" /\ pparent'[x] = NULL
                          /\ pchild'[x] = NULL
                          /\ pfsibling'[x] = NULL /\ pbsibling'[x] = NULL
  BY <1>2, <1>4, <1>7, <1>10
<1>17. /\ TreeTypeOK'
       /\ gone \subseteq Inside
       /\ \A x \in Blocks : pparent[x] \in gone => x \in gone
       /\ Used' = Used \ gone /\ Inside' = Inside \ gone
       /\ \A x \in Blocks \ gone : /\ pparent'[x] = pparent[x] /\ type'[x] = type[x]
                                   /\ pfsibling'[x] = IF x = prev THEN next ELSE pfsibling[x]
                                   /\ pbsibling'[x] = IF x = next THEN prev ELSE pbsibling[x]
       /\ \A x \in gone : /\ type'[x] = "FREE" /\ pparent'[x] = NULL
                          /\ pchild'[x] = NULL
                          /\ pfsibling'[x] = NULL /\ pbsibling'[x] = NULL
       /\ \A x \in Blocks \ (gone \cup {g}) : pchild'[x] = pchild[x]
       /\ pchild'[g] = IF pchild[g] # b THEN pchild[g]
                       ELSE IF next = b THEN NULL ELSE next
       /\ \A y \in Blocks : Below(pparent', y) = Under(y) \ gone
  BY <1>2, <1>3, <1>10, <1>12, <1>13, <1>14, <1>15, <1>16
<1> QED
  BY <1>17 DEF gone, g, prev, next

(* RemoveBlock leaves a tree. *)
LEMMA RemoveBlockLinked ==
    ASSUME TreeTypeOK, Linked, NEW b \in Inside, RemoveBlock(b)
    PROVE  Linked'
<1> DEFINE gone == {b} \cup Under(b)
           g == pparent[b]
           prev == pbsibling[b]
           next == pfsibling[b]
<1>1. /\ next \in Inside /\ prev \in Inside /\ g \in Used /\ g \notin gone
      /\ pparent[next] = g /\ pparent[prev] = g /\ pparent[b] = g
      /\ (next \in gone => next = b) /\ (prev \in gone => prev = b)
      /\ pfsibling[prev] = b /\ pbsibling[next] = b /\ pfsibling[b] = next /\ pbsibling[b] = prev
      /\ next = b => \A x \in Inside : pparent[x] = g => x = b
  BY BlockPlace
<1>2. /\ gone \subseteq Inside
      /\ \A x \in Blocks : pparent[x] \in gone => x \in gone
      /\ Used' = Used \ gone /\ Inside' = Inside \ gone
      /\ \A x \in Blocks \ gone : /\ pparent'[x] = pparent[x]
                                  /\ pfsibling'[x] = IF x = prev THEN next ELSE pfsibling[x]
                                  /\ pbsibling'[x] = IF x = next THEN prev ELSE pbsibling[x]
      /\ \A x \in gone : /\ pparent'[x] = NULL /\ pchild'[x] = NULL
                         /\ pfsibling'[x] = NULL /\ pbsibling'[x] = NULL
      /\ \A x \in Blocks \ (gone \cup {g}) : pchild'[x] = pchild[x]
      /\ pchild'[g] = IF pchild[g] # b THEN pchild[g]
                      ELSE IF next = b THEN NULL ELSE next
  BY RemoveBlockFrame
<1>3. \A y \in Blocks : Below(pparent', y) = Under(y) \ gone
  BY RemoveBlockFrame
<1>4. /\ Inside \subseteq Used /\ Used \subseteq Blocks /\ NULL \notin Blocks
      /\ universe \in Used /\ universe \notin Inside /\ Inside \subseteq Blocks /\ b \in gone
  BY TreeAssumption DEF Inside, Used, Linked, ParentsFit
<1>5. \A x \in gone : x = b \/ pparent[x] \in gone
  <2>1. \A x \in Blocks : x \in Under(b) => pparent[x] \in Under(b) \cup {b}
    BY <1>4, UnderInside
  <2> QED
    BY <1>2, <1>4, <2>1
<1> HIDE DEF gone, g, prev, next
<1>6. ParentsFit'
  <2>1. universe \in Used' /\ pparent'[universe] = NULL
    BY <1>2, <1>4 DEF Linked, ParentsFit
  <2>2. ASSUME NEW x \in Inside' PROVE pparent'[x] \in Used' /\ pchild'[pparent'[x]] # NULL
    <3>1. x \in Inside /\ x \notin gone /\ x \in Blocks /\ pparent'[x] = pparent[x]
      BY <1>2, <1>4
    <3>2. pparent[x] \in Used /\ pchild[pparent[x]] # NULL /\ pparent[x] \notin gone
      BY <1>2, <3>1 DEF Linked, ParentsFit
    <3>3. pparent[x] = g => next # b
      BY <1>1, <1>4, <3>1
    <3>4. pchild'[pparent[x]] # NULL
      BY <1>1, <1>2, <1>4, <3>2, <3>3
    <3> QED
      BY <1>2, <3>1, <3>2, <3>4
  <2>3. ASSUME NEW h \in Used', pchild'[h] # NULL
        PROVE  pchild'[h] \in Inside' /\ pparent'[pchild'[h]] = h
    <3>1. h \in Used /\ h \notin gone /\ h \in Blocks
      BY <1>2, <1>4
    <3>2. CASE h = g /\ pchild[g] = b
      <4>1. pchild'[h] = next /\ next \notin gone
        BY <1>1, <1>2, <2>3, <3>2
      <4> QED
        BY <1>1, <1>2, <1>4, <3>2, <4>1
    <3>3. CASE ~(h = g /\ pchild[g] = b)
      <4>1. pchild'[h] = pchild[h]
        BY <1>2, <3>1, <3>3
      <4>2. pchild[h] \in Inside /\ pparent[pchild[h]] = h
        BY <2>3, <3>1, <4>1 DEF Linked, ParentsFit
      <4>3. pchild[h] \notin gone
        BY <1>1, <1>5, <3>1, <3>3, <4>2
      <4> QED
        BY <1>2, <1>4, <4>1, <4>2, <4>3
    <3> QED
      BY <3>2, <3>3
  <2> QED
    BY <2>1, <2>2, <2>3 DEF ParentsFit
<1>7. NeighboursFit'
  <2>1. pfsibling'[universe] = universe
    BY <1>1, <1>2, <1>4 DEF Linked, NeighboursFit
  <2>2. ASSUME NEW x \in Inside'
        PROVE  /\ pfsibling'[x] \in Inside' /\ pbsibling'[x] \in Inside'
               /\ pbsibling'[pfsibling'[x]] = x /\ pfsibling'[pbsibling'[x]] = x
               /\ pparent'[pfsibling'[x]] = pparent'[x]
    <3>1. x \in Inside /\ x \notin gone /\ x \in Blocks /\ x # b /\ pparent'[x] = pparent[x]
      BY <1>2, <1>4
    <3>2. /\ pfsibling[x] \in Inside /\ pbsibling[x] \in Inside
          /\ pbsibling[pfsibling[x]] = x /\ pfsibling[pbsibling[x]] = x
          /\ pparent[pfsibling[x]] = pparent[x] /\ pparent[pbsibling[x]] = pparent[x]
      BY <3>1, BlockPlace
    <3>3. pparent[x] \notin gone
      BY <1>2, <3>1
    <3>4. /\ pfsibling'[x] \in Inside' /\ pbsibling'[pfsibling'[x]] = x
          /\ pparent'[pfsibling'[x]] = pparent'[x]
      <4>1. CASE x = prev
        <5>1. next # b /\ next \notin gone
          BY <1>1, <3>1, <4>1
        <5> QED
          BY <1>1, <1>2, <1>4, <3>1, <4>1, <5>1
      <4>2. CASE x # prev
        <5>1. pfsibling[x] # b /\ pfsibling[x] # next
          BY <1>1, <3>1, <3>2, <4>2
        <5>2. pfsibling[x] \notin gone
          BY <1>5, <3>2, <3>3, <5>1
        <5> QED
          BY <1>2, <1>4, <3>1, <3>2, <4>2, <5>1, <5>2
      <4> QED
        BY <4>1, <4>2
    <3>5. pbsibling'[x] \in Inside' /\ pfsibling'[pbsibling'[x]] = x
      <4>1. CASE x = next
        <5>1. prev # b /\ prev \notin gone
          BY <1>1, <3>1, <4>1
        <5> QED
          BY <1>1, <1>2, <1>4, <3>1, <4>1, <5>1
      <4>2. CASE x # next
        <5>1. pbsibling[x] # b /\ pbsibling[x] # prev
          BY <1>1, <3>1, <3>2, <4>2
        <5>2. pbsibling[x] \notin gone
          BY <1>5, <3>2, <3>3, <5>1
        <5> QED
          BY <1>2, <1>4, <3>1, <3>2, <4>2, <5>1, <5>2
      <4> QED
        BY <4>1, <4>2
    <3> QED
      BY <3>4, <3>5
  <2> QED
    BY <2>1, <2>2 DEF NeighboursFit
<1>8. OneCircle'
  <2> SUFFICES ASSUME NEW c \in Inside', NEW d \in Inside', pparent'[c] = pparent'[d],
                      NEW S \in SUBSET Blocks, c \in S, \A x \in S : pfsibling'[x] \in S
               PROVE  d \in S
    BY DEF OneCircle
  <2> DEFINE T == S \cup (IF prev \in S THEN {b} ELSE {})
  <2>1. \A x \in S : x \in Blocks \ gone
    BY <1>2, <1>4
  <2>2. ASSUME NEW x \in T PROVE pfsibling[x] \in T
    <3>1. CASE x \in S /\ x # prev
      BY <1>2, <2>1, <3>1
    <3>2. CASE x \in S /\ x = prev
      BY <1>1, <3>2
    <3>3. CASE x = b /\ prev \in S
      <4>1. pfsibling'[prev] = next
        BY <1>2, <2>1, <3>3
      <4> QED
        BY <1>1, <3>3, <4>1
    <3> QED
      BY <3>1, <3>2, <3>3
  <2>3. T \in SUBSET Blocks /\ c \in T
    BY <1>4
  <2>4. c \in Inside /\ d \in Inside /\ d # b /\ pparent[c] = pparent[d]
    BY <1>2, <1>4
  <2> HIDE DEF T
  <2>5. d \in T
    BY <2>2, <2>3, <2>4, CircleWhole
  <2> QED
    BY <2>4, <2>5 DEF T
<1>9. NoLoop'
  BY <1>3 DEF Linked, NoLoop, Under
<1>10. FreedClean'
  <2>1. ASSUME NEW x \in Blocks \ Used', x \notin gone
        PROVE /\ pparent'[x] = NULL /\ pchild'[x] = NULL
              /\ pfsibling'[x] = NULL /\ pbsibling'[x] = NULL
    BY <1>1, <1>2, <1>4, <2>1 DEF Linked, FreedClean
  <2> QED
    BY <1>2, <2>1 DEF FreedClean
<1> QED
  BY <1>6, <1>7, <1>8, <1>9, <1>10 DEF Linked

-----------------------------------------------------------------------------
(* A block in a new place.                                                 *)

(* The pointers MoveBlock leaves behind: the same as before if second is   *)
(* in front of first already.                                              *)
LEMMA MoveBlockFrame ==
    ASSUME TreeTypeOK, Linked, NEW first \in Inside, NEW second \in Inside,
           first # second, pparent[first] = pparent[second], MoveBlock(first, second)
    PROVE  LET before == pbsibling[first]
               prev == pbsibling[second]
               next == pfsibling[second]
           IN
           /\ TreeTypeOK'
           /\ type' = type /\ pparent' = pparent
           /\ \A x \in Blocks : pchild'[x] = pchild[x]
                                \/ (x = pparent[first] /\ pchild[x] = first /\ pchild'[x] = second)
           /\ next = first => /\ \A x \in Blocks : pfsibling'[x] = pfsibling[x]
                              /\ \A x \in Blocks : pbsibling'[x] = pbsibling[x]
           /\ next # first =>
                /\ before # second /\ prev # second /\ next # second /\ before # prev
                /\ pfsibling'[second] = first /\ pfsibling'[before] = second
                /\ pfsibling'[prev] = next
                /\ pbsibling'[second] = before /\ pbsibling'[first] = second
                /\ pbsibling'[next] = prev
                /\ \A x \in Blocks \ {second, before, prev} : pfsibling'[x] = pfsibling[x]
                /\ \A x \in Blocks \ {second, first, next} : pbsibling'[x] = pbsibling[x]
<1> DEFINE before == pbsibling[first]
           prev == pbsibling[second]
           next == pfsibling[second]
           g == pparent[first]
<1>1. /\ before \in Inside /\ prev \in Inside /\ next \in Inside /\ g \in Used
      /\ pfsibling[before] = first /\ pfsibling[prev] = second /\ pbsibling[next] = second
      /\ pbsibling[first] = before /\ pbsibling[second] = prev /\ pfsibling[second] = next
      /\ next # second
  BY BlockPlace
<1>2. Inside \subseteq Blocks /\ Used \subseteq Blocks
  BY DEF Inside, Used
<1>3. prev # second /\ before # prev /\ (next # first => before # second)
  BY <1>1
<1>4. pchild' = IF pchild[g] = first THEN [pchild EXCEPT ![g] = second] ELSE pchild
  BY DEF MoveBlock
<1>5. /\ pfsibling' = [[pfsibling EXCEPT ![prev] = next]
                          EXCEPT ![second] = first,
                                 ![[pbsibling EXCEPT ![next] = prev][first]] = second]
      /\ pbsibling' = [[pbsibling EXCEPT ![next] = prev]
                          EXCEPT ![second] = [pbsibling EXCEPT ![next] = prev][first],
                                 ![first] = second]
      /\ type' = type /\ pparent' = pparent
  BY DEF MoveBlock
<1> HIDE DEF before, prev, next, g
<1>6. [pbsibling EXCEPT ![next] = prev][first] = IF next = first THEN prev ELSE before
  BY <1>1, <1>2 DEF TreeTypeOK
<1>7. pchild' \in [Blocks -> Pointer]
      /\ \A x \in Blocks : pchild'[x] = pchild[x] \/ (x = g /\ pchild[x] = first /\ pchild'[x] = second)
  BY <1>1, <1>2, <1>4 DEF TreeTypeOK, Pointer
<1>8. pfsibling' \in [Blocks -> Pointer] /\ pbsibling' \in [Blocks -> Pointer]
  BY <1>1, <1>2, <1>5, <1>6 DEF TreeTypeOK, Pointer
<1>9. TreeTypeOK'
  BY <1>5, <1>7, <1>8 DEF TreeTypeOK
<1>10. ASSUME next = first
       PROVE  /\ \A x \in Blocks : pfsibling'[x] = pfsibling[x]
              /\ \A x \in Blocks : pbsibling'[x] = pbsibling[x]
  <2>1. /\ pfsibling' = [[pfsibling EXCEPT ![prev] = first] EXCEPT ![second] = first, ![prev] = second]
        /\ pbsibling' = [[pbsibling EXCEPT ![first] = prev] EXCEPT ![second] = prev, ![first] = second]
    BY <1>5, <1>6, <1>10
  <2> QED
    BY <1>1, <1>2, <1>3, <1>10, <2>1 DEF TreeTypeOK
<1>11. ASSUME next # first
       PROVE  /\ pfsibling'[second] = first /\ pfsibling'[before] = second
              /\ pfsibling'[prev] = next
              /\ pbsibling'[second] = before /\ pbsibling'[first] = second
              /\ pbsibling'[next] = prev
              /\ \A x \in Blocks \ {second, before, prev} : pfsibling'[x] = pfsibling[x]
              /\ \A x \in Blocks \ {second, first, next} : pbsibling'[x] = pbsibling[x]
  <2>1. /\ pfsibling' = [[pfsibling EXCEPT ![prev] = next] EXCEPT ![second] = first, ![before] = second]
        /\ pbsibling' = [[pbsibling EXCEPT ![next] = prev] EXCEPT ![second] = before, ![first] = second]
    BY <1>5, <1>6, <1>11
  <2> QED
    BY <1>1, <1>2, <1>3, <1>11, <2>1 DEF TreeTypeOK
<1> QED
  BY <1>1, <1>3, <1>5, <1>7, <1>9, <1>10, <1>11 DEF before, prev, next, g

(* MoveBlock leaves a tree. *)
LEMMA MoveBlockLinked ==
    ASSUME TreeTypeOK, Linked, NEW first \in Inside, NEW second \in Inside,
           first # second, pparent[first] = pparent[second], MoveBlock(first, second)
    PROVE  Linked'
<1> DEFINE before == pbsibling[first]
           prev == pbsibling[second]
           next == pfsibling[second]
<1>1. /\ Used' = Used /\ Inside' = Inside /\ pparent' = pparent
      /\ \A x \in Blocks : pchild'[x] = pchild[x]
                           \/ (x = pparent[first] /\ pchild[x] = first /\ pchild'[x] = second)
  BY MoveBlockFrame DEF Used, Inside
<1>2. /\ Inside \subseteq Blocks /\ Used \subseteq Blocks /\ NULL \notin Blocks
      /\ universe \in Blocks /\ universe \notin Inside /\ Inside \subseteq Used
  BY TreeAssumption DEF Inside, Used
<1>3. /\ before \in Inside /\ prev \in Inside /\ next \in Inside
      /\ pfsibling[before] = first /\ pfsibling[prev] = second /\ pbsibling[next] = second
      /\ pbsibling[first] = before /\ pbsibling[second] = prev /\ pfsibling[second] = next
      /\ pparent[before] = pparent[first] /\ pparent[prev] = pparent[first]
      /\ pparent[next] = pparent[first]
  BY BlockPlace
<1>4. next = first => /\ \A x \in Blocks : pfsibling'[x] = pfsibling[x]
                      /\ \A x \in Blocks : pbsibling'[x] = pbsibling[x]
  BY MoveBlockFrame
<1>5. next # first =>
        /\ before # second /\ prev # second /\ next # second /\ before # prev
        /\ pfsibling'[second] = first /\ pfsibling'[before] = second
        /\ pfsibling'[prev] = next
        /\ pbsibling'[second] = before /\ pbsibling'[first] = second
        /\ pbsibling'[next] = prev
        /\ \A x \in Blocks \ {second, before, prev} : pfsibling'[x] = pfsibling[x]
        /\ \A x \in Blocks \ {second, first, next} : pbsibling'[x] = pbsibling[x]
  BY MoveBlockFrame
<1> HIDE DEF before, prev, next
<1>6. ParentsFit'
  BY <1>1, <1>2 DEF Linked, ParentsFit
<1>7. NoLoop'
  BY <1>1 DEF Linked, NoLoop, Under
<1>8. CASE next = first
  <2>1. NeighboursFit'
    BY <1>1, <1>2, <1>4, <1>8 DEF Linked, NeighboursFit
  <2>2. FreedClean'
    <3>1. ASSUME NEW x \in Blocks \ Used PROVE pchild'[x] = NULL
      BY <1>1, <1>2 DEF Linked, FreedClean
    <3> QED
      BY <1>1, <1>2, <1>4, <1>8, <3>1 DEF Linked, FreedClean
  <2>3. OneCircle'
    <3> SUFFICES ASSUME NEW c \in Inside, NEW d \in Inside, pparent[c] = pparent[d],
                        NEW S \in SUBSET Blocks, c \in S, \A x \in S : pfsibling'[x] \in S
                 PROVE  d \in S
      BY <1>1 DEF OneCircle
    <3>1. \A x \in S : pfsibling[x] \in S
      BY <1>4, <1>8
    <3> QED
      BY <3>1, CircleWhole
  <2> QED
    BY <1>6, <1>7, <2>1, <2>2, <2>3 DEF Linked
<1>9. CASE next # first
  <2>1. NeighboursFit'
    <3>1. pfsibling'[universe] = universe
      BY <1>2, <1>3, <1>5, <1>9 DEF Linked, NeighboursFit
    <3>2. ASSUME NEW x \in Inside
          PROVE  /\ pfsibling'[x] \in Inside /\ pbsibling'[x] \in Inside
                 /\ pbsibling'[pfsibling'[x]] = x /\ pfsibling'[pbsibling'[x]] = x
                 /\ pparent[pfsibling'[x]] = pparent[x]
      <4>1. /\ pfsibling[x] \in Inside /\ pbsibling[x] \in Inside
            /\ pbsibling[pfsibling[x]] = x /\ pfsibling[pbsibling[x]] = x
            /\ pparent[pfsibling[x]] = pparent[x]
        BY BlockPlace
      <4>2. /\ pfsibling'[x] \in Inside /\ pbsibling'[pfsibling'[x]] = x
            /\ pparent[pfsibling'[x]] = pparent[x]
        <5>1. CASE x \in {second, before, prev}
          BY <1>3, <1>5, <1>9, <5>1
        <5>2. CASE x \notin {second, before, prev}
          <6>1. pfsibling'[x] = pfsibling[x] /\ pfsibling[x] \notin {second, first, next}
            BY <1>2, <1>3, <1>5, <1>9, <4>1, <5>2
          <6> QED
            BY <1>2, <1>5, <1>9, <4>1, <6>1
        <5> QED
          BY <5>1, <5>2
      <4>3. pbsibling'[x] \in Inside /\ pfsibling'[pbsibling'[x]] = x
        <5>1. CASE x \in {second, first, next}
          BY <1>3, <1>5, <1>9, <5>1
        <5>2. CASE x \notin {second, first, next}
          <6>1. pbsibling'[x] = pbsibling[x] /\ pbsibling[x] \notin {second, before, prev}
            BY <1>2, <1>3, <1>5, <1>9, <4>1, <5>2
          <6> QED
            BY <1>2, <1>5, <1>9, <4>1, <6>1
        <5> QED
          BY <5>1, <5>2
      <4> QED
        BY <4>2, <4>3
    <3> QED
      BY <1>1, <3>1, <3>2 DEF NeighboursFit
  <2>2. FreedClean'
    <3>1. ASSUME NEW x \in Blocks \ Used
          PROVE  /\ pchild'[x] = NULL /\ pparent[x] = NULL
                 /\ pfsibling'[x] = NULL /\ pbsibling'[x] = NULL
      <4>1. /\ pchild[x] = NULL /\ pparent[x] = NULL
            /\ pfsibling[x] = NULL /\ pbsibling[x] = NULL
        BY DEF Linked, FreedClean
      <4>2. x \in Blocks \ {second, first, before, prev, next}
        BY <1>2, <1>3
      <4>3. pchild'[x] = NULL
        BY <1>1, <1>2, <4>1
      <4> QED
        BY <1>5, <1>9, <4>1, <4>2, <4>3
    <3> QED
      BY <1>1, <3>1 DEF FreedClean
  <2>3. OneCircle'
    <3> SUFFICES ASSUME NEW c \in Inside, NEW d \in Inside, pparent[c] = pparent[d],
                        NEW S \in SUBSET Blocks, c \in S, \A x \in S : pfsibling'[x] \in S
                 PROVE  d \in S
      BY <1>1 DEF OneCircle
    <3> DEFINE T == (S \ {second}) \cup (IF prev \in S THEN {second} ELSE {})
    <3>1. T \in SUBSET Blocks
      BY <1>2
    <3>2. ASSUME NEW x \in T PROVE pfsibling[x] \in T
      <4>1. CASE x = prev
        BY <1>3, <1>5, <1>9, <4>1
      <4>2. CASE x = before
        <5>1. x \in S
          BY <1>5, <1>9, <4>2
        <5>2. first \in S
          BY <1>5, <1>9, <4>2, <5>1
        <5> QED
          BY <1>3, <4>2, <5>2
      <4>3. CASE x = second
        <5>1. prev \in S
          BY <4>3
        <5>2. next \in S
          BY <1>5, <1>9, <5>1
        <5> QED
          BY <1>3, <1>5, <1>9, <4>3, <5>2
      <4>4. CASE x \notin {prev, before, second}
        <5>1. x \in S /\ x \in Blocks /\ pfsibling'[x] = pfsibling[x]
          BY <1>5, <1>9, <4>4
        <5>2. pfsibling[x] # second
          <6>1. ASSUME pfsibling[x] = second PROVE FALSE
            <7>1. pbsibling[second] = x
              BY <1>2, <5>1, <6>1, NeighboursUsed DEF Linked, NeighboursFit
            <7> QED
              BY <1>3, <4>4, <7>1
          <6> QED
            BY <6>1
        <5> QED
          BY <5>1, <5>2
      <4> QED
        BY <4>1, <4>2, <4>3, <4>4
    <3>3. T \subseteq S \cup {second} /\ S \ {second} \subseteq T
      OBVIOUS
    <3> HIDE DEF T
    <3>4. \A x, y \in Inside : pparent[x] = pparent[y] /\ x \in T => y \in T
      BY <3>1, <3>2, CircleWhole
    <3>5. CASE c = second
      <4>1. first \in T
        BY <1>5, <1>9, <3>3, <3>5
      <4> QED
        BY <3>3, <3>4, <3>5, <4>1
    <3>6. CASE c # second /\ d # second
      BY <3>3, <3>4, <3>6
    <3>7. CASE c # second /\ d = second
      <4>1. before \in S
        BY <1>3, <1>5, <1>9, <3>3, <3>4, <3>7
      <4> QED
        BY <1>5, <1>9, <3>7, <4>1
    <3> QED
      BY <3>5, <3>6, <3>7
  <2> QED
    BY <1>6, <1>7, <2>1, <2>2, <2>3 DEF Linked
<1> QED
  BY <1>8, <1>9

-----------------------------------------------------------------------------
(* The commands. *)

Frame == [galaxy : Blocks, lines : Nat, line_mode : BOOLEAN, inner : BOOLEAN]

(* The files fs are being read, in a tree with these parents and the       *)
(* blocks used, and pg is the current galaxy.                              *)
Nest(fs, parent, used, pg) ==
    /\ fs \in Seq(Frame)
    /\ fs # <<>> => pg = fs[Len(fs)].galaxy
    /\ \A i \in 1..Len(fs) : /\ fs[i].galaxy \in used
                             /\ fs[i].inner => fs[i].galaxy # universe
    /\ \A i \in 2..Len(fs) : fs[i].inner /\ parent[fs[i].galaxy] = fs[i - 1].galaxy
    /\ \A i, j \in 1..Len(fs) : i < j => fs[j].galaxy \in Below(parent, fs[i].galaxy)

(* The mode of the i-th file: that of the user, whose load command is not  *)
(* inner, or not.                                                          *)
ModeOf(fs, i) == i = 0 \/ (i = 1 /\ ~fs[1].inner)
Modes(fs, mode) ==
    /\ mode \in BOOLEAN
    /\ mode <=> ModeOf(fs, Len(fs))
    /\ \A i \in 1..Len(fs) : fs[i].inner => (fs[i].line_mode <=> ModeOf(fs, i - 1))

(* The current galaxy and those around it are galaxies. *)
Galaxy(t) == t \in {"UTYPE", "GTYPE"}
Path(parent, ty, pg) == \A x \in Blocks : (x = pg \/ pg \in Below(parent, x)) => Galaxy(ty[x])

Chosen ==
    Waiting => /\ pb_current = NULL <=> pchild[pg_current] = NULL
               /\ pb_current # NULL => pb_current \in Used /\ pparent[pb_current] = pg_current

Placed ==
    /\ pg_current \in Used
    /\ type[universe] = "UTYPE"
    /\ Path(pparent, type, pg_current)

Named == name = [b \in Blocks |-> name[b]]

IInv ==
    /\ TreeTypeOK
    /\ Linked
    /\ Named
    /\ NamesUnique
    /\ Placed
    /\ Nest(frames, pparent, Used, pg_current)
    /\ Modes(frames, line_mode)
    /\ Chosen

-----------------------------------------------------------------------------
(* The files that are being read.                                          *)

(* Nothing changes for them when their galaxies, kept, stay where they are. *)
LEMMA NestKept ==
    ASSUME NEW fs, NEW p, NEW q, NEW u, NEW v, NEW pg, NEW kept, Nest(fs, p, u, pg),
           \A i \in 1..Len(fs) : fs[i].galaxy \in kept,
           kept \subseteq v,
           \A x \in kept : q[x] = p[x],
           \A x, y \in kept : x \in Below(p, y) => x \in Below(q, y)
    PROVE  Nest(fs, q, v, pg)
<1>1. \A i \in 1..Len(fs) : fs[i].galaxy \in v /\ (fs[i].inner => fs[i].galaxy # universe)
  BY DEF Nest
<1>2. Len(fs) \in Nat
  BY DEF Nest
<1>3. \A i \in 2..Len(fs) : fs[i].inner /\ q[fs[i].galaxy] = fs[i - 1].galaxy
  <2> SUFFICES ASSUME NEW i \in 2..Len(fs)
               PROVE  fs[i].inner /\ q[fs[i].galaxy] = fs[i - 1].galaxy
    OBVIOUS
  <2>1. i \in 1..Len(fs)
    BY <1>2
  <2>2. fs[i].inner /\ p[fs[i].galaxy] = fs[i - 1].galaxy
    BY DEF Nest
  <2> QED
    BY <2>1, <2>2
<1>4. \A i, j \in 1..Len(fs) : i < j => fs[j].galaxy \in Below(q, fs[i].galaxy)
  <2> SUFFICES ASSUME NEW i \in 1..Len(fs), NEW j \in 1..Len(fs), i < j
               PROVE  fs[j].galaxy \in Below(q, fs[i].galaxy)
    OBVIOUS
  <2>1. fs[j].galaxy \in Below(p, fs[i].galaxy)
    BY DEF Nest
  <2> QED
    BY <2>1
<1> QED
  BY <1>1, <1>3, <1>4 DEF Nest

(* A line is read. *)
LEMMA NestRead ==
    ASSUME NEW fs, NEW p, NEW u, NEW pg, NEW mode,
           Nest(fs, p, u, pg), Modes(fs, mode), fs # <<>>,
           NEW gs, gs = [fs EXCEPT ![Len(fs)].lines = @ + 1]
    PROVE  Nest(gs, p, u, pg) /\ Modes(gs, mode) /\ gs # <<>> /\ Len(gs) = Len(fs)
<1>1. fs \in Seq(Frame) /\ Len(fs) \in 1..Len(fs) /\ Len(fs) \in Nat
  BY DEF Nest
<1>2. fs[Len(fs)] \in Frame
  BY <1>1
<1>3. [fs[Len(fs)] EXCEPT !.lines = @ + 1] \in Frame
  BY <1>2 DEF Frame
<1>4. gs = [fs EXCEPT ![Len(fs)] = [fs[Len(fs)] EXCEPT !.lines = @ + 1]]
  OBVIOUS
<1>5. gs \in Seq(Frame) /\ Len(gs) = Len(fs) /\ gs # <<>>
  BY <1>1, <1>3, <1>4
<1>6. \A i \in 1..Len(fs) : gs[i] = IF i = Len(fs) THEN [fs[i] EXCEPT !.lines = @ + 1] ELSE fs[i]
  BY <1>1, <1>4
<1>7. \A i \in 1..Len(fs) : /\ gs[i].galaxy = fs[i].galaxy
                            /\ gs[i].inner = fs[i].inner
                            /\ gs[i].line_mode = fs[i].line_mode
  BY <1>1, <1>2, <1>6 DEF Frame
<1>8. \A i \in 2..Len(fs) : i \in 1..Len(fs) /\ i - 1 \in 1..Len(fs)
  BY <1>1
<1>9. Nest(gs, p, u, pg)
  <2>1. pg = gs[Len(gs)].galaxy
    BY <1>1, <1>5, <1>7 DEF Nest
  <2>2. \A i \in 1..Len(gs) : gs[i].galaxy \in u /\ (gs[i].inner => gs[i].galaxy # universe)
    BY <1>5, <1>7 DEF Nest
  <2>3. \A i \in 2..Len(gs) : gs[i].inner /\ p[gs[i].galaxy] = gs[i - 1].galaxy
    BY <1>5, <1>7, <1>8 DEF Nest
  <2>4. \A i, j \in 1..Len(gs) : i < j => gs[j].galaxy \in Below(p, gs[i].galaxy)
    BY <1>5, <1>7 DEF Nest
  <2> QED
    BY <1>5, <2>1, <2>2, <2>3, <2>4 DEF Nest
<1>10. Modes(gs, mode)
  <2>1. 1 \in 1..Len(fs)
    BY <1>1
  <2>2. \A i \in Int : ModeOf(gs, i) <=> ModeOf(fs, i)
    BY <1>7, <2>1 DEF ModeOf
  <2>3. Len(gs) \in Int /\ \A i \in 1..Len(fs) : i - 1 \in Int
    BY <1>1, <1>5
  <2> QED
    BY <1>5, <1>7, <2>2, <2>3 DEF Modes
<1> QED
  BY <1>5, <1>9, <1>10

(* The same for the modes alone. *)
LEMMA ModesRead ==
    ASSUME NEW fs, NEW p, NEW u, NEW pg, NEW mode,
           Nest(fs, p, u, pg), Modes(fs, mode), fs # <<>>
    PROVE  Modes([fs EXCEPT ![Len(fs)].lines = @ + 1], mode)
BY NestRead

(* The file of block b, in the galaxy at hand, is opened. *)
LEMMA NestCall ==
    ASSUME NEW fs, NEW p, NEW u, NEW pg, NEW mode,
           Nest(fs, p, u, pg), Modes(fs, mode),
           NEW b \in Blocks, b \in u, b # universe, p[b] = pg,
           \A i \in 1..Len(fs) : b \in Below(p, fs[i].galaxy),
           NEW r, r = [galaxy |-> b, lines |-> 0, line_mode |-> mode, inner |-> TRUE]
    PROVE  /\ Nest(Append(fs, r), p, u, b)
           /\ Modes(Append(fs, r), FALSE)
           /\ Append(fs, r) # <<>>
<1> DEFINE gs == Append(fs, r)
<1>1. fs \in Seq(Frame) /\ Len(fs) \in Nat /\ mode \in BOOLEAN
  BY DEF Nest, Modes
<1>2. r \in Frame /\ r.galaxy = b /\ r.inner /\ r.line_mode = mode
  BY <1>1 DEF Frame
<1>3. gs \in Seq(Frame) /\ Len(gs) = Len(fs) + 1 /\ gs # <<>>
  BY <1>1, <1>2, AppendProperties
<1>4. gs[Len(fs) + 1] = r /\ \A i \in 1..Len(fs) : gs[i] = fs[i]
  BY <1>1, <1>2, AppendProperties
<1> HIDE DEF gs
<1>5. \A i \in 1..Len(gs) : i \in 1..Len(fs) \/ i = Len(fs) + 1
  BY <1>1, <1>3
<1>6. Nest(gs, p, u, b)
  <2>1. b = gs[Len(gs)].galaxy
    BY <1>2, <1>3, <1>4
  <2>2. \A i \in 1..Len(gs) : gs[i].galaxy \in u /\ (gs[i].inner => gs[i].galaxy # universe)
    BY <1>2, <1>4, <1>5 DEF Nest
  <2>3. \A i \in 2..Len(gs) : gs[i].inner /\ p[gs[i].galaxy] = gs[i - 1].galaxy
    <3> SUFFICES ASSUME NEW i \in 2..Len(gs)
                 PROVE  gs[i].inner /\ p[gs[i].galaxy] = gs[i - 1].galaxy
      OBVIOUS
    <3>1. CASE i = Len(fs) + 1
      <4>1. Len(fs) \in 1..Len(fs) /\ fs # <<>> /\ i - 1 = Len(fs)
        BY <1>1, <3>1
      <4>2. pg = fs[Len(fs)].galaxy
        BY <4>1 DEF Nest
      <4> QED
        BY <1>2, <1>4, <3>1, <4>1, <4>2
    <3>2. CASE i # Len(fs) + 1
      <4>1. i \in 2..Len(fs) /\ i \in 1..Len(fs) /\ i - 1 \in 1..Len(fs)
        BY <1>1, <1>3, <3>2
      <4>2. fs[i].inner /\ p[fs[i].galaxy] = fs[i - 1].galaxy
        BY <4>1 DEF Nest
      <4> QED
        BY <1>4, <4>1, <4>2
    <3> QED
      BY <3>1, <3>2
  <2>4. \A i, j \in 1..Len(gs) : i < j => gs[j].galaxy \in Below(p, gs[i].galaxy)
    <3> SUFFICES ASSUME NEW i \in 1..Len(gs), NEW j \in 1..Len(gs), i < j
                 PROVE  gs[j].galaxy \in Below(p, gs[i].galaxy)
      OBVIOUS
    <3>1. i \in 1..Len(fs)
      BY <1>1, <1>3
    <3>2. CASE j = Len(fs) + 1
      BY <1>2, <1>4, <3>1, <3>2
    <3>3. CASE j \in 1..Len(fs)
      <4>1. fs[j].galaxy \in Below(p, fs[i].galaxy)
        BY <3>1, <3>3 DEF Nest
      <4> QED
        BY <1>4, <3>1, <3>3, <4>1
    <3> QED
      BY <1>5, <3>2, <3>3
  <2> QED
    BY <1>3, <2>1, <2>2, <2>3, <2>4 DEF Nest
<1>7. Modes(gs, FALSE)
  <2>1. ~ModeOf(gs, Len(gs))
    <3>1. Len(gs) # 0
      BY <1>1, <1>3
    <3>2. CASE Len(gs) = 1
      <4>1. gs[1] = r
        BY <1>1, <1>3, <1>4, <3>2
      <4> QED
        BY <1>2, <3>1, <4>1 DEF ModeOf
    <3>3. CASE Len(gs) # 1
      BY <3>1, <3>3 DEF ModeOf
    <3> QED
      BY <3>2, <3>3
  <2>2. \A i \in 0..Len(fs) : ModeOf(gs, i) <=> ModeOf(fs, i)
    BY <1>1, <1>4 DEF ModeOf
  <2>3. ASSUME NEW i \in 1..Len(gs), gs[i].inner PROVE gs[i].line_mode <=> ModeOf(gs, i - 1)
    <3>1. CASE i = Len(fs) + 1
      <4>1. i - 1 = Len(fs) /\ Len(fs) \in 0..Len(fs)
        BY <1>1, <3>1
      <4>2. mode <=> ModeOf(gs, Len(fs))
        BY <2>2, <4>1 DEF Modes
      <4>3. gs[i].line_mode = mode
        BY <1>2, <1>4, <3>1
      <4> QED
        BY <4>1, <4>2, <4>3
    <3>2. CASE i \in 1..Len(fs)
      <4>1. i - 1 \in 0..Len(fs)
        BY <1>1, <3>2
      <4>2. fs[i].line_mode <=> ModeOf(fs, i - 1)
        BY <1>4, <2>3, <3>2 DEF Modes
      <4> QED
        BY <1>4, <2>2, <3>2, <4>1, <4>2
    <3> QED
      BY <1>5, <3>1, <3>2
  <2> QED
    BY <2>1, <2>3 DEF Modes
<1>8. Nest(gs, p, u, b) /\ Modes(gs, FALSE) /\ gs # <<>>
  BY <1>3, <1>6, <1>7
<1> QED
  BY <1>8 DEF gs

(* The innermost file has been read: back in the galaxy it was called in. *)
LEMMA NestReturn ==
    ASSUME NEW fs, NEW p, NEW u, NEW pg, NEW mode, Nest(fs, p, u, pg), Modes(fs, mode), fs # <<>>,
           NEW gs, gs = SubSeq(fs, 1, Len(fs) - 1),
           NEW top, top = fs[Len(fs)]
    PROVE  /\ top.inner => Nest(gs, p, u, p[top.galaxy]) /\ Modes(gs, top.line_mode)
           /\ ~top.inner => Nest(gs, p, u, pg) /\ Modes(gs, mode)
<1> DEFINE to == IF top.inner THEN p[top.galaxy] ELSE pg
           m == IF top.inner THEN top.line_mode ELSE mode
<1>1. fs \in Seq(Frame) /\ Len(fs) \in Nat /\ Len(fs) >= 1 /\ top \in Frame
  BY DEF Nest
<1>2. gs \in Seq(Frame) /\ Len(gs) = Len(fs) - 1 /\ \A i \in 1..(Len(fs) - 1) : gs[i] = fs[i]
  <2> DEFINE n == Len(fs) - 1
  <2>1. n \in Nat /\ n \in Int /\ 1 \in Int /\ \A i \in 1..n : fs[i] \in Frame
    BY <1>1
  <2>2. gs = SubSeq(fs, 1, n)
    OBVIOUS
  <2> HIDE DEF n
  <2>3. /\ gs \in Seq(Frame) /\ Len(gs) = IF 1 <= n THEN (n - 1) + 1 ELSE 0
        /\ \A i \in 1..((n - 1) + 1) : gs[i] = fs[(1 + i) - 1]
    BY <2>1, <2>2, SubSeqProperties
  <2>4. Len(gs) = n /\ \A i \in 1..n : gs[i] = fs[i]
    BY <2>1, <2>3
  <2> QED
    BY <2>3, <2>4 DEF n
<1>3. /\ \A i \in 1..Len(gs) : i \in 1..Len(fs) /\ gs[i] = fs[i]
      /\ \A i \in 2..Len(gs) : i \in 2..Len(fs) /\ i \in 1..Len(gs) /\ i - 1 \in 1..Len(gs)
  BY <1>1, <1>2
<1>4. Nest(gs, p, u, to)
  <2>1. ASSUME gs # <<>> PROVE to = gs[Len(gs)].galaxy
    <3>1. Len(fs) \in 2..Len(fs) /\ Len(gs) \in 1..Len(gs)
      BY <1>1, <1>2, <2>1
    <3>2. top.inner /\ p[top.galaxy] = fs[Len(fs) - 1].galaxy
      BY <3>1 DEF Nest
    <3> QED
      BY <1>2, <1>3, <3>1, <3>2
  <2>2. \A i \in 1..Len(gs) : gs[i].galaxy \in u /\ (gs[i].inner => gs[i].galaxy # universe)
    BY <1>3 DEF Nest
  <2>3. \A i \in 2..Len(gs) : gs[i].inner /\ p[gs[i].galaxy] = gs[i - 1].galaxy
    BY <1>3 DEF Nest
  <2>4. \A i, j \in 1..Len(gs) : i < j => gs[j].galaxy \in Below(p, gs[i].galaxy)
    BY <1>3 DEF Nest
  <2> QED
    BY <1>2, <2>1, <2>2, <2>3, <2>4 DEF Nest
<1>5. Modes(gs, m)
  <2>1. \A i \in 0..Len(gs) : ModeOf(gs, i) <=> ModeOf(fs, i)
    BY <1>1, <1>2 DEF ModeOf
  <2>2. \A i \in 1..Len(gs) : gs[i].inner => (gs[i].line_mode <=> ModeOf(gs, i - 1))
    <3> SUFFICES ASSUME NEW i \in 1..Len(gs), gs[i].inner
                 PROVE  gs[i].line_mode <=> ModeOf(gs, i - 1)
      OBVIOUS
    <3>1. i \in 1..Len(fs) /\ gs[i] = fs[i] /\ i - 1 \in 0..Len(gs)
      BY <1>1, <1>2, <1>3
    <3>2. fs[i].line_mode <=> ModeOf(fs, i - 1)
      BY <3>1 DEF Modes
    <3> QED
      BY <2>1, <3>1, <3>2
  <2>3. m \in BOOLEAN
    BY <1>1 DEF Frame, Modes
  <2>4. m <=> ModeOf(gs, Len(gs))
    <3>1. Len(gs) \in 0..Len(gs) /\ Len(fs) \in 1..Len(fs)
      BY <1>1, <1>2
    <3>2. CASE top.inner
      <4>1. top.line_mode <=> ModeOf(fs, Len(fs) - 1)
        BY <3>1, <3>2 DEF Modes
      <4> QED
        BY <1>2, <2>1, <3>1, <3>2, <4>1
    <3>3. CASE ~top.inner
      <4>1. Len(fs) = 1
        <5>1. \A i \in 2..Len(fs) : fs[i].inner
          BY DEF Nest
        <5>2. Len(fs) \notin 2..Len(fs)
          BY <3>3, <5>1
        <5>3. \A n \in Nat : n >= 1 /\ n \notin 2..n => n = 1
          OBVIOUS
        <5> QED
          BY <1>1, <5>2, <5>3
      <4>2. ModeOf(fs, 1) /\ (mode <=> ModeOf(fs, 1))
        BY <3>3, <4>1 DEF ModeOf, Modes
      <4>3. ModeOf(gs, Len(gs))
        BY <1>2, <4>1 DEF ModeOf
      <4> QED
        BY <3>3, <4>2, <4>3
    <3> QED
      BY <3>2, <3>3
  <2> QED
    BY <2>2, <2>3, <2>4 DEF Modes
<1> QED
  BY <1>4, <1>5

(* The same for the frames at hand. *)
LEMMA FramesReturn ==
    ASSUME NEW p, NEW u, Nest(frames, p, u, pg_current), Modes(frames, line_mode), frames # <<>>,
           NEW gs, gs = SubSeq(frames, 1, Len(frames) - 1)
    PROVE  /\ Top.inner => Nest(gs, p, u, p[Top.galaxy]) /\ Modes(gs, Top.line_mode)
           /\ ~Top.inner => Nest(gs, p, u, pg_current) /\ Modes(gs, line_mode)
<1> DEFINE top == frames[Len(frames)]
<1>1. top.inner => Nest(gs, p, u, p[top.galaxy])
  BY NestReturn
<1>2. top.inner => Modes(gs, top.line_mode)
  BY NestReturn
<1>3. ~top.inner => Nest(gs, p, u, pg_current)
  BY NestReturn
<1>4. ~top.inner => Modes(gs, line_mode)
  BY NestReturn
<1> QED
  BY <1>1, <1>2, <1>3, <1>4 DEF Top

(* The galaxies whose files are being read are around the current one. *)
LEMMA NestAround ==
    ASSUME NEW fs, NEW p, NEW u, NEW pg, Nest(fs, p, u, pg), NEW i \in 1..Len(fs)
    PROVE  pg = fs[i].galaxy \/ pg \in Below(p, fs[i].galaxy)
<1>1. Len(fs) \in Nat /\ fs # <<>>
  BY DEF Nest
<1>2. pg = fs[Len(fs)].galaxy /\ Len(fs) \in 1..Len(fs)
  BY <1>1 DEF Nest
<1>3. CASE i = Len(fs)
  BY <1>2, <1>3
<1>4. CASE i < Len(fs)
  BY <1>2, <1>4 DEF Nest
<1> QED
  BY <1>1, <1>3, <1>4

-----------------------------------------------------------------------------
(* Names.                                                                  *)

(* They stay unique where no block comes to a galaxy and none is renamed. *)
LEMMA NamesKept ==
    ASSUME NamesUnique, Inside' \subseteq Inside,
           \A x \in Inside' : pparent'[x] = pparent[x] /\ name'[x] = name[x]
    PROVE  NamesUnique'
BY DEF NamesUnique, Inside

(* They do when one block gets a name that is not taken in its galaxy. *)
LEMMA NameGiven ==
    ASSUME NamesUnique, NEW b, NEW n, ~NameTaken(n), Inside \subseteq Blocks,
           Inside' \subseteq Inside \cup {b},
           \A x \in Inside' : x # b => pparent'[x] = pparent[x] /\ name'[x] = name[x],
           name'[b] = n, pparent'[b] = pg_current
    PROVE  NamesUnique'
BY DEF NamesUnique, NameTaken, Inside

-----------------------------------------------------------------------------
(* The blocks that block and hblock make.                                  *)

(* What a new block with a name of its own leaves in order. *)
LEMMA Created ==
    ASSUME IInv, NEW b \in Blocks \ Used, NEW t \in {"GTYPE", "STYPE"},
           CreateBlock(pg_current, b, t),
           NEW n, ~NameTaken(n), name' = [name EXCEPT ![b] = n]
    PROVE  /\ TreeTypeOK' /\ Linked' /\ Named' /\ NamesUnique'
           /\ type'[universe] = "UTYPE"
           /\ Used' = Used \cup {b} /\ b # universe
           /\ pparent'[b] = pg_current /\ pchild'[pg_current] # NULL
           /\ Path(pparent', type', pg_current)
           /\ t = "GTYPE" => Path(pparent', type', b)
           /\ Nest(frames, pparent', Used', pg_current)
           /\ \A i \in 1..Len(frames) : b \in Below(pparent', frames[i].galaxy)
<1>1. /\ TreeTypeOK /\ Linked /\ Named /\ NamesUnique
      /\ pg_current \in Used /\ pg_current \in Blocks /\ type[universe] = "UTYPE"
      /\ Path(pparent, type, pg_current)
      /\ Nest(frames, pparent, Used, pg_current)
  BY DEF IInv, Placed, Used
<1>2. /\ TreeTypeOK' /\ Linked'
      /\ Used' = Used \cup {b} /\ Inside' = Inside \cup {b}
      /\ b # universe /\ b # pg_current
      /\ pparent'[b] = pg_current /\ \A x \in Blocks \ {b} : pparent'[x] = pparent[x]
      /\ pchild'[pg_current] = (IF pchild[pg_current] = NULL THEN b ELSE pchild[pg_current])
      /\ type' = [type EXCEPT ![b] = t]
  BY <1>1, CreateBlockFrame, CreateBlockLinked
<1>3. /\ Below(pparent', b) = {}
      /\ \A h \in Blocks :
           /\ Under(h) \subseteq Below(pparent', h)
           /\ Below(pparent', h) \subseteq Under(h) \cup {b}
           /\ b \in Below(pparent', h) <=> (h = pg_current \/ pg_current \in Under(h))
  BY <1>1, CreateBlockBelow
<1>4. pchild'[pg_current] # NULL
  BY <1>2, TreeAssumption
<1>5. type'[b] = t /\ \A x \in Blocks \ {b} : type'[x] = type[x]
  BY <1>1, <1>2 DEF TreeTypeOK
<1>6. type[b] = "FREE"
  BY DEF Used
<1>7. type'[universe] = "UTYPE"
  BY <1>1, <1>2, <1>5, TreeAssumption
<1>8. \A x \in Blocks : (x = pg_current \/ pg_current \in Under(x)) => Galaxy(type[x]) /\ x # b
  BY <1>1, <1>6 DEF Path, Galaxy, Under
<1>9. Path(pparent', type', pg_current)
  <2> SUFFICES ASSUME NEW x \in Blocks, x = pg_current \/ pg_current \in Below(pparent', x)
               PROVE  Galaxy(type'[x])
    BY DEF Path
  <2>1. x = pg_current \/ pg_current \in Under(x)
    BY <1>2, <1>3
  <2> QED
    BY <1>5, <1>8, <2>1
<1>10. ASSUME t = "GTYPE" PROVE Path(pparent', type', b)
  <2> SUFFICES ASSUME NEW x \in Blocks, x = b \/ b \in Below(pparent', x)
               PROVE  Galaxy(type'[x])
    BY DEF Path
  <2>1. CASE x = b
    BY <1>5, <1>10, <2>1 DEF Galaxy
  <2>2. CASE x # b
    BY <1>3, <1>5, <1>8, <2>2
  <2> QED
    BY <2>1, <2>2
<1>11. Nest(frames, pparent', Used', pg_current)
  <2>1. \A i \in 1..Len(frames) : frames[i].galaxy \in Used
    BY <1>1 DEF Nest
  <2>2. Used \subseteq Used' /\ \A x \in Used : pparent'[x] = pparent[x]
    BY <1>2 DEF Used
  <2>3. \A x, y \in Used : x \in Below(pparent, y) => x \in Below(pparent', y)
    BY <1>3 DEF Under, Used
  <2> QED
    BY <1>1, <2>1, <2>2, <2>3, NestKept
<1>12. ASSUME NEW i \in 1..Len(frames) PROVE b \in Below(pparent', frames[i].galaxy)
  <2>1. frames[i].galaxy \in Blocks
    BY <1>1 DEF Nest, Used
  <2>2. pg_current = frames[i].galaxy \/ pg_current \in Under(frames[i].galaxy)
    BY <1>1, NestAround DEF Under
  <2> QED
    BY <1>3, <2>1, <2>2
<1>13. name'[b] = n /\ (\A x \in Blocks \ {b} : name'[x] = name[x]) /\ Named'
  BY <1>1 DEF Named
<1>14. NamesUnique'
  <2>1. Inside \subseteq Blocks /\ b \notin Inside
    BY DEF Inside, Used
  <2>2. \A x \in Inside' : x # b => pparent'[x] = pparent[x] /\ name'[x] = name[x]
    BY <1>2, <1>13, <2>1
  <2> QED
    BY <1>1, <1>2, <1>13, <2>1, <2>2, NameGiven
<1> QED
  BY <1>2, <1>4, <1>7, <1>9, <1>10, <1>11, <1>12, <1>13, <1>14

(* malloc returns a block that is not in use. *)
LEMMA FreshUnused ==
    ASSUME TreeTypeOK, HeapHolds
    PROVE  Fresh \in Blocks \ Used
<1>1. \E b \in Blocks : type[b] = "FREE"
  BY DEF HeapHolds, Used
<1>2. Fresh \in Blocks /\ type[Fresh] = "FREE"
  BY <1>1 DEF Fresh
<1> QED
  BY <1>2 DEF Used

(* A line that is read leaves the frames as they are but for their count. *)
LEMMA LineReadKeeps ==
    ASSUME NEW p, NEW u, Nest(frames, p, u, pg_current), Modes(frames, line_mode)
    PROVE  /\ Nest(LineRead, p, u, pg_current) /\ Modes(LineRead, line_mode)
           /\ LineRead = <<>> <=> frames = <<>>
           /\ Len(LineRead) = Len(frames)
           /\ \A i \in 1..Len(frames) : LineRead[i].galaxy = frames[i].galaxy
<1>1. CASE frames = <<>>
  BY <1>1 DEF LineRead, Loading
<1>2. CASE frames # <<>>
  <2>1. LineRead = [frames EXCEPT ![Len(frames)].lines = @ + 1]
    BY <1>2 DEF LineRead, Loading
  <2>2. /\ Nest(LineRead, p, u, pg_current) /\ Modes(LineRead, line_mode)
        /\ LineRead # <<>> /\ Len(LineRead) = Len(frames)
    <3>1. Nest(LineRead, p, u, pg_current)
      BY <1>2, <2>1, NestRead
    <3>2. Modes(LineRead, line_mode)
      BY <1>2, <2>1, ModesRead
    <3>3. LineRead # <<>> /\ Len(LineRead) = Len(frames)
      BY <1>2, <2>1, NestRead
    <3> QED
      BY <3>1, <3>2, <3>3
  <2>3. \A i \in 1..Len(frames) : LineRead[i].galaxy = frames[i].galaxy
    <3>1. frames \in Seq(Frame)
      BY DEF Nest
    <3> QED
      BY <2>1, <3>1 DEF Frame
  <2> QED
    BY <1>2, <2>2, <2>3
<1> QED
  BY <1>1, <1>2

(* The frames are galaxies in use, each in those before it: no two are the *)
(* same, and the last is the current one.                                  *)
LEMMA FramesApart ==
    ASSUME IInv, Loading
    PROVE  /\ Len(frames) \in Nat /\ 1 <= Len(frames) /\ frames \in Seq(Frame)
           /\ pg_current = frames[Len(frames)].galaxy
           /\ pg_current \in Used /\ pg_current \in Blocks
           /\ \A k \in 1..Len(frames) : /\ frames[k].galaxy \in Used
                                        /\ frames[k].galaxy \in Blocks
                                        /\ frames[k].lines \in Nat
           /\ \A k \in 1..(Len(frames) - 1) : frames[k].galaxy # pg_current
           /\ pg_current = frames[1].galaxy \/ pg_current \in Under(frames[1].galaxy)
<1>1. /\ frames \in Seq(Frame) /\ Len(frames) \in Nat /\ frames # <<>>
      /\ pg_current = frames[Len(frames)].galaxy
  BY DEF IInv, Nest, Loading
<1>2. 1 <= Len(frames)
  BY <1>1
<1>3. \A k \in 1..Len(frames) : frames[k] \in Frame /\ frames[k].galaxy \in Used
  BY <1>1 DEF IInv, Nest
<1>4. \A k \in 1..(Len(frames) - 1) : frames[Len(frames)].galaxy \in Under(frames[k].galaxy)
  BY <1>1, <1>2 DEF IInv, Nest, Under
<1>5. \A k \in 1..(Len(frames) - 1) : frames[k].galaxy # pg_current
  <2> SUFFICES ASSUME NEW k \in 1..(Len(frames) - 1), frames[k].galaxy = pg_current PROVE FALSE
    OBVIOUS
  <2>1. pg_current \in Under(pg_current)
    BY <1>1, <1>4
  <2>2. pg_current \in Blocks
    BY DEF IInv, Placed, Used
  <2> QED
    BY <2>1, <2>2 DEF IInv, Linked, NoLoop
<1>6. \A k \in 1..Len(frames) : frames[k].galaxy \in Blocks /\ frames[k].lines \in Nat
  BY <1>3 DEF Frame
<1>7. pg_current = frames[1].galaxy \/ pg_current \in Under(frames[1].galaxy)
  <2>1. CASE Len(frames) = 1
    BY <1>1, <2>1
  <2>2. CASE Len(frames) # 1
    BY <1>1, <1>2, <1>4, <2>2
  <2> QED
    BY <2>1, <2>2
<1>8. pg_current \in Used /\ pg_current \in Blocks
  BY DEF IInv, Placed, Used
<1> QED
  BY <1>1, <1>2, <1>3, <1>5, <1>6, <1>7, <1>8

(* One line more has been read of the innermost file. *)
LEMMA LineReadIs ==
    ASSUME IInv, Loading
    PROVE  /\ Len(LineRead) = Len(frames)
           /\ \A k \in 1..Len(frames) : LineRead[k].galaxy = frames[k].galaxy
           /\ \A k \in 1..(Len(frames) - 1) : LineRead[k].lines = frames[k].lines
           /\ LineRead[Len(frames)].lines = frames[Len(frames)].lines + 1
           /\ LineRead \in Seq(Frame)
<1>1. /\ frames \in Seq(Frame) /\ Len(frames) \in Nat /\ 1 <= Len(frames)
  BY FramesApart
<1>2. PICK n \in Nat : n = Len(frames)
  BY <1>1
<1>3. PICK e \in Frame : e = frames[n]
  BY <1>1, <1>2
<1>4. PICK d : d = [galaxy |-> e.galaxy, lines |-> e.lines + 1, line_mode |-> e.line_mode, inner |-> e.inner]
  OBVIOUS
<1>5. d \in Frame
  BY <1>3, <1>4 DEF Frame
<1>6. [e EXCEPT !.lines = @ + 1] = d
  BY <1>3, <1>4 DEF Frame
<1>7. LineRead = [frames EXCEPT ![n] = d]
  BY <1>2, <1>3, <1>6 DEF LineRead
<1>8. LineRead \in Seq(Frame) /\ Len(LineRead) = n
  BY <1>1, <1>2, <1>5, <1>7
<1>9. LineRead[n] = d /\ \A k \in 1..(n - 1) : LineRead[k] = frames[k]
  BY <1>1, <1>2, <1>7
<1>10. \A k \in 1..n : k = n \/ k \in 1..(n - 1)
  OBVIOUS
<1> QED
  BY <1>2, <1>3, <1>4, <1>8, <1>9, <1>10

(* A new star, or a galaxy without a file: the block is the current one. *)
LEMMA NewBlockInv ==
    ASSUME IInv, HeapHolds, NEW l, ~NameTaken(l.name), NEW t \in {"GTYPE", "STYPE"},
           NewBlock(l, t), pb_current' = Fresh, frames' = LineRead,
           UNCHANGED <<pg_current, line_mode, exited>>
    PROVE  IInv'
<1>1. Fresh \in Blocks \ Used
  BY FreshUnused DEF IInv
<1>2. PICK b \in Blocks \ Used : b = Fresh
  BY <1>1
<1>3. CreateBlock(pg_current, b, t) /\ name' = [name EXCEPT ![b] = l.name]
  BY <1>2 DEF NewBlock
<1>4. /\ TreeTypeOK' /\ Linked' /\ Named' /\ NamesUnique'
      /\ type'[universe] = "UTYPE"
      /\ Used' = Used \cup {b}
      /\ pparent'[b] = pg_current /\ pchild'[pg_current] # NULL
      /\ Path(pparent', type', pg_current)
      /\ Nest(frames, pparent', Used', pg_current)
  BY <1>3, Created
<1>5. Nest(LineRead, pparent', Used', pg_current) /\ Modes(LineRead, line_mode)
  BY <1>4, LineReadKeeps DEF IInv
<1>6. Nest(frames, pparent, Used, pg_current)' /\ Modes(frames, line_mode)'
  BY <1>5
<1>7. Placed'
  BY <1>4 DEF IInv, Placed
<1>8. Chosen'
  BY <1>2, <1>4, TreeAssumption DEF Chosen, Used
<1> QED
  BY <1>4, <1>6, <1>7, <1>8 DEF IInv

(* A galaxy with a file: it is the current one while the file is read. *)
LEMMA GalaxyWithFileInv ==
    ASSUME IInv, HeapHolds, NEW l, ~NameTaken(l.name), GalaxyWithFile(l)
    PROVE  IInv'
<1>1. Fresh \in Blocks \ Used
  BY FreshUnused DEF IInv
<1>2. PICK b \in Blocks \ Used : b = Fresh
  BY <1>1
<1>3. CreateBlock(pg_current, b, "GTYPE") /\ name' = [name EXCEPT ![b] = l.name]
  BY <1>2 DEF GalaxyWithFile, NewBlock
<1>4. /\ TreeTypeOK' /\ Linked' /\ Named' /\ NamesUnique'
      /\ type'[universe] = "UTYPE"
      /\ Used' = Used \cup {b} /\ b # universe
      /\ pparent'[b] = pg_current
      /\ Path(pparent', type', b)
      /\ Nest(frames, pparent', Used', pg_current)
      /\ \A i \in 1..Len(frames) : b \in Below(pparent', frames[i].galaxy)
  BY <1>3, Created
<1>5. /\ Nest(LineRead, pparent', Used', pg_current) /\ Modes(LineRead, line_mode)
      /\ \A i \in 1..Len(LineRead) : b \in Below(pparent', LineRead[i].galaxy)
  BY <1>4, LineReadKeeps DEF IInv
<1>6. /\ pg_current' = b /\ line_mode' = FALSE
      /\ frames' = Append(LineRead, [galaxy |-> b, lines |-> 0, line_mode |-> line_mode, inner |-> TRUE])
  BY <1>2 DEF GalaxyWithFile, Called
<1>7. Nest(frames', pparent', Used', b) /\ Modes(frames', FALSE) /\ frames' # <<>>
  <2>1. b \in Blocks /\ b \in Used'
    BY <1>4
  <2> QED
    BY <1>4, <1>5, <1>6, <2>1, NestCall
<1>8. Nest(frames, pparent, Used, pg_current)' /\ Modes(frames, line_mode)'
  BY <1>6, <1>7
<1>9. Placed' /\ Chosen'
  BY <1>4, <1>6, <1>7 DEF Placed, Chosen, Waiting, Loading
<1> QED
  BY <1>4, <1>8, <1>9 DEF IInv

(* What leaves the pointers and the names alone leaves a tree. *)
LEMMA TreeSame ==
    ASSUME IInv, UNCHANGED <<type, pparent, pchild, pfsibling, pbsibling, name>>
    PROVE  /\ Used' = Used /\ TreeTypeOK' /\ Linked' /\ Named' /\ NamesUnique'
           /\ type'[universe] = "UTYPE" /\ Path(pparent', type', pg_current)
<1>1. Used' = Used /\ Inside' = Inside
  BY DEF Used, Inside
<1>2. TreeTypeOK'
  BY DEF IInv, TreeTypeOK
<1>3. Linked'
  <2>1. ParentsFit' /\ NeighboursFit'
    BY <1>1 DEF IInv, Linked, ParentsFit, NeighboursFit
  <2>2. OneCircle'
    BY <1>1 DEF IInv, Linked, OneCircle
  <2>3. NoLoop' /\ FreedClean'
    BY <1>1 DEF IInv, Linked, NoLoop, Under, FreedClean
  <2> QED
    BY <2>1, <2>2, <2>3 DEF Linked
<1>4. Named' /\ NamesUnique'
  BY <1>1 DEF IInv, Named, NamesUnique
<1>5. type'[universe] = "UTYPE" /\ Path(pparent', type', pg_current)
  BY DEF IInv, Placed
<1> QED
  BY <1>1, <1>2, <1>3, <1>4, <1>5

(* A line for a new block, whatever comes of it. *)
LEMMA CreateInv ==
    ASSUME IInv, NEW l, ~BadName(l.name), Create(l)
    PROVE  IInv'
<1>1. ~NameTaken(l.name)
  BY DEF BadName
<1>2. CASE ~HeapHolds
  <2>1. /\ UNCHANGED <<type, pparent, pchild, pfsibling, pbsibling, name>>
        /\ UNCHANGED <<pg_current, pb_current, line_mode, frames>> /\ exited' = TRUE
    BY <1>2 DEF Create, ErrorAlloc, tree, labels, place
  <2>2. Used' = Used /\ TreeTypeOK' /\ Linked' /\ Named' /\ NamesUnique' /\ Placed'
    BY <2>1, TreeSame DEF IInv, Placed
  <2>3. Chosen'
    BY <2>1 DEF Chosen, Waiting
  <2> QED
    BY <2>1, <2>2, <2>3 DEF IInv
<1>3. CASE HeapHolds /\ l.model \in StarModels
  <2>1. LineStar(l)
    BY <1>3 DEF Create
  <2> QED
    BY <1>1, <1>3, <2>1, NewBlockInv DEF LineStar
<1>4. CASE HeapHolds /\ l.model \notin StarModels /\ ~Opens(l.model)
  <2>1. GalaxyWithoutFile(l)
    BY <1>4 DEF Create, LineGalaxy
  <2> QED
    BY <1>1, <1>4, <2>1, NewBlockInv DEF GalaxyWithoutFile
<1>5. CASE HeapHolds /\ l.model \notin StarModels /\ Opens(l.model)
  <2>1. GalaxyWithFile(l)
    BY <1>5 DEF Create, LineGalaxy
  <2> QED
    BY <1>1, <1>5, <2>1, GalaxyWithFileInv
<1> QED
  BY <1>2, <1>3, <1>4, <1>5

(* A line that is refused. *)
LEMMA RefuseInv ==
    ASSUME IInv, Refuse
    PROVE  IInv'
<1>1. /\ UNCHANGED <<type, pparent, pchild, pfsibling, pbsibling, name>>
      /\ UNCHANGED <<pg_current, pb_current, line_mode, exited>> /\ frames' = LineRead
  BY DEF Refuse, tree, labels, place
<1>2. Used' = Used /\ TreeTypeOK' /\ Linked' /\ Named' /\ NamesUnique' /\ Placed'
  BY <1>1, TreeSame DEF IInv, Placed
<1>3. /\ Nest(LineRead, pparent, Used, pg_current) /\ Modes(LineRead, line_mode)
      /\ LineRead = <<>> <=> frames = <<>>
  BY LineReadKeeps DEF IInv
<1>4. Nest(frames, pparent, Used, pg_current)' /\ Modes(frames, line_mode)'
  BY <1>1, <1>2, <1>3
<1>5. Chosen'
  BY <1>1, <1>2, <1>3 DEF IInv, Chosen, Waiting, Loading
<1> QED
  BY <1>2, <1>4, <1>5 DEF IInv

-----------------------------------------------------------------------------
(* A galaxy that is emptied, and what comes back from a file.              *)

(* RemoveChildren on a galaxy around which all are galaxies. *)
LEMMA Emptied ==
    ASSUME IInv, NEW g \in Used, NEW t, Galaxy(t), g = universe => t = "UTYPE",
           RemoveChildren(g, t),
           \A x \in Blocks : g \in Under(x) => Galaxy(type[x])
    PROVE  /\ TreeTypeOK' /\ Linked'
           /\ Used' = Used \ Under(g) /\ g \notin Under(g)
           /\ \A x \in Blocks \ Under(g) : pparent'[x] = pparent[x]
           /\ pchild'[g] = NULL
           /\ \A x \in Blocks \ (Under(g) \cup {g}) : pchild'[x] = pchild[x]
           /\ type'[universe] = "UTYPE"
           /\ Path(pparent', type', g)
           /\ \A y \in Blocks : Below(pparent', y) = Under(y) \ Under(g)
<1>1. TreeTypeOK /\ Linked /\ t \in {"UTYPE", "GTYPE"} /\ g \in Blocks /\ type[universe] = "UTYPE"
  BY DEF IInv, Galaxy, Used, Placed
<1>2. TreeTypeOK' /\ Linked'
  BY <1>1, RemoveChildrenFrame, RemoveChildrenLinked
<1>3. /\ Used' = Used \ Under(g)
      /\ type'[g] = t /\ \A x \in Blocks \ (Under(g) \cup {g}) : type'[x] = type[x]
      /\ \A x \in Blocks \ Under(g) : pparent'[x] = pparent[x]
      /\ pchild'[g] = NULL
      /\ \A x \in Blocks \ (Under(g) \cup {g}) : pchild'[x] = pchild[x]
      /\ \A y \in Blocks : Below(pparent', y) = Under(y) \ Under(g)
  BY <1>1, RemoveChildrenFrame
<1>4. g \notin Under(g) /\ universe \notin Under(g)
  BY <1>1, UnderInside
<1>5. type'[universe] = "UTYPE"
  BY <1>1, <1>3, <1>4, TreeAssumption
<1>6. Path(pparent', type', g)
  <2> SUFFICES ASSUME NEW x \in Blocks, x = g \/ g \in Below(pparent', x)
               PROVE  Galaxy(type'[x])
    BY DEF Path
  <2>1. CASE x = g
    BY <1>3, <2>1
  <2>2. CASE x # g
    <3>1. g \in Under(x) /\ Galaxy(type[x])
      BY <1>3, <2>2
    <3>2. x \notin Under(g)
      BY <1>4, <3>1, BelowTransitive DEF Under
    <3> QED
      BY <1>3, <2>2, <3>1, <3>2
  <2> QED
    BY <2>1, <2>2
<1> QED
  BY <1>2, <1>3, <1>4, <1>5, <1>6

(* What is freed takes its name along. *)
LEMMA NamesOfTheRest ==
    ASSUME IInv, name' = Kept(name, NULL), TreeTypeOK', Used' \subseteq Used,
           \A x \in Used' : pparent'[x] = pparent[x]
    PROVE  Named' /\ NamesUnique'
<1>1. Named'
  BY DEF Named, Kept
<1>2. Inside' \subseteq Inside /\ \A x \in Inside' : pparent'[x] = pparent[x]
  BY DEF Inside
<1>3. \A x \in Inside' : name'[x] = name[x]
  BY DEF Kept, Inside, Used
<1> QED
  BY <1>1, <1>2, <1>3, NamesKept DEF IInv

(* LineLoad returns to a tree that is in order, with the first block of    *)
(* its galaxy.                                                             *)
LEMMA ReturnInv ==
    ASSUME IInv, Loading, TreeTypeOK', Linked', Named', NamesUnique',
           type'[universe] = "UTYPE", Path(pparent', type', pg_current),
           Nest(frames, pparent', Used', pg_current),
           pparent'[pg_current] = pparent[pg_current],
           NEW failed, NEW block, block = pchild'[pg_current], Return(failed, block)
    PROVE  IInv'
<1>1. frames # <<>> /\ Modes(frames, line_mode) /\ pg_current = Top.galaxy
  BY DEF IInv, Loading, Nest, Top
<1>2. Len(frames) \in 1..Len(frames) /\ Len(frames) \in Nat
  BY <1>1 DEF Nest
<1>3. pg_current \in Used' /\ pg_current \in Blocks /\ (Top.inner => pg_current # universe)
  BY <1>1, <1>2 DEF Nest, Top, Used
<1>4. /\ frames' = SubSeq(frames, 1, Len(frames) - 1)
      /\ pg_current' = (IF Top.inner THEN pparent'[Top.galaxy] ELSE pg_current)
      /\ line_mode' = (IF Top.inner THEN Top.line_mode ELSE line_mode)
      /\ pb_current' = (IF Top.inner THEN pg_current ELSE block)
  BY <1>1 DEF Return
<1>5. Nest(frames', pparent', Used', pg_current') /\ Modes(frames', line_mode')
  <2>1. /\ Top.inner => /\ Nest(frames', pparent', Used', pparent'[Top.galaxy])
                        /\ Modes(frames', Top.line_mode)
        /\ ~Top.inner => Nest(frames', pparent', Used', pg_current) /\ Modes(frames', line_mode)
    <3>1. frames' = SubSeq(frames, 1, Len(frames) - 1)
      BY <1>4
    <3> QED
      BY <1>1, <3>1, FramesReturn
  <2> QED
    BY <1>4, <2>1
<1>6. Nest(frames, pparent, Used, pg_current)' /\ Modes(frames, line_mode)'
  BY <1>5
<1>7. CASE Top.inner
  <2>1. pg_current \in Inside'
    BY <1>3, <1>7 DEF Inside
  <2>2. pg_current' = pparent'[pg_current] /\ pg_current' \in Used' /\ pchild'[pg_current'] # NULL
    BY <1>1, <1>4, <1>7, <2>1 DEF Linked, ParentsFit
  <2>3. Path(pparent', type', pg_current')
    <3> SUFFICES ASSUME NEW x \in Blocks, x = pg_current' \/ pg_current' \in Below(pparent', x)
                 PROVE  Galaxy(type'[x])
      BY DEF Path
    <3>1. pg_current \in Below(pparent', x)
      BY <1>3, <2>2, BelowClosed
    <3> QED
      BY <3>1 DEF Path
  <2>4. Placed'
    BY <2>2, <2>3 DEF Placed
  <2>5. Chosen'
    BY <1>3, <1>4, <1>7, <2>2, TreeAssumption DEF Chosen
  <2> QED
    BY <1>6, <2>4, <2>5 DEF IInv
<1>8. CASE ~Top.inner
  <2>1. pg_current' = pg_current /\ pb_current' = pchild'[pg_current]
    BY <1>4, <1>8
  <2>2. Placed'
    BY <1>3, <2>1 DEF Placed
  <2>3. Chosen'
    BY <1>3, <2>1 DEF Chosen, Linked, ParentsFit, Inside
  <2> QED
    BY <1>6, <2>2, <2>3 DEF IInv
<1> QED
  BY <1>7, <1>8

(* A file in error: its galaxy is emptied. *)
LEMMA FileFailedInv ==
    ASSUME IInv, Loading, FileFailed
    PROVE  IInv'
<1>1. RemoveChildren(pg_current, type[pg_current]) /\ name' = Kept(name, NULL) /\ Return(TRUE, NULL)
  BY DEF FileFailed, LabelsKept
<1>2. /\ pg_current \in Used /\ pg_current \in Blocks /\ Galaxy(type[pg_current])
      /\ pg_current = universe => type[pg_current] = "UTYPE"
      /\ \A x \in Blocks : pg_current \in Under(x) => Galaxy(type[x])
  BY DEF IInv, Placed, Path, Under, Used
<1>3. /\ TreeTypeOK' /\ Linked'
      /\ Used' = Used \ Under(pg_current) /\ pg_current \notin Under(pg_current)
      /\ \A x \in Blocks \ Under(pg_current) : pparent'[x] = pparent[x]
      /\ pchild'[pg_current] = NULL
      /\ type'[universe] = "UTYPE"
      /\ Path(pparent', type', pg_current)
      /\ \A y \in Blocks : Below(pparent', y) = Under(y) \ Under(pg_current)
  BY <1>1, <1>2, Emptied
<1>4. Named' /\ NamesUnique'
  BY <1>1, <1>3, NamesOfTheRest DEF Used
<1>5. Nest(frames, pparent', Used', pg_current)
  <2> DEFINE kept == {x \in Used \ Under(pg_current) : TRUE}
  <2>1. ASSUME NEW i \in 1..Len(frames) PROVE frames[i].galaxy \in kept
    <3>1. frames[i].galaxy \in Used
      BY DEF IInv, Nest
    <3>2. pg_current = frames[i].galaxy \/ pg_current \in Below(pparent, frames[i].galaxy)
      BY NestAround DEF IInv
    <3>3. frames[i].galaxy \notin Under(pg_current)
      BY <1>3, <3>2, BelowTransitive DEF Under
    <3> QED
      BY <3>1, <3>3
  <2>2. kept \subseteq Used' /\ \A x \in kept : pparent'[x] = pparent[x]
    BY <1>3 DEF Used
  <2>3. \A x, y \in kept : x \in Below(pparent, y) => x \in Below(pparent', y)
    BY <1>3 DEF Under, Used
  <2>4. Nest(frames, pparent, Used, pg_current)
    BY DEF IInv
  <2> QED
    BY <2>1, <2>2, <2>3, <2>4, NestKept
<1> QED
  BY <1>1, <1>2, <1>3, <1>4, <1>5, ReturnInv

(* A file that has been read. *)
LEMMA EndOfFileInv ==
    ASSUME IInv, Loading, EndOfFile
    PROVE  IInv'
<1>1. PICK refused \in BOOLEAN : Return(refused, pchild[pg_current])
  BY DEF EndOfFile
<1>2. UNCHANGED <<type, pparent, pchild, pfsibling, pbsibling, name>>
  BY DEF EndOfFile, tree, labels
<1>3. /\ Used' = Used /\ TreeTypeOK' /\ Linked' /\ Named' /\ NamesUnique'
      /\ type'[universe] = "UTYPE" /\ Path(pparent', type', pg_current)
  BY <1>2, TreeSame
<1>4. Nest(frames, pparent', Used', pg_current)
  BY <1>2, <1>3 DEF IInv
<1> QED
  BY <1>1, <1>2, <1>3, <1>4, ReturnInv

-----------------------------------------------------------------------------
(* Commands, given when no file is being read.                             *)

(* The current block is in the current galaxy, which stays when it goes.   *)
LEMMA CurrentBlock ==
    ASSUME IInv, Waiting, pb_current # NULL
    PROVE  /\ pb_current \in Inside /\ pb_current \in Used /\ pb_current \in Blocks
           /\ pparent[pb_current] = pg_current
           /\ pb_current \notin {pg_current} \cup Under(pb_current)
           /\ pg_current \notin Under(pb_current)
<1>1. pb_current \in Used /\ pparent[pb_current] = pg_current /\ pg_current \in Blocks
  BY DEF IInv, Chosen, Placed, Used
<1>2. pb_current \in Inside
  BY <1>1, TreeAssumption DEF IInv, Linked, ParentsFit, Inside
<1>3. pg_current \notin {pb_current} \cup Under(pb_current)
  BY <1>1, <1>2, BlockPlace DEF IInv
<1> QED
  BY <1>1, <1>2, <1>3, UnderInside DEF IInv, Used

(* No file is being read. *)
LEMMA NoFrames ==
    ASSUME IInv, Waiting
    PROVE  /\ frames = <<>> /\ line_mode = TRUE
           /\ \A p, u, pg : Nest(frames, p, u, pg)
<1>1. frames = <<>> /\ Len(frames) = 0
  BY DEF Waiting, Loading
<1>2. line_mode = TRUE
  <2>1. line_mode \in BOOLEAN /\ line_mode
    BY <1>1 DEF IInv, Modes, ModeOf
  <2> QED
    BY <2>1
<1>3. \A p, u, pg : Nest(frames, p, u, pg)
  BY <1>1 DEF Nest
<1> QED
  BY <1>1, <1>2, <1>3

(* replace and its like: a block gets another type or name, none moves. *)
LEMMA ReplaceByStarInv ==
    ASSUME IInv, Waiting, pb_current # NULL,
           NEW t \in {"GTYPE", "STYPE"}, type' = [type EXCEPT ![pb_current] = t],
           UNCHANGED <<pparent, pchild, pfsibling, pbsibling, place, frames, exited>>,
           NEW n, ~NameTaken(n), name' = [Kept(name, NULL) EXCEPT ![pb_current] = n]
    PROVE  IInv'
<1>1. /\ pb_current \in Inside /\ pb_current \in Used /\ pb_current \in Blocks
      /\ pparent[pb_current] = pg_current
      /\ pb_current \notin {pg_current} \cup Under(pb_current)
      /\ pg_current \notin Under(pb_current)
  BY CurrentBlock
<1>2. /\ type' \in [Blocks -> BlockTypes] /\ type'[pb_current] = t
      /\ \A x \in Blocks \ {pb_current} : type'[x] = type[x]
  BY <1>1 DEF IInv, TreeTypeOK, BlockTypes
<1>3. Used' = Used /\ Inside' = Inside
  BY <1>1, <1>2 DEF Used, Inside
<1>4. TreeTypeOK'
  BY <1>2 DEF IInv, TreeTypeOK
<1>5. Linked'
  BY <1>3 DEF IInv, Linked, ParentsFit, NeighboursFit, OneCircle, NoLoop, Under, FreedClean
<1>6. Named' /\ name'[pb_current] = n /\ \A x \in Used : x # pb_current => name'[x] = name[x]
  BY <1>1, <1>3 DEF Named, Kept, Used
<1>7. NamesUnique'
  <2>1. Inside \subseteq Blocks /\ Inside' \subseteq Inside \cup {pb_current} /\ Inside \subseteq Used
    BY <1>3 DEF Inside, Used
  <2>2. /\ \A x \in Inside' : x # pb_current => pparent'[x] = pparent[x] /\ name'[x] = name[x]
        /\ name'[pb_current] = n /\ pparent'[pb_current] = pg_current
    BY <1>1, <1>3, <1>6, <2>1
  <2> QED
    BY <2>1, <2>2, NameGiven DEF IInv
<1>8. Placed'
  <2>1. type'[universe] = "UTYPE"
    BY <1>1, <1>2, TreeAssumption DEF IInv, Placed, Inside
  <2>2. Path(pparent', type', pg_current)
    BY <1>1, <1>2 DEF IInv, Placed, Path, Under
  <2> QED
    BY <1>3, <2>1, <2>2 DEF IInv, Placed, place
<1>9. Chosen'
  BY <1>3 DEF IInv, Chosen, Waiting, Loading, place
<1>10. Nest(frames, pparent, Used, pg_current)' /\ Modes(frames, line_mode)'
  BY <1>3 DEF IInv, place
<1> QED
  BY <1>4, <1>5, <1>6, <1>7, <1>8, <1>9, <1>10 DEF IInv

(* A galaxy that is loaded by a command: at once the only file being read. *)
LEMMA CalledNest ==
    ASSUME NEW p, NEW u, NEW b \in Blocks, b \in u, NEW inner \in BOOLEAN,
           inner => b # universe,
           NEW r, r = [galaxy |-> b, lines |-> 0, line_mode |-> TRUE, inner |-> inner],
           NEW mode, mode = ~inner
    PROVE  Nest(<<r>>, p, u, b) /\ Modes(<<r>>, mode) /\ <<r>> # <<>>
<1>1. r \in Frame /\ r.galaxy = b /\ r.inner = inner /\ r.line_mode = TRUE
  BY DEF Frame
<1>2. <<r>> \in Seq(Frame) /\ Len(<<r>>) = 1 /\ <<r>>[1] = r /\ <<r>> # <<>>
  BY <1>1
<1>3. \A i \in 1..Len(<<r>>) : i = 1
  BY <1>2
<1>4. Nest(<<r>>, p, u, b)
  BY <1>1, <1>2, <1>3 DEF Nest
<1>5. Modes(<<r>>, mode)
  <2>1. ModeOf(<<r>>, 1) <=> ~inner
    BY <1>1, <1>2 DEF ModeOf
  <2>2. ModeOf(<<r>>, 1 - 1)
    BY DEF ModeOf
  <2> QED
    BY <1>1, <1>2, <1>3, <2>1, <2>2 DEF Modes
<1> QED
  BY <1>2, <1>4, <1>5

(* replace, by a star or by a galaxy. *)
LEMMA LineReplaceInv ==
    ASSUME IInv, NEW l, LineReplace(l)
    PROVE  IInv'
<1>1. Waiting /\ pb_current # NULL /\ ~NameTaken(l.name) /\ exited' = exited
  BY DEF LineReplace, Command, BadName
<1>2. name' = [Kept(name, NULL) EXCEPT ![pb_current] = l.name]
  BY DEF LineReplace
<1>3. /\ pb_current \in Inside /\ pb_current \in Used /\ pb_current \in Blocks
      /\ pparent[pb_current] = pg_current
      /\ pb_current \notin {pg_current} \cup Under(pb_current)
      /\ pg_current \notin Under(pb_current)
  BY <1>1, CurrentBlock
<1>4. CASE ReplaceByStar(l)
  BY <1>1, <1>2, <1>4, ReplaceByStarInv DEF ReplaceByStar
<1>5. CASE ReplaceByGalaxy(l) /\ files[l.model] = NoFile
  BY <1>1, <1>2, <1>5, ReplaceByStarInv DEF ReplaceByGalaxy
<1>6. CASE ReplaceByGalaxy(l) /\ files[l.model] # NoFile
  <2>1. /\ RemoveChildren(pb_current, "GTYPE") /\ pg_current' = pb_current
        /\ line_mode' = FALSE /\ frames' = <<Called(pb_current, TRUE)>>
    BY <1>6 DEF ReplaceByGalaxy
  <2>2. \A x \in Blocks : pb_current \in Under(x) => Galaxy(type[x])
    <3> SUFFICES ASSUME NEW x \in Blocks, pb_current \in Under(x) PROVE Galaxy(type[x])
      OBVIOUS
    <3>1. pg_current = x \/ pg_current \in Under(x)
      BY <1>3, BelowParent DEF Under
    <3> QED
      BY <3>1 DEF IInv, Placed, Path, Under
  <2>3. pb_current # universe
    BY <1>3 DEF Inside
  <2>4. /\ TreeTypeOK' /\ Linked'
        /\ Used' = Used \ Under(pb_current) /\ pb_current \notin Under(pb_current)
        /\ \A x \in Blocks \ Under(pb_current) : pparent'[x] = pparent[x]
        /\ type'[universe] = "UTYPE"
        /\ Path(pparent', type', pb_current)
    BY <1>3, <2>1, <2>2, <2>3, Emptied DEF Galaxy
  <2>5. Named' /\ name'[pb_current] = l.name /\ \A x \in Used' : x # pb_current => name'[x] = name[x]
    BY <1>2, <1>3 DEF Named, Kept, Used
  <2>6. NamesUnique'
    <3>1. Inside \subseteq Blocks /\ Inside' \subseteq Inside \cup {pb_current} /\ Inside' \subseteq Used'
      BY <2>4 DEF Inside, Used
    <3>2. /\ \A x \in Inside' : x # pb_current => pparent'[x] = pparent[x] /\ name'[x] = name[x]
          /\ name'[pb_current] = l.name /\ pparent'[pb_current] = pg_current
      BY <1>3, <2>4, <2>5, <3>1 DEF Used
    <3> QED
      BY <1>1, <3>1, <3>2, NameGiven DEF IInv
  <2>7. Nest(frames', pparent', Used', pb_current) /\ Modes(frames', FALSE) /\ frames' # <<>>
    <3>1. line_mode = TRUE /\ pb_current \in Used'
      BY <1>1, <1>3, <2>4, NoFrames
    <3>2. Called(pb_current, TRUE) = [galaxy |-> pb_current, lines |-> 0, line_mode |-> TRUE, inner |-> TRUE]
      BY <3>1 DEF Called
    <3>3. FALSE = ~TRUE /\ TRUE \in BOOLEAN
      OBVIOUS
    <3> QED
      BY <1>3, <2>1, <2>3, <3>1, <3>2, <3>3, CalledNest
  <2>8. Nest(frames, pparent, Used, pg_current)' /\ Modes(frames, line_mode)'
    BY <2>1, <2>7
  <2>9. Placed' /\ Chosen'
    BY <1>3, <2>1, <2>4, <2>7 DEF Placed, Chosen, Waiting, Loading
  <2> QED
    BY <2>4, <2>5, <2>6, <2>8, <2>9 DEF IInv
<1> QED
  BY <1>4, <1>5, <1>6 DEF LineReplace

(* remove and delete. *)
LEMMA RemoveInv ==
    ASSUME IInv, L_remove
    PROVE  IInv'
<1> DEFINE b == pb_current
           gone == {b} \cup Under(b)
           next == pfsibling[b]
<1>1. /\ Waiting /\ b # NULL /\ RemoveBlock(b) /\ name' = Kept(name, NULL)
      /\ pb_current' = (IF pchild'[pg_current] = NULL THEN NULL ELSE next)
      /\ UNCHANGED <<pg_current, line_mode, frames, exited>>
  BY DEF L_remove, Command
<1>2. TreeTypeOK /\ Linked
  BY DEF IInv
<1>3. /\ b \in Inside /\ b \in Used /\ b \in Blocks
      /\ pparent[b] = pg_current /\ pg_current \notin gone
  BY <1>1, CurrentBlock
<1>4. /\ TreeTypeOK'
      /\ Used' = Used \ gone /\ Inside' = Inside \ gone
      /\ \A x \in Blocks \ gone : pparent'[x] = pparent[x] /\ type'[x] = type[x]
      /\ pchild'[pg_current] = IF pchild[pg_current] # b THEN pchild[pg_current]
                               ELSE IF next = b THEN NULL ELSE next
      /\ \A y \in Blocks : Below(pparent', y) = Under(y) \ gone
  BY <1>1, <1>2, <1>3, RemoveBlockFrame
<1>5. Linked'
  BY <1>1, <1>2, <1>3, RemoveBlockLinked
<1>6. /\ next \in Inside /\ pparent[next] = pg_current /\ next \notin Under(b)
      /\ next = b => \A x \in Inside : pparent[x] = pg_current => x = b
  BY <1>2, <1>3, BlockPlace
<1>7. Named' /\ NamesUnique'
  <2>1. Used' \subseteq Used /\ \A x \in Used' : pparent'[x] = pparent[x]
    BY <1>4 DEF Used
  <2> QED
    BY <1>1, <1>4, <2>1, NamesOfTheRest
<1>8. pg_current \in Used /\ pg_current \in Blocks /\ type[universe] = "UTYPE"
      /\ Path(pparent, type, pg_current)
  BY DEF IInv, Placed, Used
<1>9. Placed'
  <2>1. universe \notin gone
    BY <1>2, <1>3, UnderInside DEF Inside
  <2>2. type'[universe] = "UTYPE"
    BY <1>4, <1>8, <2>1, TreeAssumption
  <2>3. Path(pparent', type', pg_current)
    <3> SUFFICES ASSUME NEW x \in Blocks, x = pg_current \/ pg_current \in Below(pparent', x)
                 PROVE  Galaxy(type'[x])
      BY DEF Path
    <3>1. x = pg_current \/ pg_current \in Under(x)
      BY <1>4
    <3>2. Galaxy(type[x])
      BY <1>8, <3>1 DEF Path, Under
    <3>3. x \notin gone
      BY <1>3, <3>1, BelowTransitive DEF Under
    <3> QED
      BY <1>4, <3>2, <3>3
  <2> QED
    BY <1>1, <1>3, <1>4, <1>8, <2>2, <2>3 DEF Placed
<1>10. Chosen'
  <2>1. CASE pchild'[pg_current] = NULL
    BY <1>1, <2>1 DEF Chosen
  <2>2. CASE pchild'[pg_current] # NULL
    <3>1. next # b
      <4>1. ASSUME next = b PROVE pchild[pg_current] = b
        <5>1. pchild[pg_current] # NULL
          BY <1>2, <1>3 DEF Linked, ParentsFit
        <5>2. pchild[pg_current] \in Inside /\ pparent[pchild[pg_current]] = pg_current
          BY <1>2, <1>8, <5>1 DEF Linked, ParentsFit
        <5> QED
          BY <1>6, <4>1, <5>2
      <4> QED
        BY <1>4, <2>2, <4>1
    <3>2. next \in Used' /\ next \in Blocks /\ pparent'[next] = pg_current
      BY <1>4, <1>6, <3>1 DEF Inside, Used
    <3> QED
      BY <1>1, <2>2, <3>2, TreeAssumption DEF Chosen
  <2> QED
    BY <2>1, <2>2
<1>11. Nest(frames, pparent, Used, pg_current)' /\ Modes(frames, line_mode)'
  <2>1. Nest(frames, pparent', Used', pg_current)
    BY <1>1, NoFrames
  <2> QED
    BY <1>1, <2>1 DEF IInv
<1> QED
  BY <1>4, <1>5, <1>7, <1>9, <1>10, <1>11 DEF IInv

(* The commands that leave the tree, the place and the names alone. *)
LEMMA NothingMoves ==
    ASSUME IInv, UNCHANGED <<tree, place, frames, exited>>, Named', NamesUnique'
    PROVE  IInv'
<1>1. /\ UNCHANGED <<type, pparent, pchild, pfsibling, pbsibling>>
      /\ UNCHANGED <<pg_current, pb_current, line_mode, frames, exited>>
  BY DEF tree, place
<1>2. Used' = Used /\ TreeTypeOK' /\ Linked' /\ Placed'
  BY <1>1 DEF IInv, Used, Inside, TreeTypeOK, Linked, ParentsFit, NeighboursFit, OneCircle,
              NoLoop, Under, FreedClean, Placed
<1>3. Nest(frames, pparent, Used, pg_current)' /\ Modes(frames, line_mode)'
  BY <1>1, <1>2 DEF IInv
<1>4. Chosen'
  BY <1>1, <1>2 DEF IInv, Chosen, Waiting, Loading
<1> QED
  BY <1>2, <1>3, <1>4 DEF IInv

(* rename. *)
LEMMA RenameInv ==
    ASSUME IInv, NEW n, L_rename(n)
    PROVE  IInv'
<1>1. /\ Waiting /\ pb_current # NULL /\ ~NameTaken(n)
      /\ name' = [name EXCEPT ![pb_current] = n]
      /\ UNCHANGED <<tree, place, frames, exited>>
  BY DEF L_rename, Command
<1>2. pb_current \in Blocks /\ pparent[pb_current] = pg_current
  BY <1>1, CurrentBlock
<1>3. UNCHANGED <<type, pparent>> /\ Inside' = Inside /\ Inside \subseteq Blocks
  BY <1>1 DEF tree, Inside, Used
<1>4. Named' /\ name'[pb_current] = n /\ \A x \in Blocks : x # pb_current => name'[x] = name[x]
  BY <1>1, <1>2 DEF IInv, Named
<1>5. NamesUnique'
  BY <1>1, <1>2, <1>3, <1>4, NameGiven DEF IInv
<1> QED
  BY <1>1, <1>4, <1>5, NothingMoves

(* store, and a step that changes nothing. *)
LEMMA StoreInv ==
    ASSUME IInv, UNCHANGED <<tree, name, place, frames, exited>>
    PROVE  IInv'
<1>1. Named' /\ NamesUnique'
  BY DEF IInv, Named, NamesUnique, Used, tree
<1> QED
  BY <1>1, NothingMoves

(* new and load empty the current galaxy; load then reads a file. *)
LEMMA EmptiedInv ==
    ASSUME IInv, Waiting, RemoveChildren(pg_current, type[pg_current]),
           name' = Kept(name, NULL), UNCHANGED <<pg_current, line_mode, exited>>,
           (frames' = <<>> /\ pb_current' = NULL) \/ frames' = <<Called(pg_current, FALSE)>>
    PROVE  IInv'
<1>1. /\ pg_current \in Used /\ pg_current \in Blocks /\ Galaxy(type[pg_current])
      /\ pg_current = universe => type[pg_current] = "UTYPE"
      /\ \A x \in Blocks : pg_current \in Under(x) => Galaxy(type[x])
  BY DEF IInv, Placed, Path, Under, Used
<1>2. /\ TreeTypeOK' /\ Linked'
      /\ Used' = Used \ Under(pg_current) /\ pg_current \notin Under(pg_current)
      /\ \A x \in Blocks \ Under(pg_current) : pparent'[x] = pparent[x]
      /\ pchild'[pg_current] = NULL
      /\ type'[universe] = "UTYPE"
      /\ Path(pparent', type', pg_current)
  BY <1>1, Emptied
<1>3. Named' /\ NamesUnique'
  BY <1>2, NamesOfTheRest DEF Used
<1>4. Placed'
  BY <1>1, <1>2 DEF Placed
<1>5. line_mode = TRUE /\ frames = <<>> /\ Nest(<<>>, pparent', Used', pg_current)
  BY NoFrames
<1>6. CASE frames' = <<>> /\ pb_current' = NULL
  <2>1. Chosen'
    BY <1>2, <1>6 DEF Chosen
  <2>2. Nest(frames, pparent, Used, pg_current)' /\ Modes(frames, line_mode)'
    BY <1>5, <1>6 DEF IInv
  <2> QED
    BY <1>2, <1>3, <1>4, <2>1, <2>2 DEF IInv
<1>7. CASE frames' = <<Called(pg_current, FALSE)>>
  <2>1. Called(pg_current, FALSE) = [galaxy |-> pg_current, lines |-> 0, line_mode |-> TRUE, inner |-> FALSE]
    BY <1>5 DEF Called
  <2>2. pg_current \in Used' /\ FALSE \in BOOLEAN /\ TRUE = ~FALSE
    BY <1>1, <1>2
  <2>3. Nest(frames', pparent', Used', pg_current) /\ Modes(frames', TRUE) /\ frames' # <<>>
    BY <1>1, <1>7, <2>1, <2>2, CalledNest
  <2>4. Nest(frames, pparent, Used, pg_current)' /\ Modes(frames, line_mode)'
    BY <1>5, <2>3
  <2>5. Chosen'
    BY <2>3 DEF Chosen, Waiting, Loading
  <2> QED
    BY <1>2, <1>3, <1>4, <2>4, <2>5 DEF IInv
<1> QED
  BY <1>6, <1>7

(* run, where Schedule moves a block. *)
LEMMA RunInv ==
    ASSUME IInv, NEW first \in Blocks, NEW second \in Blocks, L_run(first, second)
    PROVE  IInv'
<1>1. /\ Waiting /\ first # second /\ first \in Inside /\ second \in Inside
      /\ pparent[first] = pparent[second] /\ MoveBlock(first, second)
      /\ UNCHANGED <<name, pg_current, pb_current, line_mode, frames, exited>>
  BY DEF L_run, Command, labels, place, Inside
<1>2. /\ TreeTypeOK' /\ type' = type /\ pparent' = pparent
      /\ \A x \in Blocks : \/ pchild'[x] = pchild[x]
                           \/ (x = pparent[first] /\ pchild[x] = first /\ pchild'[x] = second)
  BY <1>1, MoveBlockFrame DEF IInv
<1>3. Linked'
  BY <1>1, MoveBlockLinked DEF IInv
<1>4. Used' = Used /\ Inside' = Inside
  BY <1>2 DEF Used, Inside
<1>5. Named' /\ NamesUnique'
  BY <1>1, <1>2, <1>4 DEF IInv, Named, NamesUnique
<1>6. Placed' /\ pg_current \in Blocks
  BY <1>1, <1>2, <1>4 DEF IInv, Placed, Used
<1>7. Nest(frames, pparent, Used, pg_current)' /\ Modes(frames, line_mode)'
  BY <1>1, <1>2, <1>4 DEF IInv
<1>8. Chosen'
  <2>1. pchild'[pg_current] = NULL <=> pchild[pg_current] = NULL
    BY <1>1, <1>2, <1>6, TreeAssumption
  <2> QED
    BY <1>1, <1>2, <1>4, <2>1 DEF IInv, Chosen, Waiting, Loading
<1> QED
  BY <1>2, <1>3, <1>5, <1>6, <1>7, <1>8 DEF IInv

(* down, up, to, forward and back. *)
LEMMA MoveInv ==
    ASSUME IInv, Move
    PROVE  IInv'
<1>1. /\ Waiting /\ UNCHANGED <<type, pparent, pchild, pfsibling, pbsibling, name>>
      /\ UNCHANGED <<line_mode, frames, exited>>
  BY DEF Move, tree, labels
<1>2. Used' = Used /\ TreeTypeOK' /\ Linked' /\ Named' /\ NamesUnique'
  BY <1>1, TreeSame
<1>3. /\ pg_current \in Used /\ pg_current \in Blocks /\ type[universe] = "UTYPE"
      /\ Linked /\ Path(pparent, type, pg_current) /\ Chosen
  BY DEF IInv, Placed, Used
<1>4. Nest(frames, pparent, Used, pg_current)' /\ Modes(frames, line_mode)'
  <2>1. Nest(frames, pparent', Used', pg_current')
    BY <1>1, NoFrames
  <2> QED
    BY <1>1, <2>1 DEF IInv
<1>5. SUFFICES /\ pg_current' \in Used /\ Path(pparent, type, pg_current')
               /\ pb_current' = NULL <=> pchild[pg_current'] = NULL
               /\ pb_current' # NULL => pb_current' \in Used /\ pparent[pb_current'] = pg_current'
  BY <1>1, <1>2, <1>3, <1>4 DEF IInv, Placed, Chosen
<1>6. CASE L_down
  <2>1. /\ pb_current # NULL /\ Galaxy(type[pb_current])
        /\ pg_current' = pb_current /\ pb_current' = pchild[pb_current]
    BY <1>6 DEF L_down, Galaxy
  <2>2. pb_current \in Used /\ pb_current \in Blocks /\ pparent[pb_current] = pg_current
    BY <1>1, <2>1, CurrentBlock
  <2>3. Path(pparent, type, pb_current)
    <3> SUFFICES ASSUME NEW x \in Blocks, x = pb_current \/ pb_current \in Below(pparent, x)
                 PROVE  Galaxy(type[x])
      BY DEF Path
    <3>1. CASE x = pb_current
      BY <2>1, <3>1
    <3>2. CASE pb_current \in Below(pparent, x)
      <4>1. x = pg_current \/ pg_current \in Below(pparent, x)
        BY <2>2, <3>2, BelowParent
      <4> QED
        BY <1>3, <4>1 DEF Path
    <3> QED
      BY <3>1, <3>2
  <2>4. pchild[pb_current] # NULL => /\ pchild[pb_current] \in Used
                                     /\ pparent[pchild[pb_current]] = pb_current
    BY <1>3, <2>2 DEF Linked, ParentsFit, Inside
  <2> QED
    BY <2>1, <2>2, <2>3, <2>4
<1>7. CASE L_up
  <2>1. type[pg_current] # "UTYPE" /\ pb_current' = pg_current /\ pg_current' = pparent[pg_current]
    BY <1>7 DEF L_up
  <2>2. pg_current \in Inside
    BY <1>3, <2>1 DEF Inside
  <2>3. pparent[pg_current] \in Used /\ pchild[pparent[pg_current]] # NULL
    BY <1>3, <2>2 DEF Linked, ParentsFit
  <2>4. Path(pparent, type, pparent[pg_current])
    <3> SUFFICES ASSUME NEW x \in Blocks,
                        x = pparent[pg_current] \/ pparent[pg_current] \in Below(pparent, x)
                 PROVE  Galaxy(type[x])
      BY DEF Path
    <3>1. pg_current \in Below(pparent, x)
      BY <1>3, BelowClosed
    <3> QED
      BY <1>3, <3>1 DEF Path
  <2> QED
    BY <1>3, <2>1, <2>3, <2>4, TreeAssumption
<1>8. CASE ToTop
  <2>1. /\ pg_current' = universe
        /\ pb_current' \in Blocks /\ pparent[pb_current'] = universe
    BY <1>8 DEF ToTop
  <2>2. universe \in Used /\ universe \in Blocks /\ NULL \notin Blocks /\ pparent[universe] = NULL
    BY <1>3, TreeAssumption DEF Linked, ParentsFit
  <2>3. pb_current' \in Inside
    BY <1>3, <2>1, <2>2 DEF Linked, FreedClean, Inside
  <2>4. pchild[universe] # NULL
    BY <1>3, <2>1, <2>3 DEF Linked, ParentsFit
  <2>5. Path(pparent, type, universe)
    <3> SUFFICES ASSUME NEW x \in Blocks, x = universe \/ universe \in Below(pparent, x)
                 PROVE  Galaxy(type[x])
      BY DEF Path
    <3>1. CASE x = universe
      BY <1>3, <3>1 DEF Galaxy
    <3>2. CASE universe \in Below(pparent, x)
      <4>1. pparent[universe] \notin Below(pparent, x) \cup {x}
        BY <2>2 DEF Below
      <4> QED
        BY <3>2, <4>1, BelowParent
    <3> QED
      BY <3>1, <3>2
  <2> QED
    BY <2>1, <2>2, <2>3, <2>4, <2>5 DEF Inside
<1>9. CASE ToSibling
  <2>1. /\ pb_current # NULL /\ pg_current' = pg_current
        /\ pb_current' \in Blocks /\ pparent[pb_current'] = pparent[pb_current]
    BY <1>9 DEF ToSibling
  <2>2. pparent[pb_current'] = pg_current /\ pchild[pg_current] # NULL
    BY <1>1, <1>3, <2>1 DEF Chosen
  <2>3. pb_current' \in Used /\ pb_current' # NULL
    BY <1>3, <2>1, <2>2, TreeAssumption DEF Linked, FreedClean
  <2> QED
    BY <1>3, <2>1, <2>2, <2>3
<1> QED
  BY <1>6, <1>7, <1>8, <1>9 DEF Move
-----------------------------------------------------------------------------
(* All of them.                                                            *)

(* The universe alone is a tree. *)
LEMMA UniverseLinked ==
    ASSUME CreateUniverse
    PROVE  TreeTypeOK /\ Linked /\ Used = {universe} /\ Inside = {} /\ type[universe] = "UTYPE"
<1>1. universe \in Blocks /\ NULL \notin Blocks
  BY TreeAssumption
<1>2. TreeTypeOK
  BY <1>1 DEF CreateUniverse, TreeTypeOK, Pointer, BlockTypes
<1>3. type[universe] = "UTYPE" /\ Used = {universe} /\ Inside = {}
  BY <1>1 DEF CreateUniverse, Used, Inside
<1>4. \A x \in Blocks : pparent[x] = NULL /\ pchild[x] = NULL
  BY DEF CreateUniverse
<1>5. ParentsFit /\ NeighboursFit /\ OneCircle
  BY <1>1, <1>3, <1>4 DEF ParentsFit, NeighboursFit, OneCircle, CreateUniverse
<1>6. NoLoop
  <2> SUFFICES ASSUME NEW g \in Blocks PROVE g \notin Below(pparent, g)
    BY DEF NoLoop, Under
  <2>1. pparent[g] \notin Below(pparent, g) \cup {g}
    BY <1>1, <1>4 DEF Below
  <2> QED
    BY <2>1, BelowParent
<1>7. FreedClean
  BY <1>3, <1>4 DEF FreedClean, CreateUniverse
<1> QED
  BY <1>2, <1>3, <1>5, <1>6, <1>7 DEF Linked

(* The invariant holds at the start. *)
LEMMA InitInv == Init => IInv
<1> SUFFICES ASSUME Init PROVE IInv
  OBVIOUS
<1>1. /\ CreateUniverse /\ name = [b \in Blocks |-> NULL]
      /\ pg_current = universe /\ pb_current = NULL /\ line_mode = TRUE /\ frames = <<>>
  BY DEF Init
<1>2. /\ TreeTypeOK /\ Linked /\ Used = {universe} /\ Inside = {} /\ type[universe] = "UTYPE"
      /\ universe \in Blocks /\ \A x \in Blocks : pparent[x] = NULL /\ pchild[x] = NULL
  BY <1>1, UniverseLinked, TreeAssumption DEF CreateUniverse
<1>3. Named /\ NamesUnique
  BY <1>1, <1>2 DEF Named, NamesUnique, Inside
<1>4. Path(pparent, type, universe)
  <2> SUFFICES ASSUME NEW x \in Blocks, x = universe \/ universe \in Below(pparent, x)
               PROVE  Galaxy(type[x])
    BY DEF Path
  <2>1. CASE x = universe
    BY <1>2, <2>1 DEF Galaxy
  <2>2. CASE universe \in Below(pparent, x)
    <3>1. pparent[universe] \notin Below(pparent, x) \cup {x}
      BY <1>2, TreeAssumption DEF Below
    <3> QED
      BY <2>2, <3>1, BelowParent
  <2> QED
    BY <2>1, <2>2
<1>5. Placed /\ Chosen
  BY <1>1, <1>2, <1>4 DEF Placed, Chosen
<1>6. Nest(frames, pparent, Used, pg_current) /\ Modes(frames, line_mode)
  <2>1. Len(frames) = 0 /\ frames \in Seq(Frame)
    BY <1>1
  <2> QED
    BY <1>1, <2>1 DEF Nest, Modes, ModeOf
<1> QED
  BY <1>2, <1>3, <1>5, <1>6 DEF IInv

(* Every step keeps it. *)
LEMMA NextInv == IInv /\ [Next]_vars => IInv'
<1> SUFFICES ASSUME IInv, [Next]_vars PROVE IInv'
  OBVIOUS
<1>1. ASSUME NEW l, L_block(l) PROVE IInv'
  BY <1>1, CreateInv DEF L_block, Refused
<1>2. ASSUME NEW l, LineReplace(l) PROVE IInv'
  BY <1>2, LineReplaceInv
<1>3. CASE L_remove
  BY <1>3, RemoveInv
<1>4. CASE L_new
  <2>1. /\ Waiting /\ RemoveChildren(pg_current, type[pg_current]) /\ name' = Kept(name, NULL)
        /\ UNCHANGED <<pg_current, line_mode, exited>> /\ pb_current' = NULL /\ frames' = frames
    BY <1>4 DEF L_new, Command
  <2> QED
    BY <2>1, NoFrames, EmptiedInv
<1>5. ASSUME NEW n, L_rename(n) PROVE IInv'
  BY <1>5, RenameInv
<1>6. ASSUME NEW m, NEW named, LineStore(m, named) PROVE IInv'
  BY <1>6, StoreInv DEF LineStore
<1>7. ASSUME NEW m, NEW named, L_load(m, named) PROVE IInv'
  BY <1>7, EmptiedInv DEF L_load, Command, place
<1>8. ASSUME NEW first \in Blocks, NEW second \in Blocks, L_run(first, second) PROVE IInv'
  BY <1>8, RunInv
<1>9. CASE Move
  BY <1>9, MoveInv
<1>10. CASE LoadStep
  <2>1. CASE ReadLine
    <3>1. PICK l : Execute(l)
      BY <2>1 DEF ReadLine
    <3>2. CASE Refused(l)
      BY <3>1, <3>2, RefuseInv DEF Execute
    <3>3. CASE ~Refused(l)
      BY <3>1, <3>3, CreateInv DEF Execute, Refused
    <3> QED
      BY <3>2, <3>3
  <2>2. CASE EndOfFile
    BY <1>10, <2>2, EndOfFileInv DEF LoadStep
  <2>3. CASE FileFailed
    BY <1>10, <2>3, FileFailedInv DEF LoadStep
  <2> QED
    BY <1>10, <2>1, <2>2, <2>3 DEF LoadStep
<1>11. CASE UNCHANGED vars
  BY <1>11, StoreInv DEF vars, labels
<1> QED
  BY <1>1, <1>2, <1>3, <1>4, <1>5, <1>6, <1>7, <1>8, <1>9, <1>10, <1>11 DEF Next

(* Whatever the commands and the files, the pointers of krn_block.c form a *)
(* tree, before, during and after a load: Linked.                          *)
THEOREM TreeStaysLinked == Spec => []Linked
<1>1. IInv => Linked
  BY DEF IInv
<1> QED
  BY <1>1, InitInv, NextInv, PTL DEF Spec

(* FindBlock has at most one block to find: NamesUnique.                   *)
THEOREM NamesStayUnique == Spec => []NamesUnique
<1>1. IInv => NamesUnique
  BY DEF IInv
<1> QED
  BY <1>1, InitInv, NextInv, PTL DEF Spec

-----------------------------------------------------------------------------
(* The current block while files are being read.                           *)

(* It is a block, or no line has made one yet. *)
CurrentLives == Loading => pb_current \in Used \/ NothingMade

(* A new block: it is the current one, or the current one stays. *)
LEMMA NewBlockLives ==
    ASSUME IInv, HeapHolds, NEW l, ~NameTaken(l.name), NEW t \in {"GTYPE", "STYPE"},
           NewBlock(l, t)
    PROVE  Fresh \in Used' /\ Used \subseteq Used'
<1>1. PICK b \in Blocks \ Used : b = Fresh
  BY FreshUnused DEF IInv
<1>2. CreateBlock(pg_current, b, t) /\ name' = [name EXCEPT ![b] = l.name]
  BY <1>1 DEF NewBlock
<1> QED
  BY <1>1, <1>2, Created

(* A line, of a file or given by the user. *)
LEMMA CreateLives ==
    ASSUME IInv, CurrentLives, NEW l, ~BadName(l.name), Create(l), ~error \/ Waiting
    PROVE  CurrentLives'
<1>1. ~NameTaken(l.name)
  BY DEF BadName
<1>2. CASE ~HeapHolds
  <2>1. UNCHANGED <<type, pb_current, frames, error>>
    BY <1>2 DEF Create, ErrorAlloc, tree, place
  <2> QED
    BY <2>1 DEF CurrentLives, Loading, NothingMade, Top, Used
<1>3. CASE HeapHolds /\ (LineStar(l) \/ GalaxyWithoutFile(l))
  <2>1. Fresh \in Used' /\ pb_current' = Fresh
    BY <1>1, <1>3, NewBlockLives DEF LineStar, GalaxyWithoutFile
  <2> QED
    BY <2>1 DEF CurrentLives
<1>4. CASE HeapHolds /\ GalaxyWithFile(l)
  <2>1. Used \subseteq Used' /\ pb_current' = pb_current
    BY <1>1, <1>4, NewBlockLives DEF GalaxyWithFile
  <2>2. PICK r \in Frame : frames' = Append(LineRead, r) /\ r.lines = 0
    <3>1. Fresh \in Blocks /\ line_mode \in BOOLEAN
      BY <1>4, FreshUnused DEF IInv, Modes
    <3>2. Called(Fresh, TRUE) \in Frame /\ Called(Fresh, TRUE).lines = 0
      BY <3>1 DEF Called, Frame
    <3> QED
      BY <1>4, <3>2 DEF GalaxyWithFile
  <2>3. CASE Loading /\ pb_current \in Used
    BY <2>1, <2>3 DEF CurrentLives
  <2>4. CASE Loading /\ pb_current \notin Used
    <3>1. /\ \A i \in 1..Len(frames) : frames[i].lines <= 1
          /\ frames[Len(frames)].lines # 1
      BY <2>4 DEF CurrentLives, NothingMade, Top, Waiting
    <3>2. /\ Len(frames) \in Nat /\ 1 <= Len(frames)
          /\ \A i \in 1..Len(frames) : frames[i].lines \in Nat
          /\ LineRead \in Seq(Frame) /\ Len(LineRead) = Len(frames)
          /\ \A i \in 1..(Len(frames) - 1) : LineRead[i].lines = frames[i].lines
          /\ LineRead[Len(frames)].lines = frames[Len(frames)].lines + 1
      BY <2>4, FramesApart, LineReadIs
    <3>3. \A i \in 1..Len(LineRead) : LineRead[i].lines <= 1
      BY <3>1, <3>2
    <3>4. /\ Len(frames') = Len(LineRead) + 1
          /\ \A i \in 1..Len(LineRead) : frames'[i] = LineRead[i]
          /\ frames'[Len(LineRead) + 1] = r
      BY <2>2, <3>2, AppendProperties
    <3>5. \A i \in 1..Len(frames') : i \in 1..Len(LineRead) \/ i = Len(LineRead) + 1
      BY <3>2, <3>4
    <3>6. \A i \in 1..Len(frames') : frames'[i].lines <= 1
      BY <2>2, <3>3, <3>4, <3>5
    <3>7. frames'[Len(frames')].lines = 0
      BY <2>2, <3>4
    <3> QED
      BY <3>6, <3>7 DEF CurrentLives, NothingMade, Top
  <2>5. CASE ~Loading
    <3>1. LineRead = <<>>
      BY <2>5 DEF LineRead
    <3>2. frames' = <<r>>
      BY <2>2, <3>1
    <3>3. Len(frames') = 1 /\ frames'[1] = r
      BY <3>2
    <3> QED
      BY <2>2, <3>3 DEF CurrentLives, NothingMade, Top
  <2> QED
    BY <2>3, <2>4, <2>5
<1> QED
  BY <1>2, <1>3, <1>4 DEF Create, LineGalaxy

(* A line of a file that is refused: the file is in error. *)
LEMMA RefuseLives ==
    ASSUME IInv, CurrentLives, Loading, ~error, Refuse
    PROVE  CurrentLives'
<1>1. UNCHANGED <<type, pb_current>> /\ frames' = LineRead /\ error'
  BY DEF Refuse, tree, place
<1>2. CASE pb_current \in Used
  BY <1>1, <1>2 DEF CurrentLives, Used
<1>3. CASE pb_current \notin Used
  <2>1. /\ \A i \in 1..Len(frames) : frames[i].lines <= 1
        /\ frames[Len(frames)].lines # 1
    BY <1>3 DEF CurrentLives, NothingMade, Top
  <2>2. /\ Len(frames) \in Nat /\ 1 <= Len(frames)
        /\ \A i \in 1..Len(frames) : frames[i].lines \in Nat
        /\ Len(LineRead) = Len(frames)
        /\ \A i \in 1..(Len(frames) - 1) : LineRead[i].lines = frames[i].lines
        /\ LineRead[Len(frames)].lines = frames[Len(frames)].lines + 1
    BY FramesApart, LineReadIs
  <2>3. \A i \in 1..Len(LineRead) : LineRead[i].lines <= 1
    BY <2>1, <2>2
  <2> QED
    BY <1>1, <2>3 DEF CurrentLives, NothingMade
<1> QED
  BY <1>2, <1>3

(* The reader of a file goes on with the galaxy it has called LineLoad     *)
(* for, which is there.                                                    *)
LEMMA ReturnLives ==
    ASSUME IInv, Loading, pg_current \in Used', NEW failed, NEW block, Return(failed, block)
    PROVE  CurrentLives'
<1>1. /\ Len(frames) \in Nat /\ 1 <= Len(frames) /\ frames \in Seq(Frame)
      /\ pg_current = Top.galaxy
  BY FramesApart DEF Top
<1>2. frames' = SubSeq(frames, 1, Len(frames) - 1)
  BY DEF Return
<1>3. CASE Len(frames) = 1
  <2>1. frames' = <<>>
    BY <1>1, <1>2, <1>3
  <2> QED
    BY <2>1 DEF CurrentLives, Loading
<1>4. CASE Len(frames) # 1
  <2>1. Top.inner
    <3>1. Len(frames) \in 2..Len(frames)
      <4>1. PICK n \in Nat : n = Len(frames)
        BY <1>1
      <4>2. 1 <= n /\ n # 1
        BY <1>1, <1>4, <4>1
      <4>3. n \in 2..n
        BY <4>2
      <4> QED
        BY <4>1, <4>3
    <3>2. \A i \in 2..Len(frames) : frames[i].inner
      BY DEF IInv, Nest
    <3> QED
      BY <3>1, <3>2 DEF Top
  <2>2. pb_current' = pg_current
    BY <1>1, <2>1 DEF Return
  <2> QED
    BY <2>2 DEF CurrentLives
<1> QED
  BY <1>3, <1>4

(* A step of a load. *)
LEMMA LoadStepLives ==
    ASSUME IInv, CurrentLives, LoadStep
    PROVE  CurrentLives'
<1>1. Loading
  BY DEF LoadStep
<1>2. CASE ReadLine
  <2>1. PICK l : Execute(l)
    BY <1>2 DEF ReadLine
  <2>2. ~error
    BY <1>2 DEF ReadLine
  <2>3. CASE Refused(l)
    BY <1>1, <2>1, <2>2, <2>3, RefuseLives DEF Execute
  <2>4. CASE ~Refused(l)
    BY <2>1, <2>2, <2>4, CreateLives DEF Execute, Refused
  <2> QED
    BY <2>3, <2>4
<1>3. CASE EndOfFile
  <2>1. PICK refused : Return(refused, pchild[pg_current])
    BY <1>3 DEF EndOfFile
  <2>2. pg_current \in Used'
    BY <1>3 DEF EndOfFile, tree, Used, IInv, Placed
  <2> QED
    BY <1>1, <2>1, <2>2, ReturnLives
<1>4. CASE FileFailed
  <2>1. RemoveChildren(pg_current, type[pg_current]) /\ Return(TRUE, NULL)
    BY <1>4 DEF FileFailed
  <2>2. /\ pg_current \in Used /\ Galaxy(type[pg_current])
        /\ pg_current = universe => type[pg_current] = "UTYPE"
        /\ \A x \in Blocks : pg_current \in Under(x) => Galaxy(type[x])
    BY DEF IInv, Placed, Path, Under, Used
  <2>3. Used' = Used \ Under(pg_current) /\ pg_current \notin Under(pg_current)
    BY <2>1, <2>2, Emptied
  <2> QED
    BY <1>1, <2>1, <2>2, <2>3, ReturnLives
<1> QED
  BY <1>2, <1>3, <1>4 DEF LoadStep

(* Every step keeps it. *)
LEMMA NextLives == IInv /\ CurrentLives /\ [Next]_vars => CurrentLives'
<1> SUFFICES ASSUME IInv, CurrentLives, [Next]_vars PROVE CurrentLives'
  OBVIOUS
<1>1. ASSUME Waiting, frames' = frames PROVE CurrentLives'
  BY <1>1 DEF CurrentLives, Waiting, Loading
<1>2. ASSUME NEW g, NEW inner, frames' = <<Called(g, inner)>> PROVE CurrentLives'
  BY <1>2 DEF CurrentLives, NothingMade, Top, Called
<1>3. ASSUME NEW l, L_block(l) PROVE CurrentLives'
  BY <1>3, CreateLives DEF L_block, Command, Refused
<1>4. ASSUME NEW l, LineReplace(l) PROVE CurrentLives'
  BY <1>1, <1>2, <1>4 DEF LineReplace, Command, ReplaceByStar, ReplaceByGalaxy
<1>5. ASSUME NEW m, NEW named, L_load(m, named) PROVE CurrentLives'
  BY <1>2, <1>5 DEF L_load
<1>6. CASE UNCHANGED vars
  BY <1>6 DEF vars, tree, place, CurrentLives, Loading, NothingMade, Top, Used
<1> QED
  BY <1>1, <1>3, <1>4, <1>5, <1>6, LoadStepLives
     DEF Next, Command, L_remove, L_new, L_rename, LineStore, L_run, Move

(* Every command finds a current galaxy, and a current block in it unless  *)
(* there is none, in the mode of the user; a load, which may free the      *)
(* current block, has a block again as soon as a line has made one:        *)
(* Selected.                                                               *)
THEOREM AlwaysSelected == Spec => []Selected
<1>1. IInv /\ CurrentLives => Selected
  <2> SUFFICES ASSUME IInv, Waiting
               PROVE  /\ type[pg_current] \in {"UTYPE", "GTYPE"}
                      /\ pb_current = NULL <=> pchild[pg_current] = NULL
                      /\ pb_current # NULL => pb_current \in Used /\ pparent[pb_current] = pg_current
                      /\ line_mode
    BY DEF Selected, CurrentLives
  <2>1. line_mode
    BY NoFrames
  <2>2. type[pg_current] \in {"UTYPE", "GTYPE"}
    BY DEF IInv, Placed, Path, Galaxy, Used
  <2> QED
    BY <2>1, <2>2 DEF IInv, Chosen
<1>2. Init => CurrentLives
  BY DEF Init, CurrentLives, Loading
<1> QED
  BY <1>1, <1>2, InitInv, NextInv, NextLives, PTL DEF Spec

-----------------------------------------------------------------------------
(* Numbers.                                                                *)

(* A set of numbers has a least one. *)
LEMMA LeastOf ==
    ASSUME NEW S \in SUBSET Nat, S # {}
    PROVE  \E x \in S : \A y \in S : x <= y
<1>1. IsWellFoundedOn({ss \in Nat \X Nat : ss[1] < ss[2]}, Nat)
  BY NatLessThanWellFounded DEF OpToRel
<1>2. PICK x \in S : \A y \in S : ~(<<y, x>> \in {ss \in Nat \X Nat : ss[1] < ss[2]})
  BY <1>1, WFMin
<1>3. \A y \in S : x <= y
  <2> SUFFICES ASSUME NEW y \in S PROVE x <= y
    OBVIOUS
  <2>1. <<y, x>> \in Nat \X Nat => ~(y < x)
    BY <1>2
  <2> QED
    BY <2>1
<1> QED
  BY <1>3

(* Induction up to N, as a fact about a set of numbers. *)
LEMMA UpTo ==
    ASSUME NEW N \in Nat, NEW T, 0 \in T, \A n \in 0..(N - 1) : n \in T => n + 1 \in T
    PROVE  0..N \subseteq T
<1> SUFFICES ASSUME ~(0..N \subseteq T) PROVE FALSE
  OBVIOUS
<1>1. PICK m \in (0..N) \ T : \A k \in (0..N) \ T : m <= k
  <2>1. (0..N) \ T \in SUBSET Nat /\ (0..N) \ T # {}
    OBVIOUS
  <2> QED
    BY <2>1, LeastOf
<1>2. m - 1 \in 0..(N - 1) /\ m - 1 \in T
  BY <1>1
<1> QED
  BY <1>1, <1>2

-----------------------------------------------------------------------------
(* The walk through a circular list.                                       *)

(* The sequence s has, from the first on, each time the next, and no block *)
(* twice; it is a ring when the first follows on the last.                 *)
Row(s, first, next) ==
    /\ s \in Seq(Blocks)
    /\ Len(s) \in Nat /\ 1 <= Len(s)
    /\ s[1] = first
    /\ \A i \in 1..Len(s) : i < Len(s) => s[i + 1] = next[s[i]]
    /\ \A i, j \in 1..Len(s) : s[i] = s[j] => i = j

Ring(s, first, next) == Row(s, first, next) /\ next[s[Len(s)]] = first

(* There are no more blocks in it than there are. *)
LEMMA NotLonger ==
    ASSUME NEW s, NEW first, NEW next, Row(s, first, next)
    PROVE  Cardinality(Blocks) \in Nat /\ Len(s) <= Cardinality(Blocks)
<1>1. IsFiniteSet(Blocks) /\ s \in Seq(Blocks) /\ Len(s) \in Nat
      /\ \A i, j \in 1..Len(s) : s[i] = s[j] => i = j
  BY TreeAssumption DEF Row
<1>2. Cardinality(Blocks) \in Nat
  BY <1>1, FS_CardinalityType
<1>3. s \in [1..Len(s) -> Blocks]
  BY <1>1
<1>4. IsFiniteSet(1..Len(s)) /\ Cardinality(1..Len(s)) = Len(s)
  <2>1. /\ IsFiniteSet(1..Len(s))
        /\ Cardinality(1..Len(s)) = IF 1 > Len(s) THEN 0 ELSE Len(s) - 1 + 1
    BY <1>1, FS_Interval
  <2>2. 1 > Len(s) => Len(s) = 0
    BY <1>1
  <2> QED
    BY <1>1, <2>1, <2>2
<1>5. ASSUME Cardinality(Blocks) < Len(s) PROVE FALSE
  <2>1. \E i, j \in 1..Len(s) : i # j /\ s[i] = s[j]
    BY <1>1, <1>3, <1>4, <1>5, FS_PigeonHole
  <2> QED
    BY <1>1, <2>1
<1> QED
  BY <1>1, <1>2, <1>5

(* The walk up to n is defined by recursion; by induction there is one. *)
Walks(w, first, next, n) ==
    w = [k \in 0..n |-> IF k = 0 THEN <<first>> ELSE Further(w[k - 1], next)]

Walked(w, first, next) ==
    /\ Walk(first, next) = w[Cardinality(Blocks)]
    /\ w[0] = <<first>>
    /\ \A k \in 1..Cardinality(Blocks) : w[k] = Further(w[k - 1], next)

(* The walk is the last of the steps of a function that makes them. *)
LEMMA WalkRuns ==
    ASSUME NEW first, NEW next
    PROVE  \E w : Walked(w, first, next)
<1> DEFINE N == Cardinality(Blocks)
           T == {n \in 0..N : \E w : Walks(w, first, next, n)}
<1>0. N \in Nat
  BY TreeAssumption, FS_CardinalityType
<1>1. 0 \in T
  <2>1. Walks([k \in 0..0 |-> <<first>>], first, next, 0)
    BY DEF Walks
  <2> QED
    BY <1>0, <2>1
<1>2. ASSUME NEW n \in 0..(N - 1), n \in T
      PROVE  n + 1 \in T
  <2>1. PICK w : Walks(w, first, next, n)
    BY <1>2
  <2> DEFINE v == [k \in 0..(n + 1) |-> IF k <= n THEN w[k] ELSE Further(w[n], next)]
  <2>2. \A k \in 0..n : w[k] = IF k = 0 THEN <<first>> ELSE Further(w[k - 1], next)
    BY <2>1 DEF Walks
  <2>3. \A k \in 0..(n + 1) : v[k] = IF k = 0 THEN <<first>> ELSE Further(v[k - 1], next)
    <3> SUFFICES ASSUME NEW k \in 0..(n + 1)
                 PROVE  v[k] = IF k = 0 THEN <<first>> ELSE Further(v[k - 1], next)
      OBVIOUS
    <3>1. CASE k = 0
      BY <2>2, <3>1
    <3>2. CASE k \in 1..n
      <4>1. v[k] = w[k] /\ v[k - 1] = w[k - 1]
        BY <3>2
      <4> QED
        BY <2>2, <3>2, <4>1
    <3>3. CASE k = n + 1
      <4>1. v[k] = Further(w[n], next) /\ v[k - 1] = w[n] /\ k # 0
        BY <3>3
      <4> HIDE DEF v
      <4> QED
        BY <4>1
    <3> QED
      BY <3>1, <3>2, <3>3
  <2>4. v = [k \in 0..(n + 1) |-> v[k]]
    OBVIOUS
  <2>5. Walks(v, first, next, n + 1)
    <3> HIDE DEF v
    <3> QED
      BY <2>3, <2>4 DEF Walks
  <2> QED
    BY <1>0, <2>5
<1>3. \E w : Walks(w, first, next, N)
  <2> HIDE DEF T
  <2>1. 0..N \subseteq T
    BY <1>0, <1>1, <1>2, UpTo
  <2>2. N \in T
    BY <1>0, <2>1
  <2> QED
    BY <2>2 DEF T
<1> DEFINE u == CHOOSE w : Walks(w, first, next, N)
<1>4. Walks(u, first, next, N)
  BY <1>3
<1>5. Walk(first, next) = u[N]
  BY DEF Walk, Walks
<1> HIDE DEF u
<1>6. u[0] = <<first>> /\ \A k \in 1..N : u[k] = Further(u[k - 1], next)
  BY <1>0, <1>4 DEF Walks
<1> QED
  BY <1>5, <1>6 DEF Walked

(* A ring is what the walk finds. *)
LEMMA WalkIs ==
    ASSUME NEW s, NEW first, NEW next, Ring(s, first, next)
    PROVE  Walk(first, next) = s
<1> DEFINE N == Cardinality(Blocks)
           End(n) == IF n + 1 <= Len(s) THEN n + 1 ELSE Len(s)
<1>1. /\ s \in Seq(Blocks) /\ Len(s) \in Nat /\ 1 <= Len(s) /\ s[1] = first
      /\ \A i \in 1..Len(s) : i < Len(s) => s[i + 1] = next[s[i]]
      /\ \A i, j \in 1..Len(s) : s[i] = s[j] => i = j
      /\ next[s[Len(s)]] = first
  BY DEF Ring, Row
<1>2. N \in Nat /\ Len(s) <= N
  BY NotLonger DEF Ring
<1>0. PICK w : Walked(w, first, next)
  BY WalkRuns
<1>3. /\ Walk(first, next) = w[N] /\ w[0] = <<first>>
      /\ \A k \in 1..N : w[k] = Further(w[k - 1], next)
  BY <1>0 DEF Walked
<1> HIDE DEF N
<1> DEFINE T == {n \in 0..N : w[n] = SubSeq(s, 1, End(n))}
<1>4. ASSUME NEW m \in 1..Len(s)
      PROVE  /\ SubSeq(s, 1, m) \in Seq(Blocks)
             /\ Len(SubSeq(s, 1, m)) = m
             /\ \A i \in 1..m : SubSeq(s, 1, m)[i] = s[i]
  <2>1. 1 \in Int /\ m \in Int /\ \A i \in 1..m : s[i] \in Blocks
    BY <1>1
  <2>2. /\ SubSeq(s, 1, m) \in Seq(Blocks)
        /\ Len(SubSeq(s, 1, m)) = IF 1 <= m THEN m - 1 + 1 ELSE 0
        /\ \A i \in 1..(m - 1 + 1) : SubSeq(s, 1, m)[i] = s[1 + i - 1]
    BY <2>1, SubSeqProperties
  <2> QED
    BY <1>1, <2>2
<1>5. 0 \in T
  <2>1. 1 \in 1..Len(s) /\ End(0) = 1 /\ first \in Blocks
    BY <1>1
  <2>2. SubSeq(s, 1, 1) = <<first>>
    <3>1. /\ SubSeq(s, 1, 1) \in Seq(Blocks) /\ Len(SubSeq(s, 1, 1)) = 1
          /\ \A i \in 1..1 : SubSeq(s, 1, 1)[i] = s[i]
      BY <1>4, <2>1
    <3>2. <<first>> \in Seq(Blocks) /\ Len(<<first>>) = 1 /\ <<first>>[1] = first
      BY <2>1
    <3>3. \A i \in 1..1 : SubSeq(s, 1, 1)[i] = <<first>>[i]
      BY <1>1, <3>1, <3>2
    <3> HIDE DEF End
    <3> QED
      BY <3>1, <3>2, <3>3, SeqEqual
  <2>3. w[0] = SubSeq(s, 1, End(0))
    <3> HIDE DEF End
    <3> QED
      BY <1>3, <2>1, <2>2
  <2> QED
    BY <1>2, <2>3
<1>6. ASSUME NEW n \in 0..(N - 1), n \in T
      PROVE  n + 1 \in T
  <2> DEFINE m == End(n)
             v == SubSeq(s, 1, m)
  <2>1. n \in Nat /\ n + 1 \in 1..N /\ w[n] = v /\ m \in 1..Len(s)
    BY <1>1, <1>2, <1>6
  <2>2. w[n + 1] = Further(v, next)
    <3> HIDE DEF v, m, End
    <3>1. w[n + 1] = Further(w[(n + 1) - 1], next) /\ (n + 1) - 1 = n
      BY <1>3, <2>1
    <3> QED
      BY <2>1, <3>1
  <2>3. v \in Seq(Blocks) /\ Len(v) = m /\ \A i \in 1..m : v[i] = s[i]
    BY <1>4, <2>1
  <2>4. v[Len(v)] = s[m] /\ v[1] = first
    BY <1>1, <2>1, <2>3
  <2>5. CASE n + 1 < Len(s)
    <3>1. m = n + 1 /\ End(n + 1) = m + 1 /\ m + 1 \in 1..Len(s) /\ m < Len(s)
      BY <1>1, <2>1, <2>5
    <3> HIDE DEF v, m, End
    <3>2. next[v[Len(v)]] = s[m + 1]
      BY <1>1, <2>1, <2>4, <3>1
    <3>3. s[m + 1] \in Blocks /\ s[m + 1] # NULL
      BY <1>1, <3>1, TreeAssumption
    <3>4. s[m + 1] # first
      <4>1. 1 \in 1..Len(s) /\ m + 1 # 1
        BY <1>1, <2>1
      <4> QED
        BY <1>1, <3>1, <4>1
    <3>5. Further(v, next) = Append(v, s[m + 1])
      BY <2>4, <3>2, <3>3, <3>4 DEF Further
    <3>6. Append(v, s[m + 1]) = SubSeq(s, 1, m + 1)
      <4>1. /\ SubSeq(s, 1, m + 1) \in Seq(Blocks) /\ Len(SubSeq(s, 1, m + 1)) = m + 1
            /\ \A i \in 1..(m + 1) : SubSeq(s, 1, m + 1)[i] = s[i]
        BY <1>4, <3>1
      <4>2. /\ Append(v, s[m + 1]) \in Seq(Blocks) /\ Len(Append(v, s[m + 1])) = m + 1
            /\ \A i \in 1..m : Append(v, s[m + 1])[i] = v[i]
            /\ Append(v, s[m + 1])[m + 1] = s[m + 1]
        BY <2>3, <3>3, AppendProperties
      <4>3. \A i \in 1..(m + 1) : i \in 1..m \/ i = m + 1
        BY <2>1
      <4>4. \A i \in 1..(m + 1) : Append(v, s[m + 1])[i] = SubSeq(s, 1, m + 1)[i]
        BY <2>3, <4>1, <4>2, <4>3
      <4> QED
        BY <4>1, <4>2, <4>4, SeqEqual
    <3> QED
      BY <2>1, <2>2, <3>1, <3>5, <3>6
  <2>6. CASE ~(n + 1 < Len(s))
    <3>1. m = Len(s) /\ End(n + 1) = m
      BY <1>1, <2>1, <2>6
    <3> HIDE DEF v, m, End
    <3>2. next[v[Len(v)]] = v[1]
      BY <1>1, <2>4, <3>1
    <3>3. Further(v, next) = v
      BY <3>2 DEF Further
    <3> QED
      BY <2>1, <2>2, <3>1, <3>3 DEF v
  <2> QED
    BY <2>5, <2>6
<1>7. N \in T
  <2> HIDE DEF T
  <2>1. 0..N \subseteq T
    BY <1>2, <1>5, <1>6, UpTo
  <2> QED
    BY <1>2, <2>1
<1>8. End(N) = Len(s)
  BY <1>1, <1>2
<1>9. SubSeq(s, 1, Len(s)) = s
  BY <1>1, SubSeqFull
<1> QED
  BY <1>3, <1>7, <1>8, <1>9

(* From a block of a set that next leads about in and never two blocks to  *)
(* one, the walk makes a ring in the set.                                  *)
LEMMA WalkRing ==
    ASSUME NEW S \in SUBSET Blocks, NEW first \in S, NEW next, NEW prev,
           \A x \in S : next[x] \in S /\ prev[next[x]] = x
    PROVE  /\ Ring(Walk(first, next), first, next)
           /\ \A i \in 1..Len(Walk(first, next)) : Walk(first, next)[i] \in S
<1> DEFINE N == Cardinality(Blocks)
           In(s) == \A i \in 1..Len(s) : s[i] \in S
           Round(s, n) == Len(s) = n + 1 \/ next[s[Len(s)]] = first
<1>0. N \in Nat /\ NULL \notin S
  BY TreeAssumption, FS_CardinalityType
<1>a. PICK w : Walked(w, first, next)
  BY WalkRuns
<1>1. /\ Walk(first, next) = w[N] /\ w[0] = <<first>>
      /\ \A k \in 1..N : w[k] = Further(w[k - 1], next)
  BY <1>a DEF Walked
<1> DEFINE T == {n \in 0..N : Row(w[n], first, next) /\ In(w[n]) /\ Round(w[n], n)}
<1>2. 0 \in T
  <2>1. /\ <<first>> \in Seq(Blocks) /\ Len(<<first>>) = 1 /\ <<first>>[1] = first
        /\ \A i \in 1..Len(<<first>>) : i = 1
    OBVIOUS
  <2>2. Row(<<first>>, first, next) /\ In(<<first>>) /\ Round(<<first>>, 0)
    BY <2>1 DEF Row
  <2> QED
    BY <1>0, <1>1, <2>2
<1>3. ASSUME NEW n \in 0..(N - 1), n \in T
      PROVE  n + 1 \in T
  <2>1. n + 1 \in 0..N /\ n + 1 \in 1..N /\ (n + 1) - 1 = n /\ n \in Nat
    BY <1>0
  <2>2. PICK s : s = w[n]
    OBVIOUS
  <2>3. w[n + 1] = Further(s, next) /\ Row(s, first, next) /\ In(s) /\ Round(s, n)
    BY <1>1, <1>3, <2>1, <2>2
  <2>4. /\ s \in Seq(Blocks) /\ Len(s) \in Nat /\ 1 <= Len(s) /\ s[1] = first
        /\ \A i \in 1..Len(s) : i < Len(s) => s[i + 1] = next[s[i]]
        /\ \A i, j \in 1..Len(s) : s[i] = s[j] => i = j
        /\ Len(s) \in 1..Len(s)
    BY <2>3 DEF Row
  <2>5. PICK on : on = next[s[Len(s)]]
    OBVIOUS
  <2>6. on \in S /\ prev[on] = s[Len(s)]
    BY <2>3, <2>4, <2>5
  <2>7. CASE on = first
    <3>1. Further(s, next) = s
      BY <2>4, <2>5, <2>7 DEF Further
    <3>2. Round(s, n + 1)
      BY <2>5, <2>7
    <3> QED
      BY <2>1, <2>3, <3>1, <3>2
  <2>8. CASE on # first
    <3>1. Further(s, next) = Append(s, on)
      BY <1>0, <2>4, <2>5, <2>6, <2>8 DEF Further
    <3>2. PICK t : t = Append(s, on)
      OBVIOUS
    <3>3. /\ t \in Seq(Blocks) /\ Len(t) = Len(s) + 1 /\ t[Len(s) + 1] = on
          /\ \A i \in 1..Len(s) : t[i] = s[i]
      BY <2>4, <2>6, <3>2, AppendProperties
    <3>4. \A i \in 1..Len(t) : i \in 1..Len(s) \/ i = Len(s) + 1
      BY <2>4, <3>3
    <3>5. \A i \in 1..Len(s) : s[i] # on
      <4> SUFFICES ASSUME NEW i \in 1..Len(s), s[i] = on PROVE FALSE
        OBVIOUS
      <4>1. i # 1
        BY <2>4, <2>8
      <4>2. i - 1 \in 1..Len(s) /\ i - 1 < Len(s) /\ (i - 1) + 1 = i
        BY <2>4, <4>1
      <4>3. s[i] = next[s[i - 1]]
        BY <2>4, <4>2
      <4>4. s[i - 1] \in S
        BY <2>3, <4>2
      <4>5. s[i - 1] = s[Len(s)]
        BY <2>6, <4>3, <4>4
      <4> QED
        BY <2>4, <4>2, <4>5
    <3>6. Row(t, first, next)
      <4>1. t[1] = first /\ Len(t) \in Nat /\ 1 <= Len(t)
        BY <2>4, <3>3
      <4>2. ASSUME NEW i \in 1..Len(t), i < Len(t) PROVE t[i + 1] = next[t[i]]
        <5>1. i \in 1..Len(s)
          BY <2>4, <3>3, <4>2
        <5>2. CASE i = Len(s)
          BY <2>5, <3>3, <5>1, <5>2
        <5>3. CASE i # Len(s)
          <6>1. i < Len(s) /\ i + 1 \in 1..Len(s)
            BY <2>4, <5>1, <5>3
          <6> QED
            BY <2>4, <3>3, <5>1, <6>1
        <5> QED
          BY <5>2, <5>3
      <4>3. ASSUME NEW i \in 1..Len(t), NEW j \in 1..Len(t), t[i] = t[j] PROVE i = j
        BY <2>4, <3>3, <3>4, <3>5, <4>3
      <4> QED
        BY <3>3, <4>1, <4>2, <4>3 DEF Row
    <3>7. In(t) /\ Round(t, n + 1)
      <4>1. In(t)
        BY <2>3, <2>6, <3>3, <3>4
      <4>2. CASE Len(s) = n + 1
        <5>1. Len(t) = (n + 1) + 1
          BY <3>3, <4>2
        <5> QED
          BY <4>1, <5>1
      <4> QED
        BY <2>3, <2>5, <2>8, <4>1, <4>2
    <3> HIDE DEF In, Round
    <3> QED
      BY <2>1, <2>3, <3>1, <3>2, <3>6, <3>7
  <2> QED
    BY <2>7, <2>8
<1>4. N \in T
  <2> HIDE DEF T
  <2>1. 0..N \subseteq T
    BY <1>0, <1>2, <1>3, UpTo
  <2> QED
    BY <1>0, <2>1
<1>5. Row(w[N], first, next) /\ In(w[N]) /\ Round(w[N], N)
  BY <1>4
<1>6. Len(w[N]) <= N /\ Len(w[N]) \in Nat
  <2>1. PICK z : z = w[N]
    OBVIOUS
  <2>2. Row(z, first, next)
    BY <1>5, <2>1
  <2>3. Len(z) <= N
    BY <2>2, NotLonger
  <2> QED
    BY <2>1, <2>2, <2>3 DEF Row
<1> HIDE DEF N
<1>7. next[w[N][Len(w[N])]] = first
  <2>1. Len(w[N]) # N + 1
    BY <1>0, <1>6
  <2> QED
    BY <1>5, <2>1
<1> QED
  BY <1>1, <1>5, <1>7 DEF Ring, N

-----------------------------------------------------------------------------
(* The children of a galaxy.                                               *)

(* The sequence s lists the blocks of g, as the pointers have them.        *)
Lists(s, g) ==
    /\ s \in Seq(Blocks) /\ Len(s) \in Nat
    /\ pchild[g] = NULL => s = <<>>
    /\ pchild[g] # NULL => Ring(s, pchild[g], pfsibling)
    /\ \A i, j \in 1..Len(s) : s[i] = s[j] => i = j
    /\ \A i \in 1..Len(s) : pparent[s[i]] = g
    /\ \A b \in Blocks : pparent[b] = g => \E i \in 1..Len(s) : s[i] = b

(* Which blocks are in a galaxy. *)
LEMMA InsideOnly ==
    ASSUME TreeTypeOK, Linked
    PROVE  /\ \A b \in Blocks : pparent[b] \in Blocks => b \in Inside
           /\ \A b \in Blocks : pparent[b] \in Blocks => pchild[pparent[b]] # NULL
           /\ \A g \in Blocks : pchild[g] # NULL => g \in Used
           /\ \A g \in Blocks : pchild[g] # NULL => pchild[g] \in Inside /\ pparent[pchild[g]] = g
<1>1. ParentsFit /\ FreedClean /\ NULL \notin Blocks
  BY TreeAssumption DEF Linked
<1>2. ASSUME NEW b \in Blocks, pparent[b] \in Blocks PROVE b \in Inside
  <2>1. b \in Used
    BY <1>1, <1>2 DEF FreedClean
  <2>2. b # universe
    BY <1>1, <1>2 DEF ParentsFit
  <2> QED
    BY <2>1, <2>2 DEF Inside
<1>3. \A g \in Blocks : pchild[g] # NULL => g \in Used
  BY <1>1 DEF FreedClean
<1> QED
  BY <1>1, <1>2, <1>3 DEF ParentsFit

(* Children(g) lists them. *)
LEMMA ChildrenAre ==
    ASSUME TreeTypeOK, Linked, NEW g \in Blocks
    PROVE  Lists(Children(g), g)
<1>1. CASE pchild[g] = NULL
  <2>1. Children(g) = <<>>
    BY <1>1 DEF Children
  <2>2. \A b \in Blocks : pparent[b] # g
    BY <1>1, InsideOnly
  <2>3. \A i \in 1..Len(<<>>) : FALSE
    OBVIOUS
  <2> QED
    BY <1>1, <2>1, <2>2, <2>3 DEF Lists
<1>2. CASE pchild[g] # NULL
  <2> DEFINE S == {x \in Inside : pparent[x] = g}
             s == Walk(pchild[g], pfsibling)
  <2>1. S \in SUBSET Blocks /\ pchild[g] \in S
    BY <1>2, InsideOnly DEF Inside, Used
  <2>2. \A x \in S : pfsibling[x] \in S /\ pbsibling[pfsibling[x]] = x
    BY DEF Linked, NeighboursFit
  <2>3. Ring(s, pchild[g], pfsibling) /\ \A i \in 1..Len(s) : s[i] \in S
    <3> HIDE DEF S
    <3> QED
      BY <2>1, <2>2, WalkRing
  <2>4. Children(g) = s
    BY <1>2 DEF Children
  <2> HIDE DEF s
  <2>5. /\ s \in Seq(Blocks) /\ Len(s) \in Nat /\ 1 <= Len(s) /\ s[1] = pchild[g]
        /\ \A i \in 1..Len(s) : i < Len(s) => s[i + 1] = pfsibling[s[i]]
        /\ \A i, j \in 1..Len(s) : s[i] = s[j] => i = j
        /\ pfsibling[s[Len(s)]] = pchild[g]
    BY <2>3 DEF Ring, Row
  <2>6. ASSUME NEW b \in Blocks, pparent[b] = g PROVE \E i \in 1..Len(s) : s[i] = b
    <3> DEFINE R == {s[i] : i \in 1..Len(s)}
    <3>1. R \in SUBSET Blocks /\ pchild[g] \in R
      <4>1. 1 \in 1..Len(s)
        BY <2>5
      <4> QED
        BY <2>5, <4>1
    <3>2. ASSUME NEW x \in R PROVE pfsibling[x] \in R
      <4>1. PICK i \in 1..Len(s) : x = s[i]
        BY <3>2
      <4>2. CASE i = Len(s)
        BY <2>5, <3>1, <4>1, <4>2
      <4>3. CASE i # Len(s)
        <5>1. i < Len(s) /\ i + 1 \in 1..Len(s)
          BY <2>5, <4>3
        <5> QED
          BY <2>5, <4>1, <5>1
      <4> QED
        BY <4>2, <4>3
    <3>3. b \in Inside /\ pchild[g] \in Inside /\ pparent[pchild[g]] = g
      BY <1>2, <2>6, InsideOnly
    <3> HIDE DEF R
    <3>4. b \in R
      BY <2>6, <3>1, <3>2, <3>3, CircleWhole
    <3> QED
      BY <3>4 DEF R
  <2> QED
    BY <1>2, <2>3, <2>4, <2>5, <2>6 DEF Lists
<1> QED
  BY <1>1, <1>2

(* The sequence of the next state, known by its pointers. *)
LEMMA ChildrenNow ==
    ASSUME NEW g, NEW s,
           pchild'[g] = NULL => s = <<>>,
           pchild'[g] # NULL => Ring(s, pchild'[g], pfsibling')
    PROVE  Children(g)' = s
BY WalkIs DEF Children

(* A galaxy whose first child and circle are what they were. *)
LEMMA ChildrenSame ==
    ASSUME TreeTypeOK, Linked, NEW g \in Blocks, pchild'[g] = pchild[g],
           \A b \in Blocks : pparent[b] = g => pfsibling'[b] = pfsibling[b]
    PROVE  Children(g)' = Children(g)
<1> DEFINE s == Children(g)
<1>1. Lists(s, g)
  BY ChildrenAre
<1> HIDE DEF s
<1>2. ASSUME pchild[g] # NULL PROVE Ring(s, pchild'[g], pfsibling')
  <2>1. Ring(s, pchild[g], pfsibling)
    BY <1>1, <1>2 DEF Lists
  <2>2. s \in Seq(Blocks) /\ Len(s) \in Nat /\ 1 <= Len(s)
    BY <2>1 DEF Ring, Row
  <2>3. \A i \in 1..Len(s) : s[i] \in Blocks /\ pparent[s[i]] = g
    BY <1>1, <2>2 DEF Lists
  <2>4. \A i \in 1..Len(s) : pfsibling'[s[i]] = pfsibling[s[i]]
    BY <2>3
  <2>5. Len(s) \in 1..Len(s)
    BY <2>2
  <2> QED
    BY <2>1, <2>4, <2>5 DEF Ring, Row
<1>3. pchild[g] = NULL => s = <<>>
  BY <1>1 DEF Lists
<1>4. Children(g)' = s
  BY <1>2, <1>3, ChildrenNow
<1> QED
  BY <1>4 DEF s

-----------------------------------------------------------------------------
(* The tree of sequences, step by step.                                    *)
Kids == [g \in Blocks |-> Children(g)]

(* It is known by its members. *)
LEMMA KidsNow ==
    ASSUME NEW T, T = [x \in Blocks |-> T[x]], \A x \in Blocks : Children(x)' = T[x]
    PROVE  Kids' = T
<1>1. Kids' = [x \in Blocks |-> Children(x)']
  BY DEF Kids
<1> QED
  BY <1>1

(* A block is in the sequence of the galaxy it points at. *)
LEMMA Members ==
    ASSUME TreeTypeOK, Linked, NEW g \in Blocks
    PROVE  /\ Tree!Range(Kids[g]) = {b \in Blocks : pparent[b] = g}
           /\ DOMAIN Kids[g] = 1..Len(Children(g))
<1>1. Kids[g] = Children(g)
  BY DEF Kids
<1> DEFINE s == Children(g)
<1>2. Lists(s, g)
  BY ChildrenAre
<1> HIDE DEF s
<1>3. /\ s \in Seq(Blocks) /\ DOMAIN s = 1..Len(s)
      /\ \A i \in 1..Len(s) : s[i] \in Blocks /\ pparent[s[i]] = g
      /\ \A b \in Blocks : pparent[b] = g => \E i \in 1..Len(s) : s[i] = b
  BY <1>2 DEF Lists
<1>4. Tree!Range(s) = {s[i] : i \in 1..Len(s)}
  BY <1>3 DEF Tree!Range
<1>5. Tree!Range(s) = {b \in Blocks : pparent[b] = g}
  BY <1>3, <1>4
<1> QED
  BY <1>1, <1>3, <1>5 DEF s

(* What is within a block is what is under it. *)
LEMMA WithinIs ==
    ASSUME TreeTypeOK, Linked, NEW g \in Blocks
    PROVE  Tree!Within(g) = Under(g)
<1> DEFINE in == [x \in Blocks |-> Tree!Range(Kids[x])]
<1>1. \A x \in Blocks : in[x] = {b \in Blocks : pparent[b] = x}
  BY Members
<1>2. Tree!Within(g) = {b \in Blocks : \A S \in SUBSET Blocks :
                          (in[g] \subseteq S /\ \A x \in S : in[x] \subseteq S) => b \in S}
  BY DEF Tree!Within, Kids
<1> HIDE DEF in
<1>3. ASSUME NEW S \in SUBSET Blocks
      PROVE  (in[g] \subseteq S /\ \A x \in S : in[x] \subseteq S) <=> Closed(pparent, g, S)
  BY <1>1, <1>3 DEF Closed
<1> QED
  BY <1>2, <1>3 DEF Under, Below

(* A block in use is in the tree, any other is not. *)
LEMMA PlacedIs ==
    ASSUME TreeTypeOK, Linked, NEW b \in Blocks
    PROVE  Tree!Placed(b) <=> b \in Used
<1>1. \A g \in Blocks : Tree!IsIn(b, g) <=> pparent[b] = g
  <2> TAKE g \in Blocks
  <2>1. b \in Tree!Range(Kids[g]) <=> pparent[b] = g
    BY Members
  <2> QED
    BY <2>1 DEF Tree!IsIn, Kids
<1>2. Tree!Placed(b) <=> b = universe \/ pparent[b] \in Blocks
  BY <1>1 DEF Tree!Placed
<1>3. pparent[b] \in Blocks => b \in Used
  BY InsideOnly DEF Inside
<1>4. universe \in Used /\ \A x \in Inside : pparent[x] \in Used
  BY DEF Linked, ParentsFit
<1> QED
  BY <1>2, <1>3, <1>4 DEF Inside, Used

(* CreateBlock adds one. *)
LEMMA CreateAdds ==
    ASSUME TreeTypeOK, Linked, NEW g \in Used, NEW b \in Blocks \ Used,
           NEW t \in {"GTYPE", "STYPE"}, CreateBlock(g, b, t)
    PROVE  Tree!Next /\ Children(g)' = Append(Children(g), b)
           /\ \A x \in Blocks \ {g} : Children(x)' = Children(x)
<1> DEFINE s == Children(g)
<1>0. g \in Blocks /\ b \in Blocks /\ NULL \notin Blocks
  BY TreeAssumption DEF Used
<1>1. /\ b # g
      /\ pchild'[g] = (IF pchild[g] = NULL THEN b ELSE pchild[g])
      /\ \A x \in Blocks \ {g} : pchild'[x] = pchild[x]
  BY CreateBlockFrame
<1>2. Lists(s, g)
  BY <1>0, ChildrenAre
<1>3. pparent[b] \notin Blocks /\ \A x \in Blocks : pparent[x] # b
  BY <1>0, InsideOnly DEF Inside
<1> HIDE DEF s
<1>4. \A i \in 1..Len(s) : s[i] # b /\ s[i] \in Blocks
  BY <1>0, <1>2, <1>3 DEF Lists
<1>5. \A x \in Blocks \ {g} : Children(x)' = Children(x)
  <2> SUFFICES ASSUME NEW x \in Blocks \ {g}
               PROVE  Children(x)' = Children(x)
    OBVIOUS
  <2>1. \A y \in Blocks : pparent[y] = x => pfsibling'[y] = pfsibling[y]
    <3> SUFFICES ASSUME NEW y \in Blocks, pparent[y] = x PROVE pfsibling'[y] = pfsibling[y]
      OBVIOUS
    <3>1. y # b
      BY <1>3
    <3>2. CASE pchild[g] = NULL
      BY <3>1, <3>2, CreateBlockCircle
    <3>3. CASE pchild[g] # NULL
      BY <3>1, <3>3, CreateBlockCircle
    <3> QED
      BY <3>2, <3>3
  <2> QED
    BY <1>1, <2>1, ChildrenSame
<1>6. Children(g)' = Append(s, b)
  <2>1. /\ s \in Seq(Blocks) /\ Len(s) \in Nat
        /\ Append(s, b) \in Seq(Blocks) /\ Len(Append(s, b)) = Len(s) + 1
        /\ Append(s, b)[Len(s) + 1] = b
        /\ \A i \in 1..Len(s) : Append(s, b)[i] = s[i]
    BY <1>0, <1>2, AppendProperties DEF Lists
  <2>2. PICK u : u = Append(s, b)
    OBVIOUS
  <2>3. pchild'[g] # NULL
    BY <1>0, <1>1
  <2>4. CASE pchild[g] = NULL
    <3>1. s = <<>> /\ Len(s) = 0 /\ pchild'[g] = b /\ pfsibling'[b] = b
      BY <1>1, <1>2, <2>4, CreateBlockCircle DEF Lists
    <3>2. u \in Seq(Blocks) /\ Len(u) = 1 /\ u[1] = b
      BY <2>1, <2>2, <3>1
    <3>3. Ring(u, pchild'[g], pfsibling')
      BY <3>1, <3>2 DEF Ring, Row
    <3> QED
      BY <2>2, <2>3, <3>3, ChildrenNow
  <2>5. CASE pchild[g] # NULL
    <3>1. PICK first, last \in Inside :
            /\ first = pchild[g] /\ pfsibling[last] = first
            /\ pfsibling'[b] = first /\ pfsibling'[last] = b
            /\ \A x \in Blocks \ {b, last} : pfsibling'[x] = pfsibling[x]
      BY <2>5, CreateBlockCircle
    <3>2. /\ 1 <= Len(s) /\ s[1] = first
          /\ \A i \in 1..Len(s) : i < Len(s) => s[i + 1] = pfsibling[s[i]]
          /\ \A i, j \in 1..Len(s) : s[i] = s[j] => i = j
          /\ pfsibling[s[Len(s)]] = first
          /\ \A i \in 1..Len(s) : s[i] \in Inside
      <4>1. Ring(s, first, pfsibling)
        BY <1>2, <2>5, <3>1 DEF Lists
      <4>2. \A i \in 1..Len(s) : pparent[s[i]] \in Blocks
        BY <1>0, <1>2 DEF Lists
      <4> QED
        BY <1>4, <4>1, <4>2, InsideOnly DEF Ring, Row
    <3>3. last = s[Len(s)]
      <4>1. \A x \in Inside : pbsibling[pfsibling[x]] = x
        BY DEF Linked, NeighboursFit
      <4>2. Len(s) \in 1..Len(s)
        BY <2>1, <3>2
      <4> QED
        BY <3>1, <3>2, <4>1, <4>2
    <3>4. \A i \in 1..Len(u) : i \in 1..Len(s) \/ i = Len(s) + 1
      BY <2>1, <2>2
    <3>5. u \in Seq(Blocks) /\ Len(u) \in Nat /\ 1 <= Len(u) /\ u[1] = first
      BY <2>1, <2>2, <3>2
    <3>6. ASSUME NEW i \in 1..Len(u), i < Len(u) PROVE u[i + 1] = pfsibling'[u[i]]
      <4>1. i \in 1..Len(s)
        BY <2>1, <2>2, <3>6
      <4>2. CASE i = Len(s)
        BY <2>1, <2>2, <3>1, <3>3, <4>1, <4>2
      <4>3. CASE i # Len(s)
        <5>1. i < Len(s) /\ i + 1 \in 1..Len(s) /\ Len(s) \in 1..Len(s)
          BY <2>1, <4>1, <4>3
        <5>2. s[i] # last /\ s[i] # b /\ s[i] \in Blocks
          BY <1>4, <3>2, <3>3, <4>1, <4>3, <5>1
        <5> QED
          BY <2>1, <2>2, <3>1, <3>2, <4>1, <5>1, <5>2
      <4> QED
        BY <4>2, <4>3
    <3>7. ASSUME NEW i \in 1..Len(u), NEW j \in 1..Len(u), u[i] = u[j] PROVE i = j
      BY <1>4, <2>1, <2>2, <3>2, <3>4, <3>7
    <3>8. pfsibling'[u[Len(u)]] = first
      BY <2>1, <2>2, <3>1
    <3>9. Ring(u, first, pfsibling')
      BY <3>5, <3>6, <3>7, <3>8 DEF Ring, Row
    <3>10. pchild'[g] = first
      BY <1>1, <2>5, <3>1
    <3> QED
      BY <2>2, <2>3, <3>9, <3>10, ChildrenNow
  <2> QED
    BY <2>4, <2>5
<1>7. Tree!Next
  <2>1. Kids' = [Kids EXCEPT ![g] = Append(@, b)]
    <3> DEFINE T == [Kids EXCEPT ![g] = Append(@, b)]
    <3>1. T = [x \in Blocks |-> T[x]] /\ \A x \in Blocks : T[x] = IF x = g THEN Append(s, b) ELSE Children(x)
      BY <1>0 DEF Kids, s
    <3>2. \A x \in Blocks : Children(x)' = T[x]
      BY <1>5, <1>6, <3>1
    <3> HIDE DEF T
    <3>3. Kids' = T
      BY <3>1, <3>2, KidsNow
    <3> QED
      BY <3>3 DEF T
  <2>2. Tree!Add(g, b)
    BY <1>0, <2>1, PlacedIs DEF Tree!Add, Kids
  <2>3. g \in Tree!Changed
    <3>1. s \in Seq(Blocks) /\ Append(s, b) # s
      BY <1>0, <1>2 DEF Lists
    <3>2. Children(g)' # Children(g)
      BY <1>6, <3>1 DEF s
    <3> QED
      BY <1>0, <3>2 DEF Tree!Changed, Kids
  <2> QED
    BY <1>0, <2>2, <2>3 DEF Tree!Next
<1> QED
  BY <1>5, <1>6, <1>7 DEF s

(* RemoveChildren empties a galaxy and what is under it. *)
LEMMA RemoveChildrenEmpties ==
    ASSUME TreeTypeOK, Linked, NEW g \in Used, NEW t \in {"UTYPE", "GTYPE"},
           RemoveChildren(g, t)
    PROVE  /\ Tree!Next \/ Kids' = Kids
           /\ \A x \in Blocks : Children(x)' = IF x \in {g} \cup Under(g) THEN <<>>
                                               ELSE Children(x)
<1>0. g \in Blocks
  BY DEF Used
<1>1. /\ \A x \in Under(g) : pchild'[x] = NULL
      /\ \A x \in Blocks \ Under(g) : pfsibling'[x] = pfsibling[x]
      /\ pchild'[g] = NULL
      /\ \A x \in Blocks \ (Under(g) \cup {g}) : pchild'[x] = pchild[x]
  BY RemoveChildrenFrame
<1>2. \A x \in Blocks : pparent[x] \in Under(g) \cup {g} <=> x \in Under(g)
  BY UnderInside
<1>3. \A x \in {g} \cup Under(g) : Children(x)' = <<>>
  BY <1>1, ChildrenNow
<1>4. \A x \in Blocks \ ({g} \cup Under(g)) : Children(x)' = Children(x)
  <2> SUFFICES ASSUME NEW x \in Blocks \ ({g} \cup Under(g))
               PROVE  Children(x)' = Children(x)
    OBVIOUS
  <2>1. \A y \in Blocks : pparent[y] = x => pfsibling'[y] = pfsibling[y]
    BY <1>1, <1>2
  <2> QED
    BY <1>1, <2>1, ChildrenSame
<1>5. Kids' = [x \in Blocks |-> IF x \in {g} \cup Tree!Within(g) THEN <<>> ELSE Kids[x]]
  <2> DEFINE T == [x \in Blocks |-> IF x \in {g} \cup Tree!Within(g) THEN <<>> ELSE Kids[x]]
  <2>1. \A x \in Blocks : T[x] = IF x \in {g} \cup Under(g) THEN <<>> ELSE Children(x)
    BY <1>0, WithinIs DEF Kids
  <2>2. \A x \in Blocks : Children(x)' = T[x]
    BY <1>3, <1>4, <2>1
  <2>3. T = [x \in Blocks |-> T[x]]
    OBVIOUS
  <2> HIDE DEF T
  <2>4. Kids' = T
    BY <2>2, <2>3, KidsNow
  <2> QED
    BY <2>4 DEF T
<1>6. CASE Kids[g] = <<>>
  <2>1. \A x \in Blocks : pparent[x] # g
    <3>1. Lists(<<>>, g)
      BY <1>0, <1>6, ChildrenAre DEF Kids
    <3>2. \A i \in 1..Len(<<>>) : FALSE
      OBVIOUS
    <3> QED
      BY <3>1, <3>2 DEF Lists
  <2>2. Under(g) = {}
    <3>1. Closed(pparent, g, {})
      BY <2>1 DEF Closed
    <3> QED
      BY <3>1, BelowSmallest DEF Under
  <2>3. \A x \in Blocks : Children(x)' = Kids[x]
    BY <1>0, <1>3, <1>4, <1>6, <2>2 DEF Kids
  <2>4. Kids = [x \in Blocks |-> Kids[x]]
    BY DEF Kids
  <2>5. Kids' = Kids
    <3>1. Kids' = [x \in Blocks |-> Children(x)']
      BY DEF Kids
    <3> QED
      BY <2>3, <2>4, <3>1
  <2> QED
    BY <1>3, <1>4, <2>5
<1>7. CASE Kids[g] # <<>>
  <2>1. Tree!Empty(g)
    BY <1>5, <1>7 DEF Tree!Empty, Kids
  <2>2. Kids'[g] = <<>>
    BY <1>0, <1>3 DEF Kids
  <2>3. g \in Tree!Changed
    BY <1>0, <1>7, <2>2 DEF Tree!Changed, Kids
  <2>4. Tree!Next
    BY <2>1, <2>3 DEF Tree!Next
  <2> QED
    BY <1>3, <1>4, <2>4
<1> QED
  BY <1>6, <1>7

(* A sequence without its i-th place. *)
LEMMA Shortened ==
    ASSUME NEW S, NEW s \in Seq(S), NEW i \in 1..Len(s)
    PROVE  /\ Tree!RemoveAt(s, i) \in Seq(S)
           /\ Len(Tree!RemoveAt(s, i)) = Len(s) - 1
           /\ \A k \in 1..(Len(s) - 1) : Tree!RemoveAt(s, i)[k] = IF k < i THEN s[k] ELSE s[k + 1]
<1>0. Len(s) \in Nat /\ \A k \in 1..Len(s) : s[k] \in S
  OBVIOUS
<1> DEFINE n == Len(s)
           u == SubSeq(s, 1, i - 1)
           v == SubSeq(s, i + 1, n)
<1>1. u \in Seq(S) /\ Len(u) = i - 1 /\ \A k \in 1..(i - 1) : u[k] = s[k]
  <2>1. 1 \in Int /\ i - 1 \in Int /\ \A k \in 1..(i - 1) : s[k] \in S
    BY <1>0
  <2>2. /\ u \in Seq(S) /\ Len(u) = IF 1 <= i - 1 THEN (i - 1) - 1 + 1 ELSE 0
        /\ \A k \in 1..((i - 1) - 1 + 1) : u[k] = s[1 + k - 1]
    BY <2>1, SubSeqProperties
  <2> QED
    BY <2>2
<1>2. v \in Seq(S) /\ Len(v) = n - i /\ \A k \in 1..(n - i) : v[k] = s[i + k]
  <2>1. i + 1 \in Int /\ n \in Int /\ \A k \in (i + 1)..n : s[k] \in S
    BY <1>0
  <2>2. /\ v \in Seq(S) /\ Len(v) = IF i + 1 <= n THEN n - (i + 1) + 1 ELSE 0
        /\ \A k \in 1..(n - (i + 1) + 1) : v[k] = s[(i + 1) + k - 1]
    BY <2>1, SubSeqProperties
  <2> QED
    BY <1>0, <2>2
<1>3. Tree!RemoveAt(s, i) = u \o v
  BY DEF Tree!RemoveAt
<1> HIDE DEF u, v
<1>4. /\ u \o v \in Seq(S) /\ Len(u \o v) = Len(u) + Len(v)
      /\ \A k \in 1..(Len(u) + Len(v)) :
           (u \o v)[k] = IF k <= Len(u) THEN u[k] ELSE v[k - Len(u)]
  BY <1>1, <1>2, ConcatProperties
<1>5. ASSUME NEW k \in 1..(n - 1)
      PROVE  (u \o v)[k] = IF k < i THEN s[k] ELSE s[k + 1]
  <2>1. CASE k < i
    BY <1>0, <1>1, <1>2, <1>4, <2>1
  <2>2. CASE ~(k < i)
    <3>1. k - (i - 1) \in 1..(n - i) /\ i + (k - (i - 1)) = k + 1
      BY <1>0, <2>2
    <3>2. (u \o v)[k] = v[k - (i - 1)]
      BY <1>0, <1>1, <1>2, <1>4, <2>2
    <3> QED
      BY <1>2, <2>2, <3>1, <3>2
  <2> QED
    BY <2>1, <2>2
<1> QED
  BY <1>0, <1>1, <1>2, <1>3, <1>4, <1>5

(* RemoveBlock takes one out, and all under it. *)
LEMMA RemoveDrops ==
    ASSUME TreeTypeOK, Linked, NEW b \in Inside, RemoveBlock(b)
    PROVE  Tree!Next
<1> DEFINE gone == {b} \cup Under(b)
<1>1. PICK g, prev, next : g = pparent[b] /\ prev = pbsibling[b] /\ next = pfsibling[b]
  OBVIOUS
<1>2. /\ gone \subseteq Inside
      /\ \A x \in Blocks : pparent[x] \in gone => x \in gone
      /\ \A x \in Blocks \ gone :
           pfsibling'[x] = IF x = prev THEN next ELSE pfsibling[x]
      /\ \A x \in gone : pchild'[x] = NULL
      /\ \A x \in Blocks \ (gone \cup {g}) : pchild'[x] = pchild[x]
      /\ pchild'[g] = IF pchild[g] # b THEN pchild[g]
                      ELSE IF next = b THEN NULL ELSE next
  BY <1>1, RemoveBlockFrame
<1>3. /\ prev \in Inside /\ next \in Inside /\ g \in Used /\ g \notin gone /\ g \in Blocks
      /\ pparent[prev] = g /\ pparent[next] = g
      /\ pfsibling[prev] = b /\ pfsibling[b] = next /\ b \in Blocks /\ NULL \notin Blocks
  BY <1>1, BlockPlace, TreeAssumption DEF Inside, Used
<1>4. \A y \in Blocks : pparent[y] \notin gone /\ y # b => y \notin gone
  <2>1. b \in Used
    BY DEF Inside
  <2> QED
    BY <2>1, UnderInside
<1> HIDE DEF gone
<1>5. \A x \in gone : Children(x)' = <<>>
  BY <1>2, ChildrenNow
<1>6. \A x \in Blocks \ (gone \cup {g}) : Children(x)' = Children(x)
  <2> SUFFICES ASSUME NEW x \in Blocks \ (gone \cup {g})
               PROVE  Children(x)' = Children(x)
    OBVIOUS
  <2>1. \A y \in Blocks : pparent[y] = x => pfsibling'[y] = pfsibling[y]
    BY <1>1, <1>2, <1>3, <1>4
  <2> QED
    BY <1>2, <2>1, ChildrenSame
<1>7. PICK s : s = Children(g)
  OBVIOUS
<1>8. /\ s \in Seq(Blocks) /\ Len(s) \in Nat /\ 1 <= Len(s) /\ s[1] = pchild[g]
      /\ \A i \in 1..Len(s) : i < Len(s) => s[i + 1] = pfsibling[s[i]]
      /\ \A i, j \in 1..Len(s) : s[i] = s[j] => i = j
      /\ pfsibling[s[Len(s)]] = pchild[g]
      /\ \A i \in 1..Len(s) : pparent[s[i]] = g /\ s[i] \in Blocks
      /\ \E i \in 1..Len(s) : s[i] = b
  <2>1. Lists(s, g)
    BY <1>3, <1>7, ChildrenAre
  <2>2. pchild[g] # NULL
    BY <1>1, <1>3, InsideOnly
  <2> QED
    BY <1>1, <1>3, <2>1, <2>2 DEF Lists, Ring, Row
<1>9. PICK i \in 1..Len(s) : s[i] = b
  BY <1>8
<1>10. PICK t : t = Tree!RemoveAt(s, i)
  OBVIOUS
<1>11. PICK n : n = Len(s)
  OBVIOUS
<1>12. /\ t \in Seq(Blocks) /\ Len(t) = n - 1 /\ n \in Nat
       /\ \A k \in 1..(n - 1) : t[k] = IF k < i THEN s[k] ELSE s[k + 1]
  <2>1. s \in Seq(Blocks) /\ i \in 1..Len(s)
    BY <1>8
  <2>2. /\ Tree!RemoveAt(s, i) \in Seq(Blocks)
        /\ Len(Tree!RemoveAt(s, i)) = Len(s) - 1
        /\ \A k \in 1..(Len(s) - 1) :
             Tree!RemoveAt(s, i)[k] = IF k < i THEN s[k] ELSE s[k + 1]
    BY <2>1, Shortened
  <2> QED
    BY <1>8, <1>10, <1>11, <2>2
<1>13. \A k \in 1..n : k # i => s[k] \in Blocks \ gone
  BY <1>3, <1>4, <1>8, <1>9, <1>11
<1>14. /\ i < n => next = s[i + 1]
       /\ i = n => next = s[1]
       /\ 1 < i => prev = s[i - 1]
       /\ i = 1 => prev = s[n]
  <2>1. \A k \in 1..n : pfsibling[s[k]] = b => s[k] = prev
    <3>1. \A x \in Inside : pbsibling[pfsibling[x]] = x
      BY DEF Linked, NeighboursFit
    <3>2. \A k \in 1..n : s[k] \in Inside
      BY <1>3, <1>8, <1>11, InsideOnly
    <3> QED
      BY <1>1, <3>1, <3>2
  <2>2. 1 < i => i - 1 \in 1..n /\ (i - 1) + 1 = i /\ i - 1 < n
    BY <1>9, <1>11, <1>12
  <2>3. n \in 1..n
    BY <1>8, <1>11
  <2> QED
    BY <1>3, <1>8, <1>9, <1>11, <2>1, <2>2, <2>3
<1>15. Children(g)' = t
  <2>1. CASE n = 1
    <3>1. i = 1 /\ t = <<>>
      BY <1>9, <1>11, <1>12, <2>1
    <3>2. next = b /\ pchild[g] = b
      BY <1>8, <1>9, <1>11, <1>14, <2>1, <3>1
    <3> QED
      BY <1>2, <3>1, <3>2, ChildrenNow
  <2>2. CASE n # 1
    <3>1. n \in 2..n /\ Len(t) \in 1..Len(t) /\ Len(t) = n - 1 /\ n \in 1..n /\ 1 \in 1..n
          /\ 1 <= Len(t) /\ Len(t) \in Nat
      BY <1>8, <1>11, <1>12, <2>2
    <3>2. pchild'[g] = t[1] /\ t[1] \in Blocks
      <4>1. CASE i = 1
        <5>1. t[1] = s[2] /\ next = s[2] /\ 2 \in 1..n /\ b = s[1] /\ s[2] \in Blocks
          BY <1>8, <1>9, <1>11, <1>12, <1>14, <3>1, <4>1
        <5>2. next # b /\ pchild[g] = b
          BY <1>8, <1>11, <3>1, <5>1
        <5> QED
          BY <1>2, <5>1, <5>2
      <4>2. CASE i # 1
        <5>1. t[1] = s[1] /\ s[1] # b /\ s[1] \in Blocks
          BY <1>8, <1>9, <1>11, <1>12, <3>1, <4>2
        <5> QED
          BY <1>2, <1>8, <5>1
      <4> QED
        BY <4>1, <4>2
    <3>3. \A k \in 1..n : k # i =>
            pfsibling'[s[k]] = IF s[k] = prev THEN next ELSE pfsibling[s[k]]
      BY <1>2, <1>13
    <3>4. ASSUME NEW k \in 1..Len(t), k < Len(t) PROVE t[k + 1] = pfsibling'[t[k]]
      <4>0. k \in 1..n /\ k + 1 \in 1..n /\ k + 1 < n /\ k < n /\ k + 1 \in 1..(n - 1)
            /\ k \in 1..(n - 1) /\ k + 2 \in 1..n /\ (k + 1) + 1 = k + 2 /\ i \in 1..n
            /\ i \in Nat /\ k \in Nat /\ n \in Nat
        BY <1>9, <1>11, <1>12, <3>1, <3>4
      <4>1. CASE k + 1 < i
        <5>1. t[k] = s[k] /\ t[k + 1] = s[k + 1] /\ k # i /\ k # i - 1 /\ 1 < i
          BY <1>12, <4>0, <4>1
        <5>2. i - 1 \in 1..n
          BY <4>0, <5>1
        <5>3. s[k] # prev
          BY <1>8, <1>11, <1>14, <4>0, <5>1, <5>2
        <5> QED
          BY <1>8, <1>11, <3>3, <4>0, <5>1, <5>3
      <4>2. CASE k + 1 = i
        <5>1. t[k] = s[k] /\ t[k + 1] = s[k + 2] /\ k # i /\ k = i - 1 /\ 1 < i /\ i < n
          BY <1>12, <4>0, <4>2
        <5>2. s[k] = prev /\ next = s[k + 2]
          BY <1>14, <4>0, <4>2, <5>1
        <5> QED
          BY <3>3, <4>0, <5>1, <5>2
      <4>3. CASE i < k + 1
        <5>1. t[k] = s[k + 1] /\ t[k + 1] = s[k + 2] /\ k + 1 # i
          <6>1. ~(k < i) /\ ~(k + 1 < i) /\ k + 1 # i
            BY <4>0, <4>3
          <6>2. t[k + 1] = s[(k + 1) + 1] /\ t[k] = s[k + 1]
            BY <1>12, <4>0, <6>1
          <6> QED
            BY <4>0, <6>1, <6>2
        <5>2. s[k + 1] # prev
          <6>1. CASE i = 1
            BY <1>8, <1>11, <1>14, <3>1, <4>0, <6>1
          <6>2. CASE i # 1
            <7>1. 1 < i /\ i - 1 \in 1..n /\ i - 1 # k + 1
              BY <4>0, <4>3, <6>2
            <7> QED
              BY <1>8, <1>11, <1>14, <4>0, <7>1
          <6> QED
            BY <6>1, <6>2
        <5>3. pfsibling[s[k + 1]] = s[k + 2]
          BY <1>8, <1>11, <4>0
        <5> QED
          BY <3>3, <4>0, <5>1, <5>2, <5>3
      <4> QED
        BY <4>0, <4>1, <4>2, <4>3
    <3>5. pfsibling'[t[Len(t)]] = t[1]
      <4>0. i \in 1..n
        BY <1>9, <1>11
      <4>1. CASE i = n
        <5>1. t[n - 1] = s[n - 1] /\ t[1] = s[1] /\ n - 1 \in 1..n /\ n - 1 # i /\ 1 < i
          BY <1>12, <3>1, <4>1
        <5>2. s[n - 1] = prev /\ next = s[1]
          BY <1>14, <4>1, <5>1
        <5> QED
          BY <3>1, <3>3, <5>1, <5>2
      <4>2. CASE i # n /\ i = 1
        <5>1. t[n - 1] = s[n] /\ t[1] = s[2] /\ s[n] = prev /\ next = s[2]
          BY <1>12, <1>14, <3>1, <4>2
        <5> QED
          BY <3>1, <3>3, <4>2, <5>1
      <4>3. CASE i # n /\ i # 1
        <5>1. t[n - 1] = s[n] /\ t[1] = s[1] /\ prev = s[i - 1] /\ i - 1 \in 1..n /\ i - 1 # n
          BY <1>12, <1>14, <3>1, <4>0, <4>3
        <5>2. s[n] # prev /\ pfsibling[s[n]] = s[1]
          BY <1>8, <1>11, <3>1, <5>1
        <5> QED
          BY <3>1, <3>3, <4>3, <5>1, <5>2
      <4> QED
        BY <4>1, <4>2, <4>3
    <3>6. ASSUME NEW k \in 1..Len(t), NEW m \in 1..Len(t), t[k] = t[m] PROVE k = m
      <4>1. \A x \in 1..(n - 1) : x \in 1..n /\ x + 1 \in 1..n
        BY <3>1
      <4>2. \A x, y \in 1..n : s[x] = s[y] => x = y
        BY <1>8, <1>11
      <4>3. /\ t[k] = IF k < i THEN s[k] ELSE s[k + 1]
            /\ t[m] = IF m < i THEN s[m] ELSE s[m + 1]
            /\ k \in 1..n /\ k + 1 \in 1..n /\ m \in 1..n /\ m + 1 \in 1..n /\ i \in Nat
        BY <1>9, <1>12, <3>1, <4>1
      <4>4. CASE k < i /\ m < i
        BY <3>6, <4>2, <4>3, <4>4
      <4>5. CASE ~(k < i) /\ ~(m < i)
        <5>1. k + 1 = m + 1
          BY <3>6, <4>2, <4>3, <4>5
        <5> QED
          BY <4>3, <5>1
      <4>6. CASE k < i /\ ~(m < i)
        <5>1. k = m + 1
          BY <3>6, <4>2, <4>3, <4>6
        <5> QED
          BY <4>3, <4>6, <5>1
      <4>7. CASE ~(k < i) /\ m < i
        <5>1. m = k + 1
          BY <3>6, <4>2, <4>3, <4>7
        <5> QED
          BY <4>3, <4>7, <5>1
      <4> QED
        BY <4>4, <4>5, <4>6, <4>7
    <3>7. Ring(t, t[1], pfsibling')
      BY <1>12, <3>1, <3>4, <3>5, <3>6 DEF Ring, Row
    <3> QED
      BY <1>3, <3>2, <3>7, ChildrenNow
  <2> QED
    BY <2>1, <2>2
<1>16. Kids[g] = s /\ DOMAIN Kids[g] = 1..Len(s)
  BY <1>3, <1>7, Members DEF Kids
<1>17. Tree!Drop(g, i)
  <2> DEFINE T == [x \in Blocks |-> IF x \in gone THEN <<>>
                                   ELSE IF x = g THEN Tree!RemoveAt(Kids[g], i) ELSE Kids[x]]
  <2>1. \A x \in Blocks : T[x] = IF x \in gone THEN <<>> ELSE IF x = g THEN t ELSE Children(x)
    BY <1>10, <1>16 DEF Kids
  <2>2. \A x \in Blocks : Children(x)' = T[x]
    BY <1>3, <1>5, <1>6, <1>15, <2>1
  <2>3. T = [x \in Blocks |-> T[x]]
    OBVIOUS
  <2> HIDE DEF T
  <2>4. Kids' = T
    BY <2>2, <2>3, KidsNow
  <2>5. gone = {Kids[g][i]} \cup Tree!Within(Kids[g][i])
    BY <1>3, <1>9, <1>16, WithinIs DEF gone
  <2> QED
    BY <2>4, <2>5 DEF T, Tree!Drop, Kids
<1>18. g \in Tree!Changed
  <2>1. t # s
    BY <1>8, <1>11, <1>12
  <2> QED
    BY <1>3, <1>7, <1>15, <2>1 DEF Tree!Changed, Kids
<1> QED
  BY <1>16, <1>17, <1>18 DEF Tree!Next, Kids

(* t is the sequence s with e in front of the i-th place. *)
Longer(S, s, i, e, t) ==
    /\ t \in Seq(S) /\ Len(t) = Len(s) + 1
    /\ \A k \in 1..(Len(s) + 1) :
         t[k] = IF k < i THEN s[k] ELSE IF k = i THEN e ELSE s[k - 1]

(* Inserting makes that sequence. *)
LEMMA Lengthened ==
    ASSUME NEW S, NEW s \in Seq(S), NEW i \in 1..(Len(s) + 1), NEW e \in S
    PROVE  Longer(S, s, i, e, Tree!InsertAt(s, i, e))
<1>0. Len(s) \in Nat /\ \A k \in 1..Len(s) : s[k] \in S
  OBVIOUS
<1> DEFINE n == Len(s)
           u == SubSeq(s, 1, i - 1)
           v == SubSeq(s, i, n)
<1>1. u \in Seq(S) /\ Len(u) = i - 1 /\ \A k \in 1..(i - 1) : u[k] = s[k]
  <2>1. 1 \in Int /\ i - 1 \in Int /\ \A k \in 1..(i - 1) : s[k] \in S
    BY <1>0
  <2>2. /\ u \in Seq(S) /\ Len(u) = IF 1 <= i - 1 THEN (i - 1) - 1 + 1 ELSE 0
        /\ \A k \in 1..((i - 1) - 1 + 1) : u[k] = s[1 + k - 1]
    BY <2>1, SubSeqProperties
  <2> QED
    BY <2>2
<1>2. v \in Seq(S) /\ Len(v) = n - i + 1 /\ \A k \in 1..(n - i + 1) : v[k] = s[i + k - 1]
  <2>1. i \in Int /\ n \in Int /\ \A k \in i..n : s[k] \in S
    BY <1>0
  <2>2. /\ v \in Seq(S) /\ Len(v) = IF i <= n THEN n - i + 1 ELSE 0
        /\ \A k \in 1..(n - i + 1) : v[k] = s[i + k - 1]
    BY <2>1, SubSeqProperties
  <2> QED
    BY <1>0, <2>2
<1>3. Tree!InsertAt(s, i, e) = u \o <<e>> \o v
  BY DEF Tree!InsertAt
<1> HIDE DEF u, v
<1>4. PICK w : w = u \o <<e>>
  OBVIOUS
<1>5. /\ w \in Seq(S) /\ Len(w) = i /\ w[i] = e
      /\ \A k \in 1..(i - 1) : w[k] = s[k]
  <2>1. PICK o : o = <<e>>
    OBVIOUS
  <2>2. o \in Seq(S) /\ Len(o) = 1 /\ o[1] = e
    BY <2>1
  <2>3. /\ u \o o \in Seq(S) /\ Len(u \o o) = Len(u) + Len(o)
        /\ \A k \in 1..(Len(u) + Len(o)) :
             (u \o o)[k] = IF k <= Len(u) THEN u[k] ELSE o[k - Len(u)]
    BY <1>1, <2>2, ConcatProperties
  <2>4. Len(u) + Len(o) = i /\ i \in 1..i /\ i - Len(u) = 1 /\ ~(i <= Len(u))
        /\ \A k \in 1..(i - 1) : k \in 1..i /\ k <= Len(u)
    BY <1>0, <1>1, <2>2
  <2>5. w = u \o o
    BY <1>4, <2>1
  <2>6. w[i] = e
    BY <2>2, <2>3, <2>4, <2>5
  <2>7. \A k \in 1..(i - 1) : w[k] = s[k]
    BY <1>1, <2>3, <2>4, <2>5
  <2> QED
    BY <2>3, <2>4, <2>5, <2>6, <2>7
<1>6. /\ w \o v \in Seq(S) /\ Len(w \o v) = Len(w) + Len(v)
      /\ \A k \in 1..(Len(w) + Len(v)) :
           (w \o v)[k] = IF k <= Len(w) THEN w[k] ELSE v[k - Len(w)]
  BY <1>2, <1>5, ConcatProperties
<1>7. ASSUME NEW k \in 1..(n + 1)
      PROVE  (w \o v)[k] = IF k < i THEN s[k] ELSE IF k = i THEN e ELSE s[k - 1]
  <2>0. k \in 1..(Len(w) + Len(v)) /\ k \in Nat /\ i \in Nat /\ n \in Nat
    BY <1>0, <1>2, <1>5
  <2>1. CASE k < i
    BY <1>5, <1>6, <2>0, <2>1
  <2>2. CASE k = i
    BY <1>5, <1>6, <2>0, <2>2
  <2>3. CASE i < k
    <3>1. k - i \in 1..(n - i + 1) /\ i + (k - i) - 1 = k - 1
      BY <2>0, <2>3
    <3>2. (w \o v)[k] = v[k - i]
      BY <1>5, <1>6, <2>0, <2>3
    <3> QED
      BY <1>2, <2>0, <2>3, <3>1, <3>2
  <2> QED
    BY <2>0, <2>1, <2>2, <2>3
<1>8. Len(w) + Len(v) = n + 1
  BY <1>0, <1>2, <1>5
<1>9. Tree!InsertAt(s, i, e) = w \o v
  BY <1>3, <1>4
<1> QED
  BY <1>6, <1>7, <1>8, <1>9 DEF Longer

(* The j-th block of s in front of the i-th: where it comes from.          *)
MovedTo(s, i, j) ==
    Tree!InsertAt(Tree!RemoveAt(s, j), IF j < i THEN i - 1 ELSE i, s[j])
From(i, j, k) ==
    IF j < i THEN IF k < j THEN k ELSE IF k < i - 1 THEN k + 1 ELSE IF k = i - 1 THEN j ELSE k
    ELSE IF k < i THEN k ELSE IF k = i THEN j ELSE IF k <= j THEN k - 1 ELSE k

(* The sequence it makes has the same blocks in the places of From. *)
LEMMA MovedIs ==
    ASSUME NEW S, NEW s \in Seq(S), NEW n \in Nat, Len(s) = n,
           NEW i \in 1..n, NEW j \in 1..n, i # j
    PROVE  /\ MovedTo(s, i, j) \in Seq(S) /\ Len(MovedTo(s, i, j)) = n
           /\ \A k \in 1..n : MovedTo(s, i, j)[k] = s[From(i, j, k)]
<1> DEFINE at == IF j < i THEN i - 1 ELSE i
<1>1. PICK u : u = Tree!RemoveAt(s, j)
  OBVIOUS
<1>2. u \in Seq(S) /\ Len(u) = n - 1 /\ \A k \in 1..(n - 1) : u[k] = IF k < j THEN s[k] ELSE s[k + 1]
  <2>1. j \in 1..Len(s)
    OBVIOUS
  <2>2. /\ Tree!RemoveAt(s, j) \in Seq(S)
        /\ Len(Tree!RemoveAt(s, j)) = Len(s) - 1
        /\ \A k \in 1..(Len(s) - 1) : Tree!RemoveAt(s, j)[k] = IF k < j THEN s[k] ELSE s[k + 1]
    BY <2>1, Shortened
  <2> QED
    BY <1>1, <2>2
<1>3. at \in 1..(Len(u) + 1) /\ s[j] \in S /\ Len(u) + 1 = n
  BY <1>2
<1>4. MovedTo(s, i, j) = Tree!InsertAt(u, at, s[j])
  BY <1>1 DEF MovedTo
<1>5. PICK p : p = at
  OBVIOUS
<1>6. PICK e : e = s[j]
  OBVIOUS
<1>7. PICK t : t = Tree!InsertAt(u, p, e)
  OBVIOUS
<1>8. /\ t \in Seq(S) /\ Len(t) = n
      /\ \A k \in 1..n : t[k] = IF k < p THEN u[k] ELSE IF k = p THEN e ELSE u[k - 1]
  <2>1. p \in 1..(Len(u) + 1) /\ e \in S /\ u \in Seq(S)
    BY <1>2, <1>3, <1>5, <1>6
  <2> HIDE DEF at
  <2>2. Longer(S, u, p, e, Tree!InsertAt(u, p, e))
    BY <2>1, Lengthened
  <2> QED
    BY <1>3, <1>7, <2>2 DEF Longer
<1>9. MovedTo(s, i, j) = t
  BY <1>4, <1>5, <1>6, <1>7
<1>10. ASSUME NEW k \in 1..n PROVE t[k] = s[From(i, j, k)]
  <2>0. k \in Nat /\ i \in Nat /\ j \in Nat /\ p \in Nat /\ n \in Nat
    BY <1>5
  <2>1. k < p => k \in 1..(n - 1)
    BY <1>3, <1>5, <2>0
  <2>2. k > p => k - 1 \in 1..(n - 1) /\ (k - 1) + 1 = k
    BY <1>3, <1>5, <2>0
  <2>3. CASE k < p
    <3>1. t[k] = IF k < j THEN s[k] ELSE s[k + 1]
      BY <1>2, <1>8, <2>1, <2>3
    <3>2. From(i, j, k) = IF k < j THEN k ELSE k + 1
      BY <1>5, <2>0, <2>3 DEF From
    <3> QED
      BY <3>1, <3>2
  <2>4. CASE k = p
    <3>1. t[k] = s[j]
      BY <1>6, <1>8, <2>0, <2>4
    <3>2. From(i, j, k) = j
      BY <1>5, <2>0, <2>4 DEF From
    <3> QED
      BY <3>1, <3>2
  <2>5. CASE k > p
    <3>1. t[k] = u[k - 1]
      BY <1>8, <2>0, <2>5
    <3>2. t[k] = IF k - 1 < j THEN s[k - 1] ELSE s[k]
      BY <1>2, <2>2, <2>5, <3>1
    <3>3. From(i, j, k) = IF k - 1 < j THEN k - 1 ELSE k
      BY <1>5, <2>0, <2>5 DEF From
    <3> QED
      BY <3>2, <3>3
  <2> QED
    BY <2>0, <2>3, <2>4, <2>5
<1> QED
  BY <1>8, <1>9, <1>10

(* Of the successors in the new order, by their places in the old one.     *)
After(n, i, j, k) ==
    IF i = 1 /\ j = n THEN IF k = n THEN 1 ELSE k + 1
    ELSE IF k = j THEN i
    ELSE IF k = (IF i = 1 THEN n ELSE i - 1) THEN j
    ELSE IF k = j - 1 THEN IF j = n THEN 1 ELSE j + 1
    ELSE IF k = n THEN 1 ELSE k + 1

(* When next leads where After says, the sequence is its circle. *)
LEMMA MovedRing ==
    ASSUME NEW s \in Seq(Blocks), NEW n \in Nat, Len(s) = n,
           \A k, m \in 1..n : s[k] = s[m] => k = m,
           NEW i \in 1..n, NEW j \in 2..n, i # j, j + 1 # i,
           NEW next, \A k \in 1..n : next[s[k]] = s[After(n, i, j, k)]
    PROVE  Ring(MovedTo(s, i, j), s[From(i, j, 1)], next)
<1>1. PICK t : t = MovedTo(s, i, j)
  OBVIOUS
<1>2. t \in Seq(Blocks) /\ Len(t) = n /\ \A k \in 1..n : t[k] = s[From(i, j, k)]
  <2>1. j \in 1..n
    OBVIOUS
  <2>2. /\ MovedTo(s, i, j) \in Seq(Blocks) /\ Len(MovedTo(s, i, j)) = n
        /\ \A k \in 1..n : MovedTo(s, i, j)[k] = s[From(i, j, k)]
    BY <2>1, MovedIs
  <2> QED
    BY <1>1, <2>2
<1>3. \A k \in 1..n : From(i, j, k) \in 1..n
  BY DEF From
<1>4. \A k, m \in 1..n : From(i, j, k) = From(i, j, m) => k = m
  BY DEF From
<1>5. \A k \in 1..n : k < n => After(n, i, j, From(i, j, k)) = From(i, j, k + 1)
  BY DEF From, After
<1>6. After(n, i, j, From(i, j, n)) = From(i, j, 1)
  BY DEF From, After
<1>7. 1 \in 1..n /\ n \in 1..n /\ \A k \in 1..n : k < n => k + 1 \in 1..n
  OBVIOUS
<1>8. ASSUME NEW k \in 1..n, k < n PROVE t[k + 1] = next[t[k]]
  <2>1. PICK a : a = From(i, j, k)
    OBVIOUS
  <2>2. a \in 1..n /\ t[k] = s[a]
    BY <1>2, <1>3, <2>1
  <2>3. next[s[a]] = s[After(n, i, j, a)]
    BY <2>2
  <2>4. t[k + 1] = s[From(i, j, k + 1)]
    BY <1>2, <1>7, <1>8
  <2> QED
    BY <1>5, <1>8, <2>1, <2>2, <2>3, <2>4
<1>9. next[t[n]] = s[From(i, j, 1)]
  BY <1>2, <1>3, <1>6, <1>7
<1>10. ASSUME NEW k \in 1..n, NEW m \in 1..n, t[k] = t[m] PROVE k = m
  <2>1. PICK x \in 1..n, y \in 1..n : x = From(i, j, k) /\ y = From(i, j, m)
    BY <1>3
  <2>2. s[x] = s[y]
    BY <1>2, <1>10, <2>1
  <2>3. x = y
    BY <2>2
  <2> QED
    BY <1>4, <2>1, <2>3
<1> QED
  BY <1>1, <1>2, <1>7, <1>8, <1>9, <1>10 DEF Ring, Row

(* MoveBlock moves one within its galaxy. *)
LEMMA MoveMoves ==
    ASSUME TreeTypeOK, Linked, NEW first \in Inside, NEW second \in Inside,
           first # second, pparent[first] = pparent[second],
           pchild[pparent[second]] # second, MoveBlock(first, second)
    PROVE  Tree!Next \/ Kids' = Kids
<1>1. PICK g, before, prev, after :
        g = pparent[first] /\ before = pbsibling[first]
        /\ prev = pbsibling[second] /\ after = pfsibling[second]
  OBVIOUS
<1>2. /\ before \in Inside /\ prev \in Inside /\ g \in Blocks /\ first \in Blocks /\ second \in Blocks
      /\ pparent[before] = g /\ pparent[prev] = g /\ pparent[first] = g /\ pparent[second] = g
      /\ pfsibling[before] = first /\ pfsibling[prev] = second
  BY <1>1, BlockPlace DEF Inside, Used
<1>3. /\ after = first => \A x \in Blocks : pfsibling'[x] = pfsibling[x]
      /\ after # first =>
           /\ before # second /\ prev # second /\ before # prev
           /\ pfsibling'[second] = first /\ pfsibling'[before] = second
           /\ pfsibling'[prev] = after
           /\ \A x \in Blocks \ {second, before, prev} : pfsibling'[x] = pfsibling[x]
  BY <1>1, MoveBlockFrame
<1>4. pchild' = IF pchild[g] = first THEN [pchild EXCEPT ![g] = second] ELSE pchild
  BY <1>1 DEF MoveBlock
<1>5. /\ pchild'[g] = IF pchild[g] = first THEN second ELSE pchild[g]
      /\ \A x \in Blocks \ {g} : pchild'[x] = pchild[x]
  BY <1>2, <1>4 DEF TreeTypeOK
<1>6. \A x \in Blocks \ {g} : Children(x)' = Children(x)
  <2> SUFFICES ASSUME NEW x \in Blocks \ {g} PROVE Children(x)' = Children(x)
    OBVIOUS
  <2>1. \A y \in Blocks : pparent[y] = x => pfsibling'[y] = pfsibling[y]
    BY <1>2, <1>3
  <2> QED
    BY <1>5, <2>1, ChildrenSame
<1>7. PICK s : s = Children(g)
  OBVIOUS
<1>8. PICK n : n = Len(s)
  OBVIOUS
<1>9. /\ s \in Seq(Blocks) /\ n \in Nat /\ 1 <= n /\ s[1] = pchild[g]
      /\ \A k \in 1..n : k < n => s[k + 1] = pfsibling[s[k]]
      /\ \A k, m \in 1..n : s[k] = s[m] => k = m
      /\ pfsibling[s[n]] = s[1]
      /\ \A k \in 1..n : s[k] \in Blocks /\ s[k] \in Inside
      /\ \E k \in 1..n : s[k] = first
      /\ \E k \in 1..n : s[k] = second
  <2>1. Lists(s, g)
    BY <1>2, <1>7, ChildrenAre
  <2>2. pchild[g] # NULL
    BY <1>2, InsideOnly
  <2>3. \A k \in 1..n : s[k] \in Blocks /\ pparent[s[k]] \in Blocks
    BY <1>2, <1>8, <2>1 DEF Lists
  <2>4. \A k \in 1..n : s[k] \in Inside
    BY <2>3, InsideOnly
  <2> QED
    BY <1>2, <1>8, <2>1, <2>2, <2>3, <2>4 DEF Lists, Ring, Row
<1>10. PICK i \in 1..n : s[i] = first
  BY <1>9
<1>11. PICK j \in 1..n : s[j] = second
  BY <1>9
<1>12. i # j /\ j # 1
  BY <1>2, <1>9, <1>10, <1>11
<1>13. /\ i \in Nat /\ j \in Nat /\ 1 \in 1..n /\ n \in 1..n /\ j \in 2..n
       /\ j - 1 \in 1..n /\ j - 1 < n /\ (j - 1) + 1 = j
       /\ i # 1 => i - 1 \in 1..n /\ i - 1 < n /\ (i - 1) + 1 = i
  BY <1>9, <1>12
<1>14. \A k, m \in 1..n : pfsibling[s[k]] = pfsibling[s[m]] => k = m
  <2>1. \A x \in Inside : pbsibling[pfsibling[x]] = x
    BY DEF Linked, NeighboursFit
  <2> QED
    BY <1>9, <2>1
<1>15. /\ prev = s[j - 1]
       /\ before = IF i = 1 THEN s[n] ELSE s[i - 1]
       /\ after = IF j = n THEN s[1] ELSE s[j + 1]
  <2>1. \A x \in Inside : pbsibling[pfsibling[x]] = x
    BY DEF Linked, NeighboursFit
  <2>2. pfsibling[s[j - 1]] = second
    BY <1>9, <1>11, <1>13
  <2>3. prev = s[j - 1]
    BY <1>1, <1>9, <1>13, <2>1, <2>2
  <2>4. pfsibling[IF i = 1 THEN s[n] ELSE s[i - 1]] = first
    BY <1>9, <1>10, <1>13
  <2>5. before = IF i = 1 THEN s[n] ELSE s[i - 1]
    BY <1>1, <1>9, <1>13, <2>1, <2>4
  <2>6. after = IF j = n THEN s[1] ELSE s[j + 1]
    <3>1. CASE j = n
      BY <1>1, <1>9, <1>11, <3>1
    <3>2. CASE j # n
      <4>1. j < n
        BY <1>9, <3>2
      <4> QED
        BY <1>1, <1>9, <1>11, <3>2, <4>1
    <3> QED
      BY <3>1, <3>2
  <2> QED
    BY <2>3, <2>5, <2>6
<1>16. after = first <=> (j + 1 = i \/ (i = 1 /\ j = n))
  <2>1. CASE j = n
    BY <1>9, <1>10, <1>13, <1>15, <2>1
  <2>2. CASE j # n
    <3>1. j + 1 \in 1..n
      BY <1>9, <2>2
    <3> QED
      BY <1>9, <1>10, <1>13, <1>15, <2>2, <3>1
  <2> QED
    BY <2>1, <2>2
<1>17. CASE j + 1 = i
  <2>1. \A x \in Blocks : pfsibling'[x] = pfsibling[x]
    BY <1>3, <1>16, <1>17
  <2>2. pchild'[g] = pchild[g]
    <3>1. i # 1
      BY <1>13, <1>17
    <3>2. pchild[g] # first
      BY <1>9, <1>10, <1>13, <3>1
    <3> QED
      BY <1>5, <3>2
  <2>3. Children(g)' = Children(g)
    BY <1>2, <2>1, <2>2, ChildrenSame
  <2>4. \A x \in Blocks : Children(x)' = Children(x)
    BY <1>6, <2>3
  <2> QED
    BY <2>4 DEF Kids
<1>18. CASE j + 1 # i
  <2>1. PICK f : f = pfsibling'
    OBVIOUS
  <2>2. \A k \in 1..n : f[s[k]] = s[After(n, i, j, k)]
    <3> SUFFICES ASSUME NEW k \in 1..n PROVE f[s[k]] = s[After(n, i, j, k)]
      OBVIOUS
    <3>1. pfsibling[s[k]] = IF k = n THEN s[1] ELSE s[k + 1]
      BY <1>9
    <3>2. CASE i = 1 /\ j = n
      <4>1. f[s[k]] = pfsibling[s[k]]
        BY <1>3, <1>9, <1>16, <2>1, <3>2
      <4>2. After(n, i, j, k) = IF k = n THEN 1 ELSE k + 1
        BY <3>2 DEF After
      <4> QED
        BY <3>1, <4>1, <4>2
    <3>3. CASE ~(i = 1 /\ j = n)
      <4>0. after # first
        BY <1>16, <1>18, <3>3
      <4>1. CASE k = j
        <5>1. After(n, i, j, k) = i
          BY <3>3, <4>1 DEF After
        <5> QED
          BY <1>3, <1>10, <1>11, <2>1, <4>0, <4>1, <5>1
      <4>2. CASE k # j /\ k = (IF i = 1 THEN n ELSE i - 1)
        <5>1. After(n, i, j, k) = j
          BY <3>3, <4>2 DEF After
        <5>2. s[k] = before
          BY <1>15, <4>2
        <5> QED
          BY <1>3, <1>11, <2>1, <4>0, <5>1, <5>2
      <4>3. CASE k # j /\ k # (IF i = 1 THEN n ELSE i - 1) /\ k = j - 1
        <5>1. After(n, i, j, k) = IF j = n THEN 1 ELSE j + 1
          BY <3>3, <4>3 DEF After
        <5>2. s[k] = prev
          BY <1>15, <4>3
        <5> QED
          BY <1>3, <1>15, <2>1, <4>0, <5>1, <5>2
      <4>4. CASE k # j /\ k # (IF i = 1 THEN n ELSE i - 1) /\ k # j - 1
        <5>1. After(n, i, j, k) = IF k = n THEN 1 ELSE k + 1
          BY <3>3, <4>4 DEF After
        <5>2. s[k] # second /\ s[k] # prev /\ s[k] # before
          BY <1>9, <1>11, <1>13, <1>15, <4>4
        <5>3. f[s[k]] = pfsibling[s[k]]
          BY <1>3, <1>9, <2>1, <4>0, <5>2
        <5> QED
          BY <3>1, <5>1, <5>3
      <4> QED
        BY <4>1, <4>2, <4>3, <4>4
    <3> QED
      BY <3>2, <3>3
  <2>3. PICK t : t = MovedTo(s, i, j)
    OBVIOUS
  <2>4. Ring(t, s[From(i, j, 1)], f)
    <3>1. s \in Seq(Blocks) /\ Len(s) = n /\ n \in Nat /\ i \in 1..n /\ j \in 2..n
          /\ i # j /\ j + 1 # i
      BY <1>8, <1>9, <1>12, <1>13, <1>18
    <3>2. \A k, m \in 1..n : s[k] = s[m] => k = m
      BY <1>9
    <3>3. Ring(MovedTo(s, i, j), s[From(i, j, 1)], f)
      BY <2>2, <3>1, <3>2, MovedRing
    <3> QED
      BY <2>3, <3>3
  <2>5. s[From(i, j, 1)] = pchild'[g] /\ pchild'[g] # NULL
    <3>1. From(i, j, 1) = IF i = 1 THEN j ELSE 1
      BY <1>9, <1>12, <1>13, <1>18 DEF From
    <3>2. s[1] # NULL /\ second # NULL
      BY <1>2, <1>9, <1>13, TreeAssumption
    <3>3. pchild[g] = first <=> i = 1
      BY <1>9, <1>10, <1>13
    <3> QED
      BY <1>5, <1>9, <1>11, <3>1, <3>2, <3>3
  <2>6. Children(g)' = t
    BY <2>1, <2>4, <2>5, ChildrenNow
  <2>7. Kids[g] = s /\ DOMAIN Kids[g] = 1..n
    BY <1>2, <1>7, <1>8, Members DEF Kids
  <2>8. Kids' = [Kids EXCEPT ![g] = t]
    <3> DEFINE T == [Kids EXCEPT ![g] = t]
    <3>1. T = [x \in Blocks |-> T[x]] /\ \A x \in Blocks : T[x] = IF x = g THEN t ELSE Children(x)
      BY <1>2 DEF Kids
    <3>2. \A x \in Blocks : Children(x)' = T[x]
      BY <1>6, <2>6, <3>1
    <3> HIDE DEF T
    <3>3. Kids' = T
      BY <3>1, <3>2, KidsNow
    <3> QED
      BY <3>3 DEF T
  <2>9. Tree!Move(g, i, j)
    BY <1>12, <2>3, <2>7, <2>8 DEF Tree!Move, Kids, MovedTo
  <2>10. CASE t = s
    <3>1. \A x \in Blocks : Children(x)' = Children(x)
      BY <1>6, <1>7, <2>6, <2>10
    <3> QED
      BY <3>1 DEF Kids
  <2>11. CASE t # s
    <3>1. g \in Tree!Changed
      BY <1>2, <1>7, <2>6, <2>11 DEF Tree!Changed, Kids
    <3>2. i \in DOMAIN Kids[g] /\ j \in DOMAIN Kids[g]
      BY <2>7
    <3> QED
      BY <2>9, <3>1, <3>2 DEF Tree!Next, Kids
  <2> QED
    BY <2>10, <2>11
<1> QED
  BY <1>17, <1>18

-----------------------------------------------------------------------------
(* The commands on the hierarchy.                                          *)

(* The sequences depend on two of the pointers. *)
LEMMA KidsSame ==
    ASSUME TreeTypeOK, Linked, UNCHANGED <<pchild, pfsibling>>
    PROVE  /\ \A x \in Blocks : Children(x)' = Children(x)
           /\ Kids' = Kids
<1>1. \A x \in Blocks : Children(x)' = Children(x)
  BY ChildrenSame
<1>2. Kids = [x \in Blocks |-> Kids[x]] /\ \A x \in Blocks : Kids[x] = Children(x)
  BY DEF Kids
<1> QED
  BY <1>1, <1>2, KidsNow

(* A line for a new block adds it at the end of the galaxy, or fails. *)
LEMMA CreateTree ==
    ASSUME IInv, NEW l, Create(l), NEW g, g = pg_current, NEW b, b = Fresh
    PROVE  \/ /\ HeapHolds /\ b \in Blocks \ Used /\ Tree!Next
              /\ Children(g)' = Append(Children(g), b)
              /\ \A x \in Blocks \ {g} : Children(x)' = Children(x)
           \/ /\ ~HeapHolds /\ ErrorAlloc /\ Kids' = Kids
              /\ \A x \in Blocks : Children(x)' = Children(x)
<1>1. TreeTypeOK /\ Linked /\ g \in Used
  BY DEF IInv, Placed
<1>2. CASE ~HeapHolds
  <2>1. ErrorAlloc /\ UNCHANGED <<pchild, pfsibling>>
    BY <1>2 DEF Create, ErrorAlloc, tree
  <2> QED
    BY <1>1, <1>2, <2>1, KidsSame
<1>3. CASE HeapHolds
  <2>1. b \in Blocks \ Used
    BY <1>1, <1>3, FreshUnused
  <2>2. PICK t \in {"GTYPE", "STYPE"} : NewBlock(l, t)
    BY <1>3 DEF Create, LineStar, LineGalaxy, GalaxyWithoutFile, GalaxyWithFile
  <2>3. CreateBlock(g, b, t)
    BY <2>2 DEF NewBlock
  <2>4. TreeTypeOK /\ Linked
    BY <1>1
  <2>5. /\ Tree!Next /\ Children(g)' = Append(Children(g), b)
        /\ \A x \in Blocks \ {g} : Children(x)' = Children(x)
    BY <1>1, <2>1, <2>3, <2>4, CreateAdds
  <2> QED
    BY <1>3, <2>1, <2>5
<1> QED
  BY <1>2, <1>3

(* Every step is one of BlockTree, or none. *)
LEMMA StepTree == IInv /\ [Next]_vars => Tree!Next \/ Kids' = Kids
<1> SUFFICES ASSUME IInv, [Next]_vars PROVE Tree!Next \/ Kids' = Kids
  OBVIOUS
<1>1. /\ TreeTypeOK /\ Linked /\ pg_current \in Used
      /\ type[pg_current] \in {"UTYPE", "GTYPE"}
  BY DEF IInv, Placed, Path, Galaxy, Used
<1>2. UNCHANGED <<pchild, pfsibling>> => Kids' = Kids
  BY <1>1, KidsSame
<1>3. RemoveChildren(pg_current, type[pg_current]) => Tree!Next \/ Kids' = Kids
  BY <1>1, RemoveChildrenEmpties
<1>4. ASSUME NEW l, Create(l) PROVE Tree!Next \/ Kids' = Kids
  BY <1>4, CreateTree
<1>5. ASSUME NEW l, LineReplace(l) PROVE Tree!Next \/ Kids' = Kids
  <2>1. pb_current \in Used
    BY <1>5, CurrentBlock DEF LineReplace, Command
  <2>2. CASE RemoveChildren(pb_current, "GTYPE")
    BY <1>1, <2>1, <2>2, RemoveChildrenEmpties
  <2> QED
    BY <1>2, <1>5, <2>2 DEF LineReplace, ReplaceByStar, ReplaceByGalaxy
<1>6. CASE L_remove
  <2>1. pb_current \in Inside /\ RemoveBlock(pb_current)
    BY <1>6, CurrentBlock DEF L_remove, Command
  <2> QED
    BY <1>1, <2>1, RemoveDrops
<1>7. ASSUME NEW first \in Blocks, NEW second \in Blocks, L_run(first, second)
      PROVE  Tree!Next \/ Kids' = Kids
  <2>1. /\ first \in Inside /\ second \in Inside /\ first # second
        /\ pparent[first] = pparent[second]
        /\ pchild[pparent[second]] # second /\ MoveBlock(first, second)
    BY <1>7 DEF L_run, Inside
  <2> QED
    BY <1>1, <2>1, MoveMoves
<1>8. CASE LoadStep
  <2>1. CASE ReadLine
    <3>1. PICK l : Execute(l)
      BY <2>1 DEF ReadLine
    <3>2. CASE Refuse
      BY <1>2, <3>2 DEF Refuse, tree
    <3> QED
      BY <1>4, <3>1, <3>2 DEF Execute
  <2> QED
    BY <1>2, <1>3, <1>8, <2>1 DEF LoadStep, EndOfFile, FileFailed, tree
<1>9. CASE L_new
  BY <1>3, <1>9 DEF L_new
<1>10. ASSUME NEW m, NEW named, L_load(m, named) PROVE Tree!Next \/ Kids' = Kids
  BY <1>3, <1>10 DEF L_load
<1>11. CASE UNCHANGED <<type, pparent, pchild, pfsibling, pbsibling>>
  BY <1>2, <1>11
<1> QED
  BY <1>4, <1>5, <1>6, <1>7, <1>8, <1>9, <1>10, <1>11
     DEF Next, L_block, L_rename, LineStore, Move, vars, tree

(* At the start every galaxy is empty. *)
LEMMA InitTree == Init => Tree!Init
BY DEF Init, CreateUniverse, Tree!Init, Children

(* The commands, whatever they do to the pointers, change the hierarchy in *)
(* the ways BlockTree knows: a block is added at the end of a galaxy,      *)
(* dropped with what is in it, moved in front of another; or a galaxy is   *)
(* emptied: ImplementsTree.                                                *)
THEOREM TreeImplemented == Spec => ImplementsTree
<1>1. IInv /\ [Next]_vars => [Tree!Next]_Kids
  BY StepTree
<1> QED
  BY <1>1, InitInv, NextInv, InitTree, PTL DEF Spec, ImplementsTree, Tree!Spec, Kids
-----------------------------------------------------------------------------
(* Types.                                                                  *)

(* What store writes is a file. *)
LEMMA ListingLines ==
    ASSUME TypeOK, Linked, \A x \in Inside : name[x] \in Names, NEW g \in Blocks
    PROVE  Listing(g) \in Seq(Line) /\ Len(Listing(g)) = Len(Children(g))
<1> DEFINE s == Children(g)
<1>1. TreeTypeOK
  BY DEF TypeOK
<1>2. /\ s \in Seq(Blocks) /\ Len(s) \in Nat
      /\ \A i \in 1..Len(s) : pparent[s[i]] = g
  BY <1>1, ChildrenAre DEF Lists
<1>3. \A i \in 1..Len(s) : s[i] \in Inside /\ s[i] \in Blocks
  BY <1>1, <1>2, InsideOnly
<1>4. \A i \in 1..Len(s) : name[s[i]] \in Names /\ model_index[s[i]] \in Models
  BY <1>3 DEF TypeOK
<1>5. \A i \in 1..Len(s) : [name |-> name[s[i]], model |-> model_index[s[i]]] \in Line
  BY <1>4 DEF Line
<1>6. Listing(g) = [i \in 1..Len(s) |-> [name |-> name[s[i]], model |-> model_index[s[i]]]]
  BY DEF Listing
<1>7. Listing(g) \in [1..Len(s) -> Line]
  BY <1>5, <1>6
<1> QED
  BY <1>2, <1>7

(* The types, and a name for every block but the universe. *)
TInv == TypeOK /\ \A x \in Inside : name[x] \in Names

(* The types of what a command for the labels leaves. *)
Labelled ==
    /\ name' \in [Blocks -> Names \cup {NULL}]
    /\ model_index' \in [Blocks -> Models]
    /\ change_flag' \in [Blocks -> BOOLEAN]
    /\ \A x \in Inside' : name'[x] \in Names

(* A step keeps the types when it keeps those of the labels and the files. *)
LEMMA TypesKept ==
    ASSUME TInv, IInv', Labelled, pb_current' \in Pointer,
           files' \in [GalaxyModels -> Contents], known' \subseteq GalaxyModels,
           error' \in BOOLEAN, exited' \in BOOLEAN, commands' \in 0..MaxCommands
    PROVE  TInv'
<1>1. TreeTypeOK' /\ pg_current' \in Blocks /\ line_mode' \in BOOLEAN
  BY DEF IInv, Placed, Used, Modes
<1> QED
  BY <1>1 DEF TInv, TypeOK, Labelled

(* The labels of the blocks that are left. *)
LEMMA LabelsLeft ==
    ASSUME TInv, Inside' \subseteq Inside
    PROVE  /\ Kept(name, NULL) \in [Blocks -> Names \cup {NULL}]
           /\ Kept(model_index, universeModel) \in [Blocks -> Models]
           /\ Kept(change_flag, FALSE) \in [Blocks -> BOOLEAN]
           /\ \A x \in Inside' : Kept(name, NULL)[x] \in Names
<1>1. universeModel \in Models
  BY ModelAssumption DEF Models
<1>2. \A x \in Inside' : x \in Blocks /\ type'[x] # "FREE"
  BY DEF Inside, Used
<1> QED
  BY <1>1, <1>2 DEF TInv, TypeOK, Kept

(* The labels of a new block. *)
LEMMA NewBlockLabels ==
    ASSUME TInv, IInv, IInv', HeapHolds, NEW l \in Line,
           NEW t \in {"GTYPE", "STYPE"}, NewBlock(l, t)
    PROVE  Labelled /\ Fresh \in Pointer
<1>1. Fresh \in Blocks \ Used
  BY FreshUnused DEF IInv
<1>2. PICK b \in Blocks \ Used : b = Fresh
  BY <1>1
<1>3. /\ CreateBlock(pg_current, b, t) /\ name' = [name EXCEPT ![b] = l.name]
      /\ model_index' = [model_index EXCEPT ![b] = l.model]
      /\ change_flag' = [change_flag EXCEPT ![b] = line_mode]
  BY <1>2 DEF NewBlock
<1>4. Inside' = Inside \cup {b}
  BY <1>3, CreateBlockFrame DEF IInv, Placed
<1>5. l.name \in Names /\ l.model \in Models
  BY DEF Line
<1>6. /\ name \in [Blocks -> Names \cup {NULL}] /\ model_index \in [Blocks -> Models]
      /\ change_flag \in [Blocks -> BOOLEAN] /\ line_mode \in BOOLEAN
      /\ \A x \in Inside : x \in Blocks /\ name[x] \in Names
  BY DEF TInv, TypeOK, Inside, Used
<1>7. Labelled
  BY <1>3, <1>4, <1>5, <1>6 DEF Labelled
<1> QED
  BY <1>1, <1>7 DEF Pointer

(* A line of a file, or block and hblock. *)
LEMMA CreateTypes ==
    ASSUME TInv, IInv, IInv', NEW l \in Line, Create(l), commands' \in 0..MaxCommands
    PROVE  TInv'
<1>1. /\ error \in BOOLEAN /\ exited \in BOOLEAN /\ pb_current \in Pointer
      /\ files \in [GalaxyModels -> Contents] /\ known \subseteq GalaxyModels
      /\ Loading \in BOOLEAN
  BY DEF TInv, TypeOK, Loading
<1>2. CASE ~HeapHolds
  <2>1. /\ UNCHANGED <<name, model_index, change_flag, type, pb_current, files, known, error>>
        /\ exited' = TRUE
    BY <1>2 DEF Create, ErrorAlloc, labels, place, disk, tree
  <2>2. Inside' = Inside
    BY <2>1 DEF Inside, Used
  <2>3. Labelled
    BY <2>1, <2>2 DEF Labelled, TInv, TypeOK
  <2> QED
    BY <1>1, <2>1, <2>3, TypesKept
<1>3. CASE HeapHolds
  <2>1. PICK t \in {"GTYPE", "STYPE"} : NewBlock(l, t)
    BY <1>3 DEF Create, LineStar, LineGalaxy, GalaxyWithoutFile, GalaxyWithFile
  <2>2. Labelled /\ Fresh \in Pointer
    BY <1>3, <2>1, NewBlockLabels
  <2>3. /\ pb_current' \in {pb_current, Fresh} /\ UNCHANGED <<files, known, exited>>
        /\ error' \in {FALSE, Loading, error}
    BY <1>3 DEF Create, LineStar, LineGalaxy, GalaxyWithoutFile, GalaxyWithFile, disk
  <2> QED
    BY <1>1, <2>2, <2>3, TypesKept
<1> QED
  BY <1>2, <1>3

(* replace. *)
LEMMA ReplaceTypes ==
    ASSUME TInv, IInv, IInv', NEW l \in Line, LineReplace(l), commands' \in 0..MaxCommands
    PROVE  TInv'
<1>1. /\ pb_current \in Inside /\ pb_current \in Blocks /\ pb_current \in Used
      /\ UNCHANGED <<files, known, error, exited, pb_current>>
      /\ name' = [Kept(name, NULL) EXCEPT ![pb_current] = l.name]
      /\ model_index' = [Kept(model_index, universeModel) EXCEPT ![pb_current] = l.model]
      /\ change_flag' = [Kept(change_flag, FALSE) EXCEPT ![pb_current] = TRUE]
  BY CurrentBlock DEF LineReplace, Command, disk, ReplaceByStar, ReplaceByGalaxy, place
<1>2. Used' \subseteq Used
  <2>1. CASE RemoveChildren(pb_current, "GTYPE")
    BY <1>1, <2>1, RemoveChildrenFrame DEF IInv
  <2>2. CASE \E t \in {"GTYPE", "STYPE"} : type' = [type EXCEPT ![pb_current] = t]
    BY <1>1, <2>2 DEF Used, IInv, TreeTypeOK
  <2> QED
    BY <2>1, <2>2 DEF LineReplace, ReplaceByStar, ReplaceByGalaxy
<1>3. Inside' \subseteq Inside
  BY <1>2 DEF Inside
<1>4. /\ Kept(name, NULL) \in [Blocks -> Names \cup {NULL}]
      /\ Kept(model_index, universeModel) \in [Blocks -> Models]
      /\ Kept(change_flag, FALSE) \in [Blocks -> BOOLEAN]
      /\ \A x \in Inside' : Kept(name, NULL)[x] \in Names
  BY <1>3, LabelsLeft
<1>5. l.name \in Names /\ l.model \in Models /\ \A x \in Inside' : x \in Blocks
  BY DEF Line, Inside, Used
<1>6. Labelled
  BY <1>1, <1>4, <1>5 DEF Labelled
<1>7. /\ error \in BOOLEAN /\ exited \in BOOLEAN /\ pb_current \in Pointer
      /\ files \in [GalaxyModels -> Contents] /\ known \subseteq GalaxyModels
  BY DEF TInv, TypeOK
<1> QED
  BY <1>1, <1>6, <1>7, TypesKept

(* remove. *)
LEMMA RemoveTypes ==
    ASSUME TInv, IInv, IInv', L_remove, commands' \in 0..MaxCommands
    PROVE  TInv'
<1>1. /\ pb_current \in Inside /\ pb_current \in Blocks /\ RemoveBlock(pb_current)
      /\ UNCHANGED <<files, known, error, exited>>
      /\ name' = Kept(name, NULL)
      /\ model_index' = Kept(model_index, universeModel)
      /\ change_flag' = Kept([change_flag EXCEPT ![pfsibling[pb_current]] = TRUE], FALSE)
      /\ pb_current' \in {NULL, pfsibling[pb_current]}
  BY CurrentBlock DEF L_remove, Command, disk
<1>2. Inside' \subseteq Inside
  BY <1>1, RemoveBlockFrame DEF IInv
<1>3. /\ Kept(name, NULL) \in [Blocks -> Names \cup {NULL}]
      /\ Kept(model_index, universeModel) \in [Blocks -> Models]
      /\ \A x \in Inside' : Kept(name, NULL)[x] \in Names
  BY <1>2, LabelsLeft
<1>4. /\ error \in BOOLEAN /\ exited \in BOOLEAN /\ pfsibling[pb_current] \in Pointer
      /\ files \in [GalaxyModels -> Contents] /\ known \subseteq GalaxyModels
      /\ change_flag \in [Blocks -> BOOLEAN] /\ NULL \in Pointer
  BY <1>1 DEF TInv, TypeOK, TreeTypeOK, Pointer
<1>5. change_flag' \in [Blocks -> BOOLEAN]
  BY <1>1, <1>4 DEF Kept
<1>6. Labelled
  BY <1>1, <1>3, <1>5 DEF Labelled
<1> QED
  BY <1>1, <1>4, <1>6, TypesKept

(* store, new: the galaxy is listed in a file. *)
LEMMA StoreTypes ==
    ASSUME TInv, IInv, IInv', NEW m \in GalaxyModels, NEW named \in BOOLEAN,
           NEW listing \in Seq(Line), StoreIn(m, named, listing),
           name' = Kept(name, NULL) \/ (name' = name /\ type' = type),
           Inside' \subseteq Inside,
           pb_current' \in {NULL, pb_current}, UNCHANGED <<error, exited>>,
           commands' \in 0..MaxCommands
    PROVE  TInv'
<1>1. /\ name \in [Blocks -> Names \cup {NULL}] /\ \A x \in Inside : name[x] \in Names
      /\ change_flag \in [Blocks -> BOOLEAN] /\ m \in Models /\ pg_current \in Blocks
      /\ error \in BOOLEAN /\ exited \in BOOLEAN /\ pb_current \in Pointer /\ NULL \in Pointer
      /\ files \in [GalaxyModels -> Contents] /\ known \subseteq GalaxyModels
  BY DEF TInv, TypeOK, Models, Pointer
<1>2. /\ Kept(name, NULL) \in [Blocks -> Names \cup {NULL}]
      /\ Kept(model_index, universeModel) \in [Blocks -> Models]
      /\ Kept(change_flag, FALSE) \in [Blocks -> BOOLEAN]
      /\ \A x \in Inside' : Kept(name, NULL)[x] \in Names
  BY LabelsLeft
<1>3. name' \in [Blocks -> Names \cup {NULL}] /\ \A x \in Inside' : name'[x] \in Names
  BY <1>1, <1>2
<1>4. files' \in [GalaxyModels -> Contents] /\ known' \subseteq GalaxyModels
  BY <1>1 DEF StoreIn, Contents
<1>5. model_index' \in [Blocks -> Models]
  BY <1>1, <1>2 DEF StoreIn
<1>6. change_flag' \in [Blocks -> BOOLEAN]
  BY <1>2 DEF StoreIn
<1>7. Labelled
  BY <1>3, <1>5, <1>6 DEF Labelled
<1> QED
  BY <1>1, <1>4, <1>7, TypesKept

(* LineLoad, its error path, and new leave some of the blocks. *)
LEMMA EmptiedInside ==
    ASSUME IInv, RemoveChildren(pg_current, type[pg_current])
    PROVE  Inside' \subseteq Inside
<1>1. /\ TreeTypeOK /\ Linked /\ pg_current \in Used /\ type[pg_current] \in {"UTYPE", "GTYPE"}
  BY DEF IInv, Placed, Path, Galaxy, Used
<1> QED
  BY <1>1, RemoveChildrenFrame

(* load. *)
LEMMA LoadTypes ==
    ASSUME TInv, IInv, IInv', NEW m \in GalaxyModels, NEW named \in BOOLEAN,
           L_load(m, named), commands' \in 0..MaxCommands
    PROVE  TInv'
<1>1. Inside' \subseteq Inside
  BY EmptiedInside DEF L_load
<1>2. /\ Kept(name, NULL) \in [Blocks -> Names \cup {NULL}]
      /\ Kept(model_index, universeModel) \in [Blocks -> Models]
      /\ Kept(change_flag, FALSE) \in [Blocks -> BOOLEAN]
      /\ \A x \in Inside' : Kept(name, NULL)[x] \in Names
  BY <1>1, LabelsLeft
<1>3. m \in Models
  BY DEF Models
<1>4. Labelled
  BY <1>2, <1>3 DEF Labelled, L_load
<1>5. /\ error \in BOOLEAN /\ exited \in BOOLEAN /\ pb_current \in Pointer
      /\ files \in [GalaxyModels -> Contents] /\ known \subseteq GalaxyModels
  BY DEF TInv, TypeOK
<1> QED
  BY <1>4, <1>5, TypesKept DEF L_load, place, disk

(* A file that has been read, and one that has failed. *)
LEMMA ReturnTypes ==
    ASSUME TInv, IInv, IInv', Loading, EndOfFile \/ FileFailed
    PROVE  TInv'
<1>1. /\ frames # <<>> /\ Top \in Frame
  BY DEF IInv, Nest, Loading, Top
<1>2. PICK failed \in BOOLEAN, block \in {NULL, pchild[pg_current]} : Return(failed, block)
  BY DEF EndOfFile, FileFailed
<1>3. /\ error \in BOOLEAN /\ exited \in BOOLEAN /\ NULL \in Pointer
      /\ files \in [GalaxyModels -> Contents] /\ known \subseteq GalaxyModels
      /\ commands \in 0..MaxCommands /\ pchild[pg_current] \in Pointer
      /\ name \in [Blocks -> Names \cup {NULL}] /\ \A x \in Inside : name[x] \in Names
      /\ model_index \in [Blocks -> Models] /\ change_flag \in [Blocks -> BOOLEAN]
  BY DEF TInv, TypeOK, Pointer, TreeTypeOK
<1>4. /\ pb_current' \in Pointer /\ UNCHANGED <<files, known, exited, commands>>
      /\ error' \in BOOLEAN
  <2>1. Top.galaxy \in Pointer
    BY <1>1 DEF Frame, Pointer
  <2> QED
    BY <1>2, <1>3, <2>1 DEF Return, disk
<1>5. Labelled
  <2>1. CASE EndOfFile
    <3>1. UNCHANGED <<type, name, model_index, change_flag>> /\ Inside' = Inside
      BY <2>1 DEF EndOfFile, tree, labels, Inside, Used
    <3> QED
      BY <1>3, <3>1 DEF Labelled
  <2>2. CASE FileFailed
    <3>1. Inside' \subseteq Inside
      BY <2>2, EmptiedInside DEF FileFailed
    <3> QED
      BY <2>2, <3>1, LabelsLeft DEF Labelled, FileFailed, LabelsKept
  <2> QED
    BY <2>1, <2>2
<1> QED
  BY <1>3, <1>4, <1>5, TypesKept

(* The commands that leave the set of blocks and their models as they are. *)
LEMMA PlaceTypes ==
    ASSUME TInv, IInv, IInv', UNCHANGED <<type, model_index, change_flag>>,
           name' \in [Blocks -> Names \cup {NULL}], \A x \in Inside : name'[x] \in Names,
           pb_current' \in Pointer, UNCHANGED <<files, known, exited>>, error' \in BOOLEAN,
           commands' \in 0..MaxCommands
    PROVE  TInv'
<1>1. Inside' = Inside
  BY DEF Inside, Used
<1>2. /\ exited \in BOOLEAN /\ files \in [GalaxyModels -> Contents] /\ known \subseteq GalaxyModels
      /\ model_index \in [Blocks -> Models] /\ change_flag \in [Blocks -> BOOLEAN]
  BY DEF TInv, TypeOK
<1>3. Labelled
  BY <1>1, <1>2 DEF Labelled
<1> QED
  BY <1>2, <1>3, TypesKept

(* A line of a file of which there is one. *)
LEMMA LineToRead ==
    ASSUME TInv, IInv, Loading, ReadLine, File \in Seq(Line)
    PROVE  File[Top.lines + 1] \in Line /\ Execute(File[Top.lines + 1]) /\ commands' = commands
<1>1. Top \in Frame
  BY DEF IInv, Nest, Loading, Top
<1>2. Top.lines \in Nat /\ Top.lines < Len(File) /\ Len(File) \in Nat
  BY <1>1 DEF ReadLine, Frame
<1>3. Top.lines + 1 \in 1..Len(File)
  BY <1>2
<1> QED
  BY <1>3 DEF ReadLine
-----------------------------------------------------------------------------
(* The files that are being read.                                          *)

FileOf(k) == files[model_index[frames[k].galaxy]]

(* They exist, and no more lines are read than there are. *)
Reads ==
    \A k \in 1..Len(frames) : /\ FileOf(k) \in Seq(Line)
                              /\ frames[k].lines <= Len(FileOf(k))

(* Without an error, a galaxy is what has been read of its file. *)
SoFar ==
    Loading /\ ~error =>
        \A k \in 1..Len(frames) :
            Listing(frames[k].galaxy) = SubSeq(FileOf(k), 1, frames[k].lines)

(* Without an error, the other galaxies in it have been read to the end. *)
BeingRead(h) == \E k \in 1..Len(frames) : frames[k].galaxy = h
InnerLoaded ==
    Loading /\ ~error =>
        \A h \in Under(frames[1].galaxy) :
            type[h] # "STYPE" /\ ~BeingRead(h) => Loaded(h)

LInv == Reads /\ SoFar /\ InnerLoaded

(* A galaxy is listed as before when it has the same blocks with the same  *)
(* labels.                                                                 *)
LEMMA ListingSame ==
    ASSUME NEW g, Children(g)' = Children(g),
           \A i \in 1..Len(Children(g)) :
               /\ name'[Children(g)[i]] = name[Children(g)[i]]
               /\ model_index'[Children(g)[i]] = model_index[Children(g)[i]]
    PROVE  Listing(g)' = Listing(g)
<1>1. PICK s : s = Children(g)
  OBVIOUS
<1>2. Listing(g)' = [i \in 1..Len(s) |-> [name |-> name'[s[i]], model |-> model_index'[s[i]]]]
  BY <1>1 DEF Listing
<1>3. Listing(g) = [i \in 1..Len(s) |-> [name |-> name[s[i]], model |-> model_index[s[i]]]]
  BY <1>1 DEF Listing
<1> QED
  BY <1>1, <1>2, <1>3

(* An empty galaxy has an empty listing. *)
LEMMA ListingEmpty ==
    ASSUME NEW g, Children(g)' = <<>>
    PROVE  Listing(g)' = <<>>
<1>1. Listing(g)' = [i \in 1..Len(<<>>) |-> [name |-> name'[<<>>[i]], model |-> model_index'[<<>>[i]]]]
  BY DEF Listing
<1> QED
  BY <1>1

(* The first line of a file that a command loads. *)
LEMMA LoadStarts ==
    ASSUME NEW g, NEW r, r.galaxy = g, r.lines = 0, frames' = <<r>>,
           files'[model_index'[g]] \in Seq(Line),
           Children(g)' = <<>>, Below(pparent', g) = {}
    PROVE  LInv'
<1>1. Len(frames') = 1 /\ frames'[1] = r /\ \A k \in 1..Len(frames') : k = 1
  OBVIOUS
<1>2. PICK f : f = files'[model_index'[g]]
  OBVIOUS
<1>3. f \in Seq(Line) /\ Len(f) \in Nat /\ 0 <= Len(f)
  BY <1>2
<1>4. Reads'
  BY <1>1, <1>2, <1>3 DEF Reads, FileOf
<1>5. SoFar'
  <2>1. Listing(g)' = <<>> /\ SubSeq(f, 1, 0) = <<>>
    BY <1>3, ListingEmpty
  <2>2. FileOf(1)' = f
    BY <1>1, <1>2 DEF FileOf
  <2>3. frames'[1].galaxy = g /\ frames'[1].lines = 0
    BY <1>1
  <2> QED
    BY <1>1, <2>1, <2>2, <2>3 DEF SoFar
<1>6. InnerLoaded'
  BY <1>1 DEF InnerLoaded, Under
<1> QED
  BY <1>4, <1>5, <1>6 DEF LInv

(* No file is being read. *)
LEMMA NotLoading ==
    ASSUME frames' = <<>>
    PROVE  LInv'
BY DEF LInv, Reads, SoFar, InnerLoaded, Loading

(* The members of a galaxy are not new. *)
LEMMA MembersUsed ==
    ASSUME IInv, NEW g \in Blocks
    PROVE  \A i \in 1..Len(Children(g)) : Children(g)[i] \in Used /\ Children(g)[i] \in Blocks
<1>1. TreeTypeOK /\ Linked
  BY DEF IInv
<1>2. PICK s : s = Children(g)
  OBVIOUS
<1>3. s \in Seq(Blocks) /\ Len(s) \in Nat /\ \A i \in 1..Len(s) : pparent[s[i]] = g
  BY <1>1, <1>2, ChildrenAre DEF Lists
<1>4. \A i \in 1..Len(s) : s[i] \in Blocks
  BY <1>3
<1>5. \A i \in 1..Len(s) : s[i] \in Inside
  BY <1>1, <1>3, <1>4, InsideOnly
<1> QED
  BY <1>2, <1>4, <1>5 DEF Inside

(* Only the reading stops. *)
LEMMA NothingRead ==
    ASSUME LInv, UNCHANGED <<type, pparent, name, model_index, files, frames, error>>,
           \A x \in Blocks : Children(x)' = Children(x), IInv
    PROVE  LInv'
<1>1. \A x \in Blocks : Listing(x)' = Listing(x)
  BY ListingSame
<1>2. Loading' = Loading /\ \A k : FileOf(k)' = FileOf(k)
  BY DEF Loading, FileOf
<1>3. Reads'
  BY <1>2 DEF LInv, Reads
<1>4. SoFar'
  <2> SUFFICES ASSUME Loading, ~error, NEW k \in 1..Len(frames)
               PROVE  Listing(frames[k].galaxy)' = SubSeq(FileOf(k), 1, frames[k].lines)
    BY <1>2 DEF SoFar
  <2>1. PICK g \in Blocks : g = frames[k].galaxy
    BY FramesApart
  <2>2. Listing(g) = SubSeq(FileOf(k), 1, frames[k].lines)
    BY <2>1 DEF LInv, SoFar
  <2>3. Listing(g)' = SubSeq(FileOf(k), 1, frames[k].lines)
    BY <1>1, <2>2
  <2> QED
    BY <2>1, <2>3
<1>5. InnerLoaded'
  <2> SUFFICES ASSUME Loading, ~error, NEW h \in Under(frames[1].galaxy)',
                      type[h] # "STYPE", ~BeingRead(h)
               PROVE  Loaded(h)'
    BY <1>2 DEF InnerLoaded, BeingRead
  <2>1. h \in Under(frames[1].galaxy) /\ h \in Blocks
    BY DEF Under, Below
  <2>2. Loaded(h)
    BY <2>1 DEF LInv, InnerLoaded
  <2> QED
    BY <1>1, <2>1, <2>2 DEF Loaded
<1> QED
  BY <1>3, <1>4, <1>5 DEF LInv

(* A new block is one more line of the listing of its galaxy. *)
LEMMA ListingMore ==
    ASSUME IInv, TInv, NEW g \in Blocks, NEW b \in Blocks, NEW l \in Line,
           Children(g)' = Append(Children(g), b),
           name'[b] = l.name, model_index'[b] = l.model,
           \A i \in 1..Len(Children(g)) :
               /\ name'[Children(g)[i]] = name[Children(g)[i]]
               /\ model_index'[Children(g)[i]] = model_index[Children(g)[i]]
    PROVE  Listing(g)' = Append(Listing(g), l)
<1>1. PICK s : s = Children(g)
  OBVIOUS
<1>2. s \in Seq(Blocks) /\ Len(s) \in Nat
  BY <1>1, ChildrenAre DEF IInv, Lists
<1>3. PICK n \in Nat : n = Len(s)
  BY <1>2
<1>4. PICK u : u = Append(s, b)
  OBVIOUS
<1>5. Len(u) = n + 1 /\ u[n + 1] = b /\ \A i \in 1..n : u[i] = s[i]
  BY <1>2, <1>3, <1>4
<1>6. PICK v : v = [i \in 1..(n + 1) |-> [name |-> name'[u[i]], model |-> model_index'[u[i]]]]
  OBVIOUS
<1>7. Listing(g)' = v
  BY <1>1, <1>4, <1>5, <1>6 DEF Listing
<1>8. PICK w : w = Listing(g)
  OBVIOUS
<1>9. w \in Seq(Line) /\ Len(w) = n
  BY <1>1, <1>3, <1>8, ListingLines DEF TInv, IInv
<1>10. \A i \in 1..n : w[i] = [name |-> name[s[i]], model |-> model_index[s[i]]]
  BY <1>1, <1>3, <1>8 DEF Listing
<1>11. \A i \in 1..n : v[i] = w[i]
  <2> TAKE i \in 1..n
  <2>1. i \in 1..(n + 1)
    OBVIOUS
  <2>2. v[i] = [name |-> name'[u[i]], model |-> model_index'[u[i]]]
    BY <1>6, <2>1
  <2>3. name'[s[i]] = name[s[i]] /\ model_index'[s[i]] = model_index[s[i]]
    BY <1>1, <1>3
  <2> QED
    BY <1>5, <1>10, <2>2, <2>3
<1>12. v[n + 1] = l
  <2>1. l = [name |-> l.name, model |-> l.model]
    BY DEF Line
  <2>2. n + 1 \in 1..(n + 1)
    OBVIOUS
  <2> QED
    BY <1>5, <1>6, <2>1, <2>2
<1>13. PICK z : z = Append(w, l)
  OBVIOUS
<1>14. z \in Seq(Line) /\ Len(z) = n + 1 /\ z[n + 1] = l /\ \A i \in 1..n : z[i] = w[i]
  BY <1>9, <1>13
<1>15. \A i \in 1..(n + 1) : i = n + 1 \/ i \in 1..n
  OBVIOUS
<1>16. \A i \in 1..(n + 1) : v[i] = z[i]
  BY <1>11, <1>12, <1>14, <1>15
<1>17. v = z
  <2>1. z = [i \in 1..(n + 1) |-> z[i]]
    BY <1>14
  <2>2. v = [i \in 1..(n + 1) |-> v[i]]
    BY <1>6
  <2> QED
    BY <1>16, <2>1, <2>2
<1> QED
  BY <1>7, <1>8, <1>13, <1>17

(* What a line for a new block leaves of the files and of the galaxies.    *)
LEMMA BlockRead ==
    ASSUME IInv, TInv, HeapHolds, NEW l \in Line, NEW t \in {"GTYPE", "STYPE"},
           NewBlock(l, t), files' = files, NEW g, g = pg_current, NEW b, b = Fresh,
           Children(g)' = Append(Children(g), b),
           \A x \in Blocks \ {g} : Children(x)' = Children(x)
    PROVE  /\ b \in Blocks \ Used
           /\ Loading => \A k \in 1..Len(frames) :
                             files'[model_index'[frames[k].galaxy]] = FileOf(k)
           /\ Listing(g)' = Append(Listing(g), l)
           /\ \A x \in Blocks \ {g} : Listing(x)' = Listing(x)
           /\ Children(b)' = <<>> /\ Below(pparent', b) = {}
           /\ model_index'[b] = l.model /\ type'[b] = t
           /\ \A x \in Blocks \ {b} : /\ type'[x] = type[x]
                                      /\ model_index'[x] = model_index[x]
           /\ \A h \in Blocks : Below(pparent', h) \subseteq Under(h) \cup {b}
<1>1. TreeTypeOK /\ Linked /\ g \in Used /\ g \in Blocks
  BY DEF IInv, Placed, Used
<1>2. b \in Blocks \ Used
  BY <1>1, FreshUnused
<1>3. /\ CreateBlock(g, b, t) /\ name' = [name EXCEPT ![b] = l.name]
      /\ model_index' = [model_index EXCEPT ![b] = l.model]
  BY DEF NewBlock
<1>4. /\ name \in [Blocks -> Names \cup {NULL}] /\ model_index \in [Blocks -> Models]
      /\ type \in [Blocks -> BlockTypes]
  BY DEF TInv, TypeOK, TreeTypeOK
<1>5. /\ name'[b] = l.name /\ model_index'[b] = l.model
      /\ \A x \in Blocks \ {b} : name'[x] = name[x] /\ model_index'[x] = model_index[x]
  BY <1>2, <1>3, <1>4
<1>6. /\ type'[b] = t /\ \A x \in Blocks \ {b} : type'[x] = type[x]
  BY <1>2, <1>3, <1>4 DEF CreateBlock
<1>7. TreeTypeOK /\ Linked
  BY <1>1
<1>8. /\ Below(pparent', b) = {}
      /\ \A h \in Blocks : Below(pparent', h) \subseteq Under(h) \cup {b}
  BY <1>1, <1>2, <1>3, <1>7, CreateBlockBelow
<1>9. \A x \in Blocks : \A i \in 1..Len(Children(x)) :
          /\ name'[Children(x)[i]] = name[Children(x)[i]]
          /\ model_index'[Children(x)[i]] = model_index[Children(x)[i]]
  BY <1>2, <1>5, MembersUsed
<1>10. \A x \in Blocks \ {g} : Listing(x)' = Listing(x)
  BY <1>9, ListingSame
<1>11. Listing(g)' = Append(Listing(g), l)
  BY <1>1, <1>2, <1>5, <1>9, ListingMore
<1>12. Children(b)' = <<>>
  <2>1. pchild[b] = NULL /\ b # g
    BY <1>1, <1>2 DEF Linked, FreedClean
  <2>2. Children(b) = <<>>
    BY <2>1 DEF Children
  <2> QED
    BY <1>2, <2>1, <2>2
<1>13. Loading => \A k \in 1..Len(frames) : files'[model_index'[frames[k].galaxy]] = FileOf(k)
  BY <1>2, <1>5, FramesApart DEF FileOf
<1> QED
  BY <1>2, <1>5, <1>6, <1>8, <1>10, <1>11, <1>12, <1>13

(* One more line of a file. *)
LEMMA OneMore ==
    ASSUME NEW F \in Seq(Line), NEW n \in Nat, n + 1 <= Len(F)
    PROVE  SubSeq(F, 1, n + 1) = Append(SubSeq(F, 1, n), F[n + 1])
<1>1. Len(F) \in Nat
  OBVIOUS
<1>2. PICK u : u = SubSeq(F, 1, n)
  OBVIOUS
<1>3. u \in Seq(Line) /\ Len(u) = n /\ \A i \in 1..n : u[i] = F[i]
  BY <1>1, <1>2
<1>4. PICK v : v = SubSeq(F, 1, n + 1)
  OBVIOUS
<1>5. v \in Seq(Line) /\ Len(v) = n + 1 /\ \A i \in 1..(n + 1) : v[i] = F[i]
  BY <1>1, <1>4
<1>6. F[n + 1] \in Line
  BY <1>1
<1>7. PICK w : w = Append(u, F[n + 1])
  OBVIOUS
<1>8. w \in Seq(Line) /\ Len(w) = n + 1 /\ w[n + 1] = F[n + 1] /\ \A i \in 1..n : w[i] = u[i]
  BY <1>3, <1>6, <1>7
<1>9. \A i \in 1..(n + 1) : i = n + 1 \/ i \in 1..n
  OBVIOUS
<1>10. \A i \in 1..(n + 1) : v[i] = w[i]
  BY <1>3, <1>5, <1>8, <1>9
<1>11. v = w
  BY <1>5, <1>8, <1>10
<1> QED
  BY <1>2, <1>4, <1>7, <1>11

(* After a line that is read, a file is still there and not passed. *)
LEMMA LineCounted ==
    ASSUME IInv, LInv, Loading, Top.lines < Len(File)
    PROVE  \A k \in 1..Len(frames) : /\ FileOf(k) \in Seq(Line)
                                     /\ LineRead[k].lines <= Len(FileOf(k))
                                     /\ LineRead[k].galaxy = frames[k].galaxy
<1>1. PICK n \in Nat : n = Len(frames) /\ 1 <= n
  BY FramesApart
<1>2. \A k \in 1..n : /\ FileOf(k) \in Seq(Line) /\ frames[k].lines <= Len(FileOf(k))
                      /\ frames[k].lines \in Nat
  BY <1>1, FramesApart DEF LInv, Reads
<1>3. Top.lines = frames[n].lines /\ File = FileOf(n)
  BY <1>1 DEF Top, File, FileOf
<1>4. Len(FileOf(n)) \in Nat /\ frames[n].lines + 1 <= Len(FileOf(n))
  BY <1>1, <1>2, <1>3
<1>5. /\ \A k \in 1..n : LineRead[k].galaxy = frames[k].galaxy
      /\ \A k \in 1..(n - 1) : LineRead[k].lines = frames[k].lines
      /\ LineRead[n].lines = frames[n].lines + 1
  BY <1>1, LineReadIs
<1>6. \A k \in 1..n : k = n \/ k \in 1..(n - 1)
  OBVIOUS
<1> QED
  BY <1>1, <1>2, <1>4, <1>5, <1>6

(* A new block makes the galaxy at hand what one more line says. *)
LEMMA BlockListed ==
    ASSUME IInv, TInv, LInv, Loading, ~error, Top.lines < Len(File),
           NEW l \in Line, l = File[Top.lines + 1], NEW g, g = pg_current,
           Listing(g)' = Append(Listing(g), l),
           \A x \in Blocks \ {g} : Listing(x)' = Listing(x),
           NEW k \in 1..Len(frames), NEW x, x = frames[k].galaxy
    PROVE  Listing(x)' = SubSeq(FileOf(k), 1, LineRead[k].lines)
<1>1. PICK n \in Nat : n = Len(frames) /\ 1 <= n
  BY FramesApart
<1>2. /\ g = frames[n].galaxy
      /\ \A i \in 1..n : frames[i].galaxy \in Blocks /\ frames[i].lines \in Nat
      /\ \A i \in 1..(n - 1) : frames[i].galaxy # g
  BY <1>1, FramesApart
<1>3. Listing(x) = SubSeq(FileOf(k), 1, frames[k].lines)
  BY DEF LInv, SoFar
<1>4. /\ \A i \in 1..(n - 1) : LineRead[i].lines = frames[i].lines
      /\ LineRead[n].lines = frames[n].lines + 1
  BY <1>1, LineReadIs
<1>5. CASE k # n
  <2>1. k \in 1..(n - 1)
    BY <1>1, <1>5
  <2>2. x \in Blocks \ {g}
    BY <1>1, <1>2, <2>1
  <2>3. Listing(x)' = Listing(x)
    BY <2>2
  <2> QED
    BY <1>3, <1>4, <2>1, <2>3
<1>6. CASE k = n
  <2>1. PICK F : F = FileOf(n)
    OBVIOUS
  <2>2. PICK m \in Nat : m = frames[n].lines
    BY <1>1, <1>2
  <2>3. F \in Seq(Line) /\ Len(F) \in Nat
    BY <1>1, <2>1 DEF LInv, Reads
  <2>4. Top.lines = m /\ File = F
    BY <1>1, <2>1, <2>2 DEF Top, File, FileOf
  <2>5. m + 1 <= Len(F) /\ l = F[m + 1]
    BY <2>2, <2>3, <2>4
  <2>6. SubSeq(F, 1, m + 1) = Append(SubSeq(F, 1, m), F[m + 1])
    BY <2>3, <2>5, OneMore
  <2>7. x = g /\ Listing(g) = SubSeq(F, 1, m)
    BY <1>2, <1>3, <1>6, <2>1, <2>2
  <2>8. LineRead[k].lines = m + 1
    BY <1>4, <1>6, <2>2
  <2> QED
    BY <1>6, <2>1, <2>5, <2>6, <2>7, <2>8
<1> QED
  BY <1>5, <1>6

(* The galaxies that were read before are as they were. *)
LEMMA OthersLoaded ==
    ASSUME IInv, LInv, Loading, ~error, NEW g, g = pg_current, NEW b,
           files' = files, \A x \in Blocks \ {g} : Listing(x)' = Listing(x),
           \A x \in Blocks \ {b} : type'[x] = type[x] /\ model_index'[x] = model_index[x],
           \A h \in Blocks : Below(pparent', h) \subseteq Under(h) \cup {b},
           NEW h \in Below(pparent', frames[1].galaxy), h # b, type'[h] # "STYPE",
           ~BeingRead(h)
    PROVE  Loaded(h)'
<1>1. PICK n \in Nat : n = Len(frames) /\ 1 <= n
  BY FramesApart
<1>2. g = frames[n].galaxy /\ frames[1].galaxy \in Blocks
  BY <1>1, FramesApart
<1>3. h \in Blocks /\ h \in Under(frames[1].galaxy)
  BY <1>2 DEF Below
<1>4. h # g
  BY <1>1, <1>2 DEF BeingRead
<1>5. type[h] # "STYPE" /\ model_index'[h] = model_index[h] /\ Listing(h)' = Listing(h)
  BY <1>3, <1>4
<1>6. Loaded(h)
  BY <1>3, <1>5 DEF LInv, InnerLoaded
<1> QED
  BY <1>5, <1>6 DEF Loaded

(* A line that makes a star, or a galaxy that has no file. *)
LEMMA LineDone ==
    ASSUME IInv, TInv, LInv, Loading, ~error, HeapHolds, Top.lines < Len(File),
           NEW l \in Line, l = File[Top.lines + 1],
           NEW t \in {"GTYPE", "STYPE"}, NewBlock(l, t), t = "STYPE" \/ error',
           files' = files, frames' = LineRead, NEW g, g = pg_current, NEW b, b = Fresh,
           Children(g)' = Append(Children(g), b),
           \A x \in Blocks \ {g} : Children(x)' = Children(x)
    PROVE  LInv'
<1>1. PICK n \in Nat : n = Len(frames) /\ 1 <= n
  BY FramesApart
<1>2. /\ \A k \in 1..n : files'[model_index'[frames[k].galaxy]] = FileOf(k)
      /\ Listing(g)' = Append(Listing(g), l)
      /\ \A x \in Blocks \ {g} : Listing(x)' = Listing(x)
      /\ \A x \in Blocks \ {b} : type'[x] = type[x] /\ model_index'[x] = model_index[x]
      /\ type'[b] = t
      /\ \A h \in Blocks : Below(pparent', h) \subseteq Under(h) \cup {b}
  BY <1>1, BlockRead
<1>3. /\ Len(frames') = n
      /\ \A k \in 1..n : /\ frames'[k].galaxy = frames[k].galaxy
                         /\ frames'[k].lines = LineRead[k].lines
                         /\ FileOf(k) \in Seq(Line) /\ frames'[k].lines <= Len(FileOf(k))
  BY <1>1, LineReadIs, LineCounted
<1>4. \A k \in 1..n : FileOf(k)' = FileOf(k)
  BY <1>2, <1>3 DEF FileOf
<1>5. Reads'
  BY <1>3, <1>4 DEF Reads
<1>6. SoFar'
  <2> SUFFICES ASSUME NEW k \in 1..n
               PROVE  Listing(frames[k].galaxy)' = SubSeq(FileOf(k)', 1, frames'[k].lines)
    BY <1>3 DEF SoFar
  <2>1. PICK x : x = frames[k].galaxy
    OBVIOUS
  <2>2. Listing(x)' = SubSeq(FileOf(k), 1, LineRead[k].lines)
    BY <1>1, <1>2, <2>1, BlockListed
  <2> QED
    BY <1>3, <1>4, <2>1, <2>2
<1>7. InnerLoaded'
  <2> SUFFICES ASSUME ~error', NEW h \in Below(pparent', frames'[1].galaxy),
                      type'[h] # "STYPE", ~BeingRead(h)'
               PROVE  Loaded(h)'
    BY DEF InnerLoaded, Under
  <2>1. h \in Below(pparent', frames[1].galaxy) /\ h # b
    BY <1>1, <1>2, <1>3
  <2>2. ~BeingRead(h)
    BY <1>1, <1>3 DEF BeingRead
  <2> QED
    BY <1>2, <2>1, <2>2, OthersLoaded
<1> QED
  BY <1>5, <1>6, <1>7 DEF LInv

(* A line that makes a galaxy and opens its file. *)
LEMMA LineOpened ==
    ASSUME IInv, TInv, LInv, Loading, ~error, HeapHolds, Top.lines < Len(File),
           NEW l \in Line, l = File[Top.lines + 1], files[l.model] \in Seq(Line),
           NewBlock(l, "GTYPE"), files' = files, NEW g, g = pg_current, NEW b, b = Fresh,
           Len(frames') = Len(frames) + 1,
           \A k \in 1..Len(frames) : /\ frames'[k].galaxy = frames[k].galaxy
                                     /\ frames'[k].lines = LineRead[k].lines,
           frames'[Len(frames) + 1].galaxy = b, frames'[Len(frames) + 1].lines = 0,
           Children(g)' = Append(Children(g), b),
           \A x \in Blocks \ {g} : Children(x)' = Children(x)
    PROVE  LInv'
<1>1. PICK n \in Nat : n = Len(frames) /\ 1 <= n
  BY FramesApart
<1>2. /\ \A k \in 1..n : files'[model_index'[frames[k].galaxy]] = FileOf(k)
      /\ Listing(g)' = Append(Listing(g), l)
      /\ \A x \in Blocks \ {g} : Listing(x)' = Listing(x)
      /\ \A x \in Blocks \ {b} : type'[x] = type[x] /\ model_index'[x] = model_index[x]
      /\ Children(b)' = <<>> /\ Below(pparent', b) = {} /\ model_index'[b] = l.model
      /\ \A h \in Blocks : Below(pparent', h) \subseteq Under(h) \cup {b}
  BY <1>1, BlockRead
<1>5. Len(frames') = n + 1 /\ frames'[n + 1].galaxy = b /\ frames'[n + 1].lines = 0
  BY <1>1
<1>6. \A k \in 1..n : /\ frames'[k].galaxy = frames[k].galaxy
                      /\ frames'[k].lines = LineRead[k].lines
                      /\ FileOf(k) \in Seq(Line) /\ frames'[k].lines <= Len(FileOf(k))
  BY <1>1, LineCounted
<1>7. \A k \in 1..n : FileOf(k)' = FileOf(k)
  BY <1>2, <1>6 DEF FileOf
<1>8. PICK F \in Seq(Line) : F = files[l.model]
  OBVIOUS
<1>9. FileOf(n + 1)' = F
  BY <1>2, <1>5, <1>8 DEF FileOf
<1>10. \A k \in 1..(n + 1) : k = n + 1 \/ k \in 1..n
  OBVIOUS
<1>12. Reads'
  <2>1. 0 <= Len(F)
    BY <1>8
  <2> QED
    BY <1>5, <1>6, <1>7, <1>9, <1>10, <2>1 DEF Reads
<1>13. SoFar'
  <2> SUFFICES ASSUME NEW k \in 1..(n + 1)
               PROVE  Listing(frames[k].galaxy)' = SubSeq(FileOf(k)', 1, frames'[k].lines)
    BY <1>5 DEF SoFar
  <2>1. CASE k \in 1..n
    <3>1. PICK x : x = frames[k].galaxy
      OBVIOUS
    <3>2. Listing(x)' = SubSeq(FileOf(k), 1, LineRead[k].lines)
      BY <1>1, <1>2, <2>1, <3>1, BlockListed
    <3> QED
      BY <1>6, <1>7, <2>1, <3>1, <3>2
  <2>2. CASE k = n + 1
    <3>1. Listing(b)' = <<>> /\ SubSeq(F, 1, 0) = <<>>
      BY <1>2, <1>8, ListingEmpty
    <3> QED
      BY <1>9, <1>5, <2>2, <3>1
  <2> QED
    BY <1>10, <2>1, <2>2
<1>14. InnerLoaded'
  <2> SUFFICES ASSUME NEW h \in Below(pparent', frames'[1].galaxy),
                      type'[h] # "STYPE", ~BeingRead(h)'
               PROVE  Loaded(h)'
    BY DEF InnerLoaded, Under
  <2>1. h \in Below(pparent', frames[1].galaxy)
    BY <1>1, <1>6
  <2>2. h # b
    BY <1>1, <1>5 DEF BeingRead
  <2>3. ~BeingRead(h)
    <3>1. \A k \in 1..(n + 1) : frames'[k].galaxy # h
      BY <1>5 DEF BeingRead
    <3>2. \A k \in 1..n : k \in 1..(n + 1)
      OBVIOUS
    <3>3. \A k \in 1..n : frames[k].galaxy # h
      BY <1>6, <3>1, <3>2
    <3> QED
      BY <1>1, <3>3 DEF BeingRead
  <2>4. /\ \A x \in Blocks \ {g} : Listing(x)' = Listing(x)
        /\ \A x \in Blocks \ {b} : type'[x] = type[x] /\ model_index'[x] = model_index[x]
        /\ \A y \in Blocks : Below(pparent', y) \subseteq Under(y) \cup {b}
    BY <1>2
  <2> QED
    BY <2>1, <2>2, <2>3, <2>4, OthersLoaded
<1> QED
  BY <1>12, <1>13, <1>14 DEF LInv

(* A line of a file, whatever comes of it. *)
LEMMA ReadLineLoad ==
    ASSUME IInv, TInv, LInv, Loading, ReadLine
    PROVE  LInv'
<1>1. PICK n \in Nat : n = Len(frames) /\ 1 <= n
  BY FramesApart
<1>2. ~error /\ Top.lines < Len(File)
  BY DEF ReadLine
<1>3. File \in Seq(Line)
  <2>1. FileOf(n) \in Seq(Line)
    BY <1>1 DEF LInv, Reads
  <2> QED
    BY <1>1, <2>1 DEF File, FileOf, Top
<1>4. PICK l \in Line : l = File[Top.lines + 1] /\ Execute(l)
  BY <1>3, LineToRead
<1>5. CASE Refuse
  <2>1. frames' = LineRead /\ error' /\ UNCHANGED <<model_index, files>>
    BY <1>5 DEF Refuse, labels, disk
  <2>2. Len(frames') = n
    BY <1>1, <2>1, LineReadIs
  <2>3. \A k \in 1..n : /\ frames'[k].galaxy = frames[k].galaxy
                        /\ FileOf(k) \in Seq(Line) /\ frames'[k].lines <= Len(FileOf(k))
    BY <1>1, <1>2, <2>1, LineCounted
  <2>4. \A k \in 1..n : FileOf(k)' = FileOf(k)
    BY <2>1, <2>3 DEF FileOf
  <2>5. Reads'
    BY <2>2, <2>3, <2>4 DEF Reads
  <2> QED
    BY <2>1, <2>5 DEF LInv, SoFar, InnerLoaded
<1>6. CASE Create(l)
  <2>1. PICK g : g = pg_current
    OBVIOUS
  <2>2. PICK b : b = Fresh
    OBVIOUS
  <2>3. CASE ~HeapHolds /\ ErrorAlloc /\ \A x \in Blocks : Children(x)' = Children(x)
    <3>1. UNCHANGED <<type, pparent, name, model_index, files, frames, error>>
      BY <2>3 DEF ErrorAlloc, tree, labels, disk
    <3> QED
      BY <2>3, <3>1, NothingRead
  <2>4. CASE /\ HeapHolds /\ Children(g)' = Append(Children(g), b)
             /\ \A x \in Blocks \ {g} : Children(x)' = Children(x)
    <3>1. CASE LineStar(l)
      <4>1. NewBlock(l, "STYPE") /\ frames' = LineRead /\ files' = files
        BY <3>1 DEF LineStar, disk
      <4> QED
        BY <1>2, <1>4, <2>1, <2>2, <2>4, <4>1, LineDone
    <3>2. CASE GalaxyWithoutFile(l)
      <4>1. NewBlock(l, "GTYPE") /\ frames' = LineRead /\ files' = files /\ error'
        BY <3>2 DEF GalaxyWithoutFile, disk
      <4> QED
        BY <1>2, <1>4, <2>1, <2>2, <2>4, <4>1, LineDone
    <3>3. CASE GalaxyWithFile(l) /\ l.model \notin StarModels /\ files[l.model] # NoFile
      <4>1. NewBlock(l, "GTYPE") /\ frames' = Append(LineRead, Called(b, TRUE)) /\ files' = files
        BY <2>2, <3>3 DEF GalaxyWithFile, disk
      <4>2. files[l.model] \in Seq(Line)
        BY <3>3 DEF Line, Models, TInv, TypeOK, Contents
      <4>3. PICK r : r = Called(b, TRUE)
        OBVIOUS
      <4>4. r.galaxy = b /\ r.lines = 0
        BY <4>3 DEF Called
      <4>5. /\ Len(LineRead) = n /\ LineRead \in Seq(Frame)
            /\ \A k \in 1..n : LineRead[k].galaxy = frames[k].galaxy
        BY <1>1, LineReadIs
      <4>6. PICK gs \in Seq(Frame) : gs = LineRead
        BY <4>5
      <4>7. frames' = Append(gs, r) /\ Len(gs) = n
        BY <4>1, <4>3, <4>5, <4>6
      <4>8. /\ Len(frames') = n + 1 /\ frames'[n + 1] = r
            /\ \A k \in 1..n : frames'[k] = gs[k]
        BY <4>7
      <4>9. /\ Len(frames') = Len(frames) + 1
            /\ \A k \in 1..Len(frames) : /\ frames'[k].galaxy = frames[k].galaxy
                                         /\ frames'[k].lines = LineRead[k].lines
            /\ frames'[Len(frames) + 1].galaxy = b /\ frames'[Len(frames) + 1].lines = 0
        BY <1>1, <4>4, <4>5, <4>6, <4>8
      <4> QED
        BY <1>2, <1>4, <2>1, <2>2, <2>4, <4>1, <4>2, <4>9, LineOpened
    <3> QED
      BY <1>6, <2>4, <3>1, <3>2, <3>3 DEF Create, LineGalaxy, Opens
  <2> QED
    BY <1>6, <2>1, <2>2, <2>3, <2>4, CreateTree
<1> QED
  BY <1>4, <1>5, <1>6 DEF Execute

(* The frames that are left when a file is done with. *)
LEMMA FramesLeft ==
    ASSUME IInv, LInv, Loading, frames' = SubSeq(frames, 1, Len(frames) - 1), files' = files,
           \A k \in 1..(Len(frames) - 1) :
               model_index'[frames[k].galaxy] = model_index[frames[k].galaxy]
    PROVE  /\ Len(frames') = Len(frames) - 1
           /\ \A k \in 1..(Len(frames) - 1) : frames'[k] = frames[k] /\ FileOf(k)' = FileOf(k)
           /\ Reads'
<1>1. PICK n \in Nat : n = Len(frames) /\ 1 <= n
  BY FramesApart
<1>2. PICK fs \in Seq(Frame) : fs = frames
  BY FramesApart
<1>3. Len(frames') = n - 1 /\ \A k \in 1..(n - 1) : frames'[k] = frames[k]
  BY <1>1, <1>2
<1>4. \A k \in 1..(n - 1) : FileOf(k)' = FileOf(k)
  BY <1>1, <1>3 DEF FileOf
<1>5. Reads'
  <2>1. \A k \in 1..(n - 1) : k \in 1..n
    BY <1>1
  <2> QED
    BY <1>1, <1>3, <1>4, <2>1 DEF LInv, Reads
<1> QED
  BY <1>1, <1>3, <1>4, <1>5

(* A file that has been read: its galaxy is what it says. *)
LEMMA EndOfFileLoad ==
    ASSUME IInv, TInv, LInv, Loading, EndOfFile
    PROVE  LInv' /\ \A h \in {Top.galaxy} \cup Under(Top.galaxy) : type[h] # "STYPE" => Loaded(h)
<1>1. PICK n \in Nat : n = Len(frames) /\ 1 <= n
  BY FramesApart
<1>2. /\ ~error /\ Top.lines = Len(File)
      /\ UNCHANGED <<type, pparent, pchild, pfsibling, name, model_index, files>>
      /\ frames' = SubSeq(frames, 1, Len(frames) - 1)
  BY DEF EndOfFile, Return, tree, labels, disk
<1>3. /\ Top = frames[n] /\ File = FileOf(n) /\ Top.galaxy = pg_current
      /\ \A k \in 1..n : frames[k].galaxy \in Blocks
      /\ \A k \in 1..(n - 1) : frames[k].galaxy # pg_current
      /\ pg_current = frames[1].galaxy \/ pg_current \in Under(frames[1].galaxy)
  BY <1>1, FramesApart DEF Top, File, FileOf
<1>4. Loaded(Top.galaxy)
  <2>1. PICK F \in Seq(Line) : F = FileOf(n)
    BY <1>1 DEF LInv, Reads
  <2>2. Listing(Top.galaxy) = SubSeq(F, 1, Len(F))
    BY <1>1, <1>2, <1>3, <2>1 DEF LInv, SoFar
  <2>3. SubSeq(F, 1, Len(F)) = F
    OBVIOUS
  <2> QED
    BY <1>3, <2>1, <2>2, <2>3 DEF Loaded, FileOf
<1>5. \A h \in Under(frames[1].galaxy) :
          type[h] # "STYPE" /\ (\A k \in 1..(n - 1) : frames[k].galaxy # h) => Loaded(h)
  <2> SUFFICES ASSUME NEW h \in Under(frames[1].galaxy), type[h] # "STYPE",
                      \A k \in 1..(n - 1) : frames[k].galaxy # h
               PROVE  Loaded(h)
    OBVIOUS
  <2>1. CASE h = Top.galaxy
    BY <1>4, <2>1
  <2>2. CASE h # Top.galaxy
    <3>1. \A k \in 1..n : k = n \/ k \in 1..(n - 1)
      OBVIOUS
    <3>2. ~BeingRead(h)
      BY <1>1, <1>3, <2>2, <3>1 DEF BeingRead
    <3> QED
      BY <1>2, <3>2 DEF LInv, InnerLoaded
  <2> QED
    BY <2>1, <2>2
<1>6. \A h \in {Top.galaxy} \cup Under(Top.galaxy) : type[h] # "STYPE" => Loaded(h)
  <2> SUFFICES ASSUME NEW h \in Under(Top.galaxy), type[h] # "STYPE" PROVE Loaded(h)
    BY <1>4
  <2>1. h \in Under(frames[1].galaxy)
    BY <1>3, BelowTransitive DEF Under
  <2>2. \A k \in 1..(n - 1) : frames[k].galaxy # h
    <3> SUFFICES ASSUME NEW k \in 1..(n - 1), frames[k].galaxy = h PROVE FALSE
      OBVIOUS
    <3>1. k \in 1..n /\ n \in 1..n /\ k < n
      BY <1>1
    <3>2. pg_current \in Under(h)
      BY <1>1, <1>3, <3>1 DEF IInv, Nest, Under
    <3>3. pg_current \in Blocks /\ pg_current \in Under(pg_current)
      BY <1>1, <1>3, <3>1, <3>2, BelowTransitive DEF Under
    <3> QED
      BY <3>3 DEF IInv, Linked, NoLoop
  <2> QED
    BY <1>5, <2>1, <2>2
<1>7. /\ Len(frames') = n - 1
      /\ \A k \in 1..(n - 1) : frames'[k] = frames[k] /\ FileOf(k)' = FileOf(k)
      /\ Reads'
  BY <1>1, <1>2, FramesLeft
<1>8. \A x \in Blocks : Children(x)' = Children(x)
  BY <1>2, KidsSame DEF IInv
<1>9. \A x \in Blocks : Listing(x)' = Listing(x)
  BY <1>2, <1>8, ListingSame
<1>10. SoFar'
  <2> SUFFICES ASSUME NEW k \in 1..(n - 1)
               PROVE  Listing(frames[k].galaxy)' = SubSeq(FileOf(k)', 1, frames'[k].lines)
    BY <1>7 DEF SoFar
  <2>1. k \in 1..n
    OBVIOUS
  <2>2. PICK x \in Blocks : x = frames[k].galaxy
    BY <1>3, <2>1
  <2>3. Listing(x) = SubSeq(FileOf(k), 1, frames[k].lines)
    BY <1>1, <1>2, <2>1, <2>2 DEF LInv, SoFar
  <2>4. Listing(x)' = Listing(x)
    BY <1>9
  <2> QED
    BY <1>7, <2>2, <2>3, <2>4
<1>11. InnerLoaded'
  <2> SUFFICES ASSUME Loading', NEW h \in Below(pparent', frames'[1].galaxy),
                      type'[h] # "STYPE", ~BeingRead(h)'
               PROVE  Loaded(h)'
    BY DEF InnerLoaded, Under
  <2>1. n - 1 >= 1
    BY <1>1, <1>2, <1>7 DEF Loading
  <2>2. h \in Under(frames[1].galaxy) /\ h \in Blocks
    BY <1>2, <1>7, <2>1 DEF Under, Below
  <2>3. \A k \in 1..(n - 1) : frames[k].galaxy # h
    BY <1>7 DEF BeingRead
  <2>4. Loaded(h)
    BY <1>2, <1>5, <2>2, <2>3
  <2> QED
    BY <1>2, <1>9, <2>2, <2>4 DEF Loaded
<1> QED
  BY <1>6, <1>7, <1>10, <1>11 DEF LInv

(* A file in error: its galaxy is emptied; the file around it fails too.   *)
LEMMA FileFailedLoad ==
    ASSUME IInv, LInv, Loading, FileFailed, NEW g, g = Top.galaxy
    PROVE  LInv' /\ Listing(g)' = <<>>
<1>1. PICK n \in Nat : n = Len(frames) /\ 1 <= n
  BY FramesApart
<1>2. /\ g = pg_current /\ g \in Blocks
      /\ \A k \in 1..n : frames[k].galaxy \in Blocks
      /\ \A k \in 1..(n - 1) : frames[k].galaxy # g
  BY <1>1, FramesApart DEF Top
<1>3. /\ TreeTypeOK /\ Linked /\ g \in Used /\ type[g] \in {"UTYPE", "GTYPE"}
  BY <1>2 DEF IInv, Placed, Path, Galaxy, Used
<1>4. /\ RemoveChildren(g, type[g]) /\ model_index' = Kept(model_index, universeModel)
      /\ frames' = SubSeq(frames, 1, Len(frames) - 1) /\ files' = files
      /\ Len(frames) > 1 => error'
  BY <1>2 DEF FileFailed, LabelsKept, Return, disk
<1>5. PICK t \in {"UTYPE", "GTYPE"} : t = type[g]
  BY <1>3
<1>6. RemoveChildren(g, t) /\ TreeTypeOK /\ Linked
  BY <1>3, <1>4, <1>5
<1>7. Listing(g)' = <<>>
  <2>1. \A x \in Blocks : Children(x)' = IF x \in {g} \cup Under(g) THEN <<>> ELSE Children(x)
    BY <1>3, <1>6, RemoveChildrenEmpties
  <2>2. Children(g)' = <<>>
    BY <1>2, <2>1
  <2> QED
    BY <2>2, ListingEmpty
<1>8. \A x \in Blocks \ (Under(g) \cup {g}) : type'[x] = type[x]
  BY <1>3, <1>6, RemoveChildrenFrame
<1>9. \A k \in 1..(n - 1) : model_index'[frames[k].galaxy] = model_index[frames[k].galaxy]
  <2> SUFFICES ASSUME NEW k \in 1..(n - 1)
               PROVE  model_index'[frames[k].galaxy] = model_index[frames[k].galaxy]
    OBVIOUS
  <2>1. k \in 1..n /\ n \in 1..n /\ k < n
    BY <1>1
  <2>2. PICK x \in Used : x = frames[k].galaxy
    BY <1>1, <2>1, FramesApart
  <2>3. g \in Under(x)
    <3>1. frames[n].galaxy \in Below(pparent, frames[k].galaxy)
      BY <1>1, <2>1 DEF IInv, Nest
    <3>2. frames[n].galaxy = g
      BY <1>1 DEF Top
    <3> QED
      BY <2>2, <3>1, <3>2 DEF Under
  <2>4. x \notin Under(g)
    <3>1. ASSUME x \in Under(g) PROVE FALSE
      <4>1. g \in Under(g)
        BY <2>3, <3>1, BelowTransitive DEF Under
      <4> QED
        BY <1>2, <1>3, <4>1 DEF Linked, NoLoop
    <3> QED
      BY <3>1
  <2>5. x \in Blocks /\ x # g /\ type[x] # "FREE"
    BY <1>2, <2>2 DEF Used
  <2>6. type'[x] # "FREE"
    BY <1>8, <2>4, <2>5
  <2> QED
    BY <1>4, <2>2, <2>5, <2>6 DEF Kept
<1>10. Len(frames') = n - 1 /\ Reads'
  BY <1>1, <1>4, <1>9, FramesLeft
<1>11. Loading' => error'
  <2>1. Loading' => n - 1 >= 1
    BY <1>1, <1>10 DEF Loading
  <2> QED
    BY <1>1, <1>4, <2>1
<1> QED
  BY <1>7, <1>10, <1>11 DEF LInv, SoFar, InnerLoaded

(* A file that a command opens is one. *)
LEMMA FileThere ==
    ASSUME TInv, NEW m \in GalaxyModels, files[m] # NoFile
    PROVE  files[m] \in Seq(Line)
BY DEF TInv, TypeOK, Contents

(* hblock, given by the user. *)
LEMMA BlockLoad ==
    ASSUME IInv, TInv, NEW l \in Line, L_block(l)
    PROVE  LInv'
<1>1. Waiting /\ Create(l) /\ frames = <<>> /\ LineRead = <<>> /\ TreeTypeOK
  BY NoFrames DEF L_block, Command, LineRead, Waiting, IInv
<1>2. CASE frames' \in {frames, LineRead}
  BY <1>1, <1>2, NotLoading
<1>3. CASE HeapHolds /\ GalaxyWithFile(l) /\ l.model \notin StarModels /\ files[l.model] # NoFile
  <2>1. PICK g : g = pg_current
    OBVIOUS
  <2>2. PICK b : b = Fresh
    OBVIOUS
  <2>3. /\ Children(g)' = Append(Children(g), b)
        /\ \A x \in Blocks \ {g} : Children(x)' = Children(x)
    BY <1>1, <1>3, <2>1, <2>2, CreateTree
  <2>4. NewBlock(l, "GTYPE") /\ files' = files /\ frames' = Append(LineRead, Called(b, TRUE))
    BY <1>3, <2>2 DEF GalaxyWithFile, disk
  <2>5. Children(b)' = <<>> /\ Below(pparent', b) = {} /\ model_index'[b] = l.model
    BY <1>3, <2>1, <2>2, <2>3, <2>4, BlockRead
  <2>6. PICK r : r = Called(b, TRUE)
    OBVIOUS
  <2>7. r.galaxy = b /\ r.lines = 0 /\ frames' = <<r>>
    BY <1>1, <2>4, <2>6 DEF Called
  <2>8. files'[model_index'[b]] \in Seq(Line)
    <3>1. l.model \in GalaxyModels
      BY <1>3 DEF Line, Models
    <3> QED
      BY <1>3, <2>4, <2>5, <3>1, FileThere
  <2> QED
    BY <2>5, <2>7, <2>8, LoadStarts
<1> QED
  BY <1>1, <1>2, <1>3
     DEF Create, ErrorAlloc, LineStar, LineGalaxy, Opens, GalaxyWithoutFile, GalaxyWithFile

(* replace by a galaxy, and load: the galaxy has been emptied. *)
LEMMA EmptiedLoad ==
    ASSUME IInv, TInv, NEW g \in Used, NEW t \in {"UTYPE", "GTYPE"}, RemoveChildren(g, t),
           NEW m \in GalaxyModels, files[m] # NoFile, files' = files, model_index'[g] = m,
           NEW inner, frames' = <<Called(g, inner)>>
    PROVE  LInv'
<1>1. TreeTypeOK /\ Linked /\ g \in Blocks
  BY DEF IInv, Used
<1>2. Children(g)' = <<>>
  BY <1>1, RemoveChildrenEmpties
<1>3. Below(pparent', g) = {}
  <2>1. \A y \in Blocks : Below(pparent', y) = Under(y) \ Under(g)
    BY <1>1, RemoveChildrenFrame
  <2> QED
    BY <1>1, <2>1
<1>4. files'[model_index'[g]] \in Seq(Line)
  BY FileThere
<1>5. PICK r : r = Called(g, inner)
  OBVIOUS
<1>6. r.galaxy = g /\ r.lines = 0 /\ frames' = <<r>>
  BY <1>5 DEF Called
<1> QED
  BY <1>2, <1>3, <1>4, <1>6, LoadStarts

(* replace. *)
LEMMA ReplaceLoad ==
    ASSUME IInv, TInv, NEW l \in Line, LineReplace(l)
    PROVE  LInv'
<1>1. Waiting /\ frames = <<>> /\ pb_current \in Used /\ pb_current \in Blocks
  BY NoFrames, CurrentBlock DEF LineReplace, Command
<1>2. CASE frames' = frames
  BY <1>1, <1>2, NotLoading
<1>3. CASE /\ l.model \in known /\ files[l.model] # NoFile
           /\ RemoveChildren(pb_current, "GTYPE") /\ frames' = <<Called(pb_current, TRUE)>>
  <2>1. PICK g \in Used : g = pb_current
    BY <1>1
  <2>2. l.model \in GalaxyModels
    BY <1>3 DEF TInv, TypeOK
  <2>3. files' = files /\ model_index'[g] = l.model
    BY <1>1, <2>1 DEF LineReplace, disk, Kept
  <2>4. RemoveChildren(g, "GTYPE") /\ frames' = <<Called(g, TRUE)>>
    BY <1>3, <2>1
  <2> QED
    BY <1>3, <2>2, <2>3, <2>4, EmptiedLoad
<1> QED
  BY <1>2, <1>3 DEF LineReplace, ReplaceByStar, ReplaceByGalaxy

(* load. *)
LEMMA LoadLoad ==
    ASSUME IInv, TInv, NEW m \in GalaxyModels, NEW named \in BOOLEAN, L_load(m, named)
    PROVE  LInv'
<1>1. PICK g \in Used : g = pg_current
  BY DEF IInv, Placed
<1>2. PICK t \in {"UTYPE", "GTYPE"} : t = type[g]
  BY <1>1 DEF IInv, Placed, Path, Galaxy, Used
<1>3. /\ RemoveChildren(g, t) /\ files[m] # NoFile /\ files' = files
      /\ frames' = <<Called(g, FALSE)>>
  BY <1>1, <1>2 DEF L_load, disk
<1>4. model_index'[g] = m
  BY <1>1 DEF L_load, Kept, Used
<1> QED
  BY <1>3, <1>4, EmptiedLoad

(* Every step keeps the types. *)
LEMMA StepTypes ==
    ASSUME IInv, IInv', TInv, LInv, [Next]_vars
    PROVE  TInv'
<1>1. /\ commands \in 0..MaxCommands /\ MaxCommands \in Nat /\ pb_current \in Pointer
      /\ name \in [Blocks -> Names \cup {NULL}] /\ \A x \in Inside : name[x] \in Names
      /\ error \in BOOLEAN
  BY ModelAssumption DEF TInv, TypeOK
<1>2. Command => commands' \in 0..MaxCommands
  BY <1>1 DEF Command
<1>3. ASSUME NEW l \in Line, L_block(l) PROVE TInv'
  BY <1>2, <1>3, CreateTypes DEF L_block
<1>4. ASSUME NEW l \in Line, LineReplace(l) PROVE TInv'
  BY <1>2, <1>4, ReplaceTypes DEF LineReplace
<1>5. CASE L_remove
  BY <1>2, <1>5, RemoveTypes DEF L_remove
<1>6. CASE L_new
  <2>1. /\ StoreIn(untitled, TRUE, <<>>) /\ name' = Kept(name, NULL) /\ pb_current' = NULL
        /\ UNCHANGED <<error, exited>> /\ commands' \in 0..MaxCommands
        /\ Inside' \subseteq Inside
    BY <1>2, <1>6, EmptiedInside DEF L_new
  <2>2. untitled \in GalaxyModels /\ <<>> \in Seq(Line) /\ TRUE \in BOOLEAN
    BY ModelAssumption
  <2> QED
    BY <2>1, <2>2, StoreTypes
<1>7. ASSUME NEW m \in GalaxyModels, NEW named \in BOOLEAN, LineStore(m, named) PROVE TInv'
  <2>1. /\ StoreIn(m, named, Listing(pg_current)) /\ name' = name /\ type' = type
        /\ pb_current' = pb_current
        /\ UNCHANGED <<error, exited>> /\ commands' \in 0..MaxCommands
    BY <1>2, <1>7 DEF LineStore, tree, place
  <2>2. Inside' \subseteq Inside
    BY <2>1 DEF Inside, Used
  <2>3. Listing(pg_current) \in Seq(Line)
    BY ListingLines DEF TInv, IInv, Placed, Used
  <2> QED
    BY <2>1, <2>2, <2>3, StoreTypes
<1>8. ASSUME NEW m \in GalaxyModels, NEW named \in BOOLEAN, L_load(m, named) PROVE TInv'
  BY <1>2, <1>8, LoadTypes DEF L_load
<1>9. ASSUME NEW n \in Names, L_rename(n) PROVE TInv'
  <2>1. /\ UNCHANGED <<type, model_index, change_flag, files, known, exited>>
        /\ pb_current' \in Pointer /\ error' \in BOOLEAN /\ commands' \in 0..MaxCommands
        /\ name' = [name EXCEPT ![pb_current] = n]
    BY <1>1, <1>2, <1>9 DEF L_rename, tree, disk, place
  <2>2. /\ name' \in [Blocks -> Names \cup {NULL}] /\ \A x \in Inside : name'[x] \in Names
    BY <1>1, <2>1 DEF Inside, Used
  <2> QED
    BY <2>1, <2>2, PlaceTypes
<1>10. ASSUME NEW first \in Blocks, NEW second \in Blocks, L_run(first, second) PROVE TInv'
  <2>1. /\ UNCHANGED <<type, name, model_index, change_flag, files, known, exited>>
        /\ pb_current' \in Pointer /\ error' \in BOOLEAN /\ commands' \in 0..MaxCommands
    BY <1>1, <1>2, <1>10 DEF L_run, MoveBlock, labels, disk, place
  <2> QED
    BY <1>1, <2>1, PlaceTypes
<1>11. CASE Move
  <2>1. /\ UNCHANGED <<type, name, model_index, change_flag, files, known, exited>>
        /\ error' \in BOOLEAN /\ commands' \in 0..MaxCommands
    BY <1>1, <1>11 DEF Move, tree, labels, disk
  <2>2. pb_current' \in Pointer
    <3>1. /\ pchild \in [Blocks -> Pointer] /\ pg_current \in Pointer /\ Blocks \subseteq Pointer
          /\ pb_current # NULL => pb_current \in Blocks
      BY <1>1 DEF IInv, TreeTypeOK, Placed, Used, Pointer
    <3> QED
      BY <1>11, <3>1 DEF Move, L_down, L_up, ToTop, ToSibling
  <2> QED
    BY <1>1, <2>1, <2>2, PlaceTypes
<1>12. CASE LoadStep
  <2>1. CASE EndOfFile \/ FileFailed
    BY <1>12, <2>1, ReturnTypes DEF LoadStep
  <2>2. CASE ReadLine
    <3>1. Loading
      BY <1>12 DEF LoadStep
    <3>2. File \in Seq(Line)
      <4>1. PICK n : n = Len(frames) /\ n \in 1..Len(frames)
        BY <3>1, FramesApart
      <4> QED
        BY <4>1 DEF LInv, Reads, File, FileOf, Top
    <3>3. PICK l \in Line : Execute(l) /\ commands' = commands
      BY <2>2, <3>1, <3>2, LineToRead
    <3>4. CASE Refuse
      <4>1. /\ UNCHANGED <<type, name, model_index, change_flag, files, known, exited, pb_current>>
            /\ error' \in BOOLEAN
        BY <3>4 DEF Refuse, tree, labels, disk, place, Loading
      <4> QED
        BY <1>1, <3>3, <4>1, PlaceTypes
    <3>5. CASE Create(l)
      BY <1>1, <3>3, <3>5, CreateTypes
    <3> QED
      BY <3>3, <3>4, <3>5 DEF Execute
  <2> QED
    BY <1>12, <2>1, <2>2 DEF LoadStep
<1>13. CASE UNCHANGED vars
  <2>1. /\ UNCHANGED <<type, name, model_index, change_flag, files, known, exited, pb_current>>
        /\ error' \in BOOLEAN /\ commands' \in 0..MaxCommands
    BY <1>1, <1>13 DEF vars, tree, labels, disk, place
  <2> QED
    BY <1>1, <2>1, PlaceTypes
<1> QED
  BY <1>3, <1>4, <1>5, <1>6, <1>7, <1>8, <1>9, <1>10, <1>11, <1>12, <1>13 DEF Next

(* Every step keeps what is true of the files that are being read. *)
LEMMA StepLoad ==
    ASSUME IInv, TInv, LInv, [Next]_vars
    PROVE  LInv'
<1>1. Waiting /\ frames' = frames => LInv'
  BY NotLoading DEF Waiting, Loading
<1>2. ASSUME NEW l \in Line, L_block(l) PROVE LInv'
  BY <1>2, BlockLoad
<1>3. ASSUME NEW l \in Line, LineReplace(l) PROVE LInv'
  BY <1>3, ReplaceLoad
<1>4. ASSUME NEW m \in GalaxyModels, NEW named \in BOOLEAN, L_load(m, named) PROVE LInv'
  BY <1>4, LoadLoad
<1>5. CASE LoadStep
  BY <1>5, ReadLineLoad, EndOfFileLoad, FileFailedLoad DEF LoadStep
<1>6. CASE UNCHANGED vars
  <2>1. UNCHANGED <<type, pparent, pchild, pfsibling, name, model_index, files, frames, error>>
    BY <1>6 DEF vars, tree, labels, disk
  <2>2. \A x \in Blocks : Children(x)' = Children(x)
    BY <2>1, KidsSame DEF IInv
  <2> QED
    BY <2>1, <2>2, NothingRead
<1> QED
  BY <1>1, <1>2, <1>3, <1>4, <1>5, <1>6
     DEF Next, Command, L_remove, L_new, L_rename, LineStore, L_run, Move

(* At the start nothing is being read. *)
LEMMA InitLoad == Init => TInv /\ LInv
<1> SUFFICES ASSUME Init PROVE TInv /\ LInv
  OBVIOUS
<1>1. TreeTypeOK /\ Inside = {}
  BY UniverseLinked DEF Init
<1>2. universeModel \in GalaxyModels /\ universeModel \in Models /\ universe \in Blocks /\ 0 \in 0..MaxCommands
  BY ModelAssumption, TreeAssumption DEF Models
<1>3. files \in [GalaxyModels -> Contents]
  BY FilesAssumption DEF Init
<1>4. TypeOK
  BY <1>1, <1>2, <1>3 DEF Init, TypeOK, Pointer
<1>5. frames = <<>>
  BY DEF Init
<1>6. LInv
  BY <1>5 DEF LInv, Reads, SoFar, InnerLoaded, Loading
<1> QED
  BY <1>1, <1>4, <1>6 DEF TInv

(* The invariant of a load, with that of the tree. *)
LEMMA LoadInvariant == Spec => [](IInv /\ TInv /\ LInv)
<1>1. Init => IInv /\ TInv /\ LInv
  BY InitInv, InitLoad
<1>2. IInv /\ TInv /\ LInv /\ [Next]_vars => (IInv /\ TInv /\ LInv)'
  BY NextInv, StepTypes, StepLoad
<1> QED
  BY <1>1, <1>2, PTL DEF Spec

(* The variables of the editor keep their types; every line of a file that *)
(* store writes names a block and a model: TypeOK.                         *)
THEOREM EditorTypes == Spec => []TypeOK
<1>1. TInv => TypeOK
  BY DEF TInv
<1> QED
  BY <1>1, LoadInvariant, PTL

(* Only the end of a file, and its error, take a frame away. *)
LEMMA FrameGone ==
    ASSUME IInv, [Next]_vars, Len(frames') < Len(frames)
    PROVE  Loading /\ (EndOfFile \/ FileFailed)
<1>1. Len(frames) \in Nat /\ frames \in Seq(Frame)
  BY DEF IInv, Nest
<1>2. Waiting => frames = <<>> /\ Len(frames) = 0
  BY NoFrames
<1>3. frames' # frames
  BY <1>1
<1>4. Len(frames') \in Nat
  <2>1. IInv'
    BY NextInv
  <2> QED
    BY <2>1 DEF IInv, Nest
<1>5. ~Waiting
  BY <1>2, <1>4
<1>6. LoadStep
  BY <1>3, <1>5 DEF Next, Command, L_block, LineReplace, L_remove, L_new, L_rename, LineStore,
                    L_load, L_run, Move, vars
<1>7. ~ReadLine
  <2>1. SUFFICES ASSUME ReadLine PROVE FALSE
    OBVIOUS
  <2>2. Loading
    BY <1>6 DEF LoadStep
  <2>3. Len(LineRead) = Len(frames) /\ LineRead \in Seq(Frame)
    BY <2>2, LineReadIs
  <2>4. PICK l : Execute(l)
    BY <2>1 DEF ReadLine
  <2>5. frames' = LineRead \/ (\E r : frames' = Append(LineRead, r))
    BY <1>3, <2>4 DEF Execute, Refuse, Create, ErrorAlloc, LineStar, LineGalaxy,
                      GalaxyWithoutFile, GalaxyWithFile
  <2>6. ASSUME NEW r, frames' = Append(LineRead, r) PROVE FALSE
    <3>1. Len(frames') = Len(frames) + 1
      BY <2>3, <2>6
    <3> QED
      BY <1>1, <3>1
  <2> QED
    BY <1>1, <2>3, <2>5, <2>6
<1> QED
  BY <1>6, <1>7 DEF LoadStep

(* When a file has been read, its galaxy and those in it are what their    *)
(* files say; when it has failed, the galaxy is empty: LoadAllOrNothing.   *)
THEOREM LoadsAllOrNothing == Spec => LoadAllOrNothing
<1>1. IInv /\ TInv /\ LInv /\ [Next]_vars =>
        [Len(frames') < Len(frames) =>
           \A g \in {Top.galaxy} :
              IF error THEN Listing(g)' = <<>>
              ELSE \A h \in {g} \cup Under(g) : type[h] # "STYPE" => Loaded(h)']_vars
  <2> SUFFICES ASSUME IInv, TInv, LInv, [Next]_vars, Len(frames') < Len(frames),
                      NEW g, g = Top.galaxy
               PROVE  IF error THEN Listing(g)' = <<>>
                      ELSE \A h \in {g} \cup Under(g) : type[h] # "STYPE" => Loaded(h)'
    OBVIOUS
  <2>1. Loading /\ (EndOfFile \/ FileFailed)
    BY FrameGone
  <2>2. CASE FileFailed
    <3>1. error /\ Listing(g)' = <<>>
      BY <2>1, <2>2, FileFailedLoad DEF FileFailed
    <3> QED
      BY <3>1
  <2>3. CASE EndOfFile
    <3>1. /\ ~error
          /\ UNCHANGED <<pchild, pfsibling, name, model_index, files>>
      BY <2>3 DEF EndOfFile, Return, tree, labels, disk
    <3>2. \A h \in {g} \cup Under(g) : type[h] # "STYPE" => Loaded(h)
      BY <2>1, <2>3, EndOfFileLoad
    <3>3. \A h \in {g} \cup Under(g) : h \in Blocks
      BY <2>1, FramesApart DEF Under, Below, Top
    <3>4. \A x \in Blocks : Listing(x)' = Listing(x)
      <4>1. \A x \in Blocks : Children(x)' = Children(x)
        BY <3>1, KidsSame DEF IInv
      <4> QED
        BY <3>1, <4>1, ListingSame
    <3>5. \A h \in {g} \cup Under(g) : type[h] # "STYPE" => Loaded(h)'
      BY <3>1, <3>2, <3>3, <3>4 DEF Loaded
    <3> QED
      BY <3>1, <3>5
  <2> QED
    BY <2>1, <2>2, <2>3
<1> QED
  BY <1>1, LoadInvariant, PTL DEF Spec, LoadAllOrNothing
=============================================================================
