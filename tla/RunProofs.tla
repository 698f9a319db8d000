-------------------------------- MODULE RunProofs --------------------------------
(***************************************************************************)
(* Proofs about module Run, for every hierarchy, every network and every   *)
(* number of samples: the safety properties of the run command and its     *)
(* refinement of module Dataflow.                                          *)
(*                                                                         *)
(* What a visit has achieved is not in any variable: it is implied by the  *)
(* frames of the recursion.  Visited says which blocks the calls in        *)
(* progress are through with, Calm that none of the calls knows of any     *)
(* activity, and the inductive invariant Controlled that in a calm visit   *)
(* these blocks have been called in this phase and, in MAIN_CODE, have     *)
(* nothing left to do.  A quiet visit of the universe that ends has been   *)
(* through with every block (TreeAssumption), so that all stars are idle.  *)
(*                                                                         *)
(* Bounded adds that no star fires more often than the least solution of   *)
(* Supply(f) = f, which an idle network has reached; Levels, for the       *)
(* comment on MultiRun about buffer lengths, that on a flat universe with  *)
(* even traffic all stars are within one visit of each other.              *)
(***************************************************************************)
EXTENDS Run, SequenceTheorems, WellFoundedInduction, TLAPS

(* A set of natural numbers has a least element.                           *)
LEMMA NatBelow ==
    ASSUME NEW S \in SUBSET Nat, S # {}
    PROVE  \E x \in S : \A y \in S : x <= y
  <1>1. IsWellFoundedOn({ss \in Nat \X Nat : ss[1] < ss[2]}, Nat)
    BY NatLessThanWellFounded DEF OpToRel
  <1>2. \E x \in S : \A y \in S : ~(<<y, x>> \in {ss \in Nat \X Nat : ss[1] < ss[2]})
    BY <1>1, WFMin
  <1>3. PICK x \in S : \A y \in S : ~(<<y, x>> \in {ss \in Nat \X Nat : ss[1] < ss[2]})
    BY <1>2
  <1>4. \A y \in S : x <= y
    <2> SUFFICES ASSUME NEW y \in S PROVE x <= y
      OBVIOUS
    <2>1. <<y, x>> \in Nat \X Nat => ~(y < x)
      BY <1>3
    <2> QED BY <2>1
  <1> QED BY <1>4

(* It is what Min chooses.                                                 *)
LEMMA MinLeast ==
    ASSUME NEW S \in SUBSET Nat, S # {}
    PROVE  Min(S) \in S /\ \A y \in S : Min(S) <= y
  BY NatBelow DEF Min

(* Induction over 0..N, as a fact about a set of numbers.                  *)
LEMMA SetInduction ==
    ASSUME NEW N \in Nat, NEW T, 0 \in T, \A n \in 0..(N - 1) : n \in T => n + 1 \in T
    PROVE  0..N \subseteq T
  <1> SUFFICES ASSUME ~(0..N \subseteq T) PROVE FALSE
    OBVIOUS
  <1>1. PICK m \in (0..N) \ T : \A k \in (0..N) \ T : m <= k
    <2>1. (0..N) \ T \in SUBSET Nat /\ (0..N) \ T # {}
      OBVIOUS
    <2> QED BY <2>1, NatBelow
  <1>2. m - 1 \in 0..(N - 1) /\ m - 1 \in T
    BY <1>1
  <1> QED BY <1>1, <1>2

-----------------------------------------------------------------------------

Frame == [gal : Galaxy, pos : Nat \ {0}, active_block : BOOLEAN,
          active_galaxy : BOOLEAN, first_pass : BOOLEAN]

Stack == Seq(Frame) \ {<<>>}

(* The calls st in progress on the topology t: the universe is the         *)
(* outermost, each other one is for the current block of the call around   *)
(* it, and no galaxy is being visited twice.  A pass is the first one as   *)
(* long as there has been no activity.                                     *)
Nested(t, st) ==
    /\ st[Len(st)].gal = Universe
    /\ \A k \in 1..(Len(st) - 1) :
         /\ st[k + 1].pos \in DOMAIN t.children[st[k + 1].gal]
         /\ t.children[st[k + 1].gal][st[k + 1].pos] = st[k].gal
    /\ \A j, k \in DOMAIN st : st[j].gal = st[k].gal => j = k
    /\ \A k \in DOMAIN st : st[k].first_pass <=> ~st[k].active_galaxy

(* D are the blocks that the calls st are through with.                    *)
Visited(t, st, D) ==
    /\ D \in SUBSET Block
    /\ \A g \in D \cap Galaxy : \A i \in DOMAIN t.children[g] : t.children[g][i] \in D
    /\ \A k \in DOMAIN st :
         /\ st[k].gal \notin D
         /\ \A i \in DOMAIN t.children[st[k].gal] :
              t.children[st[k].gal][i] \in D <=> i < st[k].pos
    /\ \A g \in Galaxy : \A i \in DOMAIN t.children[g] :
         t.children[g][i] \in D => g \in D \/ \E k \in DOMAIN st : st[k].gal = g

(* No call knows of any activity.                                          *)
Calm(st) == \A k \in DOMAIN st : ~st[k].active_block /\ ~st[k].active_galaxy

(* The stack after a call for the galaxy g, after the running call has     *)
(* passed its current block, after it has returned to the one around it,   *)
(* and before another pass.                                                *)
Calling(st, g) == <<Entered(g)>> \o st
Passed(st, a) == [st EXCEPT ![1] = After(@, a)]
Returned(st, a) == [Tail(st) EXCEPT ![1] = After(@, a)]
Again(st) == [st EXCEPT ![1] = [@ EXCEPT !.pos = 1, !.active_block = FALSE,
                                         !.active_galaxy = TRUE,
                                         !.first_pass = FALSE]]

(* A record is its fields.                                                 *)
LEMMA Fields ==
    ASSUME NEW f \in Frame
    PROVE  f = [gal |-> f.gal, pos |-> f.pos, active_block |-> f.active_block,
                active_galaxy |-> f.active_galaxy, first_pass |-> f.first_pass]
  BY DEF Frame

(* The call that has passed a block.                                       *)
LEMMA AfterFields ==
    ASSUME NEW f \in Frame, NEW a \in BOOLEAN, NEW e, e = After(f, a)
    PROVE  /\ e \in Frame
           /\ e.gal = f.gal /\ e.pos = f.pos + 1
           /\ e.active_block <=> (f.active_block \/ a)
           /\ e.active_galaxy = f.active_galaxy /\ e.first_pass = f.first_pass
  <1>1. f = [gal |-> f.gal, pos |-> f.pos, active_block |-> f.active_block,
             active_galaxy |-> f.active_galaxy, first_pass |-> f.first_pass]
    BY Fields
  <1>2. e = [gal |-> f.gal, pos |-> f.pos + 1, active_block |-> f.active_block \/ a,
             active_galaxy |-> f.active_galaxy, first_pass |-> f.first_pass]
    BY <1>1 DEF After
  <1> QED BY <1>2 DEF Frame

(* The call before another pass.                                           *)
LEMMA AgainFields ==
    ASSUME NEW f \in Frame, NEW e,
           e = [f EXCEPT !.pos = 1, !.active_block = FALSE,
                         !.active_galaxy = TRUE, !.first_pass = FALSE]
    PROVE  /\ e \in Frame
           /\ e.gal = f.gal /\ e.pos = 1
           /\ ~e.active_block /\ e.active_galaxy /\ ~e.first_pass
  <1>1. f = [gal |-> f.gal, pos |-> f.pos, active_block |-> f.active_block,
             active_galaxy |-> f.active_galaxy, first_pass |-> f.first_pass]
    BY Fields
  <1>2. e = [gal |-> f.gal, pos |-> 1, active_block |-> FALSE,
             active_galaxy |-> TRUE, first_pass |-> FALSE]
    BY <1>1
  <1>3. e.gal = f.gal /\ e.pos = 1 /\ e.active_block = FALSE /\ e.active_galaxy = TRUE
        /\ e.first_pass = FALSE
    BY <1>2
  <1>4. [gal |-> f.gal, pos |-> 1, active_block |-> FALSE,
         active_galaxy |-> TRUE, first_pass |-> FALSE] \in Frame
    <2>1. f.gal \in Galaxy /\ 1 \in Nat \ {0}
      BY DEF Frame
    <2> QED BY <2>1, Zenon DEF Frame
  <1> QED BY <1>2, <1>3, <1>4

(* One call of the stack, with its place, moved on.                        *)
LEMMA PassedFrames ==
    ASSUME NEW st \in Stack, NEW a \in BOOLEAN, NEW st1, st1 = Passed(st, a)
    PROVE  /\ st1 \in Stack /\ Len(st1) = Len(st)
           /\ \A k \in DOMAIN st : k # 1 => st1[k] = st[k]
           /\ st1[1].gal = st[1].gal /\ st1[1].pos = st[1].pos + 1
           /\ st1[1].active_block <=> (st[1].active_block \/ a)
           /\ st1[1].active_galaxy = st[1].active_galaxy
           /\ st1[1].first_pass = st[1].first_pass
  <1>1. st \in Seq(Frame) /\ Len(st) \in Nat \ {0} /\ DOMAIN st = 1..Len(st) /\ st[1] \in Frame
    BY DEF Stack
  <1> DEFINE f == After(st[1], a)
  <1>2. st1 = [st EXCEPT ![1] = f]
    BY DEF Passed, After
  <1>3. /\ f \in Frame /\ f.gal = st[1].gal /\ f.pos = st[1].pos + 1
        /\ f.active_block <=> (st[1].active_block \/ a)
        /\ f.active_galaxy = st[1].active_galaxy /\ f.first_pass = st[1].first_pass
    BY <1>1, AfterFields
  <1> HIDE DEF f
  <1>4. /\ st1 \in Seq(Frame) /\ Len(st1) = Len(st)
        /\ \A j \in 1..Len(st) : st1[j] = IF j = 1 THEN f ELSE st[j]
    BY <1>1, <1>2, <1>3, ExceptSeq
  <1> QED BY <1>1, <1>3, <1>4 DEF Stack

(* Before another pass: the running frame starts again, the others stay.   *)
LEMMA AgainFrames ==
    ASSUME NEW st \in Stack, NEW st1, st1 = Again(st)
    PROVE  /\ st1 \in Stack /\ Len(st1) = Len(st)
           /\ \A k \in DOMAIN st : k # 1 => st1[k] = st[k]
           /\ st1[1].gal = st[1].gal /\ st1[1].pos = 1
           /\ ~st1[1].active_block /\ st1[1].active_galaxy /\ ~st1[1].first_pass
  <1>1. st \in Seq(Frame) /\ Len(st) \in Nat \ {0} /\ DOMAIN st = 1..Len(st) /\ st[1] \in Frame
    BY DEF Stack
  <1> DEFINE f == [st[1] EXCEPT !.pos = 1, !.active_block = FALSE,
                                !.active_galaxy = TRUE, !.first_pass = FALSE]
  <1>2. st1 = [st EXCEPT ![1] = f]
    BY DEF Again
  <1>3. f \in Frame /\ f.gal = st[1].gal /\ f.pos = 1
        /\ ~f.active_block /\ f.active_galaxy /\ ~f.first_pass
    BY <1>1, AgainFields
  <1> HIDE DEF f
  <1>4. /\ st1 \in Seq(Frame) /\ Len(st1) = Len(st)
        /\ \A j \in 1..Len(st) : st1[j] = IF j = 1 THEN f ELSE st[j]
    BY <1>1, <1>2, <1>3, ExceptSeq
  <1> QED BY <1>1, <1>3, <1>4 DEF Stack

(* A call for a galaxy puts a fresh frame before the others.               *)
LEMMA EnteredFrames ==
    ASSUME NEW st \in Stack, NEW g \in Galaxy, NEW st1, st1 = Calling(st, g)
    PROVE  /\ st1 \in Stack /\ Len(st1) = Len(st) + 1
           /\ \A k \in 2..Len(st1) : k - 1 \in DOMAIN st /\ st1[k] = st[k - 1]
           /\ st1[1].gal = g /\ st1[1].pos = 1
           /\ ~st1[1].active_block /\ ~st1[1].active_galaxy /\ st1[1].first_pass
  <1>1. st \in Seq(Frame) /\ Len(st) \in Nat \ {0} /\ DOMAIN st = 1..Len(st)
    BY DEF Stack
  <1>2. Entered(g) \in Frame
    BY DEF Entered, Frame
  <1>3. /\ st1 \in Seq(Frame) /\ Len(st1) = Len(st) + 1 /\ st1[1] = Entered(g)
        /\ \A k \in 2..Len(st1) : st1[k] = st[k - 1]
    BY <1>1, <1>2 DEF Calling
  <1> QED BY <1>1, <1>2, <1>3 DEF Stack, Entered

(* A return takes the running frame away and moves the one around it on.   *)
LEMMA ReturnedFrames ==
    ASSUME NEW st \in Stack, Len(st) > 1, NEW a \in BOOLEAN, NEW st1, st1 = Returned(st, a)
    PROVE  /\ st1 \in Stack /\ Len(st1) = Len(st) - 1
           /\ \A k \in 2..Len(st1) : k + 1 \in DOMAIN st /\ st1[k] = st[k + 1]
           /\ st1[1].gal = st[2].gal /\ st1[1].pos = st[2].pos + 1
           /\ st1[1].active_block <=> (st[2].active_block \/ a)
           /\ st1[1].active_galaxy = st[2].active_galaxy
           /\ st1[1].first_pass = st[2].first_pass
  <1>1. st \in Seq(Frame) /\ Len(st) \in Nat /\ DOMAIN st = 1..Len(st)
    BY DEF Stack
  <1>2. Tail(st) \in Seq(Frame) /\ Len(Tail(st)) = Len(st) - 1
        /\ \A k \in 1..Len(Tail(st)) : Tail(st)[k] = st[k + 1]
    BY <1>1, HeadTailProperties DEF Stack
  <1>3. st1 = Passed(Tail(st), a)
    BY DEF Returned, Passed
  <1>4. DOMAIN Tail(st) = 1..Len(Tail(st)) /\ Tail(st) \in Stack
    <2> DEFINE u == Tail(st)
    <2>1. u \in Seq(Frame) /\ Len(u) # 0
      BY <1>1, <1>2
    <2> HIDE DEF u
    <2>2. u # <<>> /\ DOMAIN u = 1..Len(u)
      BY <2>1
    <2> QED BY <2>1, <2>2 DEF Stack, u
  <1>5. /\ st1 \in Stack /\ Len(st1) = Len(Tail(st))
        /\ \A k \in DOMAIN Tail(st) : k # 1 => st1[k] = Tail(st)[k]
        /\ st1[1].gal = Tail(st)[1].gal /\ st1[1].pos = Tail(st)[1].pos + 1
        /\ st1[1].active_block <=> (Tail(st)[1].active_block \/ a)
        /\ st1[1].active_galaxy = Tail(st)[1].active_galaxy
        /\ st1[1].first_pass = Tail(st)[1].first_pass
    <2> DEFINE u == Tail(st)
    <2>1. u \in Stack /\ st1 = Passed(u, a)
      BY <1>3, <1>4
    <2> HIDE DEF u
    <2>2. /\ st1 \in Stack /\ Len(st1) = Len(u)
          /\ \A k \in DOMAIN u : k # 1 => st1[k] = u[k]
          /\ st1[1].gal = u[1].gal /\ st1[1].pos = u[1].pos + 1
          /\ st1[1].active_block <=> (u[1].active_block \/ a)
          /\ st1[1].active_galaxy = u[1].active_galaxy
          /\ st1[1].first_pass = u[1].first_pass
      BY <2>1, PassedFrames
    <2> QED BY <2>2 DEF u
  <1>6. Tail(st)[1] = st[2]
    BY <1>1, <1>2
  <1> QED BY <1>1, <1>2, <1>4, <1>5, <1>6

-----------------------------------------------------------------------------
(* The lists of a topology and what they hold.                             *)
LEMMA Lists ==
    ASSUME NEW t \in Topologies, NEW g \in Galaxy
    PROVE  /\ t.children[g] \in Seq(Block)
           /\ DOMAIN t.children[g] = 1..Len(t.children[g]) /\ Len(t.children[g]) \in Nat
           /\ \A i \in DOMAIN t.children[g] : t.children[g][i] \in Block
           /\ \A i \in DOMAIN t.children[g] :
                \A h \in Galaxy : \A j \in DOMAIN t.children[h] :
                  t.children[g][i] = t.children[h][j] => g = h /\ i = j
  <1>1. t.children[g] \in Seq(Block)
    BY TopologyAssumption
  <1>2. \A i \in DOMAIN t.children[g] :
          \A h \in Galaxy : \A j \in DOMAIN t.children[h] :
            t.children[g][i] = t.children[h][j] => g = h /\ i = j
    BY TreeAssumption
  <1> QED BY <1>1, <1>2

(* A call of the stack is a frame of it.                                   *)
LEMMA Frames ==
    ASSUME NEW st \in Stack
    PROVE  /\ Len(st) \in Nat \ {0} /\ DOMAIN st = 1..Len(st)
           /\ \A k \in DOMAIN st :
                /\ st[k].gal \in Galaxy /\ st[k].pos \in Nat \ {0}
                /\ st[k].active_block \in BOOLEAN /\ st[k].active_galaxy \in BOOLEAN
                /\ st[k].first_pass \in BOOLEAN
  <1>1. Len(st) \in Nat \ {0} /\ DOMAIN st = 1..Len(st) /\ \A k \in DOMAIN st : st[k] \in Frame
    BY DEF Stack
  <1>2. \A f \in Frame : /\ f.gal \in Galaxy /\ f.pos \in Nat \ {0}
                         /\ f.active_block \in BOOLEAN /\ f.active_galaxy \in BOOLEAN
                         /\ f.first_pass \in BOOLEAN
    BY DEF Frame
  <1> QED BY <1>1, <1>2

(* A phase or a visit begins with the universe and nothing done.           *)
LEMMA Began ==
    ASSUME NEW t \in Topologies, NEW st, st = <<Entered(Universe)>>
    PROVE  /\ st \in Stack /\ Nested(t, st) /\ Calm(st)
           /\ Visited(t, st, {})
           /\ Len(st) = 1 /\ st[1].gal = Universe /\ st[1].pos = 1
           /\ st[1].first_pass /\ ~st[1].active_block
  <1>1. Entered(Universe) \in Frame
    BY StarAssumption DEF Entered, Frame
  <1>2. /\ st \in Stack /\ Len(st) = 1 /\ DOMAIN st = {1} /\ st[1] = Entered(Universe)
    BY <1>1 DEF Stack
  <1>3. /\ st[1].gal = Universe /\ st[1].pos = 1
        /\ ~st[1].active_block /\ ~st[1].active_galaxy /\ st[1].first_pass
    BY <1>2 DEF Entered
  <1>4. Nested(t, st)
    <2>1. 1..(Len(st) - 1) = {}
      BY <1>2
    <2> QED BY <1>2, <1>3, <2>1 DEF Nested
  <1>5. \A i \in DOMAIN t.children[Universe] : ~(i < 1)
    BY Lists, StarAssumption
  <1>6. Visited(t, st, {})
    BY <1>2, <1>3, <1>5 DEF Visited
  <1>7. Calm(st)
    BY <1>2, <1>3 DEF Calm
  <1> QED BY <1>2, <1>3, <1>4, <1>6, <1>7

(* The current block of the running call is new: not under a call, and     *)
(* neither done.                                                           *)
LEMMA CurrentIsNew ==
    ASSUME NEW t \in Topologies, NEW st \in Stack, Nested(t, st),
           st[1].pos \in DOMAIN t.children[st[1].gal],
           NEW b, b = t.children[st[1].gal][st[1].pos]
    PROVE  \A k \in DOMAIN st : st[k].gal # b
  <1> SUFFICES ASSUME NEW k \in DOMAIN st, st[k].gal = b
               PROVE  FALSE
    OBVIOUS
  <1>1. k \in 1..Len(st) /\ Len(st) \in Nat \ {0} /\ 1 \in DOMAIN st /\ st[1].gal \in Galaxy
    BY Frames
  <1>2. b \in Block /\ b # Universe
    BY <1>1, Lists, StarAssumption DEF Block
  <1>3. k # Len(st)
    BY <1>2 DEF Nested
  <1>4. /\ k + 1 \in DOMAIN st /\ st[k + 1].gal \in Galaxy
        /\ st[k + 1].pos \in DOMAIN t.children[st[k + 1].gal]
        /\ t.children[st[k + 1].gal][st[k + 1].pos] = b
    <2>1. k \in 1..(Len(st) - 1)
      BY <1>1, <1>3
    <2> QED BY <2>1, <1>1, Frames DEF Nested
  <1>5. st[k + 1].gal = st[1].gal
    BY <1>1, <1>4, Lists
  <1> QED BY <1>1, <1>4, <1>5 DEF Nested

(* The calls stay nested when one is made for the current galaxy ...       *)
LEMMA EnteredNested ==
    ASSUME NEW t \in Topologies, NEW st \in Stack, Nested(t, st),
           st[1].pos \in DOMAIN t.children[st[1].gal],
           NEW g \in Galaxy, g = t.children[st[1].gal][st[1].pos],
           NEW st1 \in Stack, Len(st1) = Len(st) + 1,
           \A k \in 2..Len(st1) : k - 1 \in DOMAIN st /\ st1[k] = st[k - 1],
           st1[1].gal = g, st1[1].first_pass <=> ~st1[1].active_galaxy
    PROVE  Nested(t, st1)
  <1>1. Len(st) \in Nat \ {0} /\ DOMAIN st = 1..Len(st) /\ DOMAIN st1 = 1..Len(st1)
    BY Frames
  <1>2. \A k \in DOMAIN st : st[k].gal # g
    BY CurrentIsNew
  <1>3. st1[Len(st1)].gal = Universe
    <2>1. Len(st1) \in 2..Len(st1) /\ Len(st1) - 1 = Len(st)
      BY <1>1
    <2>2. st1[Len(st1)] = st[Len(st)]
      BY <1>1, <2>1
    <2> QED BY <2>2 DEF Nested
  <1>4. ASSUME NEW k \in 1..(Len(st1) - 1)
        PROVE  /\ st1[k + 1].pos \in DOMAIN t.children[st1[k + 1].gal]
               /\ t.children[st1[k + 1].gal][st1[k + 1].pos] = st1[k].gal
    <2>1. CASE k = 1
      BY <1>1, <2>1
    <2>2. CASE k # 1
      <3>1. st1[k + 1] = st[k] /\ st1[k] = st[k - 1] /\ k - 1 \in 1..(Len(st) - 1)
        BY <1>1, <2>2
      <3>2. (k - 1) + 1 = k
        OBVIOUS
      <3> QED BY <3>1, <3>2 DEF Nested
    <2> QED BY <2>1, <2>2
  <1>5. ASSUME NEW j \in DOMAIN st1, NEW k \in DOMAIN st1, st1[j].gal = st1[k].gal
        PROVE  j = k
    <2>1. CASE j # 1 /\ k # 1
      <3>1. st1[j] = st[j - 1] /\ st1[k] = st[k - 1] /\ j - 1 \in DOMAIN st /\ k - 1 \in DOMAIN st
        BY <1>1, <2>1
      <3>2. j - 1 = k - 1
        BY <3>1, <1>5 DEF Nested
      <3> QED BY <3>2, <1>1
    <2>2. CASE j = 1 \/ k = 1
      <3>1. \A m \in DOMAIN st1 : m # 1 => st1[m].gal # g
        <4> SUFFICES ASSUME NEW m \in DOMAIN st1, m # 1
                     PROVE  st1[m].gal # g
          OBVIOUS
        <4>1. m \in 2..Len(st1)
          BY <1>1
        <4>2. st1[m] = st[m - 1] /\ m - 1 \in DOMAIN st
          BY <1>1, <4>1
        <4> QED BY <4>2, <1>2
      <3>2. st1[1].gal = g
        BY <1>1
      <3> QED BY <2>2, <3>1, <3>2, <1>5
    <2> QED BY <2>1, <2>2
  <1>6. ASSUME NEW k \in DOMAIN st1
        PROVE  st1[k].first_pass <=> ~st1[k].active_galaxy
    <2>1. CASE k = 1
      BY <1>1, <2>1
    <2>2. CASE k # 1
      <3>1. st1[k] = st[k - 1] /\ k - 1 \in DOMAIN st
        BY <1>1, <2>2
      <3> QED BY <3>1 DEF Nested
    <2> QED BY <2>1, <2>2
  <1> QED BY <1>3, <1>4, <1>5, <1>6 DEF Nested

(* ... when the running call moves in its list ...                         *)
LEMMA MovedNested ==
    ASSUME NEW t \in Topologies, NEW st \in Stack, Nested(t, st), NEW st1 \in Stack,
           Len(st1) = Len(st), \A k \in DOMAIN st : k # 1 => st1[k] = st[k],
           st1[1].gal = st[1].gal, st1[1].first_pass <=> ~st1[1].active_galaxy
    PROVE  Nested(t, st1)
  <1>1. Len(st) \in Nat \ {0} /\ DOMAIN st = 1..Len(st) /\ DOMAIN st1 = 1..Len(st)
    BY Frames
  <1>2. \A k \in 1..Len(st) : st1[k].gal = st[k].gal
    BY <1>1
  <1>3. st1[Len(st1)].gal = Universe
    BY <1>1, <1>2 DEF Nested
  <1>4. ASSUME NEW k \in 1..(Len(st1) - 1)
        PROVE  /\ st1[k + 1].pos \in DOMAIN t.children[st1[k + 1].gal]
               /\ t.children[st1[k + 1].gal][st1[k + 1].pos] = st1[k].gal
    <2>1. k \in 1..(Len(st) - 1) /\ k + 1 \in DOMAIN st /\ k + 1 # 1
      BY <1>1
    <2>2. st1[k + 1] = st[k + 1] /\ st1[k].gal = st[k].gal
      BY <2>1, <1>2
    <2> QED BY <2>1, <2>2 DEF Nested
  <1>5. \A j, k \in DOMAIN st1 : st1[j].gal = st1[k].gal => j = k
    BY <1>1, <1>2 DEF Nested
  <1>6. \A k \in DOMAIN st1 : st1[k].first_pass <=> ~st1[k].active_galaxy
    BY <1>1 DEF Nested
  <1> QED BY <1>3, <1>4, <1>5, <1>6 DEF Nested

(* ... and when it returns to the one around it.                           *)
LEMMA ReturnedNested ==
    ASSUME NEW t \in Topologies, NEW st \in Stack, Nested(t, st), Len(st) > 1,
           NEW a \in BOOLEAN, NEW st1, st1 = Returned(st, a)
    PROVE  Nested(t, st1)
  <1>1. /\ Len(st) \in Nat \ {0} /\ DOMAIN st = 1..Len(st)
        /\ st1 \in Stack /\ Len(st1) = Len(st) - 1 /\ DOMAIN st1 = 1..Len(st1)
        /\ \A k \in 2..Len(st1) : k + 1 \in DOMAIN st /\ st1[k] = st[k + 1]
        /\ st1[1].gal = st[2].gal /\ st1[1].active_galaxy = st[2].active_galaxy
        /\ st1[1].first_pass = st[2].first_pass
    <2>1. /\ st1 \in Stack /\ Len(st1) = Len(st) - 1
          /\ \A k \in 2..Len(st1) : k + 1 \in DOMAIN st /\ st1[k] = st[k + 1]
          /\ st1[1].gal = st[2].gal /\ st1[1].active_galaxy = st[2].active_galaxy
          /\ st1[1].first_pass = st[2].first_pass
      BY ReturnedFrames
    <2>2. Len(st) \in Nat \ {0} /\ DOMAIN st = 1..Len(st) /\ DOMAIN st1 = 1..Len(st1)
      BY <2>1, Frames
    <2> QED BY <2>1, <2>2
  <1>2. ASSUME NEW k \in DOMAIN st1
        PROVE  /\ k + 1 \in DOMAIN st /\ st1[k].gal = st[k + 1].gal
               /\ st1[k].first_pass <=> ~st1[k].active_galaxy
    <2>1. /\ k + 1 \in DOMAIN st /\ st1[k].gal = st[k + 1].gal
          /\ st1[k].first_pass = st[k + 1].first_pass
          /\ st1[k].active_galaxy = st[k + 1].active_galaxy
      <3>1. CASE k = 1
        BY <1>1, <3>1
      <3>2. CASE k # 1
        <4>1. k \in 2..Len(st1)
          BY <1>1, <3>2
        <4> QED BY <1>1, <4>1
      <3> QED BY <3>1, <3>2
    <2> QED BY <2>1 DEF Nested
  <1>3. st1[Len(st1)].gal = Universe
    <2>1. Len(st1) \in DOMAIN st1 /\ Len(st1) + 1 = Len(st)
      BY <1>1
    <2> QED BY <2>1, <1>2 DEF Nested
  <1>4. ASSUME NEW k \in 1..(Len(st1) - 1)
        PROVE  /\ st1[k + 1].pos \in DOMAIN t.children[st1[k + 1].gal]
               /\ t.children[st1[k + 1].gal][st1[k + 1].pos] = st1[k].gal
    <2>1. k \in DOMAIN st1 /\ k + 1 \in 2..Len(st1) /\ k + 1 \in 1..(Len(st) - 1)
      BY <1>1
    <2>2. st1[k + 1] = st[(k + 1) + 1] /\ st1[k].gal = st[k + 1].gal
      BY <1>1, <1>2, <2>1
    <2> QED BY <2>1, <2>2 DEF Nested
  <1>5. ASSUME NEW j \in DOMAIN st1, NEW k \in DOMAIN st1, st1[j].gal = st1[k].gal
        PROVE  j = k
    <2>1. j + 1 = k + 1
      BY <1>2, <1>5 DEF Nested
    <2> QED BY <2>1, <1>1
  <1>6. \A k \in DOMAIN st1 : st1[k].first_pass <=> ~st1[k].active_galaxy
    BY <1>2
  <1> QED BY <1>3, <1>4, <1>5, <1>6 DEF Nested

-----------------------------------------------------------------------------
(* When the current galaxy is called, nothing below it has been done.      *)
LEMMA EnteredVisited ==
    ASSUME NEW t \in Topologies, NEW st \in Stack, Nested(t, st),
           st[1].pos \in DOMAIN t.children[st[1].gal],
           NEW g \in Galaxy, g = t.children[st[1].gal][st[1].pos],
           NEW st1 \in Stack, Len(st1) = Len(st) + 1,
           \A k \in 2..Len(st1) : k - 1 \in DOMAIN st /\ st1[k] = st[k - 1],
           st1[1].gal = g, st1[1].pos = 1,
           NEW D, Visited(t, st, D)
    PROVE  Visited(t, st1, D)
  <1>1. Len(st) \in Nat \ {0} /\ DOMAIN st = 1..Len(st) /\ DOMAIN st1 = 1..Len(st1)
        /\ st[1].gal \in Galaxy /\ st[1].pos \in Nat
    BY Frames
  <1>2. g \notin D
    <2>1. 1 \in DOMAIN st /\ ~(st[1].pos < st[1].pos)
      BY <1>1
    <2> QED BY <2>1 DEF Visited
  <1>3. \A k \in DOMAIN st : st[k].gal # g
    BY CurrentIsNew
  <1>4. ASSUME NEW i \in DOMAIN t.children[g]
        PROVE  t.children[g][i] \notin D /\ ~(i < 1)
    <2>1. i \in 1..Len(t.children[g]) /\ Len(t.children[g]) \in Nat
      BY Lists
    <2>2. t.children[g][i] \in D => g \in D \/ \E k \in DOMAIN st : st[k].gal = g
      BY DEF Visited
    <2>3. ~(i < 1)
      BY <2>1
    <2>4. ~(\E k \in DOMAIN st : st[k].gal = g)
      BY <1>3
    <2> QED BY <2>2, <2>3, <2>4, <1>2
  <1>5. ASSUME NEW k \in DOMAIN st1
        PROVE  /\ st1[k].gal \notin D
               /\ \A i \in DOMAIN t.children[st1[k].gal] :
                    t.children[st1[k].gal][i] \in D <=> i < st1[k].pos
    <2>1. CASE k = 1
      BY <1>2, <1>4, <2>1
    <2>2. CASE k # 1
      <3>1. st1[k] = st[k - 1] /\ k - 1 \in DOMAIN st
        BY <1>1, <2>2
      <3> QED BY <3>1 DEF Visited
    <2> QED BY <2>1, <2>2
  <1>6. ASSUME NEW h \in Galaxy, NEW i \in DOMAIN t.children[h], t.children[h][i] \in D
        PROVE  h \in D \/ \E k \in DOMAIN st1 : st1[k].gal = h
    <2>1. ASSUME NEW k \in DOMAIN st, st[k].gal = h
          PROVE  \E m \in DOMAIN st1 : st1[m].gal = h
      <3>1. k + 1 \in 2..Len(st1) /\ (k + 1) - 1 = k
        BY <1>1
      <3>2. k + 1 \in DOMAIN st1 /\ st1[k + 1] = st[k]
        BY <1>1, <3>1
      <3> QED BY <2>1, <3>2
    <2> QED BY <1>6, <2>1 DEF Visited
  <1> QED BY <1>5, <1>6 DEF Visited

(* The running call of st has gone past its current block b.               *)
Past(t, st, b, st1) ==
    /\ st[1].pos \in DOMAIN t.children[st[1].gal]
    /\ b = t.children[st[1].gal][st[1].pos]
    /\ st1 \in Stack /\ Len(st1) = Len(st)
    /\ \A k \in DOMAIN st : k # 1 => st1[k] = st[k]
    /\ st1[1].gal = st[1].gal /\ st1[1].pos = st[1].pos + 1

(* If it is a star, it is done.                                            *)
LEMMA PassedVisited ==
    ASSUME NEW t \in Topologies, NEW st \in Stack, Nested(t, st), NEW s \in Star,
           NEW st1, Past(t, st, s, st1), NEW D, Visited(t, st, D)
    PROVE  Visited(t, st1, D \cup {s}) /\ s \notin D
  <1>0. /\ st[1].pos \in DOMAIN t.children[st[1].gal]
        /\ s = t.children[st[1].gal][st[1].pos]
        /\ st1 \in Stack /\ Len(st1) = Len(st)
        /\ \A k \in DOMAIN st : k # 1 => st1[k] = st[k]
        /\ st1[1].gal = st[1].gal /\ st1[1].pos = st[1].pos + 1
    BY DEF Past
  <1>1. /\ Len(st) \in Nat \ {0} /\ DOMAIN st = 1..Len(st) /\ DOMAIN st1 = DOMAIN st
        /\ 1 \in DOMAIN st /\ st[1].gal \in Galaxy /\ st[1].pos \in Nat
        /\ \A k \in DOMAIN st : st[k].gal \in Galaxy /\ st1[k].gal = st[k].gal
    <2>1. /\ Len(st) \in Nat \ {0} /\ DOMAIN st = 1..Len(st) /\ DOMAIN st1 = DOMAIN st
          /\ \A k \in DOMAIN st : st[k].gal \in Galaxy /\ st[k].pos \in Nat
      BY <1>0, Frames
    <2>2. \A k \in DOMAIN st : st1[k].gal = st[k].gal
      BY <1>0, <2>1
    <2> QED BY <2>1, <2>2
  <1>2. s \notin Galaxy /\ s \in Block
    BY StarAssumption DEF Block
  <1>3. s \notin D
    <2>1. 1 \in DOMAIN st /\ ~(st[1].pos < st[1].pos)
      BY <1>0, <1>1
    <2> QED BY <1>0, <2>1 DEF Visited
  <1>4. \A h \in Galaxy : \A i \in DOMAIN t.children[h] :
          t.children[h][i] = s <=> h = st[1].gal /\ i = st[1].pos
    BY <1>0, <1>1, Lists
  <1>5. ASSUME NEW k \in DOMAIN st1
        PROVE  /\ st1[k].gal \notin D \cup {s}
               /\ \A i \in DOMAIN t.children[st1[k].gal] :
                    t.children[st1[k].gal][i] \in D \cup {s} <=> i < st1[k].pos
    <2>1. st1[k].gal \notin D \cup {s}
      BY <1>0, <1>1, <1>2 DEF Visited
    <2>2. ASSUME NEW i \in DOMAIN t.children[st1[k].gal]
          PROVE  t.children[st1[k].gal][i] \in D \cup {s} <=> i < st1[k].pos
      <3>1. CASE k = 1
        <4>1. t.children[st[1].gal][i] \in D <=> i < st[1].pos
          BY <1>0, <1>1, <3>1 DEF Visited
        <4>2. i \in Nat
          BY <1>0, <1>1, <3>1, Lists
        <4>3. t.children[st[1].gal][i] = s <=> i = st[1].pos
          BY <1>0, <1>1, <1>4, <3>1
        <4>4. i < st1[k].pos <=> i < st[1].pos \/ i = st[1].pos
          BY <1>0, <1>1, <3>1, <4>2
        <4>5. st1[k].gal = st[1].gal
          BY <1>0, <1>1, <3>1
        <4> QED BY <4>1, <4>3, <4>4, <4>5
      <3>2. CASE k # 1
        <4>1. st1[k] = st[k] /\ st[k].gal # st[1].gal
          BY <1>0, <1>1, <3>2 DEF Nested
        <4>2. t.children[st[k].gal][i] # s
          BY <1>0, <1>1, <1>4, <4>1
        <4> QED BY <1>0, <1>1, <4>1, <4>2 DEF Visited
      <3> QED BY <3>1, <3>2
    <2> QED BY <2>1, <2>2
  <1>6. ASSUME NEW h \in Galaxy, NEW i \in DOMAIN t.children[h],
               t.children[h][i] \in D \cup {s}
        PROVE  h \in D \cup {s} \/ \E k \in DOMAIN st1 : st1[k].gal = h
    <2>1. CASE t.children[h][i] = s
      BY <1>0, <1>1, <1>4, <2>1
    <2>2. CASE t.children[h][i] \in D
      <3>1. h \in D \/ \E k \in DOMAIN st : st[k].gal = h
        BY <2>2 DEF Visited
      <3> QED BY <3>1, <1>1
    <2> QED BY <1>6, <2>1, <2>2
  <1>7. \A g \in (D \cup {s}) \cap Galaxy : \A i \in DOMAIN t.children[g] :
          t.children[g][i] \in D \cup {s}
    BY <1>2 DEF Visited
  <1>8. D \cup {s} \in SUBSET Block
    BY <1>2 DEF Visited
  <1> QED BY <1>3, <1>5, <1>6, <1>7, <1>8 DEF Visited

(* A galaxy is done when the call for it returns.                          *)
LEMMA ReturnedVisited ==
    ASSUME NEW t \in Topologies, NEW st \in Stack, Nested(t, st), Len(st) > 1,
           st[1].pos > Len(t.children[st[1].gal]),
           NEW st1 \in Stack, Len(st1) = Len(st) - 1,
           \A k \in 2..Len(st1) : k + 1 \in DOMAIN st /\ st1[k] = st[k + 1],
           st1[1].gal = st[2].gal, st1[1].pos = st[2].pos + 1,
           NEW D, Visited(t, st, D)
    PROVE  Visited(t, st1, D \cup {st[1].gal})
  <1> DEFINE g == st[1].gal
  <1>1. /\ Len(st) \in Nat \ {0} /\ DOMAIN st = 1..Len(st) /\ DOMAIN st1 = 1..Len(st1)
        /\ 1 \in DOMAIN st /\ 2 \in DOMAIN st /\ g \in Galaxy /\ st[1].pos \in Nat
        /\ \A k \in DOMAIN st : st[k].gal \in Galaxy /\ st[k].pos \in Nat
    BY Frames
  <1>2. /\ st[2].pos \in DOMAIN t.children[st[2].gal]
        /\ t.children[st[2].gal][st[2].pos] = g
    <2>1. 1 \in 1..(Len(st) - 1) /\ 1 + 1 = 2
      BY <1>1
    <2> QED BY <2>1 DEF Nested
  <1>3. g \in Block
    BY <1>1, <1>2, Lists
  <1>4. \A i \in DOMAIN t.children[g] : t.children[g][i] \in D
    <2> SUFFICES ASSUME NEW i \in DOMAIN t.children[g]
                 PROVE  t.children[g][i] \in D
      OBVIOUS
    <2>1. i < st[1].pos
      BY <1>1, Lists
    <2> QED BY <1>1, <2>1 DEF Visited
  <1>5. \A h \in Galaxy : \A i \in DOMAIN t.children[h] :
          t.children[h][i] = g <=> h = st[2].gal /\ i = st[2].pos
    BY <1>1, <1>2, Lists
  <1>6. ASSUME NEW k \in DOMAIN st1
        PROVE  k + 1 \in DOMAIN st /\ st1[k].gal = st[k + 1].gal
    <2>1. k = 1 \/ k \in 2..Len(st1)
      BY <1>1
    <2> QED BY <1>1, <2>1
  <1>7. ASSUME NEW k \in DOMAIN st1
        PROVE  /\ st1[k].gal \notin D \cup {g}
               /\ \A i \in DOMAIN t.children[st1[k].gal] :
                    t.children[st1[k].gal][i] \in D \cup {g} <=> i < st1[k].pos
    <2>1. st1[k].gal # g
      <3>1. k + 1 # 1
        BY <1>1
      <3> QED BY <1>1, <1>6, <3>1 DEF Nested
    <2>2. st1[k].gal \notin D
      BY <1>6 DEF Visited
    <2>3. ASSUME NEW i \in DOMAIN t.children[st1[k].gal]
          PROVE  t.children[st1[k].gal][i] \in D \cup {g} <=> i < st1[k].pos
      <3>1. CASE k = 1
        <4>1. t.children[st[2].gal][i] \in D <=> i < st[2].pos
          BY <1>1, <3>1 DEF Visited
        <4>2. i \in Nat
          BY <1>1, <3>1, Lists
        <4> QED BY <1>1, <1>5, <3>1, <4>1, <4>2
      <3>2. CASE k # 1
        <4>1. st1[k] = st[k + 1] /\ k + 1 \in DOMAIN st /\ k + 1 # 2
          BY <1>1, <3>2
        <4>2. st[k + 1].gal # st[2].gal
          BY <1>1, <4>1 DEF Nested
        <4>3. t.children[st[k + 1].gal][i] # g
          BY <1>1, <1>5, <4>1, <4>2
        <4> QED BY <4>1, <4>3 DEF Visited
      <3> QED BY <3>1, <3>2
    <2> QED BY <2>1, <2>2, <2>3
  <1>8. ASSUME NEW h \in Galaxy, NEW i \in DOMAIN t.children[h],
               t.children[h][i] \in D \cup {g}
        PROVE  h \in D \cup {g} \/ \E k \in DOMAIN st1 : st1[k].gal = h
    <2>1. CASE t.children[h][i] = g
      <3>1. 1 \in DOMAIN st1 /\ st1[1].gal = h
        BY <1>1, <1>5, <2>1
      <3> QED BY <3>1
    <2>2. CASE t.children[h][i] \in D
      <3>1. h \in D \/ \E k \in DOMAIN st : st[k].gal = h
        BY <2>2 DEF Visited
      <3>2. ASSUME NEW k \in DOMAIN st, k # 1
            PROVE  \E m \in DOMAIN st1 : st1[m].gal = st[k].gal
        <4>1. k - 1 \in DOMAIN st1 /\ (k - 1) + 1 = k
          BY <1>1, <3>2
        <4> QED BY <4>1, <1>6
      <3> QED BY <3>1, <3>2
    <2> QED BY <1>8, <2>1, <2>2
  <1>9. \A h \in (D \cup {g}) \cap Galaxy : \A i \in DOMAIN t.children[h] :
          t.children[h][i] \in D \cup {g}
    BY <1>4 DEF Visited
  <1>10. D \cup {g} \in SUBSET Block
    BY <1>3 DEF Visited
  <1> HIDE DEF g
  <1>11. Visited(t, st1, D \cup {g})
    BY <1>7, <1>8, <1>9, <1>10 DEF Visited
  <1> QED BY <1>11 DEF g

(* Every star is done when the universe is.                                *)
LEMMA AllVisited ==
    ASSUME NEW t \in Topologies, NEW st \in Stack, Nested(t, st), Len(st) = 1,
           st[1].pos > Len(t.children[st[1].gal]),
           NEW D, Visited(t, st, D)
    PROVE  Star \subseteq D
  <1>1. st[1].gal = Universe /\ 1 \in DOMAIN st /\ st[1].pos \in Nat
    BY Frames DEF Nested
  <1>2. \A i \in DOMAIN t.children[Universe] : t.children[Universe][i] \in D
    <2> SUFFICES ASSUME NEW i \in DOMAIN t.children[Universe]
                 PROVE  t.children[Universe][i] \in D
      OBVIOUS
    <2>1. i < st[1].pos
      BY <1>1, Lists, StarAssumption
    <2> QED BY <1>1, <2>1 DEF Visited
  <1>3. D \in SUBSET Block /\ \A g \in {Universe} \cup (D \cap Galaxy) :
          \A i \in DOMAIN t.children[g] : t.children[g][i] \in D
    BY <1>2 DEF Visited
  <1> QED BY <1>3, TreeAssumption

(* A pass without any activity before has none in it either.               *)
LEMMA CalmBefore ==
    ASSUME NEW st \in Stack, NEW st1 \in Stack, Len(st1) = Len(st),
           \A k \in DOMAIN st : k # 1 => st1[k] = st[k], NEW a \in BOOLEAN,
           st1[1].active_block <=> (st[1].active_block \/ a),
           st1[1].active_galaxy = st[1].active_galaxy, Calm(st1)
    PROVE  Calm(st) /\ ~a
  <1>1. DOMAIN st1 = DOMAIN st /\ 1 \in DOMAIN st
    BY Frames
  <1> QED BY <1>1 DEF Calm

(* If the others are calm after the return of a call without activity,     *)
(* all were calm before it.                                                *)
LEMMA CalmInside ==
    ASSUME NEW st \in Stack, Len(st) > 1, NEW st1 \in Stack, Len(st1) = Len(st) - 1,
           \A k \in 2..Len(st1) : k + 1 \in DOMAIN st /\ st1[k] = st[k + 1],
           NEW a \in BOOLEAN,
           st1[1].active_block <=> (st[2].active_block \/ a),
           st1[1].active_galaxy = st[2].active_galaxy, Calm(st1),
           ~st[1].active_block, ~st[1].active_galaxy
    PROVE  Calm(st)
  <1>1. DOMAIN st1 = 1..Len(st1) /\ DOMAIN st = 1..Len(st) /\ Len(st) \in Nat
    BY Frames
  <1>2. ASSUME NEW k \in DOMAIN st PROVE ~st[k].active_block /\ ~st[k].active_galaxy
    <2>1. CASE k = 1
      BY <2>1
    <2>2. CASE k = 2
      <3>1. 1 \in DOMAIN st1
        BY <1>1
      <3> QED BY <2>2, <3>1 DEF Calm
    <2>3. CASE k > 2
      <3>1. k - 1 \in 2..Len(st1) /\ (k - 1) + 1 = k
        BY <1>1, <2>3
      <3>2. st1[k - 1] = st[k] /\ k - 1 \in DOMAIN st1
        BY <1>1, <3>1
      <3> QED BY <3>2 DEF Calm
    <2> QED BY <1>1, <2>1, <2>2, <2>3
  <1> QED BY <1>2 DEF Calm

-----------------------------------------------------------------------------
(* A buffer holds what has been written to it and not been read, and no    *)
(* source has fired more often than it has samples.                        *)
Balanced ==
    /\ \A l \in topology.links : Length(l) = DF!Held(l)
    /\ \A s \in Star : InLinks(s) = {} => fired[s] <= Total[s]

Idle(s) == Passes(s) = 0

(* The links of a topology and what is known of them.                      *)
LEMMA Links ==
    ASSUME NEW t \in Topologies
    PROVE  /\ \A l \in t.links : /\ l[1] \in Star /\ l[2] \in Star /\ t.delay[l] \in Nat
                                 /\ t.rate[l[1]] \in Nat \ {0}
           /\ \A s \in Star : t.rate[s] \in Nat \ {0}
           /\ \A s \in Star : \E l \in t.links : s = l[1] \/ s = l[2]
           /\ \A l \in t.links : l[2] \in t.wired
  <1>1. /\ t.links \subseteq Star \X Star
        /\ \A s \in Star : \E l \in t.links : s \in {l[1], l[2]}
        /\ t.delay \in [t.links -> Nat] /\ t.rate \in [Star -> Nat \ {0}]
        /\ {l[2] : l \in t.links} \subseteq t.wired
    BY TopologyAssumption
  <1> QED BY <1>1

(* What there is in a buffer, and what a pass takes and adds.              *)
LEMMA LengthNat ==
    ASSUME TypeOK, NEW l \in topology.links
    PROVE  Length(l) \in Nat
  BY Links DEF TypeOK, Length

(* How often a star goes through its loop: never more often than it can.   *)
LEMMA PassesIs ==
    ASSUME TypeOK, Balanced, NEW s \in Star
    PROVE  /\ Passes(s) \in Nat
           /\ \A l \in InLinks(s) : Passes(s) <= Length(l)
           /\ InLinks(s) # {} => \E l \in InLinks(s) : Passes(s) = Length(l)
           /\ InLinks(s) = {} => /\ Passes(s) <= Total[s] - fired[s]
                                 /\ Passes(s) <= NumberSamples
                                 /\ Passes(s) \in {Total[s] - fired[s], NumberSamples}
  <1>1. CASE InLinks(s) = {}
    <2>1. Total[s] \in Nat /\ fired[s] \in Nat /\ fired[s] <= Total[s]
      BY <1>1, TotalAssumption DEF TypeOK, Balanced
    <2>2. Passes(s) = Least(NumberSamples, Total[s] - fired[s])
      BY <1>1 DEF Passes
    <2>3. Passes(s) \in {Total[s] - fired[s], NumberSamples} /\ Passes(s) <= NumberSamples
          /\ Passes(s) <= Total[s] - fired[s]
      BY <2>1, <2>2, BoundAssumption DEF Least
    <2> QED BY <1>1, <2>1, <2>3, BoundAssumption
  <1>2. CASE InLinks(s) # {}
    <2> DEFINE S == {Length(l) : l \in InLinks(s)}
    <2>1. S \in SUBSET Nat /\ S # {}
      BY <1>2, LengthNat DEF InLinks
    <2>2. Passes(s) = Min(S)
      BY <1>2 DEF Passes, MinAvail
    <2>3. Min(S) \in S /\ \A y \in S : Min(S) <= y
      BY <2>1, MinLeast
    <2> QED BY <1>2, <2>1, <2>2, <2>3
  <1> QED BY <1>1, <1>2

(* What the star s takes from a buffer and adds to it.                     *)
LEMMA TakenAdded ==
    ASSUME TypeOK, Balanced, NEW s \in Star, NEW l \in topology.links
    PROVE  /\ Taken(s, l) = (IF l[2] = s THEN Passes(s) ELSE 0)
           /\ Added(s, l) = (IF l[1] = s THEN topology.rate[s] * Passes(s) ELSE 0)
           /\ Taken(s, l) \in Nat /\ Added(s, l) \in Nat
           /\ Taken(s, l) <= Length(l)
           /\ l \in Touched(s) <=> l[2] = s \/ (l[1] = s /\ Added(s, l) > 0)
           /\ Length(l) - Taken(s, l) + Added(s, l) \in Nat
           /\ l[1] = s /\ Passes(s) > 0 => Added(s, l) > 0
  <1>1. Length(l) \in Nat /\ Passes(s) \in Nat /\ topology.rate[s] \in Nat \ {0}
    BY LengthNat, PassesIs, Links DEF TypeOK
  <1>2. topology.rate[s] * Passes(s) \in Nat
        /\ (Passes(s) > 0 => topology.rate[s] * Passes(s) > 0)
    <2>1. \A a \in Nat \ {0}, b \in Nat : a * b \in Nat /\ (b > 0 => a * b > 0)
      OBVIOUS
    <2> QED BY <1>1, <2>1
  <1>3. l \in InLinks(s) <=> l[2] = s
    BY DEF InLinks
  <1>4. l \in OutLinks(s) <=> l[1] = s
    BY DEF OutLinks
  <1>5. Taken(s, l) = (IF l[2] = s THEN Passes(s) ELSE 0)
    BY <1>3 DEF Taken
  <1>6. Added(s, l) = (IF l[1] = s THEN topology.rate[s] * Passes(s) ELSE 0)
    BY <1>4 DEF Added
  <1>7. Taken(s, l) <= Length(l)
    BY <1>1, <1>3, <1>5, PassesIs
  <1>8. l \in Touched(s) <=> l[2] = s \/ (l[1] = s /\ Added(s, l) > 0)
    BY <1>3, <1>4 DEF Touched
  <1>9. Taken(s, l) \in Nat /\ Added(s, l) \in Nat
    BY <1>1, <1>2, <1>5, <1>6
  <1> HIDE DEF TypeOK, Balanced
  <1> QED BY <1>1, <1>2, <1>5, <1>6, <1>7, <1>8, <1>9

(* A call in MAIN_CODE that the star comes back from without an error.     *)
Worked(s) ==
    /\ opened' = opened \cup Touched(s)
    /\ stored' = [l \in topology.links |->
                    IF l \in Touched(s)
                    THEN Length(l) - Taken(s, l) + Added(s, l)
                    ELSE stored[l]]
    /\ fired' = [fired EXCEPT ![s] = @ + Passes(s)]
    /\ topology' = topology

Moved(s) == \E l \in Touched(s) : l \notin opened \/ Taken(s, l) + Added(s, l) > 0

(* It changes the lengths by what it takes and adds.                       *)
LEMMA WorkedBuffers ==
    ASSUME TypeOK, Balanced, NEW s \in Star, Worked(s)
    PROVE  /\ opened' \subseteq topology.links
           /\ stored' \in [topology.links -> Nat]
           /\ fired' \in [Star -> Nat]
           /\ \A x \in Star : fired'[x] = IF x = s THEN fired[s] + Passes(s) ELSE fired[x]
           /\ \A l \in topology.links :
                Length(l)' = Length(l) - Taken(s, l) + Added(s, l)
  <1>1. \A l \in topology.links :
          /\ Length(l) - Taken(s, l) + Added(s, l) \in Nat
          /\ l \in Touched(s) <=> l[2] = s \/ (l[1] = s /\ Added(s, l) > 0)
          /\ Taken(s, l) = (IF l[2] = s THEN Passes(s) ELSE 0)
          /\ Taken(s, l) \in Nat /\ Added(s, l) \in Nat
    BY TakenAdded
  <1>2. opened' \subseteq topology.links
    <2>1. Touched(s) \subseteq topology.links
      BY DEF Touched, InLinks, OutLinks
    <2> QED BY <2>1 DEF Worked, TypeOK
  <1>3. stored' \in [topology.links -> Nat]
    BY <1>1 DEF Worked, TypeOK
  <1>4. Passes(s) \in Nat
    BY PassesIs
  <1>5. /\ fired' \in [Star -> Nat]
        /\ \A x \in Star : fired'[x] = IF x = s THEN fired[s] + Passes(s) ELSE fired[x]
    BY <1>4 DEF Worked, TypeOK
  <1>6. ASSUME NEW l \in topology.links
        PROVE  Length(l)' = Length(l) - Taken(s, l) + Added(s, l)
    <2>1. Length(l)' = IF l \in opened' THEN stored'[l] ELSE topology.delay[l]
      BY DEF Length, Worked
    <2>2. CASE l \in Touched(s)
      BY <2>1, <2>2 DEF Worked
    <2>3. CASE l \notin Touched(s)
      <3>1. Length(l)' = Length(l)
        BY <2>1, <2>3 DEF Worked, Length
      <3>2. Taken(s, l) = 0 /\ Added(s, l) = 0
        BY <1>1, <2>3, TakenAdded
      <3> QED BY <3>1, <3>2, LengthNat
    <2> QED BY <2>2, <2>3
  <1> QED BY <1>2, <1>3, <1>5, <1>6

(* A call that works keeps the balance of every buffer and of every        *)
(* source.                                                                 *)
LEMMA WorkedBalanced ==
    ASSUME TypeOK, Balanced, NEW s \in Star, Worked(s)
    PROVE  Balanced'
  <1>1. ASSUME NEW l \in topology.links
        PROVE  Length(l)' = DF!Held(l)'
    <2> DEFINE r == topology.rate[l[1]]
               p == Passes(s)
    <2>1. /\ r \in Nat /\ p \in Nat /\ topology.delay[l] \in Nat
          /\ l[1] \in Star /\ l[2] \in Star
          /\ fired[l[1]] \in Nat /\ fired[l[2]] \in Nat
      <3>1. topology \in Topologies /\ fired \in [Star -> Nat]
        BY DEF TypeOK
      <3>2. l[1] \in Star /\ l[2] \in Star /\ topology.delay[l] \in Nat /\ r \in Nat
        BY <3>1, Links
      <3>3. p \in Nat
        BY PassesIs
      <3> QED BY <3>1, <3>2, <3>3
    <2>2. /\ Length(l)' = Length(l) - Taken(s, l) + Added(s, l)
          /\ fired'[l[1]] = IF l[1] = s THEN fired[s] + p ELSE fired[l[1]]
          /\ fired'[l[2]] = IF l[2] = s THEN fired[s] + p ELSE fired[l[2]]
      BY <2>1, WorkedBuffers
    <2>3. Length(l) = topology.delay[l] + r * fired[l[1]] - fired[l[2]]
      BY DEF Balanced, DF!Held
    <2>4. DF!Held(l)' = topology.delay[l] + r * fired'[l[1]] - fired'[l[2]]
      BY DEF DF!Held, Worked
    <2>5. /\ Taken(s, l) = (IF l[2] = s THEN p ELSE 0)
          /\ Added(s, l) = (IF l[1] = s THEN r * p ELSE 0)
      BY TakenAdded
    <2>6. \A a, b, c \in Nat : a * (b + c) = a * b + a * c /\ a * b \in Nat /\ a * c \in Nat
      OBVIOUS
    <2> HIDE DEF r, p
    <2>7. r * (fired[l[1]] + p) = r * fired[l[1]] + r * p
          /\ r * fired[l[1]] \in Nat /\ r * p \in Nat
      BY <2>1, <2>6
    <2>8. r * fired'[l[1]] = IF l[1] = s THEN r * fired[l[1]] + r * p ELSE r * fired[l[1]]
      BY <2>2, <2>7
    <2> QED BY <2>1, <2>2, <2>3, <2>4, <2>5, <2>7, <2>8
  <1>2. ASSUME NEW x \in Star, InLinks(x)' = {}
        PROVE  fired'[x] <= Total[x]
    <2>1. InLinks(x) = {}
      BY <1>2 DEF InLinks, Worked
    <2>2. fired[x] <= Total[x] /\ fired[x] \in Nat /\ Total[x] \in Nat
      BY <2>1, TotalAssumption DEF Balanced, TypeOK
    <2>3. fired'[x] = IF x = s THEN fired[s] + Passes(s) ELSE fired[x]
      BY WorkedBuffers
    <2>4. Passes(x) \in Nat /\ Passes(x) <= Total[x] - fired[x]
      BY <2>1, PassesIs
    <2> QED BY <2>2, <2>3, <2>4
  <1> QED BY <1>1, <1>2 DEF Balanced, Worked

(* A star that moves nothing had nothing to do, and changes no length.     *)
LEMMA IdleStays ==
    ASSUME TypeOK, Balanced, NEW s \in Star, Worked(s), ~Moved(s)
    PROVE  /\ Idle(s)
           /\ \A x \in Star : Idle(x) => Idle(x)'
  <1>1. Passes(s) = 0
    <2> SUFFICES ASSUME Passes(s) # 0
                 PROVE  FALSE
      OBVIOUS
    <2>1. PICK l \in topology.links : s = l[1] \/ s = l[2]
      BY Links DEF TypeOK
    <2>2. Passes(s) \in Nat /\ Passes(s) > 0
      BY PassesIs
    <2>3. /\ Taken(s, l) = (IF l[2] = s THEN Passes(s) ELSE 0)
          /\ Taken(s, l) \in Nat /\ Added(s, l) \in Nat
          /\ l \in Touched(s) <=> l[2] = s \/ (l[1] = s /\ Added(s, l) > 0)
          /\ l[1] = s /\ Passes(s) > 0 => Added(s, l) > 0
      BY TakenAdded
    <2>4. l \in Touched(s) /\ Taken(s, l) + Added(s, l) > 0
      BY <2>1, <2>2, <2>3
    <2> QED BY <2>4 DEF Moved
  <1>2. fired' = fired
    <2>1. \A x \in Star : fired'[x] = fired[x]
      BY <1>1, WorkedBuffers DEF TypeOK
    <2>2. fired' \in [Star -> Nat] /\ fired \in [Star -> Nat]
      BY WorkedBuffers DEF TypeOK
    <2> QED BY <2>1, <2>2
  <1>3. ASSUME NEW l \in topology.links
        PROVE  Length(l)' = Length(l)
    <2>1. Length(l) \in Nat /\ topology.rate[s] * 0 = 0
      BY LengthNat, Links DEF TypeOK
    <2>2. Taken(s, l) = 0 /\ Added(s, l) = 0
      BY <1>1, <2>1, TakenAdded
    <2> QED BY <2>1, <2>2, WorkedBuffers
  <1>4. ASSUME NEW x \in Star, Idle(x)
        PROVE  Idle(x)'
    <2>1. InLinks(x)' = InLinks(x)
      BY DEF InLinks, Worked
    <2>2. \A l \in InLinks(x) : Length(l)' = Length(l)
      BY <1>3 DEF InLinks
    <2>3. {Length(l)' : l \in InLinks(x)} = {Length(l) : l \in InLinks(x)}
      BY <2>2
    <2>4. MinAvail(x)' = MinAvail(x)
      BY <2>1, <2>3 DEF MinAvail
    <2>5. Passes(x)' = Passes(x)
      BY <1>2, <2>1, <2>4 DEF Passes
    <2> QED BY <1>4, <2>5 DEF Idle
  <1> QED BY <1>1, <1>4 DEF Idle

-----------------------------------------------------------------------------
(* The minimum is the same in both modules.                                *)
LEMMA SameMin ==
    \A S : DF!Min(S) = Min(S)
  BY DEF DF!Min, Min

(* How often a star can fire, as a number.                                 *)
LEMMA SupplyAt ==
    ASSUME NEW t \in Topologies, NEW f \in [Star -> Nat], NEW s \in Star
    PROVE  /\ DF!Supply(t, f)[s] \in Nat
           /\ DF!Reads(t, s) = {} => DF!Supply(t, f)[s] = Total[s]
           /\ DF!Reads(t, s) # {} =>
                \E l \in DF!Reads(t, s) :
                  DF!Supply(t, f)[s] = t.delay[l] + t.rate[l[1]] * f[l[1]]
           /\ \A l \in DF!Reads(t, s) :
                DF!Supply(t, f)[s] <= t.delay[l] + t.rate[l[1]] * f[l[1]]
  <1> DEFINE S == {t.delay[l] + t.rate[l[1]] * f[l[1]] : l \in DF!Reads(t, s)}
             v == DF!Supply(t, f)[s]
  <1>1. v = IF DF!Reads(t, s) = {} THEN Total[s] ELSE Min(S)
    <2>1. v = IF DF!Reads(t, s) = {} THEN Total[s] ELSE DF!Min(S)
      BY DEF DF!Supply
    <2> HIDE DEF v
    <2> QED BY <2>1, SameMin
  <1>2. S \in SUBSET Nat
    <2> SUFFICES ASSUME NEW l \in DF!Reads(t, s)
                 PROVE  t.delay[l] + t.rate[l[1]] * f[l[1]] \in Nat
      OBVIOUS
    <2>1. t.delay[l] \in Nat /\ t.rate[l[1]] \in Nat /\ f[l[1]] \in Nat
      BY Links DEF DF!Reads
    <2>2. \A a, b, c \in Nat : a + b * c \in Nat
      OBVIOUS
    <2> QED BY <2>1, <2>2
  <1>3. CASE DF!Reads(t, s) = {}
    BY <1>1, <1>3, TotalAssumption
  <1>4. CASE DF!Reads(t, s) # {}
    <2>1. S # {}
      BY <1>4
    <2>2. Min(S) \in S /\ \A y \in S : Min(S) <= y
      BY <1>2, <2>1, MinLeast
    <2>3. v = Min(S)
      BY <1>1, <1>4
    <2> HIDE DEF v
    <2>4. v \in S /\ \A y \in S : v <= y
      BY <2>2, <2>3
    <2>5. /\ v \in Nat
          /\ \E l \in DF!Reads(t, s) : v = t.delay[l] + t.rate[l[1]] * f[l[1]]
          /\ \A l \in DF!Reads(t, s) : v <= t.delay[l] + t.rate[l[1]] * f[l[1]]
      BY <1>2, <2>4
    <2> QED BY <1>4, <2>5 DEF v
  <1> QED BY <1>3, <1>4

(* Supply maps numbers of firings to numbers of firings.                   *)
LEMMA SupplyNat ==
    ASSUME NEW t \in Topologies, NEW f \in [Star -> Nat]
    PROVE  DF!Supply(t, f) \in [Star -> Nat]
  <1>1. \A s \in Star : DF!Supply(t, f)[s] \in Nat
    BY SupplyAt
  <1>2. DF!Supply(t, f) = [s \in Star |-> DF!Supply(t, f)[s]]
    BY DEF DF!Supply
  <1> QED BY <1>1, <1>2

(* Multiplication by a rate, and the delay added to it, are monotonic.     *)
LEMMA TimesMonotonic ==
    \A a, b, c, d \in Nat : b <= c => d + a * b <= d + a * c /\ a * b <= a * c
  <1> SUFFICES ASSUME NEW a \in Nat, NEW b \in Nat, NEW c \in Nat, NEW d \in Nat, b <= c
               PROVE  d + a * b <= d + a * c /\ a * b <= a * c
    OBVIOUS
  <1>1. PICK k \in Nat : c = b + k
    BY c - b \in Nat /\ c = b + (c - b)
  <1>2. a * c = a * b + a * k /\ a * k \in Nat /\ a * b \in Nat
    BY <1>1
  <1> QED BY <1>2

Below(f, e) == \A s \in Star : f[s] <= e[s]

(* Supply is monotonic: the others firing more makes no star fire less.    *)
LEMMA SupplyMonotonic ==
    ASSUME NEW t \in Topologies, NEW f \in [Star -> Nat], NEW e \in [Star -> Nat], Below(f, e)
    PROVE  Below(DF!Supply(t, f), DF!Supply(t, e))
  <1> SUFFICES ASSUME NEW s \in Star
               PROVE  DF!Supply(t, f)[s] <= DF!Supply(t, e)[s]
    BY DEF Below
  <1> DEFINE F == DF!Supply(t, f)[s]
             G == DF!Supply(t, e)[s]
  <1>1. F \in Nat /\ G \in Nat
    BY SupplyAt
  <1>2. CASE DF!Reads(t, s) = {}
    <2>1. F = Total[s] /\ G = Total[s]
      BY <1>2, SupplyAt
    <2> QED BY <1>1, <2>1
  <1>3. CASE DF!Reads(t, s) # {}
    <2>1. PICK l \in DF!Reads(t, s) : G = t.delay[l] + t.rate[l[1]] * e[l[1]]
      BY <1>3, SupplyAt
    <2>2. F <= t.delay[l] + t.rate[l[1]] * f[l[1]]
      BY SupplyAt
    <2>3. /\ l[1] \in Star /\ t.delay[l] \in Nat /\ t.rate[l[1]] \in Nat
          /\ f[l[1]] \in Nat /\ e[l[1]] \in Nat
      BY Links DEF DF!Reads
    <2>4. f[l[1]] <= e[l[1]]
      BY <2>3 DEF Below
    <2>5. t.delay[l] + t.rate[l[1]] * f[l[1]] <= t.delay[l] + t.rate[l[1]] * e[l[1]]
      BY <2>3, <2>4, TimesMonotonic
    <2> HIDE DEF F, G
    <2>6. \A a, b, c, d \in Nat : a + b * c \in Nat
      OBVIOUS
    <2>7. t.delay[l] + t.rate[l[1]] * f[l[1]] \in Nat
      BY <2>3, <2>6
    <2>8. F <= G
      BY <1>1, <2>1, <2>2, <2>5, <2>7
    <2> QED BY <2>8 DEF F, G
  <1> QED BY <1>2, <1>3

(* The rounds from zero, the first N of them.                              *)
Zero == [s \in Star |-> 0]

RoundsTo(f, t, N) ==
    f = [k \in 0..N |-> IF k = 0 THEN Zero ELSE DF!Supply(t, f[k - 1])]

(* They are defined by recursion; by induction there is a function that    *)
(* satisfies the equation.                                                 *)
LEMMA RoundsRun ==
    ASSUME NEW t
    PROVE  RoundsTo(DF!Rounds(t), t, Horizon)
  <1> DEFINE T == {N \in 0..Horizon : \E f : RoundsTo(f, t, N)}
  <1>0. Horizon \in Nat
    BY BoundAssumption
  <1>1. 0 \in T
    <2>1. RoundsTo([k \in 0..0 |-> Zero], t, 0)
      BY DEF RoundsTo
    <2> QED BY <2>1, <1>0
  <1>2. ASSUME NEW N \in 0..(Horizon - 1), N \in T
        PROVE  N + 1 \in T
    <2>1. PICK f : RoundsTo(f, t, N)
      BY <1>2
    <2> DEFINE g == [k \in 0..(N + 1) |-> IF k <= N THEN f[k] ELSE DF!Supply(t, f[N])]
    <2>2. \A k \in 0..N : f[k] = IF k = 0 THEN Zero ELSE DF!Supply(t, f[k - 1])
      BY <2>1 DEF RoundsTo
    <2>3. \A k \in 0..(N + 1) : g[k] = IF k = 0 THEN Zero ELSE DF!Supply(t, g[k - 1])
      <3> SUFFICES ASSUME NEW k \in 0..(N + 1)
                   PROVE  g[k] = IF k = 0 THEN Zero ELSE DF!Supply(t, g[k - 1])
        OBVIOUS
      <3>1. CASE k = 0
        BY <2>2, <3>1
      <3>2. CASE k \in 1..N
        <4>1. g[k] = f[k] /\ g[k - 1] = f[k - 1]
          BY <3>2
        <4> QED BY <2>2, <3>2, <4>1
      <3>3. CASE k = N + 1
        <4>1. g[k] = DF!Supply(t, f[N]) /\ g[k - 1] = f[N] /\ k - 1 = N /\ k # 0
          BY <3>3
        <4> HIDE DEF g
        <4> QED BY <4>1
      <3> QED BY <3>1, <3>2, <3>3
    <2>4. g = [k \in 0..(N + 1) |-> g[k]]
      OBVIOUS
    <2>5. RoundsTo(g, t, N + 1)
      <3> HIDE DEF g
      <3> QED BY <2>3, <2>4 DEF RoundsTo
    <2> QED BY <2>5, <1>0
  <1>3. Horizon \in T
    <2> HIDE DEF T
    <2>1. 0..Horizon \subseteq T
      BY <1>0, <1>1, <1>2, SetInduction
    <2> QED BY <2>1, <1>0
  <1>4. \E f : RoundsTo(f, t, Horizon)
    BY <1>3
  <1> QED BY <1>4 DEF DF!Rounds, RoundsTo, Zero

(* No star is expected to fire more often than in any numbers that the     *)
(* network would not exceed.                                               *)
LEMMA ExpectedLeast ==
    ASSUME NEW t \in Topologies
    PROVE  /\ DF!ExpectedOf(t) \in [Star -> Nat]
           /\ \A e \in [Star -> Nat] :
                Below(DF!Supply(t, e), e) => Below(DF!ExpectedOf(t), e)
  <1> DEFINE r == DF!Rounds(t)
             T == {k \in 0..Horizon : r[k] \in [Star -> Nat]}
  <1>0. Horizon \in Nat
    BY BoundAssumption
  <1>1. \A k \in 0..Horizon : r[k] = IF k = 0 THEN Zero ELSE DF!Supply(t, r[k - 1])
    BY RoundsRun DEF RoundsTo
  <1> HIDE DEF r
  <1>2. 0..Horizon \subseteq T
    <2>1. 0 \in T
      BY <1>0, <1>1 DEF Zero
    <2>2. ASSUME NEW n \in 0..(Horizon - 1), n \in T
          PROVE  n + 1 \in T
      <3>1. r[n + 1] = DF!Supply(t, r[n])
        BY <1>0, <1>1
      <3> QED BY <1>0, <2>2, <3>1, SupplyNat
    <2> HIDE DEF T
    <2> QED BY <1>0, <2>1, <2>2, SetInduction
  <1>3. ASSUME NEW e \in [Star -> Nat], Below(DF!Supply(t, e), e)
        PROVE  Below(r[Horizon], e)
    <2> DEFINE B == {k \in 0..Horizon : Below(r[k], e)}
    <2>1. 0 \in B
      BY <1>0, <1>1 DEF Zero, Below
    <2>2. ASSUME NEW n \in 0..(Horizon - 1), n \in B
          PROVE  n + 1 \in B
      <3>1. r[n + 1] = DF!Supply(t, r[n]) /\ r[n] \in [Star -> Nat]
        BY <1>0, <1>1, <1>2
      <3>2. Below(r[n + 1], DF!Supply(t, e))
        BY <2>2, <3>1, SupplyMonotonic
      <3>3. r[n + 1] \in [Star -> Nat] /\ DF!Supply(t, e) \in [Star -> Nat]
        BY <3>1, SupplyNat
      <3>4. ASSUME NEW s \in Star PROVE r[n + 1][s] <= e[s]
        <4>1. r[n + 1][s] \in Nat /\ DF!Supply(t, e)[s] \in Nat /\ e[s] \in Nat
          BY <3>3
        <4>2. r[n + 1][s] <= DF!Supply(t, e)[s] /\ DF!Supply(t, e)[s] <= e[s]
          BY <1>3, <3>2 DEF Below
        <4> QED BY <4>1, <4>2
      <3> QED BY <1>0, <3>4 DEF Below
    <2>3. 0..Horizon \subseteq B
      <3> HIDE DEF B
      <3> QED BY <1>0, <2>1, <2>2, SetInduction
    <2> QED BY <1>0, <2>3
  <1>4. DF!ExpectedOf(t) = r[Horizon]
    BY DEF DF!ExpectedOf, r
  <1> QED BY <1>0, <1>2, <1>3, <1>4

-----------------------------------------------------------------------------
(* No star has fired more often than the network calls for.                *)
Bounded == Below(fired, DF!Expected)

(* Expected is a solution of f = Supply(f), in the terms of this module.   *)
LEMMA ExpectedIs ==
    ASSUME TypeOK
    PROVE  /\ DF!Expected \in [Star -> Nat]
           /\ DF!Expected = DF!Supply(topology, DF!Expected)
           /\ \A s \in Star : DF!Reads(topology, s) = InLinks(s)
  <1>1. topology \in Topologies
    BY DEF TypeOK
  <1>2. DF!Expected = DF!ExpectedOf(topology)
    BY DEF DF!Expected
  <1>3. \A s \in Star : DF!Reads(topology, s) = InLinks(s)
    BY DEF DF!Reads, InLinks
  <1> QED BY <1>1, <1>2, <1>3, ExpectedLeast, HorizonAssumption

(* A call that works takes no star beyond what the network calls for.      *)
LEMMA WorkedBounded ==
    ASSUME TypeOK, Balanced, Bounded, NEW s \in Star, Worked(s)
    PROVE  Bounded'
  <1> DEFINE E == DF!Expected
             p == Passes(s)
  <1>1. E \in [Star -> Nat] /\ E = DF!Supply(topology, E)
        /\ \A x \in Star : DF!Reads(topology, x) = InLinks(x)
    BY ExpectedIs
  <1>2. topology \in Topologies /\ fired \in [Star -> Nat]
    BY DEF TypeOK
  <1>3. E' = E
    BY DEF DF!Expected, Worked
  <1>4. fired[s] \in Nat /\ p \in Nat /\ E[s] \in Nat
    BY <1>1, <1>2, PassesIs
  <1>5. fired[s] + p <= E[s]
    <2>1. CASE InLinks(s) = {}
      <3>1. DF!Supply(topology, E)[s] = Total[s]
        BY <1>1, <1>2, <2>1, SupplyAt
      <3>2. p <= Total[s] - fired[s] /\ Total[s] \in Nat
        BY <2>1, PassesIs, TotalAssumption
      <3>3. E[s] = Total[s]
        BY <1>1, <3>1
      <3> HIDE DEF E, p
      <3> QED BY <1>4, <3>2, <3>3
    <2>2. CASE InLinks(s) # {}
      <3>1. PICK l \in InLinks(s) :
              DF!Supply(topology, E)[s] = topology.delay[l] + topology.rate[l[1]] * E[l[1]]
        BY <1>1, <1>2, <2>2, SupplyAt
      <3>2. l \in topology.links /\ l[2] = s
        BY DEF InLinks
      <3> DEFINE d == topology.delay[l]
                 r == topology.rate[l[1]]
                 F == fired[l[1]]
                 G == E[l[1]]
      <3>3. d \in Nat /\ r \in Nat /\ F \in Nat /\ G \in Nat /\ l[1] \in Star
        BY <1>1, <1>2, <3>2, Links
      <3>4. p <= Length(l) /\ Length(l) = d + r * F - fired[s]
        BY <3>2, PassesIs DEF Balanced, DF!Held
      <3>5. F <= G
        BY <3>3 DEF Bounded, Below
      <3>6. E[s] = d + r * G
        BY <1>1, <3>1
      <3> HIDE DEF E, p, d, r, F, G
      <3>7. d + r * F <= d + r * G
        BY <3>3, <3>5, TimesMonotonic
      <3>8. r * F \in Int /\ r * G \in Int
        BY <3>3
      <3> DEFINE M == d + r * F
                 N == d + r * G
      <3>9. M \in Int /\ N \in Int /\ p \in Int /\ fired[s] \in Int
        BY <1>4, <3>3, <3>8
      <3>10. p <= Length(l) /\ Length(l) = M - fired[s] /\ M <= N /\ E[s] = N
        <4>1. p <= Length(l)
          BY <3>4
        <4>2. Length(l) = M - fired[s]
          BY <1>4, <3>3, <3>4, <3>8
        <4>3. M <= N
          BY <3>7
        <4>4. E[s] = N
          BY <3>6
        <4> QED BY <4>1, <4>2, <4>3, <4>4
      <3> HIDE DEF M, N
      <3>11. fired[s] + p <= E[s]
        BY <3>9, <3>10
      <3> QED BY <3>11 DEF E, p
    <2> QED BY <2>1, <2>2
  <1>6. ASSUME NEW x \in Star
        PROVE  fired'[x] <= E[x]
    <2>1. fired'[x] = IF x = s THEN fired[s] + p ELSE fired[x]
      BY WorkedBuffers
    <2>2. fired[x] <= E[x]
      BY DEF Bounded, Below
    <2> HIDE DEF E, p
    <2> QED BY <1>5, <2>1, <2>2
  <1> QED BY <1>3, <1>6 DEF Bounded, Below

(* Where no star can fire, all have fired as often as the network calls    *)
(* for.                                                                    *)
LEMMA IdleSupply ==
    ASSUME TypeOK, Balanced, NEW s \in Star, Idle(s)
    PROVE  DF!Supply(topology, fired)[s] <= fired[s]
  <1>1. topology \in Topologies /\ fired \in [Star -> Nat]
        /\ DF!Reads(topology, s) = InLinks(s)
    BY ExpectedIs DEF TypeOK
  <1> DEFINE S == DF!Supply(topology, fired)[s]
  <1>2. S \in Nat
    BY <1>1, SupplyAt
  <1>3. CASE InLinks(s) = {}
    <2>1. S = Total[s]
      BY <1>1, <1>3, SupplyAt
    <2>2. Passes(s) \in {Total[s] - fired[s], NumberSamples} /\ Passes(s) = 0
      BY <1>3, PassesIs DEF Idle
    <2>3. Total[s] \in Nat /\ fired[s] \in Nat /\ NumberSamples \in Nat \ {0}
      BY <1>1, BoundAssumption, TotalAssumption
    <2>4. Total[s] <= fired[s]
      BY <2>2, <2>3
    <2> QED BY <2>1, <2>4
  <1>4. CASE InLinks(s) # {}
    <2>1. PICK l \in InLinks(s) : Passes(s) = Length(l)
      BY <1>4, PassesIs
    <2>2. l \in topology.links /\ l[2] = s
      BY DEF InLinks
    <2>3. Length(l) = topology.delay[l] + topology.rate[l[1]] * fired[l[1]] - fired[s]
      BY <2>2 DEF Balanced, DF!Held
    <2>4. S <= topology.delay[l] + topology.rate[l[1]] * fired[l[1]]
      BY <1>1, SupplyAt
    <2>5. Length(l) = 0
      BY <2>1 DEF Idle
    <2>6. topology.delay[l] \in Nat /\ topology.rate[l[1]] \in Nat /\ fired[l[1]] \in Nat
          /\ fired[s] \in Nat
      BY <1>1, <2>2, Links
    <2> DEFINE m == topology.rate[l[1]] * fired[l[1]]
    <2>7. m \in Nat
      BY <2>6
    <2> HIDE DEF S, m
    <2>8. Length(l) = topology.delay[l] + m - fired[s] /\ S <= topology.delay[l] + m
      BY <2>3, <2>4 DEF m
    <2>9. S <= fired[s]
      BY <1>2, <2>5, <2>6, <2>7, <2>8
    <2> QED BY <2>9 DEF S
  <1> QED BY <1>3, <1>4

(* Where all stars are idle, each has fired as often as the network calls  *)
(* for.                                                                    *)
LEMMA AllIdle ==
    ASSUME TypeOK, Balanced, Bounded, \A s \in Star : Idle(s)
    PROVE  fired = DF!Expected
  <1>1. topology \in Topologies /\ fired \in [Star -> Nat] /\ DF!Expected \in [Star -> Nat]
    BY ExpectedIs DEF TypeOK
  <1>2. Below(DF!Supply(topology, fired), fired)
    BY IdleSupply DEF Below
  <1>3. Below(DF!ExpectedOf(topology), fired)
    BY <1>1, <1>2, ExpectedLeast
  <1>4. ASSUME NEW s \in Star PROVE fired[s] = DF!Expected[s]
    <2>1. DF!Expected[s] <= fired[s] /\ fired[s] <= DF!Expected[s]
      BY <1>3 DEF Bounded, Below, DF!Expected
    <2>2. fired[s] \in Nat /\ DF!Expected[s] \in Nat
      BY <1>1
    <2> QED BY <2>1, <2>2
  <1> QED BY <1>1, <1>4

-----------------------------------------------------------------------------
(* What the calls in progress have done to the blocks D.                   *)
Done(D) ==
    /\ \A s \in D \cap Star : reached[s] = phase
    /\ phase = Main => \A s \in D \cap Star : Idle(s)
    /\ phase # Main => \A s \in Star \ D : reached[s] = phase - 1

(* The inductive invariant of the controller: as long as there has been no *)
(* activity in this visit, the blocks that the calls are through with have *)
(* been called, and in MAIN_CODE they have nothing to do.                  *)
Controlled ==
    /\ runs = 0 => ~Running
    /\ Running =>
         /\ err = 0
         /\ Nested(topology, stack)
         /\ \A s \in Star : reached[s] \in {phase - 1, phase}
         /\ phase # Main => Calm(stack)
         /\ Calm(stack) => \E D : Visited(topology, stack, D) /\ Done(D)
    /\ ~Running /\ runs > 0 /\ err = 0 => \A s \in Star : reached[s] = 4
    /\ runs > 0 /\ phase \in {0, 4} /\ err = 0 => \A s \in Star : Idle(s)

RInv == TypeOK /\ Balanced /\ Controlled

(* The phases by number.                                                   *)
LEMMA FourPhases ==
    Len(Phases) = 4 /\ Main = 3
  BY DEF Phases, Main

(* The running call, its current block and its end.                        *)
LEMMA RunningCall ==
    ASSUME TypeOK, Running
    PROVE  /\ stack \in Stack /\ phase \in 1..4
           /\ Top = stack[1] /\ Top.gal \in Galaxy /\ Top.pos \in Nat \ {0}
           /\ Children(Top.gal) = topology.children[stack[1].gal]
           /\ AtBlock => /\ stack[1].pos \in DOMAIN topology.children[stack[1].gal]
                         /\ Current = topology.children[stack[1].gal][stack[1].pos]
                         /\ Current \in Block
           /\ AtEnd => stack[1].pos > Len(topology.children[stack[1].gal])
  <1>1. /\ stack \in Seq(Frame) /\ phase \in 0..4 /\ topology \in Topologies
        /\ (stack = <<>>) = (phase = 0)
    BY FourPhases DEF TypeOK, Frame
  <1>2. stack \in Stack /\ phase \in 1..4
    BY <1>1 DEF Stack, Running
  <1>3. Top = stack[1]
    BY <1>2 DEF Top, Stack
  <1>4. stack[1].gal \in Galaxy /\ stack[1].pos \in Nat \ {0}
    BY <1>2, Frames
  <1>5. Children(Top.gal) = topology.children[stack[1].gal]
    BY <1>3 DEF Children
  <1>6. ASSUME AtBlock
        PROVE  /\ stack[1].pos \in DOMAIN topology.children[stack[1].gal]
               /\ Current = topology.children[stack[1].gal][stack[1].pos]
               /\ Current \in Block
    <2>1. stack[1].pos <= Len(topology.children[stack[1].gal])
      BY <1>3, <1>5, <1>6 DEF AtBlock
    <2>2. stack[1].pos \in DOMAIN topology.children[stack[1].gal]
      BY <1>1, <1>4, <2>1, Lists
    <2>3. Current = topology.children[stack[1].gal][stack[1].pos]
      BY <1>3, <1>5 DEF Current
    <2> QED BY <1>1, <1>4, <2>2, <2>3, Lists
  <1>7. AtEnd => stack[1].pos > Len(topology.children[stack[1].gal])
    BY <1>3, <1>5 DEF AtEnd
  <1> QED BY <1>2, <1>3, <1>4, <1>5, <1>6, <1>7

(* What depends on the buffers alone.                                      *)
Still == UNCHANGED <<topology, opened, stored, fired>>

(* A step that leaves the buffers alone keeps what depends on them.        *)
LEMMA StillSame ==
    ASSUME Still
    PROVE  /\ Balanced => Balanced'
           /\ \A s \in Star : Idle(s)' <=> Idle(s)
           /\ Bounded => Bounded'
  <1>1. topology' = topology /\ opened' = opened /\ stored' = stored /\ fired' = fired
    BY DEF Still
  <1>2. Balanced => Balanced'
    BY <1>1 DEF Balanced, Length, InLinks, DF!Held
  <1>3. ASSUME NEW s \in Star PROVE Idle(s)' <=> Idle(s)
    <2>1. InLinks(s)' = InLinks(s) /\ \A l : Length(l)' = Length(l)
      BY <1>1 DEF InLinks, Length
    <2>2. MinAvail(s)' = MinAvail(s)
      BY <2>1 DEF MinAvail
    <2> QED BY <1>1, <2>1, <2>2 DEF Idle, Passes
  <1>4. Bounded => Bounded'
    BY <1>1 DEF Bounded, Below, DF!Expected
  <1> QED BY <1>2, <1>3, <1>4

(* The type invariant after a step of the controller.                      *)
LEMMA TypeKept ==
    ASSUME TypeOK, topology' = topology, runs' = runs,
           (stack' \in Stack /\ phase' \in 1..4) \/ (stack' = <<>> /\ phase' = 0),
           err' \in {0, 1001, 1099}, active' \in BOOLEAN,
           opened' \subseteq topology.links, stored' \in [topology.links -> Nat],
           fired' \in [Star -> Nat], reached' \in [Star -> 0..4]
    PROVE  TypeOK'
  <1>1. stack' \in Seq(Frame)
    <2>1. CASE stack' \in Stack
      BY <2>1 DEF Stack
    <2>2. CASE stack' = <<>>
      BY <2>2
    <2> QED BY <2>1, <2>2
  <1>2. (stack' = <<>>) = (phase' = 0) /\ phase' \in 0..4
    BY DEF Stack
  <1> QED BY <1>1, <1>2, FourPhases DEF TypeOK, Frame

-----------------------------------------------------------------------------
(* Before the first call every buffer holds its delay.                     *)
LEMMA EmptyBalanced ==
    ASSUME topology \in Topologies, opened = {}, fired = [s \in Star |-> 0]
    PROVE  Balanced
  <1>1. ASSUME NEW l \in topology.links
        PROVE  Length(l) = DF!Held(l)
    <2>1. Length(l) = topology.delay[l]
      BY DEF Length
    <2>2. l[1] \in Star /\ l[2] \in Star /\ topology.rate[l[1]] \in Nat
          /\ topology.delay[l] \in Nat
      BY Links
    <2>3. DF!Held(l) = topology.delay[l] + topology.rate[l[1]] * 0 - 0
      BY <2>2 DEF DF!Held
    <2> QED BY <2>1, <2>2, <2>3
  <1>2. \A s \in Star : fired[s] <= Total[s]
    BY TotalAssumption
  <1> QED BY <1>1, <1>2 DEF Balanced

(* Init.                                                                   *)
LEMMA InitRInv ==
    Init => RInv
  <1> SUFFICES ASSUME Init
               PROVE  RInv
    OBVIOUS
  <1>1. /\ topology \in Topologies /\ phase = 0 /\ stack = <<>> /\ err = 0 /\ active = FALSE
        /\ opened = {} /\ stored = [l \in topology.links |-> 0]
        /\ fired = [s \in Star |-> 0] /\ reached = [s \in Star |-> 0] /\ runs = 0
    BY DEF Init
  <1>2. TypeOK
    <2>1. <<>> \in Seq(Frame)
      OBVIOUS
    <2>2. 0 \in 0..MaxRuns /\ 0 \in 0..4
      BY BoundAssumption
    <2> QED BY <1>1, <2>1, <2>2, FourPhases DEF TypeOK, Frame
  <1>3. Balanced
    BY <1>1, EmptyBalanced
  <1>4. Controlled
    BY <1>1 DEF Controlled, Running
  <1> QED BY <1>2, <1>3, <1>4 DEF RInv

(* KrnSetupRun.                                                            *)
LEMMA SetupRInv ==
    RInv /\ KrnSetupRun => RInv'
  <1> SUFFICES ASSUME RInv, KrnSetupRun
               PROVE  RInv'
    OBVIOUS
  <1>1. /\ topology' = topology /\ phase' = 1 /\ err' = 0 /\ active' = active
        /\ stack' = <<Entered(Universe)>> /\ opened' = {}
        /\ stored' = [l \in topology.links |-> 0] /\ fired' = [s \in Star |-> 0]
        /\ reached' = [s \in Star |-> 0] /\ runs' = runs + 1 /\ runs < MaxRuns
    BY DEF KrnSetupRun
  <1>2. topology \in Topologies /\ active \in BOOLEAN /\ runs \in 0..MaxRuns
    BY DEF RInv, TypeOK
  <1>3. /\ stack' \in Stack /\ Nested(topology, stack') /\ Calm(stack')
        /\ Visited(topology, stack', {})
    BY <1>1, <1>2, Began
  <1>4. TypeOK'
    <2>1. stack' \in Seq(Frame) /\ stack' # <<>>
      BY <1>3 DEF Stack
    <2>2. runs + 1 \in 0..MaxRuns
      BY <1>1, <1>2, BoundAssumption
    <2>3. 1 \in 0..4 /\ 0 \in 0..4 /\ 0 \in Nat
      OBVIOUS
    <2> QED BY <1>1, <1>2, <2>1, <2>2, <2>3, FourPhases DEF TypeOK, Frame
  <1>5. Balanced'
    <2>1. \A l \in topology'.links : Length(l)' = DF!Held(l)'
      <3> SUFFICES ASSUME NEW l \in topology.links
                   PROVE  Length(l)' = DF!Held(l)'
        BY <1>1
      <3>1. Length(l)' = topology.delay[l]
        BY <1>1 DEF Length
      <3>2. l[1] \in Star /\ l[2] \in Star /\ topology.rate[l[1]] \in Nat /\ topology.delay[l] \in Nat
        BY <1>2, Links
      <3>3. DF!Held(l)' = topology.delay[l] + topology.rate[l[1]] * 0 - 0
        BY <1>1, <3>2 DEF DF!Held
      <3> QED BY <3>1, <3>2, <3>3
    <2>2. \A s \in Star : fired'[s] <= Total[s]
      BY <1>1, TotalAssumption
    <2> QED BY <2>1, <2>2 DEF Balanced
  <1>6. Controlled'
    <2>1. Done({})'
      BY <1>1 DEF Done, Main
    <2>2. Calm(stack)' /\ Nested(topology, stack)' /\ Visited(topology, stack, {})'
      BY <1>1, <1>3
    <2>3. \A s \in Star : reached'[s] \in {phase' - 1, phase'}
      BY <1>1
    <2>4. runs' > 0 /\ phase' \notin {0, 4} /\ Running'
      BY <1>1, <1>2 DEF Running
    <2> QED BY <1>1, <2>1, <2>2, <2>3, <2>4 DEF Controlled
  <1> QED BY <1>4, <1>5, <1>6 DEF RInv

-----------------------------------------------------------------------------
(* EnterGalaxy. *)
LEMMA EnterRInv ==
    RInv /\ EnterGalaxy => RInv'
  <1> SUFFICES ASSUME RInv, EnterGalaxy
               PROVE  RInv'
    OBVIOUS
  <1>0. TypeOK /\ Balanced /\ Controlled /\ topology \in Topologies /\ reached \in [Star -> 0..4]
        /\ stack # <<>>
    BY FourPhases DEF RInv, TypeOK, EnterGalaxy, AtBlock
  <1>1. Running /\ AtBlock /\ Current \in Galaxy /\ Still
        /\ UNCHANGED <<topology, phase, err, active, opened, stored, fired, reached, runs>>
    BY <1>0 DEF EnterGalaxy, Running, TypeOK, Still
  <1>2. /\ stack \in Stack /\ phase \in 1..4
        /\ stack[1].pos \in DOMAIN topology.children[stack[1].gal]
        /\ Current = topology.children[stack[1].gal][stack[1].pos]
    BY <1>0, <1>1, RunningCall
  <1> DEFINE g == Current
  <1>3. stack' = Calling(stack, g)
    BY DEF EnterGalaxy, Calling
  <1>4. g \in Galaxy /\ g = topology.children[stack[1].gal][stack[1].pos]
    BY <1>1, <1>2
  <1> HIDE DEF g
  <1>5. /\ stack' \in Stack /\ Len(stack') = Len(stack) + 1
        /\ \A k \in 2..Len(stack') : k - 1 \in DOMAIN stack /\ stack'[k] = stack[k - 1]
        /\ stack'[1].gal = g /\ stack'[1].pos = 1
        /\ ~stack'[1].active_block /\ ~stack'[1].active_galaxy /\ stack'[1].first_pass
    <2>1. stack \in Stack /\ g \in Galaxy
      BY <1>2, <1>4
    <2> QED BY <1>3, <2>1, EnteredFrames
  <1>6. Nested(topology, stack)
    BY <1>0, <1>1 DEF Controlled
  <1>7. Nested(topology, stack')
    BY <1>0, <1>2, <1>4, <1>5, <1>6, EnteredNested
  <1>8. \A D : Visited(topology, stack, D) => Visited(topology, stack', D)
    BY <1>0, <1>2, <1>4, <1>5, <1>6, EnteredVisited
  <1>9. Calm(stack') <=> Calm(stack)
    <2>1. DOMAIN stack' = 1..Len(stack') /\ DOMAIN stack = 1..Len(stack) /\ Len(stack) \in Nat
      BY <1>2, <1>5, Frames
    <2>2. ASSUME NEW k \in DOMAIN stack, Calm(stack')
          PROVE  ~stack[k].active_block /\ ~stack[k].active_galaxy
      <3>1. k + 1 \in 2..Len(stack') /\ (k + 1) - 1 = k
        BY <1>5, <2>1
      <3>2. stack'[k + 1] = stack[k] /\ k + 1 \in DOMAIN stack'
        BY <1>5, <2>1, <3>1
      <3> QED BY <2>2, <3>2 DEF Calm
    <2>3. ASSUME NEW k \in DOMAIN stack', Calm(stack)
          PROVE  ~stack'[k].active_block /\ ~stack'[k].active_galaxy
      <3>1. CASE k = 1
        BY <1>5, <3>1
      <3>2. CASE k # 1
        <4>1. k \in 2..Len(stack')
          BY <2>1, <3>2
        <4> QED BY <1>5, <2>3, <4>1 DEF Calm
      <3> QED BY <3>1, <3>2
    <2> QED BY <2>2, <2>3 DEF Calm
  <1>10. Controlled'
    <2>1. \A D : Done(D) => Done(D)'
      BY <1>1, StillSame DEF Done
    <2>2. ASSUME Calm(stack)'
          PROVE  \E D : Visited(topology, stack, D)' /\ Done(D)'
      <3>1. PICK D : Visited(topology, stack, D) /\ Done(D)
        BY <1>0, <1>1, <1>9, <2>2 DEF Controlled
      <3> QED BY <1>1, <1>8, <2>1, <3>1
    <2>3. phase # Main => Calm(stack)'
      BY <1>0, <1>1, <1>9 DEF Controlled
    <2>4. runs > 0 /\ phase \in {0, 4} /\ err = 0 => \A s \in Star : Idle(s)'
      BY <1>0, <1>1, StillSame DEF Controlled
    <2>5. /\ runs' = runs /\ phase' = phase /\ err' = err /\ reached' = reached
          /\ Running' /\ Nested(topology, stack)'
      BY <1>1, <1>7 DEF Running
    <2> QED BY <1>0, <1>1, <2>2, <2>3, <2>4, <2>5 DEF Controlled
  <1>11. TypeOK'
    <2>1. /\ err \in {0, 1001, 1099} /\ active \in BOOLEAN /\ opened \subseteq topology.links
          /\ stored \in [topology.links -> Nat] /\ fired \in [Star -> Nat]
      BY <1>0 DEF TypeOK
    <2> QED BY <1>0, <1>1, <1>2, <1>5, <2>1, TypeKept
  <1>12. Balanced'
    BY <1>0, <1>1, StillSame
  <1> QED BY <1>10, <1>11, <1>12 DEF RInv

(* The controller has passed the star s; a is whether the star was active. *)
LEMMA PassedOn ==
    ASSUME TypeOK, Controlled, Running, NEW s \in Star, AtBlock, Current = s,
           NEW a \in BOOLEAN, stack' = Passed(stack, a), topology' = topology
    PROVE  /\ stack' \in Stack /\ Nested(topology, stack')
           /\ Calm(stack') => Calm(stack) /\ ~a
           /\ \A D : Visited(topology, stack, D) =>
                       Visited(topology, stack', D \cup {s}) /\ s \notin D
           /\ stack'[1].active_galaxy = stack[1].active_galaxy
           /\ Calm(stack) /\ ~a => Calm(stack')
           /\ stack'[1].gal = stack[1].gal /\ stack'[1].pos = stack[1].pos + 1
           /\ stack'[1].active_block <=> (stack[1].active_block \/ a)
           /\ stack'[1].first_pass = stack[1].first_pass
  <1>1. /\ stack \in Stack /\ topology \in Topologies
        /\ stack[1].pos \in DOMAIN topology.children[stack[1].gal]
        /\ s = topology.children[stack[1].gal][stack[1].pos]
    BY RunningCall DEF TypeOK
  <1>2. Nested(topology, stack)
    BY DEF Controlled
  <1>3. /\ stack' \in Stack /\ Len(stack') = Len(stack)
        /\ \A k \in DOMAIN stack : k # 1 => stack'[k] = stack[k]
        /\ stack'[1].gal = stack[1].gal /\ stack'[1].pos = stack[1].pos + 1
        /\ stack'[1].active_block <=> (stack[1].active_block \/ a)
        /\ stack'[1].active_galaxy = stack[1].active_galaxy
        /\ stack'[1].first_pass = stack[1].first_pass
    BY <1>1, PassedFrames
  <1>4. stack'[1].first_pass <=> ~stack'[1].active_galaxy
    <2>1. 1 \in DOMAIN stack
      BY <1>1, Frames
    <2> QED BY <1>2, <1>3, <2>1 DEF Nested
  <1>5. Nested(topology, stack')
    BY <1>1, <1>2, <1>3, <1>4, MovedNested
  <1>6. Calm(stack') => Calm(stack) /\ ~a
    BY <1>1, <1>3, CalmBefore
  <1>7. Calm(stack) /\ ~a => Calm(stack')
    <2>1. DOMAIN stack' = DOMAIN stack /\ 1 \in DOMAIN stack
      BY <1>1, <1>3, Frames
    <2> QED BY <1>3, <2>1 DEF Calm
  <1>8. ASSUME NEW D, Visited(topology, stack, D)
        PROVE  Visited(topology, stack', D \cup {s}) /\ s \notin D
    <2>1. Past(topology, stack, s, stack')
      BY <1>1, <1>3 DEF Past
    <2> QED BY <1>1, <1>2, <1>8, <2>1, PassedVisited
  <1> QED BY <1>3, <1>5, <1>6, <1>7, <1>8

(* The blocks of the universe are done.                                    *)
LEMMA UniverseDone ==
    ASSUME TypeOK, Controlled, Running, AtEnd, Len(stack) <= 1, Calm(stack)
    PROVE  /\ \A s \in Star : reached[s] = phase
           /\ phase = Main => \A s \in Star : Idle(s)
  <1>1. /\ stack \in Stack /\ topology \in Topologies
        /\ stack[1].pos > Len(topology.children[stack[1].gal])
    BY RunningCall DEF TypeOK
  <1>2. Nested(topology, stack) /\ Len(stack) = 1
    <2>1. Len(stack) \in Nat \ {0}
      BY <1>1, Frames
    <2> QED BY <2>1 DEF Controlled
  <1>3. PICK D : Visited(topology, stack, D) /\ Done(D)
    BY DEF Controlled
  <1>4. Star \subseteq D
    BY <1>1, <1>2, <1>3, AllVisited
  <1> QED BY <1>3, <1>4 DEF Done

(* A call for a galaxy has returned; a is whether the galaxy was active.   *)
LEMMA ReturnedOn ==
    ASSUME TypeOK, Controlled, Running, AtEnd, Len(stack) > 1, ~Top.active_block,
           stack' = Returned(stack, Top.active_galaxy), topology' = topology
    PROVE  /\ stack' \in Stack /\ Nested(topology, stack')
           /\ Calm(stack') => Calm(stack)
           /\ Calm(stack) => Calm(stack')
           /\ \A D : Visited(topology, stack, D) =>
                       \E E : Visited(topology, stack', E) /\ E \cap Star = D \cap Star
  <1> DEFINE a == Top.active_galaxy
  <1>1. /\ stack \in Stack /\ topology \in Topologies
        /\ stack[1].pos > Len(topology.children[stack[1].gal])
        /\ ~stack[1].active_block /\ a = stack[1].active_galaxy /\ a \in BOOLEAN
        /\ 1 \in DOMAIN stack /\ stack[1].gal \in Galaxy
    <2>1. /\ stack \in Stack /\ topology \in Topologies /\ Top = stack[1]
          /\ stack[1].pos > Len(topology.children[stack[1].gal])
      BY RunningCall DEF TypeOK
    <2> QED BY <2>1, Frames
  <1>2. Nested(topology, stack)
    BY DEF Controlled
  <1> HIDE DEF a
  <1>3. stack' = Returned(stack, a)
    BY DEF a
  <1>4. /\ stack' \in Stack /\ Len(stack') = Len(stack) - 1
        /\ \A k \in 2..Len(stack') : k + 1 \in DOMAIN stack /\ stack'[k] = stack[k + 1]
        /\ stack'[1].gal = stack[2].gal /\ stack'[1].pos = stack[2].pos + 1
        /\ stack'[1].active_block <=> (stack[2].active_block \/ a)
        /\ stack'[1].active_galaxy = stack[2].active_galaxy
    BY <1>1, <1>3, ReturnedFrames
  <1>5. Nested(topology, stack')
    BY <1>1, <1>2, <1>3, ReturnedNested
  <1>6. Calm(stack') => Calm(stack)
    <2> SUFFICES ASSUME Calm(stack')
                 PROVE  Calm(stack)
      OBVIOUS
    <2>1. ~a
      <3>1. 1 \in DOMAIN stack'
        BY <1>4, Frames
      <3> QED BY <1>4, <3>1 DEF Calm
    <2> QED BY <1>1, <1>4, <2>1, CalmInside
  <1>7. Calm(stack) => Calm(stack')
    <2> SUFFICES ASSUME Calm(stack), NEW k \in DOMAIN stack'
                 PROVE  ~stack'[k].active_block /\ ~stack'[k].active_galaxy
      BY DEF Calm
    <2>1. DOMAIN stack' = 1..Len(stack') /\ DOMAIN stack = 1..Len(stack) /\ Len(stack) \in Nat
      BY <1>1, <1>4, Frames
    <2>2. CASE k = 1
      <3>1. 2 \in DOMAIN stack
        BY <2>1
      <3> QED BY <1>1, <1>4, <2>2, <3>1 DEF Calm
    <2>3. CASE k # 1
      <3>1. k \in 2..Len(stack')
        BY <2>1, <2>3
      <3> QED BY <1>4, <3>1 DEF Calm
    <2> QED BY <2>2, <2>3
  <1>8. ASSUME NEW D, Visited(topology, stack, D)
        PROVE  \E E : Visited(topology, stack', E) /\ E \cap Star = D \cap Star
    <2>1. Visited(topology, stack', D \cup {stack[1].gal})
      BY <1>1, <1>2, <1>4, <1>8, ReturnedVisited
    <2>2. (D \cup {stack[1].gal}) \cap Star = D \cap Star
      BY <1>1, StarAssumption
    <2> QED BY <2>1, <2>2
  <1> QED BY <1>4, <1>5, <1>6, <1>7, <1>8

-----------------------------------------------------------------------------
(* A run that ends with an error leaves no more to show than the types.    *)
LEMMA Failing ==
    ASSUME RInv, Running, phase' = 0, stack' = <<>>, NEW e \in {1001, 1099}, err' = e,
           UNCHANGED <<topology, opened, stored, fired, runs>>, active' \in BOOLEAN,
           reached' \in [Star -> 0..4]
    PROVE  RInv'
  <1>1. TypeOK /\ Balanced /\ Controlled /\ Still
    BY DEF RInv, Still
  <1>2. TypeOK'
    <2>1. /\ opened' \subseteq topology.links /\ stored' \in [topology.links -> Nat]
          /\ fired' \in [Star -> Nat] /\ err' \in {0, 1001, 1099}
      BY <1>1 DEF TypeOK
    <2> QED BY <1>1, <2>1, TypeKept
  <1>3. Balanced'
    BY <1>1, StillSame
  <1>4. Controlled'
    BY <1>1 DEF Controlled, Running
  <1> QED BY <1>2, <1>3, <1>4 DEF RInv

(* SingleCall. *)
LEMMA SingleCallRInv ==
    ASSUME RInv, NEW s \in Star, SingleCall(s)
    PROVE  RInv' /\ reached[s] = phase - 1
  <1>0. TypeOK /\ Balanced /\ Controlled /\ topology \in Topologies /\ reached \in [Star -> 0..4]
    BY FourPhases DEF RInv, TypeOK
  <1>1. /\ Running /\ phase # Main /\ AtBlock /\ Current = s /\ Still
        /\ UNCHANGED <<topology, active, opened, stored, fired, runs>>
        /\ reached' = [reached EXCEPT ![s] = phase]
    BY DEF SingleCall, Running, Still
  <1>2. stack \in Stack /\ phase \in 1..4
    BY <1>0, <1>1, RunningCall
  <1>3. reached' \in [Star -> 0..4] /\ \A x \in Star : reached'[x] = IF x = s THEN phase ELSE reached[x]
    BY <1>0, <1>1, <1>2
  <1>4. /\ err \in {0, 1001, 1099} /\ active \in BOOLEAN /\ opened \subseteq topology.links
        /\ stored \in [topology.links -> Nat] /\ fired \in [Star -> Nat]
    BY <1>0 DEF TypeOK
  <1>5. Calm(stack) /\ \A x \in Star : reached[x] \in {phase - 1, phase}
    BY <1>0, <1>1 DEF Controlled
  <1>6. PICK D : Visited(topology, stack, D) /\ Done(D)
    BY <1>0, <1>1, <1>5 DEF Controlled
  <1>7. reached[s] = phase - 1
    <2>1. /\ stack[1].pos \in DOMAIN topology.children[stack[1].gal]
          /\ s = topology.children[stack[1].gal][stack[1].pos]
          /\ 1 \in DOMAIN stack /\ stack[1].pos \in Nat
      BY <1>0, <1>1, <1>2, RunningCall, Frames
    <2>2. s \notin D
      <3>1. ~(stack[1].pos < stack[1].pos)
        BY <2>1
      <3> QED BY <1>6, <2>1, <3>1 DEF Visited
    <2> QED BY <1>1, <1>6, <2>2 DEF Done
  <1>8. CASE /\ stack' = [stack EXCEPT ![1] = After(@, FALSE)]
             /\ UNCHANGED <<phase, err>>
    <2>1. stack' = Passed(stack, FALSE)
      BY <1>8 DEF Passed
    <2>2. /\ stack' \in Stack /\ Nested(topology, stack')
          /\ Calm(stack')
          /\ \A E : Visited(topology, stack, E) =>
                      Visited(topology, stack', E \cup {s}) /\ s \notin E
      BY <1>0, <1>1, <1>5, <2>1, PassedOn
    <2>3. TypeOK'
      <3>1. phase' \in 1..4 /\ err' \in {0, 1001, 1099} /\ active' \in BOOLEAN
        BY <1>1, <1>2, <1>4, <1>8
      <3>2. /\ opened' \subseteq topology.links /\ stored' \in [topology.links -> Nat]
            /\ fired' \in [Star -> Nat]
        BY <1>1, <1>4
      <3> QED BY <1>0, <1>1, <1>3, <2>2, <3>1, <3>2, TypeKept
    <2>4. Balanced'
      BY <1>0, <1>1, StillSame
    <2>5. Done(D \cup {s})'
      <3>1. \A x \in (D \cup {s}) \cap Star : reached'[x] = phase
        BY <1>3, <1>6 DEF Done
      <3>2. \A x \in Star \ (D \cup {s}) : reached'[x] = phase - 1
        BY <1>1, <1>3, <1>6 DEF Done
      <3> QED BY <1>1, <1>8, <3>1, <3>2 DEF Done
    <2>6. Visited(topology, stack, D \cup {s})'
      BY <1>1, <1>6, <2>2
    <2>7. \A x \in Star : reached'[x] \in {phase - 1, phase}
      BY <1>3, <1>5
    <2>8. runs > 0 /\ phase \in {0, 4} /\ err = 0 => \A x \in Star : Idle(x)'
      BY <1>0, <1>1, StillSame DEF Controlled
    <2>9. Calm(stack)' /\ Nested(topology, stack)' /\ Running' /\ phase' = phase /\ err' = err
          /\ runs' = runs
      BY <1>1, <1>8, <2>2 DEF Running
    <2>10. Controlled'
      BY <1>0, <1>1, <2>5, <2>6, <2>7, <2>8, <2>9 DEF Controlled
    <2> QED BY <1>7, <2>3, <2>4, <2>10 DEF RInv
  <1>9. CASE RunReturns(1001)
    <2>1. phase' = 0 /\ stack' = <<>> /\ err' = 1001
      BY <1>9 DEF RunReturns
    <2>2. active' \in BOOLEAN
      BY <1>1, <1>4
    <2> QED BY <1>1, <1>3, <1>7, <2>1, <2>2, Failing
  <1> QED BY <1>8, <1>9 DEF SingleCall

(* A phase or a visit of the universe begins.                              *)
LEMMA NewVisit ==
    ASSUME RInv, Running, stack' = <<Entered(Universe)>>, phase' \in 1..4,
           Still, UNCHANGED <<topology, err, active, reached, runs>>,
           \A s \in Star : reached[s] \in {phase' - 1, phase'},
           phase' # Main => \A s \in Star : reached[s] = phase' - 1,
           phase' = 4 => \A s \in Star : Idle(s)
    PROVE  RInv'
  <1>0. TypeOK /\ Balanced /\ Controlled /\ topology \in Topologies /\ reached \in [Star -> 0..4]
    BY FourPhases DEF RInv, TypeOK
  <1>1. /\ stack' \in Stack /\ Nested(topology, stack') /\ Calm(stack')
        /\ Visited(topology, stack', {})
    BY <1>0, Began
  <1>2. TypeOK'
    <2>1. /\ err \in {0, 1001, 1099} /\ active \in BOOLEAN /\ opened \subseteq topology.links
          /\ stored \in [topology.links -> Nat] /\ fired \in [Star -> Nat]
      BY <1>0 DEF TypeOK
    <2> QED BY <1>0, <1>1, <2>1, TypeKept DEF Still
  <1>3. Balanced'
    BY <1>0, StillSame
  <1>4. Done({})'
    BY DEF Done
  <1>5. Visited(topology, stack, {})' /\ Calm(stack)' /\ Nested(topology, stack)' /\ Running'
    BY <1>1 DEF Running
  <1>6. phase' = 4 => \A s \in Star : Idle(s)'
    BY StillSame
  <1>7. Controlled'
    <2>1. err = 0 /\ runs # 0 /\ phase' # 0
      BY <1>0 DEF Controlled
    <2>2. \A s \in Star : reached'[s] \in {phase' - 1, phase'}
      OBVIOUS
    <2> QED BY <1>4, <1>5, <1>6, <2>1, <2>2 DEF Controlled
  <1> QED BY <1>2, <1>3, <1>7 DEF RInv

(* A galaxy has returned to the one around it.                             *)
LEMMA ReturnRInv ==
    ASSUME RInv, Running, AtEnd, Len(stack) > 1, ~Top.active_block,
           stack' = Returned(stack, Top.active_galaxy),
           UNCHANGED <<topology, phase, err, active, opened, stored, fired, reached, runs>>
    PROVE  RInv'
  <1>0. TypeOK /\ Balanced /\ Controlled /\ Still /\ reached \in [Star -> 0..4]
    BY FourPhases DEF RInv, Still, TypeOK
  <1>1. /\ stack' \in Stack /\ Nested(topology, stack')
        /\ Calm(stack') => Calm(stack)
        /\ Calm(stack) => Calm(stack')
        /\ \A D : Visited(topology, stack, D) =>
                    \E E : Visited(topology, stack', E) /\ E \cap Star = D \cap Star
    BY <1>0, ReturnedOn
  <1>2. TypeOK'
    <2>1. /\ err \in {0, 1001, 1099} /\ active \in BOOLEAN /\ opened \subseteq topology.links
          /\ stored \in [topology.links -> Nat] /\ fired \in [Star -> Nat] /\ phase \in 1..4
      BY <1>0, RunningCall DEF TypeOK
    <2> QED BY <1>0, <1>1, <2>1, TypeKept
  <1>3. Balanced'
    BY <1>0, StillSame
  <1>4. ASSUME NEW D, NEW E, E \cap Star = D \cap Star, Done(D)
        PROVE  Done(E)'
    <2>1. Star \ E = Star \ D
      BY <1>4
    <2>2. \A s \in E \cap Star : s \in D \cap Star
      BY <1>4
    <2>3. \A s \in E \cap Star : reached[s] = phase
      BY <1>4, <2>2 DEF Done
    <2>4. phase = Main => \A s \in E \cap Star : Idle(s)'
      BY <1>0, <1>4, <2>2, StillSame DEF Done
    <2>5. phase # Main => \A s \in Star \ E : reached[s] = phase - 1
      BY <1>4, <2>1 DEF Done
    <2> QED BY <2>3, <2>4, <2>5 DEF Done
  <1>5. Calm(stack)' => \E E : Visited(topology, stack, E)' /\ Done(E)'
    <2> SUFFICES ASSUME Calm(stack')
                 PROVE  \E E : Visited(topology, stack', E) /\ Done(E)'
      OBVIOUS
    <2>1. PICK D : Visited(topology, stack, D) /\ Done(D)
      BY <1>0, <1>1 DEF Controlled
    <2>2. PICK E : Visited(topology, stack', E) /\ E \cap Star = D \cap Star
      BY <1>1, <2>1
    <2> QED BY <1>4, <2>1, <2>2
  <1>6. runs > 0 /\ phase \in {0, 4} /\ err = 0 => \A s \in Star : Idle(s)'
    BY <1>0, StillSame DEF Controlled
  <1>7. (phase # Main => Calm(stack)') /\ Nested(topology, stack)' /\ Running'
    BY <1>0, <1>1 DEF Controlled, Running
  <1>8. Controlled'
    BY <1>0, <1>5, <1>6, <1>7 DEF Controlled
  <1> QED BY <1>2, <1>3, <1>8 DEF RInv

(* SingleReturn. *)
LEMMA SingleReturnRInv ==
    RInv /\ SingleReturn => RInv'
  <1> SUFFICES ASSUME RInv, SingleReturn
               PROVE  RInv'
    OBVIOUS
  <1>0. TypeOK /\ Balanced /\ Controlled /\ reached \in [Star -> 0..4]
    BY FourPhases DEF RInv, TypeOK
  <1>1. /\ Running /\ phase # Main /\ AtEnd /\ Still
        /\ UNCHANGED <<topology, active, opened, stored, fired, reached, runs>>
    BY DEF SingleReturn, Running, Still
  <1>2. /\ stack \in Stack /\ phase \in 1..4 /\ Top = stack[1] /\ 1 \in DOMAIN stack
        /\ Len(stack) \in Nat
    BY <1>0, <1>1, RunningCall, Frames
  <1>3. Calm(stack) /\ ~Top.active_block /\ ~Top.active_galaxy
    BY <1>0, <1>1, <1>2 DEF Controlled, Calm
  <1>4. CASE Len(stack) > 1
    <2>1. /\ stack' = [Tail(stack) EXCEPT ![1] = After(@, FALSE)]
          /\ phase' = phase /\ err' = err
      BY <1>4 DEF SingleReturn
    <2>2. Top.active_galaxy = FALSE
      <3>1. Top.active_galaxy \in BOOLEAN
        BY <1>2, Frames
      <3> QED BY <1>3, <3>1
    <2>3. stack' = Returned(stack, Top.active_galaxy)
      BY <2>1, <2>2 DEF Returned
    <2> QED BY <1>1, <1>3, <1>4, <2>1, <2>3, ReturnRInv
  <1>5. CASE ~(Len(stack) > 1)
    <2>1. Len(stack) <= 1
      BY <1>2, <1>5
    <2>2. \A s \in Star : reached[s] = phase
      BY <1>0, <1>1, <1>3, <2>1, UniverseDone
    <2>3. CASE phase < 4
      <3>1. phase' = phase + 1 /\ stack' = <<Entered(Universe)>> /\ err' = err
        BY <1>5, <2>3, FourPhases DEF SingleReturn
      <3>2. phase' \in 1..4 /\ phase' # 4 /\ phase' - 1 = phase
        BY <1>1, <1>2, <2>3, <3>1, FourPhases
      <3>3. /\ \A s \in Star : reached[s] \in {phase' - 1, phase'}
            /\ phase' # Main => \A s \in Star : reached[s] = phase' - 1
        BY <2>2, <3>2
      <3> QED BY <1>1, <3>1, <3>2, <3>3, NewVisit
    <2>4. CASE phase = 4
      <3>1. phase' = 0 /\ stack' = <<>> /\ err' = 0
        BY <1>5, <2>4, FourPhases DEF SingleReturn, RunReturns
      <3>2. TypeOK'
        <4>1. /\ opened' \subseteq topology.links /\ stored' \in [topology.links -> Nat]
              /\ fired' \in [Star -> Nat] /\ err' \in {0, 1001, 1099} /\ active' \in BOOLEAN
          BY <1>0, <1>1, <3>1 DEF TypeOK
        <4> QED BY <1>0, <1>1, <3>1, <4>1, TypeKept
      <3>3. Balanced'
        BY <1>0, <1>1, StillSame
      <3>4. \A s \in Star : Idle(s)'
        <4>1. runs > 0
          <5>1. runs \in Nat /\ runs # 0
            BY <1>0, <1>1, BoundAssumption DEF Controlled, TypeOK
          <5> QED BY <5>1
        <4>2. \A s \in Star : Idle(s)
          BY <1>0, <1>1, <2>4, <4>1 DEF Controlled
        <4> QED BY <1>1, <4>2, StillSame
      <3>5. Controlled'
        BY <1>1, <2>2, <2>4, <3>1, <3>4 DEF Controlled, Running
      <3> QED BY <3>2, <3>3, <3>5 DEF RInv
    <2> QED BY <1>2, <2>3, <2>4
  <1> QED BY <1>4, <1>5

-----------------------------------------------------------------------------
(* Once there has been activity, only the nesting matters.                 *)
LEMMA Disturbed ==
    ASSUME Controlled, Running, phase = Main, ~Calm(stack'), Nested(topology, stack'),
           UNCHANGED <<topology, phase, err, reached, runs>>
    PROVE  Controlled'
  <1>1. phase' = 3 /\ phase = 3 /\ Running'
    BY FourPhases DEF Running
  <1>2. err' = 0 /\ runs' # 0
    BY DEF Controlled
  <1>3. \A s \in Star : reached'[s] \in {2, 3}
    BY <1>1 DEF Controlled
  <1>4. ~Calm(stack)' /\ Nested(topology, stack)'
    OBVIOUS
  <1> QED BY <1>1, <1>2, <1>3, <1>4, FourPhases DEF Controlled

(* SkipSource: in a later pass, so that there has been activity.           *)
LEMMA SkipRInv ==
    ASSUME RInv, NEW s \in Star, SkipSource(s)
    PROVE  RInv'
  <1>0. TypeOK /\ Balanced /\ Controlled /\ reached \in [Star -> 0..4]
    BY FourPhases DEF RInv, TypeOK
  <1>1. /\ Running /\ phase = Main /\ AtBlock /\ Current = s /\ Still /\ ~Top.first_pass
        /\ UNCHANGED <<topology, phase, err, active, opened, stored, fired, reached, runs>>
        /\ stack' = Passed(stack, FALSE)
    BY DEF SkipSource, Running, Still, Main, Passed, Due
  <1>2. /\ stack \in Stack /\ phase \in 1..4 /\ Top = stack[1] /\ 1 \in DOMAIN stack
    BY <1>0, <1>1, RunningCall, Frames
  <1>3. /\ stack' \in Stack /\ Nested(topology, stack')
        /\ stack'[1].active_galaxy = stack[1].active_galaxy
    BY <1>0, <1>1, PassedOn
  <1>4. ~Calm(stack')
    <2>1. Nested(topology, stack)
      BY <1>0, <1>1 DEF Controlled
    <2>2. stack[1].active_galaxy
      BY <1>1, <1>2, <2>1 DEF Nested
    <2>3. 1 \in DOMAIN stack'
      BY <1>3, Frames
    <2> QED BY <1>3, <2>2, <2>3 DEF Calm
  <1>5. TypeOK'
    <2>1. /\ err \in {0, 1001, 1099} /\ active \in BOOLEAN /\ opened \subseteq topology.links
          /\ stored \in [topology.links -> Nat] /\ fired \in [Star -> Nat]
      BY <1>0 DEF TypeOK
    <2>2. phase' \in 1..4 /\ reached' \in [Star -> 0..4]
      BY <1>0, <1>1, <1>2
    <2>3. /\ err' \in {0, 1001, 1099} /\ active' \in BOOLEAN /\ opened' \subseteq topology.links
          /\ stored' \in [topology.links -> Nat] /\ fired' \in [Star -> Nat]
      BY <1>1, <2>1
    <2> QED BY <1>0, <1>1, <1>3, <2>2, <2>3, TypeKept
  <1>6. Balanced'
    BY <1>0, <1>1, StillSame
  <1>7. Controlled'
    BY <1>0, <1>1, <1>3, <1>4, Disturbed
  <1> QED BY <1>5, <1>6, <1>7 DEF RInv

(* MainCall is a call that does its work, or one that ends the run.        *)
WorkDone(s) == /\ Worked(s)
               /\ stack' = Passed(stack, active \/ Moved(s))
               /\ active' = FALSE /\ phase' = phase /\ err' = err

WorkFailed(s) == /\ active' = (active \/ MovedBefore(s))
                 /\ phase' = 0 /\ stack' = <<>>
                 /\ err' \in {1001, 1099}
                 /\ UNCHANGED <<opened, stored, fired>>

(* MainCall is one of the two.                                             *)
LEMMA MainCallIs ==
    ASSUME NEW s \in Star, MainCall(s)
    PROVE  WorkDone(s) \/ WorkFailed(s)
  <1>1. topology' = topology
    BY DEF MainCall
  <1>2. \/ /\ opened' = opened \cup Touched(s)
           /\ stored' = [l \in topology.links |->
                           IF l \in Touched(s)
                           THEN Length(l) - Taken(s, l) + Added(s, l)
                           ELSE stored[l]]
           /\ fired' = [fired EXCEPT ![s] = @ + Passes(s)]
           /\ stack' = [stack EXCEPT ![1] =
                          After(@, active \/ \E l \in Touched(s) :
                                     l \notin opened \/ Taken(s, l) + Added(s, l) > 0)]
           /\ active' = FALSE /\ phase' = phase /\ err' = err
        \/ /\ active' = (active \/ MovedBefore(s))
           /\ RunReturns(IF Overflows(s) THEN 1099 ELSE 1001)
           /\ UNCHANGED <<opened, stored, fired>>
    BY DEF MainCall
  <1> QED BY <1>1, <1>2 DEF WorkDone, WorkFailed, Worked, Passed, Moved, RunReturns

(* MainCall. *)
LEMMA MainCallRInv ==
    ASSUME RInv, NEW s \in Star, MainCall(s)
    PROVE  RInv'
  <1>0. /\ TypeOK /\ Balanced /\ Controlled /\ reached \in [Star -> 0..4]
        /\ active \in BOOLEAN
    BY FourPhases DEF RInv, TypeOK
  <1>a. /\ phase = Main /\ AtBlock /\ Current = s
        /\ reached' = [reached EXCEPT ![s] = Main]
        /\ topology' = topology /\ runs' = runs
    BY DEF MainCall
  <1>1. /\ phase = 3 /\ Running /\ AtBlock /\ Current = s
        /\ reached' = [reached EXCEPT ![s] = 3]
        /\ topology' = topology /\ runs' = runs
    BY <1>a DEF Main, Running
  <1>2. reached' \in [Star -> 0..4] /\ \A x \in Star : reached'[x] = IF x = s THEN 3 ELSE reached[x]
    BY <1>0, <1>1
  <1>3. CASE WorkDone(s)
    <2> DEFINE a == active \/ Moved(s)
    <2>1. a \in BOOLEAN
      BY DEF Moved
    <2>2. stack' = Passed(stack, a)
      BY <1>3 DEF WorkDone
    <2>0. Worked(s) /\ ~active' /\ active' \in BOOLEAN /\ phase' = 3 /\ err' = err
      BY <1>1, <1>3 DEF WorkDone
    <2>3. ~a => ~Moved(s)
      OBVIOUS
    <2> HIDE DEF a
    <2>4. /\ stack' \in Stack /\ Nested(topology, stack')
          /\ Calm(stack') => Calm(stack) /\ ~a
          /\ \A E : Visited(topology, stack, E) =>
                      Visited(topology, stack', E \cup {s}) /\ s \notin E
      BY <1>0, <1>1, <2>1, <2>2, PassedOn
    <2>5. TypeOK'
      <3>0. err \in {0, 1001, 1099}
        BY <1>0 DEF TypeOK
      <3>1. /\ err' \in {0, 1001, 1099} /\ active' \in BOOLEAN /\ phase' \in 1..4
        BY <2>0, <3>0
      <3>2. /\ opened' \subseteq topology.links
            /\ stored' \in [topology.links -> Nat]
            /\ fired' \in [Star -> Nat]
        BY <1>0, <2>0, WorkedBuffers
      <3> QED BY <1>0, <1>1, <1>2, <2>4, <3>1, <3>2, TypeKept
    <2>6. Balanced'
      BY <1>0, <2>0, WorkedBalanced
    <2>7. Calm(stack)' => \E E : Visited(topology, stack, E)' /\ Done(E)'
      <3> SUFFICES ASSUME Calm(stack')
                   PROVE  \E E : Visited(topology, stack', E) /\ Done(E)'
        BY <1>1
      <3>1. PICK D : Visited(topology, stack, D) /\ Done(D)
        BY <1>0, <1>1, <2>4 DEF Controlled
      <3>2. Visited(topology, stack', D \cup {s})
        BY <2>4, <3>1
      <3>3. Idle(s) /\ \A x \in Star : Idle(x) => Idle(x)'
        BY <1>0, <2>0, <2>3, <2>4, IdleStays
      <3>4. \A x \in (D \cup {s}) \cap Star : reached'[x] = 3 /\ Idle(x)'
        BY <1>1, <1>2, <3>1, <3>3, FourPhases DEF Done
      <3>5. Done(D \cup {s})'
        BY <1>1, <2>0, <3>4, FourPhases DEF Done
      <3> QED BY <3>2, <3>5
    <2>8. \A x \in Star : reached'[x] \in {2, 3}
      BY <1>0, <1>1, <1>2 DEF Controlled
    <2>9. /\ Running' /\ phase' = 3 /\ err' = 0 /\ runs' # 0 /\ Nested(topology, stack)'
      BY <1>0, <1>1, <2>0, <2>4 DEF Controlled, Running
    <2>10. Controlled'
      BY <2>7, <2>8, <2>9, FourPhases DEF Controlled
    <2> QED BY <2>5, <2>6, <2>10 DEF RInv
  <1>4. CASE WorkFailed(s)
    <2>1. active' \in BOOLEAN
      BY <1>0, <1>4 DEF WorkFailed, MovedBefore
    <2>2. /\ phase' = 0 /\ stack' = <<>> /\ err' \in {1001, 1099}
          /\ UNCHANGED <<opened, stored, fired>>
      BY <1>4 DEF WorkFailed
    <2> QED BY <1>1, <1>2, <2>1, <2>2, Failing
  <1> QED BY <1>3, <1>4, MainCallIs

(* NextPass. *)
LEMMA NextPassRInv ==
    RInv /\ NextPass => RInv'
  <1> SUFFICES ASSUME RInv, NextPass
               PROVE  RInv'
    OBVIOUS
  <1>0. TypeOK /\ Balanced /\ Controlled /\ reached \in [Star -> 0..4]
        /\ topology \in Topologies
    BY FourPhases DEF RInv, TypeOK
  <1>1. /\ Running /\ phase = Main /\ AtEnd /\ Still
        /\ UNCHANGED <<topology, phase, err, active, opened, stored, fired, reached, runs>>
        /\ stack' = Again(stack)
    BY DEF NextPass, Running, Still, Main, Again
  <1>2. stack \in Stack /\ phase \in 1..4
    BY <1>0, <1>1, RunningCall
  <1>3. /\ stack' \in Stack /\ Len(stack') = Len(stack)
        /\ \A k \in DOMAIN stack : k # 1 => stack'[k] = stack[k]
        /\ stack'[1].gal = stack[1].gal
        /\ stack'[1].active_galaxy /\ ~stack'[1].first_pass
    BY <1>1, <1>2, AgainFrames
  <1>4. Nested(topology, stack')
    <2>1. Nested(topology, stack)
      BY <1>0, <1>1 DEF Controlled
    <2> QED BY <1>0, <1>2, <1>3, <2>1, MovedNested
  <1>5. ~Calm(stack')
    <2>1. 1 \in DOMAIN stack'
      BY <1>3, Frames
    <2> QED BY <1>3, <2>1 DEF Calm
  <1>6. TypeOK'
    <2>1. /\ err \in {0, 1001, 1099} /\ active \in BOOLEAN /\ opened \subseteq topology.links
          /\ stored \in [topology.links -> Nat] /\ fired \in [Star -> Nat]
      BY <1>0 DEF TypeOK
    <2> QED BY <1>0, <1>1, <1>2, <1>3, <2>1, TypeKept
  <1>7. Balanced'
    BY <1>0, <1>1, StillSame
  <1>8. Controlled'
    BY <1>0, <1>1, <1>4, <1>5, Disturbed
  <1> QED BY <1>6, <1>7, <1>8 DEF RInv

(* MultiReturn. *)
LEMMA MultiReturnRInv ==
    RInv /\ MultiReturn => RInv'
  <1> SUFFICES ASSUME RInv, MultiReturn
               PROVE  RInv'
    OBVIOUS
  <1>0. TypeOK /\ Balanced /\ Controlled /\ reached \in [Star -> 0..4]
    BY FourPhases DEF RInv, TypeOK
  <1>1. /\ Running /\ phase = 3 /\ AtEnd /\ Still /\ ~Top.active_block
        /\ UNCHANGED <<topology, err, active, opened, stored, fired, reached, runs>>
    BY DEF MultiReturn, Running, Still, Main
  <1>2. /\ stack \in Stack /\ Top = stack[1] /\ 1 \in DOMAIN stack
        /\ Len(stack) \in Nat /\ DOMAIN stack = 1..Len(stack)
    BY <1>0, <1>1, RunningCall, Frames
  <1>3. \A s \in Star : reached[s] \in {2, 3}
    BY <1>0, <1>1 DEF Controlled
  <1>4. CASE Len(stack) > 1
    <2>1. stack' = Returned(stack, Top.active_galaxy) /\ phase' = phase
      BY <1>4 DEF MultiReturn, Returned
    <2> QED BY <1>1, <1>4, <2>1, ReturnRInv
  <1>5. CASE ~(Len(stack) > 1)
    <2>1. /\ phase' = IF Top.active_galaxy THEN 3 ELSE 4
          /\ stack' = <<Entered(Universe)>>
      BY <1>5 DEF MultiReturn, Main
    <2>2. CASE Top.active_galaxy
      <3>1. phase' = 3
        BY <2>1, <2>2
      <3>2. /\ \A s \in Star : reached[s] \in {phase' - 1, phase'}
            /\ phase' \in 1..4 /\ phase' = Main /\ phase' # 4
        BY <1>3, <3>1, FourPhases
      <3> QED BY <1>1, <2>1, <3>2, NewVisit
    <2>3. CASE ~Top.active_galaxy
      <3>1. phase' = 4
        BY <2>1, <2>3
      <3>2. Len(stack) <= 1 /\ Calm(stack)
        BY <1>1, <1>2, <1>5, <2>3 DEF Calm
      <3>3. /\ \A s \in Star : reached[s] = 3
            /\ \A s \in Star : Idle(s)
        BY <1>0, <1>1, <3>2, UniverseDone, FourPhases
      <3>4. /\ \A s \in Star : reached[s] \in {phase' - 1, phase'}
            /\ \A s \in Star : reached[s] = phase' - 1
            /\ phase' \in 1..4
        BY <3>1, <3>3
      <3> QED BY <1>1, <2>1, <3>3, <3>4, NewVisit
    <2> QED BY <2>2, <2>3
  <1> QED BY <1>4, <1>5

-----------------------------------------------------------------------------
(* The steps of the module.                                                *)
LEMMA NextRInv ==
    RInv /\ [Next]_vars => RInv'
  <1> SUFFICES ASSUME RInv, [Next]_vars
               PROVE  RInv'
    OBVIOUS
  <1>1. CASE KrnSetupRun
    BY <1>1, SetupRInv
  <1>2. CASE EnterGalaxy
    BY <1>2, EnterRInv
  <1>3. CASE SingleReturn
    BY <1>3, SingleReturnRInv
  <1>4. CASE NextPass
    BY <1>4, NextPassRInv
  <1>5. CASE MultiReturn
    BY <1>5, MultiReturnRInv
  <1>6. ASSUME NEW s \in Star, SingleCall(s) \/ SkipSource(s) \/ MainCall(s)
        PROVE  RInv'
    BY <1>6, SingleCallRInv, SkipRInv, MainCallRInv
  <1>7. CASE UNCHANGED vars
    <2>1. TypeOK /\ Balanced /\ Controlled /\ Still
      BY <1>7 DEF RInv, Still, vars
    <2>2. TypeOK'
      BY <1>7, <2>1 DEF TypeOK, vars
    <2>3. Balanced'
      BY <2>1, StillSame
    <2>4. \A D : Done(D) => Done(D)'
      BY <1>7, <2>1, StillSame DEF Done, vars
    <2>5. Running => (Calm(stack)' => \E D : Visited(topology, stack, D)' /\ Done(D)')
      <3> SUFFICES ASSUME Running, Calm(stack)'
                   PROVE  \E D : Visited(topology, stack, D)' /\ Done(D)'
        OBVIOUS
      <3>1. Calm(stack)
        BY <1>7 DEF vars
      <3>2. PICK D : Visited(topology, stack, D) /\ Done(D)
        BY <2>1, <3>1 DEF Controlled
      <3>3. Visited(topology, stack, D)'
        BY <1>7, <3>2 DEF vars
      <3> QED BY <2>4, <3>2, <3>3
    <2>6. runs > 0 /\ phase \in {0, 4} /\ err = 0 => \A s \in Star : Idle(s)'
      BY <2>1, StillSame DEF Controlled
    <2>7. /\ phase' = phase /\ err' = err /\ runs' = runs /\ reached' = reached
          /\ (Running' <=> Running) /\ (Running => Nested(topology, stack)')
          /\ (Running /\ phase # Main => Calm(stack)')
      BY <1>7, <2>1 DEF Controlled, Running, vars
    <2>8. Controlled'
      BY <2>1, <2>5, <2>6, <2>7 DEF Controlled
    <2> QED BY <2>2, <2>3, <2>8 DEF RInv
  <1> QED BY <1>1, <1>2, <1>3, <1>4, <1>5, <1>6, <1>7 DEF Next, Controller

(* No step but KrnSetupRun and a call that works touches a buffer.         *)
LEMMA BuffersStep ==
    ASSUME Controller
    PROVE  Still \/ \E s \in Star : MainCall(s) /\ Worked(s)
  <1>1. EnterGalaxy \/ SingleReturn \/ NextPass \/ MultiReturn => Still
    BY DEF EnterGalaxy, SingleReturn, NextPass, MultiReturn, Still
  <1>2. ASSUME NEW s \in Star, SingleCall(s) \/ SkipSource(s)
        PROVE  Still
    BY <1>2 DEF SingleCall, SkipSource, Still
  <1>3. ASSUME NEW s \in Star, MainCall(s)
        PROVE  Still \/ Worked(s)
    <2>1. topology' = topology
      BY <1>3 DEF MainCall
    <2>2. WorkDone(s) \/ WorkFailed(s)
      BY <1>3, MainCallIs
    <2>3. WorkDone(s) => Worked(s)
      BY DEF WorkDone
    <2>4. WorkFailed(s) => Still
      BY <2>1 DEF WorkFailed, Still
    <2> QED BY <2>2, <2>3, <2>4
  <1> QED BY <1>1, <1>2, <1>3 DEF Controller

(* No step takes a star beyond what the network calls for.                 *)
LEMMA NextBounded ==
    RInv /\ Bounded /\ [Next]_vars => Bounded'
  <1> SUFFICES ASSUME RInv, Bounded, [Next]_vars
               PROVE  Bounded'
    OBVIOUS
  <1>0. TypeOK /\ Balanced
    BY DEF RInv
  <1>1. CASE KrnSetupRun
    <2>1. DF!Expected \in [Star -> Nat] /\ DF!Expected' = DF!Expected
      BY <1>0, <1>1, ExpectedIs DEF KrnSetupRun, DF!Expected
    <2>2. \A s \in Star : fired'[s] = 0
      BY <1>1 DEF KrnSetupRun
    <2>3. \A s \in Star : fired'[s] <= DF!Expected[s]
      BY <2>1, <2>2
    <2> QED BY <2>1, <2>3 DEF Bounded, Below
  <1>2. CASE Controller
    BY <1>0, <1>2, BuffersStep, StillSame, WorkedBounded
  <1>3. CASE UNCHANGED vars
    BY <1>3, StillSame DEF Still, vars
  <1> QED BY <1>1, <1>2, <1>3 DEF Next

(* Nor does Init.                                                          *)
LEMMA InitBounded ==
    Init => Bounded
  <1> SUFFICES ASSUME Init
               PROVE  Bounded
    OBVIOUS
  <1>1. TypeOK
    BY InitRInv DEF RInv
  <1>2. DF!Expected \in [Star -> Nat]
    BY <1>1, ExpectedIs
  <1>3. \A s \in Star : fired[s] = 0
    BY DEF Init
  <1>4. \A s \in Star : fired[s] <= DF!Expected[s]
    BY <1>2, <1>3
  <1> QED BY <1>4 DEF Bounded, Below

(* The inductive invariant.                                                *)
LEMMA Invariant ==
    Spec => [](RInv /\ Bounded)
  <1>1. Init => RInv /\ Bounded
    BY InitRInv, InitBounded
  <1>2. (RInv /\ Bounded) /\ [Next]_vars => (RInv /\ Bounded)'
    BY NextRInv, NextBounded
  <1> QED BY <1>1, <1>2, PTL DEF Spec

(* The types of the variables: the frames of the recursion are those of    *)
(* galaxies, and there is one as long as a run is on.                      *)
THEOREM TypeCorrect ==
    Spec => []TypeOK
  <1>1. RInv /\ Bounded => TypeOK
    BY DEF RInv
  <1> QED BY <1>1, Invariant, PTL

(* No star is called for a phase before all stars of all galaxies have     *)
(* been called for the one before, and a run that returns zero has taken   *)
(* every star through all four.                                            *)
THEOREM PhasesAgree ==
    Spec => []PhasesInStep
  <1>1. RInv /\ Bounded => PhasesInStep
    BY FourPhases DEF RInv, Controlled, PhasesInStep
  <1> QED BY <1>1, Invariant, PTL

(* SingleRun executes no block a second time in a phase.                   *)
THEOREM OncePerPhase ==
    Spec => ExecutedOnce
  <1>1. RInv /\ Bounded /\ [Next]_vars =>
          [\A s \in Star : SingleCall(s) => reached[s] = phase - 1]_vars
    BY SingleCallRInv
  <1> QED BY <1>1, Invariant, PTL DEF Spec, ExecutedOnce

-----------------------------------------------------------------------------
(* Dataflow's view of the network is the controller's.                     *)
LEMMA AvailableIs ==
    ASSUME RInv, NEW s \in Star
    PROVE  /\ DF!IsSource(s) <=> InLinks(s) = {}
           /\ DF!Available(s) = IF InLinks(s) = {} THEN Total[s] - fired[s] ELSE MinAvail(s)
           /\ DF!Available(s) \in Int
           /\ Passes(s) <= DF!Available(s)
           /\ Idle(s) => DF!Available(s) = 0
  <1>0. TypeOK /\ Balanced
    BY DEF RInv
  <1>1. DF!InLinks(s) = InLinks(s)
    BY DEF DF!InLinks, DF!Reads, InLinks
  <1>2. DF!IsSource(s) <=> InLinks(s) = {}
    BY <1>1 DEF DF!IsSource
  <1>3. {DF!Held(l) : l \in DF!InLinks(s)} = {Length(l) : l \in InLinks(s)}
    <2>1. \A l \in InLinks(s) : Length(l) = DF!Held(l)
      BY <1>0 DEF Balanced, InLinks
    <2> QED BY <1>1, <2>1
  <1>4. DF!Available(s) = IF InLinks(s) = {} THEN Total[s] - fired[s] ELSE MinAvail(s)
    BY <1>2, <1>3, SameMin DEF DF!Available, MinAvail
  <1>5. CASE InLinks(s) = {}
    <2>1. Total[s] \in Nat /\ fired[s] \in Nat
      BY <1>0, TotalAssumption DEF TypeOK
    <2>2. /\ Passes(s) <= Total[s] - fired[s]
          /\ Passes(s) \in {Total[s] - fired[s], NumberSamples}
      BY <1>0, <1>5, PassesIs
    <2>3. DF!Available(s) = Total[s] - fired[s]
      BY <1>4, <1>5
    <2> QED BY <1>2, <1>5, <2>1, <2>2, <2>3, <1>4, BoundAssumption DEF Idle
  <1>6. CASE InLinks(s) # {}
    <2>1. Passes(s) = MinAvail(s) /\ DF!Available(s) = MinAvail(s)
      BY <1>4, <1>6 DEF Passes
    <2>2. Passes(s) \in Nat
      BY <1>0, PassesIs
    <2> QED BY <1>2, <1>4, <2>1, <2>2 DEF Idle
  <1> QED BY <1>5, <1>6

(* A call that works is a firing, or one of the steps in between.          *)
LEMMA WorkedFires ==
    ASSUME RInv, NEW s \in Star, MainCall(s), WorkDone(s)
    PROVE  \/ \E n \in 1..DF!Available(s) : DF!Fire(s, n)
           \/ UNCHANGED DF!dvars
  <1>0. TypeOK /\ Balanced
    BY DEF RInv
  <1>1. /\ phase' = phase /\ err' = err /\ runs' = runs /\ topology' = topology /\ phase = 3
        /\ fired' = [fired EXCEPT ![s] = @ + Passes(s)]
    BY FourPhases DEF MainCall, WorkDone, Worked
  <1>2. Status = "running" /\ Status' = Status
    <2>1. runs # 0
      BY <1>1 DEF RInv, Controlled, Running
    <2> QED BY <1>1, <2>1, FourPhases DEF Status
  <1>3. Passes(s) \in Nat /\ DF!Available(s) \in Int /\ Passes(s) <= DF!Available(s)
    BY <1>0, AvailableIs, PassesIs
  <1>4. CASE Passes(s) = 0
    <2>1. fired' = fired
      BY <1>0, <1>1, <1>4 DEF TypeOK
    <2> QED BY <1>1, <1>2, <2>1 DEF DF!dvars
  <1>5. CASE Passes(s) # 0
    <2>1. Passes(s) \in 1..DF!Available(s)
      BY <1>3, <1>5
    <2>2. DF!Fire(s, Passes(s))
      BY <1>1, <1>2 DEF DF!Fire
    <2> QED BY <2>1, <2>2
  <1> QED BY <1>4, <1>5

(* Every step of the controller is one of the network, or none at all.     *)
LEMMA StepRefines ==
    RInv /\ [Next]_vars => [DF!Next]_(DF!dvars)
  <1> SUFFICES ASSUME RInv, [Next]_vars
               PROVE  DF!Next \/ UNCHANGED DF!dvars
    OBVIOUS
  <1>0. /\ TypeOK /\ Balanced /\ Controlled /\ phase \in 0..4 /\ runs \in Nat
        /\ err \in {0, 1001, 1099}
    BY FourPhases, BoundAssumption DEF RInv, TypeOK
  <1>1. CASE KrnSetupRun
    <2>1. Status # "running"
      BY <1>1, FourPhases DEF KrnSetupRun, Running, Status
    <2>2. Status' = "running"
      BY <1>0, <1>1, FourPhases DEF KrnSetupRun, Status
    <2>3. DF!Start
      BY <1>1, <2>1, <2>2 DEF DF!Start, KrnSetupRun
    <2> QED BY <2>3 DEF DF!Next
  <1>2. ASSUME UNCHANGED <<topology, fired, phase, err, runs>>
        PROVE  UNCHANGED DF!dvars
    BY <1>2 DEF DF!dvars, Status
  <1>3. CASE EnterGalaxy \/ NextPass
    BY <1>2, <1>3 DEF EnterGalaxy, NextPass
  <1>4. ASSUME UNCHANGED <<topology, fired, runs>>, Running, phase' = 0, err' \in {1001, 1099}
        PROVE  DF!Fail
    <2>1. runs # 0 /\ err = 0 /\ phase \in 1..4
      BY <1>0, <1>4 DEF Controlled, Running
    <2>2. Status \in {"running", "done"}
      BY <2>1, FourPhases DEF Status
    <2>3. Status' = "failed"
      BY <1>4, <2>1, FourPhases DEF Status
    <2> QED BY <1>4, <2>2, <2>3 DEF DF!Fail
  <1>5. CASE SingleReturn
    <2>1. /\ UNCHANGED <<topology, fired, runs>> /\ phase # 0 /\ phase # 3
          /\ \/ phase' = phase /\ err' = err
             \/ phase < 4 /\ phase' = phase + 1 /\ err' = err
             \/ ~(phase < 4) /\ phase' = 0 /\ err' = 0
      BY <1>5, FourPhases DEF SingleReturn, RunReturns
    <2>2. runs # 0 /\ err = 0
      BY <1>0, <2>1 DEF Controlled, Running
    <2>3. Status' = Status
      BY <1>0, <2>1, <2>2, FourPhases DEF Status
    <2> QED BY <2>1, <2>3 DEF DF!dvars
  <1>6. ASSUME NEW s \in Star, SingleCall(s)
        PROVE  DF!Next \/ UNCHANGED DF!dvars
    <2>1. CASE UNCHANGED <<phase, err>>
      BY <1>2, <1>6, <2>1 DEF SingleCall
    <2>2. CASE RunReturns(1001)
      BY <1>4, <1>6, <2>2 DEF SingleCall, RunReturns, Running, DF!Next
    <2> QED BY <1>6, <2>1, <2>2 DEF SingleCall
  <1>7. ASSUME NEW s \in Star, SkipSource(s)
        PROVE  UNCHANGED DF!dvars
    BY <1>2, <1>7 DEF SkipSource
  <1>8. ASSUME NEW s \in Star, MainCall(s)
        PROVE  DF!Next \/ UNCHANGED DF!dvars
    <2>1. CASE WorkDone(s)
      BY <1>8, <2>1, WorkedFires DEF DF!Next
    <2>2. CASE WorkFailed(s)
      <3>1. UNCHANGED <<topology, fired, runs>> /\ Running /\ phase' = 0 /\ err' \in {1001, 1099}
        BY <1>8, <2>2, FourPhases DEF MainCall, WorkFailed, Running
      <3> QED BY <1>4, <3>1 DEF DF!Next
    <2> QED BY <1>8, <2>1, <2>2, MainCallIs
  <1>9. CASE MultiReturn
    <2>1. /\ UNCHANGED <<topology, fired, opened, stored, err, runs>> /\ phase = 3
          /\ \/ phase' = phase
             \/ Len(stack) <= 1 /\ ~Top.active_galaxy /\ phase' = 4
      <3>1. Len(stack) \in Nat
        BY <1>0 DEF TypeOK
      <3> QED BY <1>9, <3>1, FourPhases DEF MultiReturn
    <2>2. CASE phase' = phase
      BY <1>2, <2>1, <2>2
    <2>3. CASE Len(stack) <= 1 /\ ~Top.active_galaxy /\ phase' = 4
      <3>1. runs # 0 /\ err = 0
        BY <1>0, <2>1 DEF Controlled, Running
      <3>2. \A s \in Star : Idle(s)
        <4>1. RInv' /\ runs' = runs /\ err' = err /\ Still
          BY <1>9, <2>1, MultiReturnRInv DEF Still
        <4>2. \A s \in Star : Idle(s)'
          BY <1>0, <2>1, <2>3, <3>1, <4>1 DEF RInv, Controlled
        <4> QED BY <4>1, <4>2, StillSame
      <3>3. \A s \in Star : DF!Available(s) = 0
        BY <3>2, AvailableIs
      <3>4. Status = "running" /\ Status' = "done"
        BY <2>1, <2>3, <3>1, FourPhases DEF Status
      <3>5. DF!Finish
        BY <2>1, <3>3, <3>4 DEF DF!Finish
      <3> QED BY <3>5 DEF DF!Next
    <2> QED BY <2>1, <2>2, <2>3
  <1>10. CASE UNCHANGED vars
    BY <1>2, <1>10 DEF vars
  <1> QED BY <1>1, <1>3, <1>5, <1>6, <1>7, <1>8, <1>9, <1>10 DEF Next, Controller

(* The controller runs the network: whatever the hierarchy and the order   *)
(* of the visits, a star never takes a sample that is not there, and the   *)
(* run goes on to the wrapup only when no star can fire.                   *)
THEOREM Implements ==
    Spec => ImplementsDataflow
  <1>1. Init => DF!Init
    BY DEF Init, DF!Init, Status
  <1>2. RInv /\ Bounded /\ [Next]_vars => [DF!Next]_(DF!dvars)
    BY StepRefines
  <1> QED BY <1>1, <1>2, Invariant, PTL DEF Spec, ImplementsDataflow, DF!Spec

(* A run that gets to the wrapup has fired every star as often as the      *)
(* network calls for, the least solution of Supply(f) = f.                 *)
THEOREM DeliveredAll ==
    Spec => []Delivered
  <1>1. RInv /\ Bounded => Delivered
    <2> SUFFICES ASSUME RInv, Bounded, Status = "done"
                 PROVE  fired = DF!Expected
      BY DEF Delivered, DF!Delivered
    <2>1. runs # 0 /\ phase \notin 1..3 /\ err = 0
      BY FourPhases DEF Status
    <2>2. phase \in 0..4 /\ runs \in Nat
      BY FourPhases, BoundAssumption DEF RInv, TypeOK
    <2>3. runs > 0 /\ phase \in {0, 4}
      BY <2>1, <2>2
    <2>4. \A s \in Star : Idle(s)
      BY <2>1, <2>3 DEF RInv, Controlled
    <2> QED BY <2>4, AllIdle DEF RInv
  <1> QED BY <1>1, Invariant, PTL

-----------------------------------------------------------------------------
(* The visits of a flat universe with even traffic.  When one begins all   *)
(* stars have fired c times; in its first pass every source rises to the   *)
(* crest, and the other stars follow until they are idle at the crest.     *)
Even == IsFlat /\ EvenTraffic
Row == topology.children[Universe]

Crest(c, s) == Least(c + NumberSamples, DF!Expected[s])

(* The star s, the i-th of the universe, during the call f.                *)
AtLevel(c, s, i, f) ==
    /\ InLinks(s) = {} => fired[s] = IF f.first_pass /\ i >= f.pos THEN c ELSE Crest(c, s)
    /\ InLinks(s) # {} /\ i < f.pos /\ ~f.active_block => Idle(s)

Level(c) ==
    /\ \A s \in Star : c <= fired[s] /\ fired[s] <= Crest(c, s)
    /\ phase \in {1, 2} => \A s \in Star : fired[s] = c
    /\ phase = Main => \A i \in DOMAIN Row : AtLevel(c, Row[i], i, stack[1])

Levels == Even => \E c \in Nat : Level(c)

(* The universe is the only call.                                          *)
LEMMA FlatStack ==
    ASSUME RInv, Running, IsFlat
    PROVE  /\ stack \in Stack /\ Len(stack) = 1 /\ stack[1].gal = Universe
           /\ Top = stack[1] /\ stack[1] \in Frame
           /\ AtBlock => stack[1].pos \in DOMAIN Row /\ Current = Row[stack[1].pos]
                         /\ Current \in Star
           /\ AtEnd => \A i \in DOMAIN Row : i < stack[1].pos
  <1>0. TypeOK /\ Controlled
    BY DEF RInv
  <1>1. /\ stack \in Stack /\ Top = stack[1] /\ topology \in Topologies
        /\ Len(stack) \in Nat \ {0} /\ DOMAIN stack = 1..Len(stack)
        /\ \A k \in DOMAIN stack : stack[k].gal \in Galaxy
    BY <1>0, RunningCall, Frames DEF TypeOK
  <1>2. Nested(topology, stack)
    BY <1>0 DEF Controlled
  <1>3. \A i \in DOMAIN Row : Row[i] \in Star
    BY DEF IsFlat, Children, Row
  <1>4. Len(stack) = 1
    <2> SUFFICES ASSUME Len(stack) # 1
                 PROVE  FALSE
      OBVIOUS
    <2> DEFINE k == Len(stack) - 1
    <2>1. k \in 1..(Len(stack) - 1) /\ k + 1 = Len(stack) /\ k \in DOMAIN stack
      BY <1>1
    <2>2. stack[k + 1].gal = Universe
      BY <1>2, <2>1 DEF Nested
    <2>3. /\ stack[k + 1].pos \in DOMAIN topology.children[stack[k + 1].gal]
          /\ topology.children[stack[k + 1].gal][stack[k + 1].pos] = stack[k].gal
      BY <1>2, <2>1 DEF Nested
    <2>4. stack[k].gal \in Galaxy
      BY <1>1, <2>1
    <2> HIDE DEF k
    <2>5. stack[k].gal \in Star
      BY <1>3, <2>2, <2>3 DEF Row
    <2> QED BY <2>4, <2>5, StarAssumption
  <1>5. stack[1].gal = Universe /\ stack[1] \in Frame
    <2>1. stack[1] \in Frame
      BY <1>1 DEF Stack
    <2> QED BY <1>2, <1>4, <2>1 DEF Nested
  <1>6. AtBlock => stack[1].pos \in DOMAIN Row /\ Current = Row[stack[1].pos]
                   /\ Current \in Star
    <2> SUFFICES ASSUME AtBlock
                 PROVE  stack[1].pos \in DOMAIN Row /\ Current = Row[stack[1].pos]
                        /\ Current \in Star
      OBVIOUS
    <2>1. /\ stack[1].pos \in DOMAIN topology.children[stack[1].gal]
          /\ Current = topology.children[stack[1].gal][stack[1].pos]
      BY <1>0, RunningCall
    <2>2. stack[1].pos \in DOMAIN Row /\ Current = Row[stack[1].pos]
      BY <1>5, <2>1 DEF Row
    <2> QED BY <1>3, <2>2
  <1>7. AtEnd => \A i \in DOMAIN Row : i < stack[1].pos
    <2> SUFFICES ASSUME AtEnd, NEW i \in DOMAIN Row
                 PROVE  i < stack[1].pos
      OBVIOUS
    <2>1. stack[1].pos > Len(topology.children[stack[1].gal])
      BY <1>0, RunningCall
    <2>2. DOMAIN Row = 1..Len(Row) /\ Len(Row) \in Nat
      BY <1>1, Lists, StarAssumption DEF Row
    <2>3. stack[1].pos > Len(Row) /\ stack[1].pos \in Nat
      BY <1>5, <2>1 DEF Row, Frame
    <2> QED BY <2>2, <2>3
  <1> QED BY <1>1, <1>4, <1>5, <1>6, <1>7

(* What even traffic means for the stars and the links.                    *)
LEMMA EvenIs ==
    ASSUME RInv, Even
    PROVE  /\ \A i \in DOMAIN Row : i \in Nat /\ Row[i] \in Star
           /\ \A i, j \in DOMAIN Row : Row[i] = Row[j] => i = j
           /\ \A s \in Star : \E i \in DOMAIN Row : s = Row[i]
           /\ \A s \in Star : s \in topology.wired <=> InLinks(s) # {}
           /\ \A l \in topology.links :
                /\ l[1] \in Star /\ l[2] \in Star /\ topology.delay[l] \in Nat
                /\ Length(l) \in Nat
                /\ Length(l) = topology.delay[l] + fired[l[1]] - fired[l[2]]
  <1>0. /\ TypeOK /\ Balanced /\ topology \in Topologies /\ fired \in [Star -> Nat]
        /\ IsFlat /\ EvenTraffic
    BY DEF RInv, TypeOK, Even
  <1>1. \A i \in DOMAIN Row : Row[i] \in Star
    BY <1>0 DEF IsFlat, Children, Row
  <1>2. \A i, j \in DOMAIN Row : Row[i] = Row[j] => i = j
    BY <1>0, Lists, StarAssumption DEF Row
  <1>3. DOMAIN Row \subseteq Nat
    BY <1>0, Lists, StarAssumption DEF Row
  <1>4. \A s \in Star : \E i \in DOMAIN Row : s = Row[i]
    <2> DEFINE B == {Row[i] : i \in DOMAIN Row}
    <2>1. B \in SUBSET Block /\ B \cap Galaxy = {}
      BY <1>1, StarAssumption DEF Block
    <2>2. \A g \in {Universe} \cup (B \cap Galaxy) :
            \A i \in DOMAIN topology.children[g] : topology.children[g][i] \in B
      BY <2>1 DEF Row
    <2> HIDE DEF B
    <2>3. Star \subseteq B
      BY <1>0, <2>1, <2>2, TreeAssumption
    <2> QED BY <2>3 DEF B
  <1>5. \A s \in Star : s \in topology.wired <=> InLinks(s) # {}
    <2>1. topology.wired = {l[2] : l \in topology.links}
      BY <1>0 DEF EvenTraffic
    <2> QED BY <2>1 DEF InLinks
  <1>6. ASSUME NEW l \in topology.links
        PROVE  /\ l[1] \in Star /\ l[2] \in Star /\ topology.delay[l] \in Nat
               /\ Length(l) \in Nat
               /\ Length(l) = topology.delay[l] + fired[l[1]] - fired[l[2]]
    <2>1. l[1] \in Star /\ l[2] \in Star /\ topology.delay[l] \in Nat
      BY <1>0, Links
    <2>2. Length(l) = topology.delay[l] + topology.rate[l[1]] * fired[l[1]] - fired[l[2]]
      BY <1>0 DEF Balanced, DF!Held
    <2>3. topology.rate[l[1]] = 1 /\ fired[l[1]] \in Nat
      BY <1>0, <2>1 DEF EvenTraffic
    <2>4. topology.rate[l[1]] * fired[l[1]] = fired[l[1]]
      BY <2>3
    <2>5. Length(l) = topology.delay[l] + fired[l[1]] - fired[l[2]]
      BY <2>2, <2>4
    <2> QED BY <1>0, <2>1, <2>5, LengthNat
  <1> QED BY <1>1, <1>2, <1>3, <1>4, <1>5, <1>6

(* All stars are to fire equally often, so that what is not a source has a *)
(* link that starts empty.                                                 *)
LEMMA EvenSupply ==
    ASSUME RInv, Even
    PROVE  /\ DF!Expected \in [Star -> Nat]
           /\ \A s, x \in Star : DF!Expected[s] = DF!Expected[x]
           /\ \A s \in Star : InLinks(s) = {} => DF!Expected[s] = Total[s]
           /\ \A s \in Star : InLinks(s) # {} =>
                \E l \in InLinks(s) : topology.delay[l] = 0
  <1>0. /\ TypeOK /\ topology \in Topologies /\ EvenTraffic
    BY DEF RInv, TypeOK, Even
  <1>1. /\ DF!Expected \in [Star -> Nat] /\ DF!Expected = DF!Supply(topology, DF!Expected)
        /\ \A s \in Star : DF!Reads(topology, s) = InLinks(s)
    BY <1>0, ExpectedIs
  <1>2. \A s, x \in Star : DF!Expected[s] = DF!Expected[x]
    BY <1>0 DEF EvenTraffic
  <1> DEFINE E == DF!Expected
  <1> HIDE DEF E
  <1>3. /\ E \in [Star -> Nat] /\ E = DF!Supply(topology, E)
        /\ \A s, x \in Star : E[s] = E[x]
    BY <1>1, <1>2 DEF E
  <1>4. ASSUME NEW s \in Star, InLinks(s) = {}
        PROVE  E[s] = Total[s]
    <2>1. DF!Supply(topology, E)[s] = Total[s]
      BY <1>0, <1>1, <1>3, <1>4, SupplyAt
    <2> QED BY <1>3, <2>1
  <1>5. ASSUME NEW s \in Star, InLinks(s) # {}
        PROVE  \E l \in InLinks(s) : topology.delay[l] = 0
    <2>1. PICK l \in InLinks(s) :
            DF!Supply(topology, E)[s] = topology.delay[l] + topology.rate[l[1]] * E[l[1]]
      BY <1>0, <1>1, <1>3, <1>5, SupplyAt
    <2>2. l[1] \in Star /\ topology.delay[l] \in Nat
      BY <1>0, Links DEF InLinks
    <2>3. topology.rate[l[1]] = 1 /\ E[l[1]] = E[s] /\ E[s] \in Nat
      BY <1>0, <1>3, <2>2 DEF EvenTraffic
    <2>4. E[s] = topology.delay[l] + 1 * E[s]
      BY <1>3, <2>1, <2>3
    <2>5. topology.delay[l] = 0
      BY <2>2, <2>3, <2>4
    <2> QED BY <2>5
  <1> QED BY <1>3, <1>4, <1>5 DEF E

(* The crest is a level no star is expected to stay below.                 *)
LEMMA CrestIs ==
    ASSUME RInv, Even, NEW c \in Nat, NEW s \in Star
    PROVE  /\ Crest(c, s) \in Nat /\ Crest(c, s) <= c + NumberSamples
           /\ Crest(c, s) <= DF!Expected[s]
           /\ Crest(c, s) \in {c + NumberSamples, DF!Expected[s]}
           /\ \A x \in Star : Crest(c, x) = Crest(c, s)
  <1>1. DF!Expected[s] \in Nat /\ NumberSamples \in Nat
        /\ \A x \in Star : DF!Expected[x] = DF!Expected[s]
    BY EvenSupply, BoundAssumption
  <1> QED BY <1>1 DEF Crest, Least

(* A step that leaves the buffers alone.                                   *)
LEMMA StillLevel ==
    ASSUME NEW c \in Nat, Level(c), topology' = topology, fired' = fired,
           phase' \in {1, 2} => phase \in {1, 2},
           phase' = Main => Still /\ \A i \in DOMAIN Row : AtLevel(c, Row[i], i, stack'[1]),
           \A i \in DOMAIN Row : Row[i] \in Star
    PROVE  Level(c)'
  <1>1. /\ \A s \in Star : Crest(c, s)' = Crest(c, s)
        /\ \A s : InLinks(s)' = InLinks(s)
        /\ Row' = Row
    BY DEF Crest, DF!Expected, InLinks, Row
  <1>2. \A s \in Star : c <= fired'[s] /\ fired'[s] <= Crest(c, s)'
    BY <1>1 DEF Level
  <1>3. phase' \in {1, 2} => \A s \in Star : fired'[s] = c
    BY DEF Level
  <1>4. ASSUME phase' = Main, NEW i \in DOMAIN Row
        PROVE  AtLevel(c, Row[i], i, stack[1])'
    <2>1. AtLevel(c, Row[i], i, stack'[1]) /\ Row[i] \in Star /\ Still
      BY <1>4
    <2>2. Idle(Row[i])' <=> Idle(Row[i])
      BY <2>1, StillSame, <1>1
    <2> QED BY <1>1, <2>1, <2>2 DEF AtLevel
  <1> QED BY <1>1, <1>2, <1>3, <1>4, FourPhases DEF Level

(* A call of MAIN_CODE that works: a source rises to the crest, another    *)
(* star is held back by the link that started empty.                       *)
LEMMA RisenTo ==
    ASSUME RInv, Bounded, Even, NEW c \in Nat, Level(c), NEW s \in Star,
           MainCall(s), WorkDone(s)
    PROVE  /\ Passes(s) \in Nat
           /\ fired[s] + Passes(s) <= Crest(c, s)
           /\ InLinks(s) = {} => fired[s] + Passes(s) = Crest(c, s) /\ stack[1].first_pass
  <1>0. /\ TypeOK /\ Balanced /\ fired[s] \in Nat /\ Worked(s) /\ Running /\ IsFlat
        /\ phase = 3 /\ AtBlock /\ Current = s /\ Due(s)
    BY FourPhases DEF RInv, TypeOK, MainCall, WorkDone, Running, Even
  <1>1. /\ Top = stack[1] /\ stack[1] \in Frame
        /\ stack[1].pos \in DOMAIN Row /\ s = Row[stack[1].pos]
    BY <1>0, FlatStack
  <1>2. Passes(s) \in Nat
    BY <1>0, PassesIs
  <1>3. /\ Crest(c, s) \in Nat /\ Crest(c, s) <= c + NumberSamples
        /\ \A x \in Star : Crest(c, x) = Crest(c, s)
        /\ DF!Expected[s] \in Nat
    BY CrestIs, EvenSupply
  <1>4. CASE InLinks(s) = {}
    <2>1. s \notin topology.wired
      BY <1>4, EvenIs
    <2>2. stack[1].first_pass
      BY <1>0, <1>1, <2>1 DEF Due
    <2>3. AtLevel(c, s, stack[1].pos, stack[1])
      BY <1>0, <1>1, FourPhases DEF Level
    <2>4. fired[s] = c
      <3>1. stack[1].pos >= stack[1].pos
        BY <1>1 DEF Frame
      <3> QED BY <1>4, <2>2, <2>3, <3>1 DEF AtLevel
    <2>5. DF!Expected[s] = Total[s] /\ Total[s] \in Nat /\ NumberSamples \in Nat
      BY <1>4, EvenSupply, TotalAssumption, BoundAssumption
    <2>6. Passes(s) = Least(NumberSamples, Total[s] - c)
      BY <1>4, <2>4 DEF Passes
    <2>7. Crest(c, s) = Least(c + NumberSamples, Total[s])
      BY <2>5 DEF Crest
    <2>8. fired[s] + Passes(s) = Crest(c, s)
      BY <2>4, <2>5, <2>6, <2>7 DEF Least
    <2> QED BY <1>2, <1>3, <2>2, <2>8
  <1>5. CASE InLinks(s) # {}
    <2>1. PICK l \in InLinks(s) : topology.delay[l] = 0
      BY <1>5, EvenSupply
    <2>2. l \in topology.links /\ l[2] = s
      BY DEF InLinks
    <2>3. Length(l) = 0 + fired[l[1]] - fired[s] /\ l[1] \in Star
      BY <2>1, <2>2, EvenIs
    <2>4. Passes(s) <= Length(l)
      BY <1>0, PassesIs
    <2>5. fired[l[1]] \in Nat /\ fired[l[1]] <= Crest(c, s)
      BY <1>0, <1>3, <2>3 DEF Level, TypeOK
    <2>6. fired[s] + Passes(s) <= Crest(c, s)
      BY <1>0, <1>2, <1>3, <2>3, <2>4, <2>5
    <2> QED BY <1>2, <1>5, <2>6
  <1> QED BY <1>4, <1>5

(* Such a call keeps the level of the visit.                               *)
LEMMA WorkedLevel ==
    ASSUME RInv, Bounded, Even, NEW c \in Nat, Level(c), NEW s \in Star,
           MainCall(s), WorkDone(s)
    PROVE  Level(c)'
  <1>0. /\ TypeOK /\ Balanced /\ fired \in [Star -> Nat] /\ Worked(s) /\ Running /\ IsFlat
        /\ phase = 3 /\ AtBlock /\ Current = s /\ topology' = topology
        /\ active \in BOOLEAN /\ phase' = 3
    BY FourPhases DEF RInv, TypeOK, MainCall, WorkDone, Running, Even
  <1>1. /\ stack \in Stack /\ stack[1] \in Frame
        /\ stack[1].pos \in DOMAIN Row /\ s = Row[stack[1].pos]
    BY <1>0, FlatStack
  <1>2. /\ Passes(s) \in Nat
        /\ fired[s] + Passes(s) <= Crest(c, s)
        /\ InLinks(s) = {} => fired[s] + Passes(s) = Crest(c, s) /\ stack[1].first_pass
    BY RisenTo
  <1>3. /\ \A x \in Star : Crest(c, x)' = Crest(c, x)
        /\ \A x : InLinks(x)' = InLinks(x)
        /\ Row' = Row
    BY <1>0 DEF Crest, DF!Expected, InLinks, Row
  <1>4. \A x \in Star : fired'[x] = IF x = s THEN fired[s] + Passes(s) ELSE fired[x]
    BY <1>0, WorkedBuffers
  <1> DEFINE a == active \/ Moved(s)
  <1>5. a \in BOOLEAN /\ (~a => ~Moved(s)) /\ stack' = Passed(stack, a)
    BY <1>0 DEF Moved, WorkDone
  <1> HIDE DEF a
  <1>6. /\ stack'[1].pos = stack[1].pos + 1
        /\ stack'[1].active_block <=> (stack[1].active_block \/ a)
        /\ stack'[1].first_pass = stack[1].first_pass
    BY <1>1, <1>5, PassedFrames
  <1>7. ASSUME NEW x \in Star
        PROVE  c <= fired'[x] /\ fired'[x] <= Crest(c, x)'
    <2>1. c <= fired[x] /\ fired[x] <= Crest(c, x) /\ fired[x] \in Nat
      BY <1>0 DEF Level
    <2> QED BY <1>2, <1>3, <1>4, <2>1
  <1>8. ASSUME NEW i \in DOMAIN Row
        PROVE  AtLevel(c, Row[i], i, stack[1])'
    <2>0. PICK x \in Star : x = Row[i]
      BY EvenIs
    <2>1. /\ x \in Star /\ i \in Nat /\ (x = s => i = stack[1].pos) /\ stack[1].pos \in Nat
          /\ (i = stack[1].pos => x = s)
      BY <1>1, <2>0, EvenIs DEF Frame
    <2>2. AtLevel(c, x, i, stack[1])
      BY <1>0, <2>0, FourPhases DEF Level
    <2>3. ASSUME InLinks(x) = {}
          PROVE  fired'[x] = IF stack'[1].first_pass /\ i >= stack'[1].pos THEN c ELSE Crest(c, x)
      <3>1. CASE x = s
        <4>1. ~(i >= stack'[1].pos)
          BY <1>6, <2>1, <3>1
        <4> QED BY <1>2, <1>4, <2>1, <2>3, <3>1, <4>1
      <3>2. CASE x # s
        <4>1. i >= stack'[1].pos <=> i >= stack[1].pos
          BY <1>6, <2>1, <3>2
        <4>2. fired[x] = IF stack[1].first_pass /\ i >= stack[1].pos THEN c ELSE Crest(c, x)
          BY <2>2, <2>3 DEF AtLevel
        <4> QED BY <1>4, <1>6, <2>1, <3>2, <4>1, <4>2
      <3> QED BY <3>1, <3>2
    <2>4. ASSUME InLinks(x) # {}, i < stack'[1].pos, ~stack'[1].active_block
          PROVE  Idle(x)'
      <3>1. ~stack[1].active_block /\ ~Moved(s)
        BY <1>5, <1>6, <2>4
      <3>a. Idle(s) /\ \A y \in Star : Idle(y) => Idle(y)'
        BY <1>0, <3>1, IdleStays
      <3>2. Idle(s) /\ (Idle(x) => Idle(x)')
        BY <2>1, <3>a
      <3>3. CASE x = s
        BY <3>2, <3>3
      <3>4. CASE x # s
        <4>1. i < stack[1].pos
          BY <1>6, <2>1, <2>4, <3>4
        <4> QED BY <2>2, <2>4, <3>1, <3>2, <4>1 DEF AtLevel
      <3> QED BY <3>3, <3>4
    <2>5. AtLevel(c, x, i, stack[1])'
      BY <1>3, <2>1, <2>3, <2>4 DEF AtLevel
    <2>6. Row'[i] = x
      BY <1>3, <2>0
    <2> QED BY <2>5, <2>6
  <1> QED BY <1>0, <1>3, <1>7, <1>8, FourPhases DEF Level

(* At the end of a visit all stars are at the crest.                       *)
LEMMA AtCrest ==
    ASSUME RInv, Bounded, Even, NEW c \in Nat, Level(c), phase = Main, AtEnd, ~Top.active_block,
           NEW s \in Star
    PROVE  fired[s] = Crest(c, s)
  <1>0. /\ TypeOK /\ Balanced /\ fired \in [Star -> Nat] /\ Running /\ IsFlat
        /\ topology \in Topologies
    BY FourPhases DEF RInv, TypeOK, Running, Even
  <1>1. /\ stack[1] \in Frame /\ Top = stack[1] /\ \A i \in DOMAIN Row : i < stack[1].pos
    BY <1>0, FlatStack
  <1> DEFINE C == Crest(c, s)
             E == DF!Expected
             T == E[s]
             e == [x \in Star |-> fired[x] + (T - C)]
  <1>2. /\ E \in [Star -> Nat] /\ T \in Nat /\ C \in Nat /\ C <= T
        /\ \A x \in Star : E[x] = T /\ Crest(c, x) = C
        /\ \A x \in Star : InLinks(x) = {} => T = Total[x]
        /\ E = DF!ExpectedOf(topology)
    <2>1. DF!Expected = DF!ExpectedOf(topology)
      BY DEF DF!Expected
    <2> QED BY <2>1, CrestIs, EvenSupply
  <1>3. /\ \A x \in Star : DF!Reads(topology, x) = InLinks(x)
    BY <1>0, ExpectedIs
  <1> HIDE DEF C, E, T
  <1>4. e \in [Star -> Nat]
    BY <1>0, <1>2
  <1>5. ASSUME NEW x \in Star
        PROVE  DF!Supply(topology, e)[x] <= e[x]
    <2> DEFINE S == DF!Supply(topology, e)[x]
    <2>1. S \in Nat /\ fired[x] \in Nat /\ e[x] = fired[x] + (T - C)
      BY <1>0, <1>4, SupplyAt
    <2>2. PICK i \in DOMAIN Row : x = Row[i]
      BY EvenIs
    <2>3. AtLevel(c, x, i, stack[1]) /\ i < stack[1].pos
      BY <1>1, <2>2 DEF Level
    <2>4. CASE InLinks(x) = {}
      <3>1. S = Total[x]
        BY <1>0, <1>3, <1>4, <2>4, SupplyAt
      <3>2. ~(i >= stack[1].pos)
        <4>1. i \in Nat /\ stack[1].pos \in Nat
          BY <1>1, EvenIs DEF Frame
        <4> QED BY <2>3, <4>1
      <3>3. fired[x] = C
        BY <1>2, <2>3, <2>4, <3>2 DEF AtLevel
      <3>4. T = Total[x]
        BY <1>2, <2>4
      <3> HIDE DEF S, e
      <3>5. S <= e[x]
        BY <1>2, <2>1, <3>1, <3>3, <3>4
      <3> QED BY <3>5 DEF S, e
    <2>5. CASE InLinks(x) # {}
      <3>1. Idle(x)
        BY <1>1, <2>3, <2>5 DEF AtLevel
      <3>2. PICK l \in InLinks(x) : Passes(x) = Length(l)
        BY <1>0, <2>5, PassesIs
      <3>3. l \in topology.links /\ l[2] = x
        BY DEF InLinks
      <3>4. /\ l[1] \in Star /\ topology.delay[l] \in Nat
            /\ 0 = topology.delay[l] + fired[l[1]] - fired[x]
        BY <3>1, <3>2, <3>3, EvenIs DEF Idle
      <3>5. S <= topology.delay[l] + topology.rate[l[1]] * e[l[1]]
        BY <1>0, <1>3, <1>4, SupplyAt
      <3>6. topology.rate[l[1]] = 1 /\ e[l[1]] \in Nat
        BY <1>4, <3>4 DEF Even, EvenTraffic
      <3>7. e[l[1]] = fired[l[1]] + (T - C) /\ fired[l[1]] \in Nat
        BY <1>0, <3>4
      <3> HIDE DEF S, e
      <3>8. S <= topology.delay[l] + e[l[1]]
        BY <3>4, <3>5, <3>6
      <3>9. S <= e[x]
        BY <1>2, <2>1, <3>4, <3>6, <3>7, <3>8
      <3> QED BY <3>9 DEF S, e
    <2> QED BY <2>4, <2>5
  <1>6. Below(DF!ExpectedOf(topology), e)
    <2> HIDE DEF e
    <2> QED BY <1>0, <1>4, <1>5, ExpectedLeast DEF Below
  <1>7. E[s] <= e[s]
    BY <1>2, <1>6 DEF Below
  <1>8. T <= fired[s] + (T - C) /\ fired[s] \in Nat
    BY <1>0, <1>2, <1>7
  <1>9. fired[s] <= C
    BY DEF Level, C
  <1>10. fired[s] = C
    BY <1>2, <1>8, <1>9
  <1> QED BY <1>10 DEF C

(* Every step leaves a level, if not the same one.                         *)
LEMMA NextLevels ==
    RInv /\ Bounded /\ Levels /\ [Next]_vars => Levels'
  <1> SUFFICES ASSUME RInv, Bounded, Levels, [Next]_vars, Even'
               PROVE  \E c \in Nat : Level(c)'
    BY DEF Levels
  <1>0. /\ TypeOK /\ Balanced /\ Controlled /\ phase \in 0..4 /\ topology \in Topologies
    BY FourPhases DEF RInv, TypeOK
  <1>1. topology' = topology
    BY DEF Next, Controller, KrnSetupRun, EnterGalaxy, SingleReturn, NextPass, MultiReturn,
           SingleCall, SkipSource, MainCall, vars
  <1>2. Even
    BY <1>1 DEF Even, IsFlat, EvenTraffic, Children, DF!Expected
  <1>3. PICK c \in Nat : Level(c)
    BY <1>2 DEF Levels
  <1>4. \A i \in DOMAIN Row : Row[i] \in Star /\ i \in Nat
    BY <1>2, EvenIs
  <1>5. Running => /\ stack \in Stack /\ Len(stack) = 1 /\ stack[1] \in Frame /\ Top = stack[1]
                   /\ AtBlock => stack[1].pos \in DOMAIN Row /\ Current = Row[stack[1].pos]
                                 /\ Current \in Star
                   /\ AtEnd => \A i \in DOMAIN Row : i < stack[1].pos
    BY <1>2, FlatStack DEF Even
  <1>6. CASE KrnSetupRun
    <2>1. /\ \A s \in Star : fired'[s] = 0
          /\ phase' = 1
      BY <1>6 DEF KrnSetupRun
    <2>2. \A s \in Star : Crest(0, s) \in Nat /\ Crest(0, s)' = Crest(0, s)
      BY <1>1, <1>2, CrestIs DEF Crest, DF!Expected
    <2>3. Level(0)'
      BY <2>1, <2>2, FourPhases DEF Level
    <2> QED BY <2>3
  <1>7. CASE EnterGalaxy
    <2>1. Running /\ Current \in Galaxy /\ AtBlock
      <3>1. stack # <<>> /\ Current \in Galaxy /\ AtBlock
        BY <1>7 DEF EnterGalaxy, AtBlock
      <3> QED BY <1>0, <3>1 DEF TypeOK, Running
    <2>2. Current \in Star
      BY <1>5, <2>1
    <2> QED BY <2>1, <2>2, StarAssumption
  <1>8. ASSUME NEW s \in Star, SingleCall(s)
        PROVE  Level(c)'
    <2>1. fired' = fired /\ phase # Main /\ (phase' = phase \/ phase' = 0)
      BY <1>8 DEF SingleCall, RunReturns
    <2>2. (phase' \in {1, 2} => phase \in {1, 2}) /\ phase' # Main
      BY <2>1, FourPhases
    <2> QED BY <1>1, <1>3, <1>4, <2>1, <2>2, StillLevel
  <1>9. CASE SingleReturn
    <2>1. /\ fired' = fired /\ Still /\ Running /\ phase # Main
          /\ \/ phase' = phase + 1 /\ phase' # 5 /\ stack' = <<Entered(Universe)>>
             \/ phase' = 0
      <3>1. /\ fired' = fired /\ Still /\ Running /\ phase # Main
        BY <1>1, <1>9 DEF SingleReturn, Still, Running
      <3>a. Len(stack) = 1
        BY <1>5, <3>1
      <3>2. ~(Len(stack) > 1)
        BY <3>a
      <3>3. \/ phase < 4 /\ phase' = phase + 1 /\ stack' = <<Entered(Universe)>>
            \/ phase' = 0
        BY <1>9, <3>2, FourPhases DEF SingleReturn, RunReturns
      <3> QED BY <1>0, <3>1, <3>3
    <2>2. phase' \in {1, 2} => phase \in {1, 2}
      BY <1>0, <2>1 DEF Running
    <2>3. ASSUME phase' = Main, NEW i \in DOMAIN Row
          PROVE  AtLevel(c, Row[i], i, stack'[1])
      <3>1. phase = 2 /\ stack' = <<Entered(Universe)>>
        BY <1>0, <2>1, <2>3, FourPhases
      <3>2. stack'[1] = Entered(Universe)
        BY <3>1
      <3>3. stack'[1].pos = 1 /\ stack'[1].first_pass
        BY <3>2 DEF Entered
      <3>4. fired[Row[i]] = c
        BY <1>3, <1>4, <3>1 DEF Level
      <3>5. i >= 1
        BY <1>0, Lists, StarAssumption DEF Row
      <3>6. i >= stack'[1].pos /\ ~(i < stack'[1].pos)
        BY <1>4, <3>3, <3>5
      <3> QED BY <3>3, <3>4, <3>6 DEF AtLevel
    <2> QED BY <1>1, <1>3, <1>4, <2>1, <2>2, <2>3, StillLevel
  <1>10. ASSUME NEW s \in Star, SkipSource(s)
         PROVE  Level(c)'
    <2>1. /\ fired' = fired /\ Still /\ Running /\ phase = Main /\ phase' = phase
          /\ AtBlock /\ Current = s /\ ~Due(s) /\ stack' = Passed(stack, FALSE)
      BY <1>10, FourPhases DEF SkipSource, Still, Running, Passed
    <2>2. /\ stack'[1].pos = stack[1].pos + 1 /\ stack[1].pos \in Nat
          /\ stack'[1].active_block <=> stack[1].active_block
          /\ stack'[1].first_pass = stack[1].first_pass /\ ~stack[1].first_pass
      <3>1. /\ stack'[1].pos = stack[1].pos + 1
            /\ stack'[1].active_block <=> (stack[1].active_block \/ FALSE)
            /\ stack'[1].first_pass = stack[1].first_pass
        BY <1>5, <2>1, PassedFrames
      <3>2. ~stack[1].first_pass /\ stack[1].pos \in Nat
        BY <1>5, <2>1 DEF Due, Frame
      <3> QED BY <3>1, <3>2
    <2>3. InLinks(s) = {}
      BY <1>2, <2>1, EvenIs DEF Due
    <2>4. ASSUME NEW i \in DOMAIN Row
          PROVE  AtLevel(c, Row[i], i, stack'[1])
      <3>1. AtLevel(c, Row[i], i, stack[1])
        BY <1>3, <2>1 DEF Level
      <3>2. i = stack[1].pos => InLinks(Row[i]) = {}
        BY <1>5, <2>1, <2>3
      <3>3. i < stack'[1].pos => i < stack[1].pos \/ i = stack[1].pos
        BY <1>4, <2>2
      <3> QED BY <2>2, <3>1, <3>2, <3>3 DEF AtLevel
    <2>5. phase' \notin {1, 2}
      BY <2>1, FourPhases
    <2> QED BY <1>1, <1>3, <1>4, <2>1, <2>4, <2>5, StillLevel
  <1>11. ASSUME NEW s \in Star, MainCall(s)
         PROVE  Level(c)'
    <2>1. CASE WorkDone(s)
      BY <1>2, <1>3, <1>11, <2>1, WorkedLevel
    <2>2. CASE WorkFailed(s)
      <3>1. fired' = fired /\ phase' = 0
        BY <2>2 DEF WorkFailed
      <3>2. phase' \notin {1, 2} /\ phase' # Main
        BY <3>1, FourPhases
      <3> QED BY <1>1, <1>3, <1>4, <3>1, <3>2, StillLevel
    <2> QED BY <1>11, <2>1, <2>2, MainCallIs
  <1>12. CASE NextPass
    <2>1. /\ fired' = fired /\ Still /\ Running /\ phase = Main /\ phase' = phase
          /\ AtEnd /\ stack' = Again(stack)
      BY <1>12, FourPhases DEF NextPass, Still, Running, Again
    <2>2. stack'[1].pos = 1 /\ ~stack'[1].first_pass
      BY <1>5, <2>1, AgainFrames
    <2>3. ASSUME NEW i \in DOMAIN Row
          PROVE  AtLevel(c, Row[i], i, stack'[1])
      <3>1. AtLevel(c, Row[i], i, stack[1])
        BY <1>3, <2>1 DEF Level
      <3>2. i < stack[1].pos /\ stack[1].pos \in Nat
        BY <1>5, <2>1 DEF Frame
      <3>3. ~(i >= stack[1].pos)
        BY <1>4, <3>2
      <3>4. ~(i < stack'[1].pos)
        <4>1. i >= 1
          BY <1>0, Lists, StarAssumption DEF Row
        <4> QED BY <1>4, <2>2, <4>1
      <3> QED BY <2>2, <3>1, <3>3, <3>4 DEF AtLevel
    <2>4. phase' \notin {1, 2}
      BY <2>1, FourPhases
    <2> QED BY <1>1, <1>3, <1>4, <2>1, <2>3, <2>4, StillLevel
  <1>13. CASE MultiReturn
    <2>1. /\ fired' = fired /\ Still /\ Running /\ phase = Main /\ AtEnd /\ ~Top.active_block
      BY <1>1, <1>13, FourPhases DEF MultiReturn, Still, Running
    <2>2. /\ phase' \in {3, 4}
          /\ stack' = <<Entered(Universe)>>
      <3>a. Len(stack) = 1
        BY <1>5, <2>1
      <3>1. ~(Len(stack) > 1)
        BY <3>a
      <3> QED BY <1>13, <3>1, FourPhases DEF MultiReturn
    <2>3. PICK d \in Nat : \A s \in Star : fired[s] = d
      <3>1. CASE Star = {}
        BY <3>1
      <3>2. CASE Star # {}
        <4>1. PICK x \in Star : TRUE
          BY <3>2
        <4>2. Crest(c, x) \in Nat /\ \A s \in Star : Crest(c, s) = Crest(c, x)
          BY <1>2, CrestIs
        <4>3. \A s \in Star : fired[s] = Crest(c, s)
          BY <1>2, <1>3, <2>1, AtCrest
        <4> QED BY <4>2, <4>3
      <3> QED BY <3>1, <3>2
    <2>4. \A s \in Star : d <= Crest(d, s)
      <3> SUFFICES ASSUME NEW s \in Star
                   PROVE  d <= Crest(d, s)
        OBVIOUS
      <3>1. /\ Crest(d, s) \in {d + NumberSamples, DF!Expected[s]}
            /\ NumberSamples \in Nat /\ DF!Expected[s] \in Nat
        BY <1>2, CrestIs, EvenSupply, BoundAssumption
      <3>2. d <= DF!Expected[s]
        BY <2>3 DEF Bounded, Below
      <3> QED BY <3>1, <3>2
    <2>5. \A i \in DOMAIN Row : i >= 1
      BY <1>0, Lists, StarAssumption DEF Row
    <2>6. stack'[1].pos = 1 /\ stack'[1].first_pass
      <3>1. stack'[1] = Entered(Universe)
        BY <2>2
      <3> QED BY <3>1 DEF Entered
    <2>7. /\ \A s \in Star : Crest(d, s)' = Crest(d, s)
          /\ \A s : InLinks(s)' = InLinks(s)
          /\ Row' = Row
      BY <1>1 DEF Crest, DF!Expected, InLinks, Row
    <2>8. ASSUME NEW i \in DOMAIN Row
          PROVE  AtLevel(d, Row[i], i, stack[1])'
      <3>1. PICK x \in Star : x = Row[i]
        BY <1>4
      <3>2. i >= stack'[1].pos /\ ~(i < stack'[1].pos)
        BY <1>4, <2>5, <2>6, <2>8
      <3>3. AtLevel(d, x, i, stack[1])'
        BY <2>1, <2>3, <2>6, <2>7, <3>2 DEF AtLevel
      <3>4. Row'[i] = x
        BY <2>7, <3>1
      <3> QED BY <3>3, <3>4
    <2>9. \A s \in Star : d <= fired'[s] /\ fired'[s] <= Crest(d, s)'
      BY <2>1, <2>3, <2>4, <2>7
    <2>10. Level(d)'
      BY <2>2, <2>7, <2>8, <2>9 DEF Level
    <2> QED BY <2>10
  <1>14. CASE UNCHANGED vars
    <2>1. /\ fired' = fired /\ Still /\ phase' = phase /\ stack' = stack
      BY <1>14 DEF vars, Still
    <2>2. phase = Main => \A i \in DOMAIN Row : AtLevel(c, Row[i], i, stack[1])
      BY <1>3 DEF Level
    <2> QED BY <1>1, <1>3, <1>4, <2>1, <2>2, StillLevel
  <1> QED BY <1>6, <1>7, <1>8, <1>9, <1>10, <1>11, <1>12, <1>13, <1>14 DEF Next, Controller

(* Before the first run the level is zero.                                 *)
LEMMA InitLevels ==
    Init => Levels
  <1> SUFFICES ASSUME Init, Even
               PROVE  \E c \in Nat : Level(c)
    BY DEF Levels
  <1>1. RInv
    BY InitRInv
  <1>2. phase = 0 /\ \A s \in Star : fired[s] = 0
    BY DEF Init
  <1>3. \A s \in Star : Crest(0, s) \in Nat
    BY <1>1, CrestIs
  <1>4. Level(0)
    BY <1>2, <1>3, FourPhases DEF Level
  <1> QED BY <1>4

(* On a flat universe with even traffic no buffer ever holds more than its *)
(* delay and the samples of one visit, however many passes the visit takes *)
(* and however many visits the run: the sources are called once a visit.   *)
THEOREM BuffersStayControlled ==
    Spec => []BuffersControlled
  <1>1. Init => RInv /\ Bounded /\ Levels
    BY InitRInv, InitBounded, InitLevels
  <1>2. (RInv /\ Bounded /\ Levels) /\ [Next]_vars => (RInv /\ Bounded /\ Levels)'
    BY NextRInv, NextBounded, NextLevels
  <1>3. RInv /\ Bounded /\ Levels => BuffersControlled
    <2> SUFFICES ASSUME RInv, Levels, Even, NEW l \in topology.links
                 PROVE  Length(l) <= topology.delay[l] + NumberSamples
      BY DEF BuffersControlled, WithinVisit, Even
    <2>1. PICK c \in Nat : Level(c)
      BY DEF Levels
    <2>2. /\ l[1] \in Star /\ l[2] \in Star /\ topology.delay[l] \in Nat
          /\ Length(l) = topology.delay[l] + fired[l[1]] - fired[l[2]]
      BY EvenIs
    <2>3. /\ fired[l[1]] <= Crest(c, l[1]) /\ c <= fired[l[2]]
          /\ Crest(c, l[1]) \in Nat /\ Crest(c, l[1]) <= c + NumberSamples
      BY <2>1, <2>2, CrestIs DEF Level
    <2>4. fired[l[1]] \in Nat /\ fired[l[2]] \in Nat /\ NumberSamples \in Nat
      BY <2>2, BoundAssumption DEF RInv, TypeOK
    <2> QED BY <2>2, <2>3, <2>4
  <1> QED BY <1>1, <1>2, <1>3, PTL DEF Spec

=============================================================================
