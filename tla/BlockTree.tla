------------------------------- MODULE BlockTree -------------------------------
(***************************************************************************)
(* What the hierarchy of a topology is, apart from its pointers: every     *)
(* galaxy has a sequence of blocks, and each of the few ways in which the  *)
(* commands change it touches one of them.                                 *)
(***************************************************************************)
EXTENDS Naturals, SequencesExt

CONSTANTS
    Blocks,         \* the blocks there may be
    universe        \* the galaxy around all others

VARIABLE kids       \* the blocks in each block, in order

Init == kids = [g \in Blocks |-> <<>>]

IsIn(b, g) == b \in Range(kids[g])
Placed(b) == b = universe \/ \E g \in Blocks : IsIn(b, g)

(* The blocks in g at any depth: the smallest set that holds what is in g  *)
(* and in its members.                                                     *)
Within(g) ==
    LET in == [x \in Blocks |-> Range(kids[x])]
    IN  {b \in Blocks : \A S \in SUBSET Blocks :
            (in[g] \subseteq S /\ \A x \in S : in[x] \subseteq S) => b \in S}

(* A new block comes last. *)
Add(g, b) ==
    /\ Placed(g)
    /\ ~Placed(b)
    /\ kids' = [kids EXCEPT ![g] = Append(@, b)]

(* The i-th block of g leaves it with all there is in it. *)
Drop(g, i) ==
    LET gone == {kids[g][i]} \cup Within(kids[g][i])
    IN  kids' = [x \in Blocks |-> IF x \in gone THEN <<>>
                                 ELSE IF x = g THEN RemoveAt(kids[g], i)
                                 ELSE kids[x]]

Empty(g) ==
    /\ kids[g] # <<>>
    /\ kids' = [x \in Blocks |-> IF x \in {g} \cup Within(g) THEN <<>> ELSE kids[x]]

(* The j-th block of g takes the place in front of the i-th. *)
Move(g, i, j) ==
    /\ i # j
    /\ LET others == RemoveAt(kids[g], j)
           place == IF j < i THEN i - 1 ELSE i
       IN  kids' = [kids EXCEPT ![g] = InsertAt(others, place, kids[g][j])]

Changed == {g \in Blocks : kids'[g] # kids[g]}

Next == \E g \in Changed :
    \/ Empty(g)
    \/ \E b \in Blocks : Add(g, b)
    \/ \E i \in DOMAIN kids[g] : Drop(g, i)
    \/ \E i, j \in DOMAIN kids[g] : Move(g, i, j)

Spec == Init /\ [][Next]_kids
=============================================================================
