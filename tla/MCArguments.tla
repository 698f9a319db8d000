------------------------------ MODULE MCArguments ------------------------------
EXTENDS Arguments

CONSTANTS left, right

Arg(k) == [type |-> "arg", val |-> Zero, arg |-> k]
File(declared, args, blocks) == [declared |-> declared, args |-> args, blocks |-> blocks]
L(n, params) == [name |-> n, params |-> params]

Args(t, v) == [None EXCEPT ![0] = t, ![1] = v]

(* A universe with two galaxies, one of them bound to an argument of the   *)
(* universe; the star inside is bound to the galaxy's.                     *)
Inner == File(TRUE, Args(Set("int", 0), Set("int", 1)), <<L(starName, <<Arg(0)>>)>>)
Outer == File(TRUE, Args(Set("int", 1), Set("int", 0)), <<L(left, <<Arg(1)>>)>>)

(* The same without arg lines. *)
OldInner == File(FALSE, None, <<L(starName, <<Arg(0)>>)>>)
OldOuter == File(FALSE, None, <<L(left, <<>>)>>)

Pair(outer, inner) == [m \in 0..1 |-> IF m = 0 THEN outer ELSE inner]

(* Without arg lines, and the number of its only argument is not 0.        *)
GapOuter == File(FALSE, None, <<L(left, <<Arg(1)>>)>>)
GapInner == File(TRUE, Args(Set("int", 0), Set("int", 1)), <<L(starName, <<Arg(1)>>)>>)

MCFiles == {Pair(Outer, Inner), Pair(OldOuter, OldInner), Pair(GapOuter, GapInner)}
=============================================================================
