-------------------------------- MODULE MCFlatten --------------------------------
(* Two stars in a galaxy, a galaxy in a galaxy, two galaxies side by side, *)
(* a galaxy that is empty, a universe that is.                             *)
EXTENDS Flatten

CONSTANTS a, b, c, U, G, H

Tree(u, g, h) == [x \in {U, G, H} |-> CASE x = U -> u [] x = G -> g [] x = H -> h]

MCTrees == {
    Tree(<<a, G>>, <<b, c>>, <<>>),
    Tree(<<a, G>>, <<H, b>>, <<c>>),
    Tree(<<G, H>>, <<a>>, <<b>>),
    Tree(<<a, G>>, <<b, H>>, <<>>),
    Tree(<<>>, <<>>, <<>>) }
=============================================================================
