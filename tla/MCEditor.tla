-------------------------------- MODULE MCEditor --------------------------------
EXTENDS Editor

CONSTANTS a, b, input, s, U, G, N, none

L(n, m) == [name |-> n, model |-> m]
Files(u, g, n) == [m \in {U, G, N} |-> CASE m = U -> u [] m = G -> g [] m = N -> n]

MCFiles == {Files(none, <<L(a, s)>>, <<L(b, G), L(b, s)>>)}

MCNoFiles == {Files(none, none, none)}
=============================================================================
