SPECIFICATION Spec
CONSTANTS
    a = a  b = b  c = c  U = U  G = G  H = H
    Star = {a, b, c}
    Galaxy = {U, G, H}
    Universe = U
    Trees <- MCTrees
    IO_BUFFERS = 2
    MaxLinks = 3
    MaxRuns = 2
INVARIANTS TypeOK Accepted SameConnections FedInPlace
CHECK_DEADLOCK FALSE
