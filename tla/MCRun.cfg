CONSTANTS
    a = a
    b = b
    c = c
    U = U
    G = G
    H = H
    Star = {a, b, c}
    Galaxy = {U, G, H}
    Universe = U
    Total <- MCTotal
    Topologies <- MCTopologies
    MayFail = {b}
    Horizon = 12
    NumberSamples = 2
    Capacity = 4
    MaxRuns = 2
SPECIFICATION FairSpec
INVARIANTS TypeOK PhasesInStep Delivered BuffersControlled
PROPERTIES ExecutedOnce ImplementsDataflow Terminates
CHECK_DEADLOCK FALSE
