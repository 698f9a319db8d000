CONSTANTS
    Block = {a, b, c}
    Galaxies = {b, c}
    Parent = galaxy
    Topologies <- MCInner
    MaxRuns = 2
SPECIFICATION FairSpec
INVARIANTS TypeOK NoBlockLost DataOrder ForcedOnlyWhenStuck OrderIsStable GalaxiesScheduled
PROPERTY Terminates
CHECK_DEADLOCK FALSE
