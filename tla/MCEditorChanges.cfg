CONSTANTS
    a = a
    b = b
    s = s
    U = U
    G = G
    N = N
    none = none
    input = input
    Blocks = {1, 2, 3, 4}
    universe = 1
    NULL = NULL
    Names = {a, b, input}
    Reserved = {input}
    StarModels = {s}
    GalaxyModels = {U, G, N}
    universeModel = U
    untitled = N
    NoFile = none
    InitialFiles <- MCNoFiles
    MaxOpen = 3
    MaxCommands = 4
SPECIFICATION FairSpec
PROPERTY ChangesNoted

CHECK_DEADLOCK FALSE
