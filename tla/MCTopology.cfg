CONSTANTS
    Block = {a, b, c}
    Galaxy = galaxy
    None = none
    Missing = missing
    IO_BUFFERS = 2
    MaxLinks = 3
SPECIFICATION FairSpec
CONSTRAINT Unclobbered
INVARIANTS TypeOK EndsAgree OneToATerminal
PROPERTIES DeleteRepairs NeighboursKept InnerContigEnds
