CONSTANTS
    Block = {a, b}
    Galaxy = galaxy
    None = none
    Missing = missing
    IO_BUFFERS = 2
    MaxLinks = 2
SPECIFICATION FairSpec
PROPERTY ContigEnds
