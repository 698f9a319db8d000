CONSTANTS
    Sample <- MCSample
    Zero = 0
    DefaultSize = 4
    CellSizes = {4}
    Delays <- MCDelays
    DefaultDmax = 0
    CELL_INC = 2
    MaxMemSegments = 4
    MaxCells = 5
SPECIFICATION Spec
INVARIANT OneCircle
PROPERTY ImplementsRing
