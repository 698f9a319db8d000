CONSTANTS
    Sample <- MCSample
    Zero = 0
    DefaultSize = 4
    CellSizes = {4}
    Delays <- MCDelays
    DefaultDmax = 1
    CELL_INC = 2
    MaxMemSegments = 4
    MaxCells = 7
SPECIFICATION Spec
INVARIANTS TypeOK NeverOverrun PointersInStep
PROPERTY ImplementsStream
