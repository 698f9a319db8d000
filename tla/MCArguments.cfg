CONSTANTS
    left = left
    right = right
    Names = {left, right}
    starName = s
    Values = {0, 1}
    Zero = 0
    MAX_PARAM = 2
    NULL = NULL
    InitialFiles <- MCFiles
    MaxCommands = 4
SPECIFICATION Spec
INVARIANTS TypeOK Follows LoadedAsStored
CHECK_DEADLOCK FALSE
