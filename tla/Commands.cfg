SPECIFICATION Spec
CONSTANTS
    MaxLen = 5
    Chunk = 2
    MaxChanges = 2
    MaxFaults = 1
    MaxCalls = 2
    Sizes = {4, 6, 8, 12}
    Xfers = {3, 4, 6, 8}
    Offsets = {0, 2, 4}
    Counts = {0, 1, 4, 8, 9, 16}
    BlockSize = 4
INVARIANTS WellFormed ArgumentsArrive WholeLog BytesExact ErrorsTold
PROPERTIES EventAsAsked
CHECK_DEADLOCK FALSE
