\* Expected to be violated: the tail after an append of two blocks.
CONSTANTS
    NumZones = 4
    ZoneCap = 3
    MDTS = 3
    Data = {d1, d2}
    Zero = Zero
    LogZones = 3
    Watermark = 1
    Clients = {c1}
    GCThread = GCThread
    Free = Free
    BufBlocks = 2
    WriteSizes = {1, 2}
    ReadSizes = {1}
    U32 = 65536
    Bit63 = 32768
    MaxFaults = 0
SPECIFICATION Spec
CHECK_DEADLOCK FALSE
INVARIANTS
    ReadCorrect
