\* Two writers compete for the log; merges take in several zones.
CONSTANTS
    NumZones = 6
    ZoneCap = 1
    MDTS = 2
    Data = {d1, d2}
    Zero = Zero
    LogZones = 4
    Watermark = 1
    Clients = {c1, c2}
    GCThread = GCThread
    Free = Free
    BufBlocks = 1
    WriteSizes = {1}
    ReadSizes = {}
    U32 = 65536
    Bit63 = 32768
    MaxFaults = 0
SYMMETRY Symmetry
SPECIFICATION Spec
INVARIANTS
    NoAckedDataLost
