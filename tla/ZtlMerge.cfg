\* Merges: three log zones, relocation and rewriting in place, two-block zones.
CONSTANTS
    NumZones = 5
    ZoneCap = 2
    MDTS = 2
    Data = {d1}
    Zero = Zero
    LogZones = 3
    Watermark = 1
    Clients = {c1}
    GCThread = GCThread
    Free = Free
    BufBlocks = 1
    WriteSizes = {1}
    ReadSizes = {}
    U32 = 65536
    Bit63 = 32768
    MaxFaults = 0
SPECIFICATION Spec
INVARIANTS
    WatermarkKept
    ZoneTable
    NoAckedDataLost
    NoFailure
