\* Requests of several blocks, and device commands that fail at any point.
CONSTANTS
    NumZones = 4
    ZoneCap = 2
    MDTS = 2
    Data = {d1}
    Zero = Zero
    LogZones = 3
    Watermark = 1
    Clients = {c1}
    GCThread = GCThread
    Free = Free
    BufBlocks = 2
    WriteSizes = {1, 2}
    ReadSizes = {1, 2}
    U32 = 65536
    Bit63 = 32768
    MaxFaults = 2
SPECIFICATION Spec
\* A failed write keeps gc_mutex: the next writer and the GC thread block for good.
CHECK_DEADLOCK FALSE
INVARIANTS
    MutexInv
    TailNotAhead
PROPERTIES
    NewWritesGoToLog
