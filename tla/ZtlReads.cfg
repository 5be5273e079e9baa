\* One client that reads and writes single blocks; no failing commands;
\* the process may be killed and started again at any point.
CONSTANTS
    NumZones = 4
    ZoneCap = 2
    MDTS = 2
    Data = {d1, d2}
    Zero = Zero
    LogZones = 2
    Watermark = 1
    Clients = {c1}
    GCThread = GCThread
    Free = Free
    BufBlocks = 1
    WriteSizes = {1}
    ReadSizes = {1}
    U32 = 65536
    Bit63 = 32768
    MaxFaults = 0
    ForceReset = TRUE
    SameProcess = FALSE
SYMMETRY DataSymmetry
SPECIFICATION LifeSpec
INVARIANTS
    QuietReads
    ZoneTableWhenOpen
    InitAlone
PROPERTIES
    ImplementsBlockStore
