\* Liveness with one client.
CONSTANTS
    NumZones = 5
    ZoneCap = 1
    MDTS = 2
    Data = {d1, d2}
    Zero = Zero
    LogZones = 3
    Watermark = 1
    Clients = {c1}
    GCThread = GCThread
    Free = Free
    BufBlocks = 1
    WriteSizes = {1}
    ReadSizes = {1}
    U32 = 65536
    Bit63 = 32768
    MaxFaults = 0
SPECIFICATION FairSpec
PROPERTIES
    WriteReturns
    TriggerServed
