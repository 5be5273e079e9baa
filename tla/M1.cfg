\* Tests 1 and 2 over two zones of five blocks and every way MDTS can cut
\* them; test 3 with a thread per zone; two failing commands or allocations.
CONSTANTS
    NumZones = 2
    ZoneCap = 5
    MDTS = 2
    Data = {0, 1, 2}
    Zero = Zero
    Threads = 2
    LbaSizes = {1, 2}
    Mdts = {0, 1, 2, 3, 4}
    U16 = 16
    Bytes = 4
    Period = 3
    TidBase = 0
    Timeout = 1
    MaxFaults = 2
SPECIFICATION Spec
INVARIANTS
    TransferCut
    NoFalseAlarm
    VerdictCountsAll
    RoundsComplete
PROPERTIES
    ThreadsQuit
