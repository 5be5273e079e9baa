\* The judging programs: three blocks, two faults anywhere.
CONSTANTS
    Blocks = 3
    Data = {d1, d2}
    Zero = Zero
    HammerIO = 2
    MaxFaults = 2
SPECIFICATION Spec
INVARIANTS
    SideFileIsTruth
    EveryBlockCompared
    NoFalseAlarm
