\* Three runs with any options over two entries; one run killed, one failing
\* or lying call of RocksDB.
CONSTANTS
    Keys = {k1, k2}
    Values = {v1, v2}
    Missing = Missing
    MaxRuns = 3
    MaxKills = 1
    MaxFaults = 1
SPECIFICATION Spec
INVARIANTS
    PassMeansStored
    NoFalseAlarm
    KillTearsOne
CHECK_DEADLOCK FALSE
