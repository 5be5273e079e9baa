SPECIFICATION Spec
CONSTANTS
    Instances = {0, 1, 2}
    SubsysOf <- MCSubsysOf
    Address <- MCAddress
    HostOf <- MCHostOf
    DefaultHost <- MCDefaultHost
    Shared = {1}
    Spaces <- MCSpaces
    Absent = Absent
    MaxChanges = 1
    MaxCalls = 3
INVARIANTS WellFormed ScanMirrors CrashExplained OneObjectEach ListFits
CHECK_DEADLOCK FALSE
