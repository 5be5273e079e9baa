SPECIFICATION Spec
CONSTANTS
    MaxNumrec = 2
    MaxChanges = 2
    MaxFaults = 1
    MaxCalls = 2
    MaxRetries = 2
CHECK_DEADLOCK FALSE
INVARIANTS
    SnapshotOfOneGeneration
    FreshOrNotified
    ErrorsExplained
    OptionsArrive
