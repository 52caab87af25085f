SPECIFICATION Spec
CONSTANTS
    Name = bucket
    Unnamed = unnamed
    Keys = {k1}
    External = external
    None = None
    MaxJobs = 2
    MaxBorn = 2
    MaxIds = 1
    MaxFaults = 2
INVARIANTS
    ActiveUnharmed
    FenceSound
    FenceRetriedIfMarked
    SucceededMeansGone
PROPERTIES
    OnlyConfirmedDeleted
    RowsOutliveBytes
CHECK_DEADLOCK FALSE
