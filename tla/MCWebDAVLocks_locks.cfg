SPECIFICATION FairSpec
CONSTANTS
    dir = dir
    file = file
    other = other
    c1 = c1
    c2 = c2
    None = None
    Parents <- Tree
    Paths = {dir, file, other}
    Clients = {c1, c2}
    MaxLocks = 2
    MaxRequests = 3
INVARIANTS
    LocksDisjoint
    MutationsDisjoint
PROPERTIES
    NoLockOnRunning
    RequestsEnd
CHECK_DEADLOCK FALSE
