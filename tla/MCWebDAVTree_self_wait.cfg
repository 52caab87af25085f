SPECIFICATION DoomedSpec
CONSTANTS
    c1 = c1
    c2 = c2
    c3 = c3
    None = None
    Names <- TwoNames
    Paths <- TwoDirs
    Parents <- AncestorPairs
    Clients = {c1, c2}
    MaxLocks = 1
    MaxRequests = 2
    MaxFaults = 0
    Requests <- AllRequests
    Trees <- StartTrees
    LeftLocks <- LocksOfOldRun
    Doomed <- MarkerBucket
INVARIANTS
    NoSelfWait
CHECK_DEADLOCK FALSE
