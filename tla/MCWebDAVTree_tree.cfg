SPECIFICATION TreeSpec
CONSTANTS
    c1 = c1
    c2 = c2
    c3 = c3
    None = None
    Names <- TwoNames
    Paths <- TwoDirs
    Parents <- AncestorPairs
    Clients = {c1, c2}
    MaxLocks = 2
    MaxRequests = 2
    MaxFaults = 1
    Requests <- AllRequests
    Trees <- StartTrees
    LeftLocks <- LocksOfOldRun
    Doomed = {}
INVARIANTS
    TreeSound
    NoSelfWait
PROPERTIES
    LocksProtect
    MoveKeepsContent
SYMMETRY AnyClient
CHECK_DEADLOCK FALSE
