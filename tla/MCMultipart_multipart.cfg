SPECIFICATION FairSpec
CONSTANTS
    k1 = k1
    short = short
    long = long
    Keys = {k1}
    PartNos = {1, 2}
    Bodies = {short, long}
    SizeOf <- MCSizeOf
    Limit = 5
    Overflow = FALSE
    MaxIds = 2
    MaxFaults = 2
    LateOps = {"part", "abort"}
    None = None
INVARIANTS
    SessionsSound
    StoredOrPending
    PublishedFits
PROPERTIES
    OnlyEndedAborted
    SessionsEnd
CHECK_DEADLOCK FALSE
