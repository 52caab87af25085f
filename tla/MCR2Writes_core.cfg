SPECIFICATION FairSpec
CONSTANTS
    k1 = k1
    k2 = k2
    b1 = b1
    b2 = b2
    a1 = a1
    short = short
    long = long
    c1 = c1
    c2 = c2
    None = None
    Job = job
    Keys = {k1}
    Buckets = {b1, b2}
    Accounts = {a1}
    Contents = {short, long}
    Clients = {c1}
    AccountOf <- OneAccount
    SizeOf <- Sizes
    BucketLimit = 3
    AccountLimit = 5
    Overflow = {}
    Chores = {"move", "cleanup"}
    Conds <- AnyOrAbsent
    HomeKey <- OwnKey
    StartKeys <- KeyOneOrNone
    StrayPlaces <- NoStray
    OtherIds = {0}
    Figures = {0}
    LateArrivals = FALSE
    MaxId = 4
    MaxFaults = 3
INVARIANTS
    RemoteBytesCounted
    IndexedObjectStored
PROPERTIES
    CleanupDeletesOldCopiesOnly
    
    
CHECK_DEADLOCK FALSE
