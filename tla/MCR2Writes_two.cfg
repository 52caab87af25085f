SPECIFICATION Spec
CONSTANTS
    k1 = k1
    k2 = k2
    b1 = b1
    b2 = b2
    a1 = a1
    short = short
    long = long
    c1 = c1
    c2 = c2
    None = None
    Job = job
    Keys = {k1, k2}
    Buckets = {b1, b2}
    Accounts = {a1}
    Contents = {short}
    Clients = {c1, c2}
    AccountOf <- OneAccount
    SizeOf <- Sizes
    BucketLimit = 2
    AccountLimit = 3
    Overflow = {}
    Chores = {"move", "cleanup", "capacity"}
    Conds <- AnyOnly
    HomeKey <- OwnKey
    StartKeys <- KeyOneOrNone
    StrayPlaces <- NoStray
    OtherIds = {0}
    Figures = {0, 2}
    LateArrivals = FALSE
    MaxId = 4
    MaxFaults = 1
INVARIANTS
    LimitsHold
    HandlerOwnsIntent
    StorageCoversRows
CHECK_DEADLOCK FALSE
