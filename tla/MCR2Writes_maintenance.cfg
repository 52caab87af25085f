SPECIFICATION Spec
CONSTANTS
    k1 = k1
    k2 = k2
    b1 = b1
    b2 = b2
    a1 = a1
    short = short
    long = long
    c1 = c1
    c2 = c2
    None = None
    Job = job
    Keys = {k1}
    Buckets = {b1, b2}
    Accounts = {a1}
    Contents = {short, long}
    Clients = {c1}
    AccountOf <- OneAccount
    SizeOf <- Sizes
    BucketLimit = 3
    AccountLimit = 5
    Overflow = {}
    Chores = {"move", "cleanup", "adopt", "scan"}
    Conds <- AnyOrAbsent
    HomeKey <- OwnKey
    StartKeys <- KeyOneOrNone
    StrayPlaces <- StrayInFirst
    OtherIds = {0}
    Figures = {0}
    LateArrivals = TRUE
    MaxId = 4
    MaxFaults = 2
INVARIANTS
    ReservationsBalanced
    CleanupFencesPuts
    MaintenanceExcludesWrites
PROPERTIES
    CommitMeetsRequest
CHECK_DEADLOCK FALSE
