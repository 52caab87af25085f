SPECIFICATION FairSpec
CONSTANTS
    r = r
    Resources = {r}
    Unnamed = Unnamed
    MaxAttempts = {1, 2}
    MaxJobs = 2
    MaxFaults = 2
INVARIANTS
    ActiveJobsClaimable
PROPERTIES
    ImplementsQueue
    JobsEnd
CHECK_DEADLOCK FALSE
