\* Two processes, and everything the code permits: late renewals, processes stopped on
\* standby, jobs that outlive the stop.
CONSTANTS
    NoOwner = NoOwner
    Instance = {i1, i2}
    DetectsDuplicates = TRUE
    RenewalsOnTime = FALSE
    StandbyStops = TRUE
    JobsOutlive = TRUE
    MaxBoots = 4
SPECIFICATION FairSpec
INVARIANTS
    OneLeader
    LeaseHeld
PROPERTIES
    MutexSpec
    LockIsPassedOn
CHECK_DEADLOCK FALSE
