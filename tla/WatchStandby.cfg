\* A process that waits for the lock is stopped.
CONSTANTS
    NoOwner = NoOwner
    Instance = {i1, i2, i3}
    DetectsDuplicates = TRUE
    RenewalsOnTime = TRUE
    StandbyStops = TRUE
    JobsOutlive = FALSE
    MaxBoots = 4
SPECIFICATION Spec
INVARIANTS
    NoOneElseObtains
CHECK_DEADLOCK FALSE
