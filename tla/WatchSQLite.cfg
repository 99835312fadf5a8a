\* The database nightwatch opens, whose errors isDuplicateEntry does not know.
CONSTANTS
    NoOwner = NoOwner
    Instance = {i1, i2}
    DetectsDuplicates = FALSE
    RenewalsOnTime = TRUE
    StandbyStops = FALSE
    JobsOutlive = FALSE
    MaxBoots = 4
SPECIFICATION FairSpec
PROPERTIES
    LockIsPassedOn
CHECK_DEADLOCK FALSE
