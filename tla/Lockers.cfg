\* Every backend, three processes, two crashes.
CONSTANTS
    Instance = {i1, i2, i3}
    RenewalsOnTime = TRUE
    MaxCrashes = 2
SPECIFICATION FairSpec
INVARIANTS
    TypeOK
    ExclusiveUnlessReentered
    HolderIsRenewed
PROPERTIES
    LockerSpec
    LockIsPassedOn
CHECK_DEADLOCK FALSE
