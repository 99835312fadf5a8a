\* Two fetching and two processing goroutines, and a restart.
CONSTANTS
    Producer = {p1, p2}
    Processor = {c1, c2}
    QueueCapacity = 1
    ForceCommit = FALSE
    LogLength = 3
    MaxSessions = 2
SPECIFICATION FairSpec
INVARIANTS
    TypeOK
    NothingLost
    OffsetIsEarned
    FewAreSkipped
PROPERTIES
    ContractSpec
    EveryMessageIsHandled
    StopEndsStart
CHECK_DEADLOCK FALSE
