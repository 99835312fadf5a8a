\* One task in two workers' hands at once.
CONSTANTS
    NoTask = NoTask
    Task = {t1}
    TaskID <- MCTaskID
    IdOf <- MCIdOf
    Worker = {w1, w2}
    MaxRetries = 2
    QueueCap = 1
    FailureThreshold = 2
    MaxStarts = 1
SPECIFICATION FairSpec
INVARIANTS
    TypeOK
    BreakerConsistent
    NoEarlyGiveUp
PROPERTIES
    ContractSpec
    EveryTaskSettles
CHECK_DEADLOCK FALSE
