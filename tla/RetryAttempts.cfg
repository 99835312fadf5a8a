\* One task in two workers' hands: how often is its Executor called?
CONSTANTS
    NoTask = NoTask
    Task = {t1}
    TaskID <- MCTaskID
    IdOf <- MCIdOf
    Worker = {w1, w2}
    MaxRetries = 2
    QueueCap = 1
    FailureThreshold = 2
    MaxStarts = 1
SPECIFICATION Spec
INVARIANT
    AttemptsWithinMaxRetries
CHECK_DEADLOCK FALSE
