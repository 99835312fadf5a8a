\* Two tasks, one worker and a channel that is full with one task in it.
CONSTANTS
    NoTask = NoTask
    Task = {t1, t2}
    TaskID <- MCTaskID
    IdOf <- MCIdOf
    Worker = {w1}
    MaxRetries = 2
    QueueCap = 1
    FailureThreshold = 1
    MaxStarts = 2
SPECIFICATION FairSpec
INVARIANTS
    NoSilentDrop
PROPERTIES
    EveryTaskSettles
    StopEndsGoroutines
CHECK_DEADLOCK FALSE
