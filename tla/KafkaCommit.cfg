\* One goroutine of each kind, and a handler that may fail.
CONSTANTS
    Producer = {p1}
    Processor = {c1}
    QueueCapacity = 1
    ForceCommit = FALSE
    LogLength = 3
    MaxSessions = 2
SPECIFICATION Spec
INVARIANTS
    UncommittedAreRefired
CHECK_DEADLOCK FALSE
