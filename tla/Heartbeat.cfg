\* One job, two retries of its timeouts, one worker.
CONSTANTS
    NoTask = NoTask
    NoInfo = NoInfo
    Job = {j1}
    Info = {i1}
    KeyOf <- MCKeyOf
    Task = {t1, t2}
    TaskID = {j1}
    IdOf <- MCIdOf
    Worker = {w1}
    MaxErrors = 1
    MaxRetries = 1
    QueueCap = 1
    FailureThreshold = 1
    MaxStarts = 1
SPECIFICATION HBFairSpec
INVARIANTS
    HBTypeOK
PROPERTIES
    ContractSpec
    ForgottenWereRetried
    SuccessIsNotForgotten
    TimedOutIsRescheduled
CONSTRAINT
    IdleAtEnd
CHECK_DEADLOCK FALSE
