SPECIFICATION SQLiteSpec
CONSTANTS
    Keys = {k1, k2}
    MaxJobs = 2
    Workers = {w1, w2}
    Postgres = FALSE
    MaxRetries = 1
    Base = 1
    Lease = 2
    Overrun = FALSE
    RestartDelay = 2
    MaxCrashes = 2
    MaxErrors = 1
    MaxAdmin = 0
INVARIANT OneHandlerPerJob
INVARIANT AttemptAccounting
INVARIANT DeadLetterAfterAllAttempts
PROPERTY CompletedFinal
PROPERTY Settles
