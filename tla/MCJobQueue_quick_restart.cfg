SPECIFICATION LiveSpec
CONSTANTS
    Keys = {k1, k2}
    MaxJobs = 2
    Workers = {w1}
    Postgres = FALSE
    MaxRetries = 1
    Base = 1
    Lease = 2
    Overrun = FALSE
    RestartDelay = 0
    MaxCrashes = 2
    MaxErrors = 0
    MaxAdmin = 0
PROPERTY Settles
