SPECIFICATION Spec
CONSTANTS
    Callers = {"c1", "c2", "c3"}
    NoCaller = "nobody"
    Payload <- PayloadOf
    KeyTTL = 2
    Deliveries = {"d1", "d2"}
    Retries = {"r1"}
    ClaimTTL = 1
    StoreErrors = 1
    People = {"ann", "ben", "eve"}
    Nobody = "nobody"
    Owners = {"ann", "ben"}
    Sessions = {"s1", "s2"}
    SessionTTL = 1
    Window = 2
    ModelRequests = {"m1", "m2"}
    Profiles <- ProfilesOf
    Threshold = 2
    ResetTicks = 1
    CallRetries = 1
    DailyLimit = 1
    FallbackLocal = TRUE
    Requests = {"q1", "q2", "q3", "q4"}
    Class <- ClassOf
    GlobalLimit = 2
    ClassLimit <- ClassLimits
    RateLimit <- RateLimits
    WindowTicks = 1
    Threads = {"t1", "t2", "t3", "t4"}
    MaxSize = 2
    Users = {"u1", "u2", "u3", "u4"}
    Size = 2
    Keys = {"k1"}
    MaxJobs = 2
    Workers = {"w1", "w2"}
    MaxRetries = 1
    Base = 1
    Lease = 2
    Overrun = TRUE
    RestartDelay = 0
    MaxCrashes = 2
    MaxErrors = 1
    MaxAdmin = 2
    Gateways = {"g1", "g2"}
    Script = "script"
    NoProc = "nobody"
    Writes = {"r1", "r2"}
    Once = {"r1"}
    NoRequest = "recovery"
    Backups = 2
    MaxFaults = 1
    MaxDamages = 1
    Loggers = {"a1", "b1"}
    Process <- ProcessOf
    MaxEntries = 4
    Newest = 3
    MaxRuns = 4
    Evaluations = {"evaluate"}
    Generations = {"generate"}
    Reviews = {"yes", "no"}
    Decision <- DecisionOf
    Memories = {1, 2}
    Purpose <- GoalsOf
    Advice <- AdviceOf
    NoAdvice = "-"
    Successes = {1}
    Critical = {}
    Expiring = {1}
    Curators = {"c1", "c2"}
    Planners = {"p"}
    ReviewLimit = 2
    Scan = 1
    MaxReviews = 2
    Webhooks = {"v1", "v2", "v3"}
    Event <- EventOf
    Nonce <- NonceOf
    NoNonce = "-"
    Messages <- MessagesOf
    SourceLimit = 1
    MaxBuckets = 2
    Active = {"key", "claim", "session", "model", "slots", "pool", "app pool", "jobs", "files", "audit",
              "releases", "proposal", "webhooks", "memory"}
INVARIANT TypeOK
 
 
INVARIANT UsableWasGranted
 
INVARIANT SlotsAccounted
INVARIANT StatusMatchesRetries
INVARIANT FailsClosed
 
INVARIANT ActiveWasChecked
INVARIANT MemoryStands
CHECK_DEADLOCK FALSE
