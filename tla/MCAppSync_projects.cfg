SPECIFICATION Spec
CONSTANTS
    Tasks = {"t1", "t2"}
    Devices = {"d1", "d2"}
    NoDevice = "no device"
    NoTask = "no task"
    Lease = 2
    Window = 1
    MaxEdits = 1
    MaxLosses = 1
    Keys = {"k1", "k2"}
    NoKey = "no key"
    Challenges = {"c1", "c2"}
    Requests = {"r1"}
    Skew = 1
    TTL = 3
    Life = 1
    Durable = TRUE
    Ops = {"o1", "o2"}
    Refused = {"o2"}
    Limit = 1
    RetryDelay = 1
    MaxFaults = 2
    Gateways = {"g1", "g2"}
    Calls = {"a", "b", "c"}
    NoCall = "no call"
    Chat = "chat"
    Deployments <- AllDeployments
    Rows = {"x", "y", "m", "e"}
    ChatRows = {"y", "m"}
    InsertOnly = {"m", "e"}
    MaxCrashes = 1
    MaxLockLosses = 0
    Active = {"shared"}
INVARIANT OneSourceOfTruth
CHECK_DEADLOCK FALSE
