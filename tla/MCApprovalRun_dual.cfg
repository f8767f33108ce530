SPECIFICATION Spec
CONSTANTS
    Calls = {c1}
    Replicas = {r1}
    o1 = o1
    o2 = o2
    o3 = o3
    Owners = {o1, o2, o3}
    Requester = o1
    NumSteps = 1
    Gated = {1}
    Dual = {1}
    MaxApprovals = 1
    MaxCrashes = 0
INVARIANT DualBeforeToken
CHECK_DEADLOCK FALSE
