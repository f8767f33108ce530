SPECIFICATION Spec
SYMMETRY Symmetry
CONSTANTS
    Calls = {c1, c2, c3}
    Replicas = {r1, r2}
    o1 = o1
    o2 = o2
    o3 = o3
    Owners = {o1, o2, o3}
    Requester = o1
    NumSteps = 3
    Gated = {1, 3}
    Dual = {3}
    MaxApprovals = 3
    MaxCrashes = 1
 
INVARIANT TwoPeople
 
INVARIANT TokenWhileWaiting
 
PROPERTY SettledFinal
CHECK_DEADLOCK FALSE
