SPECIFICATION AllLiveSpec
CONSTANTS
    Keys = {k1}
    Mine = k1
    Turns = {t1, t2, t3}
    NoKey = NoKey
    NoTurn = NoTurn
    Lease = 2
    MaxDeltas = 1
    MaxLosses = 2
    MaxRetries = 1
    Base = 1
    SendLease = 2
    Replicated = {d1, d2}
    ReplicaMessages = 1
    ReplicaErrors = 1
    Sender = d1
    SingleMessages = 2
    SingleDelay = 2
    SingleErrors = 0
    SendCrashes = 1
    SendCancels = 1
    ReplicaRequeues = 1
    SingleRequeues = 2
    LocalKeys = {k1}
    LocalTurns = {t1, t2, t3}
    LocalDeltas = 1
    MaxOverlaps = 2
    LocalCrashes = 1
    Deployments = {"replicas", "single", "chat", "local chat", "client"}
INVARIANT TypesOK
 
 
INVARIANT OneWorker
INVARIANT OneAnswer
INVARIANT LogWellFormed
PROPERTY Reconciled
PROPERTY SettledFinal
PROPERTY ImplementsPromise
PROPERTY AllSettle
