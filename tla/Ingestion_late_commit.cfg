CONSTANTS
    d1 = d1
    t1 = t1
    t2 = t2
    q1 = q1
    q2 = q2
    q3 = q3
    w1 = w1
    w2 = w2
    None = None
    Docs <- OneDoc
    Tasks <- OneTask
    Requests <- OneRequest
    Workers <- OneWorker
    MaxRetries = 3
    MaxCrashes = 0
    MaxKills = 0
    MaxOutages = 0
SPECIFICATION Spec
CHECK_DEADLOCK FALSE
SYMMETRY Symmetry
INVARIANTS
    NoFinalFactInRedisOnly
