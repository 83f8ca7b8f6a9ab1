CONSTANTS
    d1 = d1
    t1 = t1
    t2 = t2
    q1 = q1
    q2 = q2
    q3 = q3
    w1 = w1
    w2 = w2
    None = None
    Docs <- OneDoc
    Tasks <- OneTask
    Requests <- OneRequest
    Workers <- TwoWorkers
    MaxRetries = 1
    MaxCrashes = 1
    MaxKills = 1
    MaxOutages = 0
SPECIFICATION Spec
CHECK_DEADLOCK FALSE
SYMMETRY Symmetry
INVARIANTS
    TypeOK
    RunningIsAlive
    OneCopyPerTask
PROPERTIES
    ChunksOutliveRetries
