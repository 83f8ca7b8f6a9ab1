CONSTANTS
    d1 = d1
    t1 = t1
    t2 = t2
    q1 = q1
    q2 = q2
    q3 = q3
    w1 = w1
    w2 = w2
    None = None
    Docs <- OneDoc
    Tasks <- TwoTasks
    Requests <- TwoRequests
    Workers <- OneWorker
    MaxRetries = 1
    MaxCrashes = 0
    MaxKills = 0
    MaxOutages = 1
SPECIFICATION Spec
CHECK_DEADLOCK FALSE
SYMMETRY Symmetry
INVARIANTS
    ReadyIsIndexed
    DriftOnlyByLateWrite
PROPERTIES
    DeletedStaysDeleted
    ImplementsLifecycle
