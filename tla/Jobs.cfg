CONSTANTS
    d1 = d1
    t1 = t1
    t2 = t2
    q1 = q1
    q2 = q2
    q3 = q3
    w1 = w1
    w2 = w2
    s1 = s1
    u1 = u1
    c1 = c1
    c2 = c2
    None = None
    Docs <- OneDoc
    Tasks <- OneTask
    Requests <- TwoRequests
    Workers <- OneWorker
    MaxRetries = 1
    MaxCrashes = 0
    MaxKills = 1
    MaxOutages = 0
    Deliveries = 1
    Sessions <- OneSession
    TotalParts = 1
    Uploads <- OneUpload
    Completions <- TwoCompletions
    SemaphoreSize = 1
    People = {p1, p2}
    MaxInputs = 4
    MaxApiCrashes = 1
SPECIFICATION PartsSpec
CHECK_DEADLOCK FALSE
PROPERTIES
    EveryTaskEnds
    WorkEnds
