CONSTANTS
    d1 = d1
    t1 = t1
    t2 = t2
    q1 = q1
    q2 = q2
    q3 = q3
    w1 = w1
    w2 = w2
    None = None
    Docs <- OneDoc
    Tasks <- TwoTasks
    Requests <- TwoRequests
    Workers <- OneWorker
    MaxRetries = 0
    MaxCrashes = 0
    MaxKills = 0
    MaxOutages = 0
    Deliveries = 2
    VectorPermits = 1
    RemotePermits = 1
    VectorEnabled = TRUE
    Threads = {h1, h2, h3}
    Old = {h1}
    MaxCalls = 2
    MaxInputs = 3
    Questions = {1, 2}
    People = {a1, p1, p2}
    FirstAdmins = {a1, p1}
    Secrets = {s1}
    MaxRequests = 2
SPECIFICATION PartsSpec
CHECK_DEADLOCK FALSE
SYMMETRY Symmetry
INVARIANTS
    PlatformTypeOK
    SearchRecovers
    ChatShowsItsOwn
    OutcomeIsShown
    ReindexRestores
    AdminRemains
    SecretsWorkOnce
