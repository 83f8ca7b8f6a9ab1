CONSTANTS
    s1 = s1
    u1 = u1
    u2 = u2
    u3 = u3
    c1 = c1
    c2 = c2
    None = None
    Sessions <- OneSession
    TotalParts = 2
    Uploads <- ThreeUploads
    Completions <- TwoCompletions
    SemaphoreSize = 1
    MaxCrashes = 0
    MaxEvents = 2
    MaxTokens = 1
    MaxReconnects = 1
SPECIFICATION PartsSpec
CHECK_DEADLOCK FALSE
PROPERTIES
    FinalStaysSaved
