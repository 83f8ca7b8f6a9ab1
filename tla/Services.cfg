CONSTANTS
    Deliveries = 2
    Tokens = {t1, t2}
    FcmTokens = {t1}
    PushRequests = {r1, r2}
    MaxRows = 2
    None = None
    People = {p1, p2}
    MaxInputs = 4
SPECIFICATION PartsSpec
CHECK_DEADLOCK FALSE
SYMMETRY Symmetry
INVARIANTS
    ServicesTypeOK
    FailureIsReal
    DevicesAreHeeded
    SessionHolds
