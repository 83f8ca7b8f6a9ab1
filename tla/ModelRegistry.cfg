CONSTANTS
    m1 = m1
    m2 = m2
    m3 = m3
    r1 = r1
    r2 = r2
    None = None
    Models <- ThreeModels
    Requests <- TwoRequests
    MaxRequests = 3
SPECIFICATION SpecWithActive
CHECK_DEADLOCK FALSE
SYMMETRY Symmetry
INVARIANTS
    TypedAndAgreed
    RollbackRestores
PROPERTIES
    ActivatedIsApproved
