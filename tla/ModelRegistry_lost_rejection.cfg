CONSTANTS
    m1 = m1
    m2 = m2
    m3 = m3
    r1 = r1
    r2 = r2
    None = None
    Models <- TwoModels
    Requests <- TwoRequests
    MaxRequests = 3
SPECIFICATION SpecWithActive
CHECK_DEADLOCK FALSE
SYMMETRY Symmetry
PROPERTIES
    RejectedStaysOut
