CONSTANTS
    q1 = q1
    q2 = q2
    None = None
    Signatures <- Questions
    Editors = {e1, e2}
    Evaluations = {v1, v2}
    Corpora <- Generated
    Settings <- AllOrHalf
    MinSize = 2
    MaxAge = 1
    MaxMade = 3
    MaxClock = 2
SPECIFICATION Spec
CHECK_DEADLOCK FALSE
SYMMETRY Symmetry
INVARIANTS
    ReadyIsEarned
    SamplesCount
