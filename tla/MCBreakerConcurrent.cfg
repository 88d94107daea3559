CONSTANTS
    Callers = {c1, c2}
    MaxFailures = 2
    Timeout = 1
    MaxRequests = 1
    MinRequests = 3
    RatioNum = 1
    RatioDen = 2
    Created = 1
    MaxTime = 3
    MaxCount = 3
SPECIFICATION Spec
CHECK_DEADLOCK FALSE
INVARIANT OpenIsStamped
PROPERTIES LegalTransitions HalfOpenIsLeft
