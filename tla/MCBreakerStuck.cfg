CONSTANTS
    Callers = {c1}
    MaxFailures = 1
    Timeout = 1
    MaxRequests = 2
    MinRequests = 3
    RatioNum = 1
    RatioDen = 2
    Created = 1
    MaxTime = 3
    MaxCount = 8
SPECIFICATION Spec
CHECK_DEADLOCK FALSE
PROPERTIES HalfOpenIsLeft
