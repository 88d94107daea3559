CONSTANTS
    MaxHandlers = 2
    MaxEntries = 4
    FlushAt = 3
    Callers = {c1}
    MaxFailures = 2
    Timeout = 1
    MaxRequests = 1
    MinRequests = 3
    RatioNum = 1
    RatioDen = 2
    Created = 1
    MaxTime = 3
    MaxCount = 1
    RetryEnabled = TRUE
    Policies <- MCPolicies
    Operations = {"CreateIssue", "SendMessage"}
    MaxKeys = 1
    Procs = {p1}
    Creators = {m1}
    MaxRows = 2
    Users = {u1}
    Requests = {r1, r2}
    MaxOrgs = 1
    MaxInvitations = 0
    Titles = {"a", "b"}
    WatchLabel = "ready"
    MaxPending = 1
    MaxRejected = 1
    MaxIssues = 2
    MaxFaults = 1
SPECIFICATION LiveSpec
CHECK_DEADLOCK FALSE
INVARIANT SentOncePerHandler
PROPERTIES CancelEnds RunningIsOnline RemovedIsForgotten Streamed WorkEndsCreativity
    ShutdownCompletes
