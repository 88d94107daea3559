CONSTANTS
    Callers = {c1}
    MaxFailures = 2
    Timeout = 1
    MaxRequests = 1
    MinRequests = 3
    RatioNum = 1
    RatioDen = 2
    Created = 1
    MaxTime = 4
    MaxCount = 3
    RetryEnabled = TRUE
    Policies <- MCPolicies
    Operations = {"ListIssues", "CreateIssue", "AddLabels", "SendMessage", "SendMessageWithTools", "Decorated"}
    MaxProcesses = 2
    Savers = {s1}
    Clients = {"k1", "k2"}
    SendBufLen = 1
    MaxMessages = 3
    MaxKeys = 2
    Procs = {p1}
    Creators = {m1, m2}
    MaxRows = 1
    Users = {u1}
    Requests = {r1, r2}
    MaxOrgs = 1
    MaxInvitations = 1
    Issues = {i1, i2}
    MaxConcurrent = 1
    MaxObjects = 2
    MaxSnapshots = 2
    MaxTaken = 4
    ResetClaims = TRUE
    Reached = {"claim", "workspace", "implement", "pr", "review", "failed"}
    Ages = {0, 60, 720, 1440}
    SnapshotAges = {0, 31, 121, 1441}
    FileCounts = {0, 51, 101}
    ModifiedCounts = {0, 6, 11}
    MaxFiles = 2
    CompressOld = TRUE
    ArchiveBeforeDelete = TRUE
    MaxLogs = 3
    MaxNumber = 1
    MaxIter = 2
    MaxTools = 2
    MaxSends = 2
    MaxRuns = 2
    MaxStatuses = 1
    MaxPolls = 2
    FieldKinds = {"level", "labels", "model"}
    Loaders = {"watcher", "caller"}
    Watcher = "watcher"
    Subscribers = {1, 2}
    MaxSaves = 2
SPECIFICATION PartsSpec
CHECK_DEADLOCK FALSE
INVARIANTS
    OpenedForFailures DuplicatesAreLostAnswers StopEndsAll StreamComplete
    NamesDiffer AcceptedHasJoined WorkKeepsDirectory DirectoriesAreKnown
    LastIsRestored IssueNotLost
    LastLogKept ToolCallsAnswered VerdictIsSound OneVersion
