CONSTANTS
    MaxIssues = 3
    Roots = 2
    MaxSubtasks = 1
    MaxConcurrent = 1
    MaxRetries = 2
    MaxCrashes = 2
    MaxSignals = 2
    MaxReleases = 0
    ApiFaults = FALSE
    SaveFaults = TRUE
    DecompositionEnabled = TRUE
    AllowPRMerging = TRUE
SPECIFICATION Spec
INVARIANTS NoLeakedWorkspace RecordedPRExists
