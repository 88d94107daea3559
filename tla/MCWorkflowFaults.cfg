CONSTANTS
    MaxIssues = 2
    Roots = 1
    MaxSubtasks = 1
    MaxConcurrent = 1
    MaxRetries = 2
    MaxCrashes = 1
    MaxSignals = 0
    MaxReleases = 2
    ApiFaults = TRUE
    SaveFaults = FALSE
    DecompositionEnabled = TRUE
    AllowPRMerging = TRUE
SPECIFICATION Spec
INVARIANTS RecordedPRExists MergedOnlyWhenGreen ConcurrencyLimit
