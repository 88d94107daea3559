CONSTANTS
    MaxIssues = 2
    Roots = 1
    MaxSubtasks = 1
    MaxConcurrent = 2
    MaxRetries = 2
    MaxCrashes = 0
    MaxSignals = 1
    MaxReleases = 1
    ApiFaults = FALSE
    SaveFaults = FALSE
    DecompositionEnabled = FALSE
    AllowPRMerging = FALSE
SPECIFICATION Spec
PROPERTY ShutdownReleasesClaim
