CONSTANTS
    MaxIssues = 4
    Roots = 2
    MaxSubtasks = 2
    MaxConcurrent = 2
    MaxRetries = 2
    MaxCrashes = 0
    MaxSignals = 0
    MaxReleases = 2
    ApiFaults = FALSE
    SaveFaults = FALSE
    DecompositionEnabled = TRUE
    AllowPRMerging = TRUE
SPECIFICATION Spec
PROPERTIES ReadyIsSettled RecordAdvances NoReprocessing
