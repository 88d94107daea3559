CONSTANTS
    MaxHandlers = 2
    MaxEntries = 3
    FlushAt = 3
SPECIFICATION Spec
CHECK_DEADLOCK FALSE
PROPERTY AllStreamed
