CONSTANTS
    BufferSize = 2
    MaxEvents = 6
SPECIFICATION Spec
CHECK_DEADLOCK FALSE
INVARIANT MemoryBound
PROPERTIES DeliveredOnce InOrder HeldIsSettled CloseEnds
