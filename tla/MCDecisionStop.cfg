CONSTANTS
    Callers = {c1, c2}
    BufferSize = 3
    FlushSize = 2
    MaxCalls = 6
    MaxFailures = 2
SPECIFICATION Spec
INVARIANTS
    StopFlushesRemaining
CHECK_DEADLOCK FALSE
