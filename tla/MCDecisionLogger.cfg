CONSTANTS
    c1 = c1
    c2 = c2
    Callers = {c1, c2}
    BufferSize = 2
    FlushSize = 2
    MaxCalls = 4
    MaxFailures = 2
    Streams = {1, 2, 3, 4}
    Messages = {1, 2, 3, 4}
    Oversized = {4}
    Empty = 0
    Zero = zero
    MaxFaults = 1
    Settings <- MCSettings
SPECIFICATION FairDeliverySpec
INVARIANTS
    LossIsCounted
    ReceiptsAccounted
PROPERTIES
    ImplementsPrefixStream
    EntriesHandled
CHECK_DEADLOCK FALSE
