CONSTANTS
    Window = 4
    SeqSpace = 18
    Rate = 1
    Capacity = 2
    Packets = {1, 2}
    MaxClock = 4
    MaxRetries = 1
    Clients = {c1}
    Objects = {1, 2}
    Stamps = {1, 2}
    MaxInputFutureTicks = 2
    MaxInputPastTicks = 1
    InputBufferLimit = 2
    MaxTick = 3
    MaxInputs = 3
SPECIFICATION BooksSpec
INVARIANTS
    WindowTypeOK
    AcceptOnce
    AckExact
    BucketBounds
    SpentAccounted
    Balanced
    Ordered
    AheadIsConsumed
PROPERTIES
    AckAdvances
    MemorySpec
CHECK_DEADLOCK FALSE
