CONSTANTS
    Window = 2
    SeqSpace = 100
    ReliableMaxAttempts = 2
    ReliableQueueLimit = 2
    Supported = {"ordered", "unordered"}
    Refusals = TRUE
    MaxPackets = 2
SPECIFICATION Spec
INVARIANTS
    OrderedIdsIncreaseByOne
CHECK_DEADLOCK FALSE
