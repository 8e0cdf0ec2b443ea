CONSTANTS
    Window = 2
    SeqSpace = 100
    ReliableMaxAttempts = 2
    ReliableQueueLimit = 2
    Supported = {"ordered"}
    Refusals = TRUE
    MaxPackets = 3
SPECIFICATION FairSpec
INVARIANTS
    RemovedMeansDelivered
    AttemptsBounded
PROPERTIES
    QueueDrains
CHECK_DEADLOCK FALSE
