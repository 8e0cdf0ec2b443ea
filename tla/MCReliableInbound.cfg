CONSTANTS
    Window = 2
    SeqSpace = 100
    Scenarios <- MCScenarios
    MaxAttempts = 2
    Supported = {"ordered", "unordered"}
SPECIFICATION FairSpec
INVARIANTS
    OrderedInOrder
    NothingDispatchableWaits
    UnorderedOnce
    NoSilentLoss
PROPERTIES
    PendingDrains
CHECK_DEADLOCK FALSE
