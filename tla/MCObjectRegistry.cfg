CONSTANTS
    Types = {"a"}
    Ids = {1, 2}
    Servers = {s1}
    Factories = {"a"}
    AuthKey <- AuthName
    TickRate = 2
    MaxTicks = 2
    MaxInstances = 2
    MaxRemovals = 1
    None = None
SPECIFICATION Spec
INVARIANTS
    FeaturesFollowObject
    HooksOnRegistered
    InitBeforeHooks
    HandlerCanBeRemoved
    HoldersOfMuMove
