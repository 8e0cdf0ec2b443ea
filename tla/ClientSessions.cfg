CONSTANTS
    Addresses = {a1, a2, a3}
    Ids = {"p1"}
    AuthenticationRequired = TRUE
    MaxClients = 2
    ClientTimeout = 1
    MaxClock = 2
SPECIFICATION FairSpec
INVARIANTS
    WithinMaxClients
    UniqueAuthenticatedIds
    SnapshotsToMembers
PROPERTIES
    RemovedWasUnheard
    SilentAreRemoved
CHECK_DEADLOCK FALSE
