CONSTANTS
    Objects <- ThreeObjects
    Clients = {"c1", "c2"}
    Scenes = {"*", "hall"}
    States <- FewStates
    Configs <- FewConfigs
    AssignedObjects <- TheTree
    AssignedClients = {"c2"}
    MaxChanges = 3
SPECIFICATION Spec
INVARIANTS
    SnapshotIsExpected
    OwnObjectSeen
CHECK_DEADLOCK FALSE
