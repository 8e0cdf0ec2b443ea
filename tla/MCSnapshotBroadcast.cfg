CONSTANTS
    c1 = c1
    c2 = c2
    Clients = {c1, c2}
    Values = {1, 2}
    DropOrder <- TwoObjects
    Reordered = {"player"}
    FullInterval = 3
    Limits = {0, 1, 2}
    Budgeting = TRUE
    Faults = {"encode", "write"}
    Scenarios <- MCScenarios
SPECIFICATION Spec
INVARIANTS
    ClientMatchesBaseline
    CycleBounded
    PriorityRespected
PROPERTIES
    ResetForcesFull
CHECK_DEADLOCK FALSE
