CONSTANTS
    c1 = c1
    c2 = c2
    Clients = {c1, c2}
    Values = {1}
    DropOrder <- TwoObjects
    Reordered = {"player"}
    FullInterval = 3
    Limits = {1, 2}
    Budgeting = TRUE
    Faults = {"encode"}
    Scenarios <- TwoClients
SPECIFICATION Spec
INVARIANT BaselineWasSent
CHECK_DEADLOCK FALSE
