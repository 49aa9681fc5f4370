SPECIFICATION Spec
CONSTANTS
    c1 = c1
    c2 = c2
    Clients = {c1, c2}
    Explorers = {c1}
    Competing = {"Refresh", "Config"}
    Unbounded = 2000
    Window = 2
    Limit = 1
    MaxWait = 1
    MaxClock = 2
    MaxRequests = 3
INVARIANTS
    QuotaHolds
    Protected
    InputsFit
CHECK_DEADLOCK FALSE
