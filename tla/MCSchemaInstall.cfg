SPECIFICATION FairSpec
CONSTANTS
    Instances = {s, r, k}
    Commands = {k}
    TableCount = 3
    UsersTable = 2
    MaxStarts = 2
    Nobody = nobody
INVARIANTS ReadyIsInstalled
PROPERTIES EveryStartEnds
CHECK_DEADLOCK FALSE
