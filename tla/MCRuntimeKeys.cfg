\* Two changes and two reads at a time, under fairness; no symmetry.
SPECIFICATION FairSpec
CONSTANTS
    None = None
    Managers = {m1, m2}
    Readers = {r1, r2}
    MaxClock = 1
    MaxPublic = 2
INVARIANTS UsageIsOwn
PROPERTIES ReadsAuthorised RevokedForGood EveryCallEnds
