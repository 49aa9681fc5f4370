\* Two requests, two keys, both directions, repeated and raced; no symmetry,
\* liveness is checked.
SPECIFICATION FairSpec
CONSTANTS
    None = None
    p1 = p1
    p2 = p2
    Projects = {p1, p2}
    ImportKeys = {k1, k2}
    Requests = {r1, r2}
    Payloads <- BothWays
    SnapIds = {a, b, d}
INVARIANTS ImportedOnce AnswersAreOwn
PROPERTIES EveryImportEnds
