\* Two calls over a chain of tokens that wait for each other's rows, on a
\* database whose UPDATE sees late rows; no symmetry, liveness is checked.
SPECIFICATION FairSpec
CONSTANTS
    None = None
    Tokens = {1, 2, 3}
    Requests = {r1, r2}
    StatementSnapshot = FALSE
INVARIANTS OneActive SessionsEnd DisabledHasNoSession
PROPERTIES EveryCallEnds
