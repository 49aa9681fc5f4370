\* A reused token and a refresh, on a database whose UPDATE keeps to the rows
\* committed when it started.
SPECIFICATION Spec
CONSTANTS
    None = None
    Tokens = {1, 2, 3}
    Requests = {r1, r2}
    StatementSnapshot = TRUE
INVARIANTS ReuseEndsSession
