\* One call of one member, all its attempts, against every kind of change.
SPECIFICATION Spec
CONSTANTS
    None = None
    Users = {u}
    Envs = {e}
    Roles = {r1, r2}
    Builtin = {r1}
    Perms = {p, q}
    Grantable = {p}
    Calls = {c}
    MaxResolveRetry = 3
    MaxVersion = 4
INVARIANTS TypeOK AnswersWereTrue BusyMeansChanged CacheCoherent
