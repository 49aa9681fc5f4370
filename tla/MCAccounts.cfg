SPECIFICATION Spec
CONSTANTS
    Users = {1, 2}
    Txns = {t1, t2}
    Passwords = {p, q}
    MaxVersion = 4
    MaxCalls = 4
    MaxPolicy = 1
    Free = free
SYMMETRY CallSymmetry
INVARIANTS AdministratorRemains PasswordKept
PROPERTIES SetupOnce NoLostUpdate
CHECK_DEADLOCK FALSE
