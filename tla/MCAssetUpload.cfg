SPECIFICATION Spec
CONSTANTS
    u1 = u1
    u2 = u2
    c1 = c1
    c2 = c2
    Uploaders = {u1, u2}
    Completers = {c1, c2}
    Scopes = {mine, other}
    Owner = mine
    MaxUploads = 3
    MaxCompletes = 3
SYMMETRY CallSymmetry
INVARIANTS
    PublishedAsDeclared
PROPERTIES
    UploadKept
    PublishedImmutable
