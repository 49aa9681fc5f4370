\* Two concurrent readers against publications, cleanups and late cache writes.
SPECIFICATION Spec
CONSTANTS
    None = None
    v1 = v1
    v2 = v2
    sh1 = sh1
    sh2 = sh2
    Values = {v1, v2}
    InitShape = sh1
    InitValue = v1
    Shapes = {sh1}
    Valid <- ReadValid
    SnapIds = {a, b}
    Clients = {c}
    Readers = {r1, r2}
    MaxRuntime = 2
    MaxVersion = 2
SYMMETRY Symm
INVARIANTS TypeOK OneReleased CacheFaithful
PROPERTIES ReadsAreAtomic
