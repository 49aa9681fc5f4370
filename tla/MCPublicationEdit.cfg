\* Drafts, snapshots, loads, imports and stale pages; nobody reads.
SPECIFICATION Spec
CONSTANTS
    None = None
    v1 = v1
    v2 = v2
    sh1 = sh1
    sh2 = sh2
    Values = {v1, v2}
    InitShape = sh1
    InitValue = v1
    Shapes = {sh1, sh2}
    Valid <- EditValid
    SnapIds = {a, b, d}
    Clients = {c}
    Readers = {}
    MaxRuntime = 2
    MaxVersion = 3
SYMMETRY Symm
INVARIANTS OneCurrent SnapshotsUsable FreshViews
PROPERTIES LoadKeepsDraft GenerationMonotone
