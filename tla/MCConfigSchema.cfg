SPECIFICATION Spec
CONSTANTS
    e1 = e1
    e2 = e2
    A = A
    B = B
    X = X
    red = red
    green = green
    StructureKeys = {A, B}
    EnumKeys = {X}
    Options = {red, green}
    BaseTypes = {"STRING", "DATE"}
    FieldTypes = {A, B, X}
    Ids = {1, 2, 3}
    OptionLists <- MCOptionLists
    Seeds <- MCSeeds
    Editors = {e1, e2}
    MaxVersion = 4
    MaxEdits = 3
    Nobody = Nobody
SYMMETRY EditorSymmetry
INVARIANTS
    SchemaSound
    ChoicesExact
PROPERTIES
    NoLostEdit
    LoadRestores
CHECK_DEADLOCK FALSE
