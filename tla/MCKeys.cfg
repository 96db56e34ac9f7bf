SPECIFICATION Spec
CONSTANTS
    AllTabs <- MCAllTabs
    Perf = "performance"
    Keeping = {"processes"}
    MaxTools = 2
    Rows = {1, 2}
    NoRow = 0
    Nothing = Nothing
    Unset = Unset
    Entries = {"end", "clear", "affinity", "startup", "props"}
    RowKeys = {k1, k2, k3, k4}
    ViewH = 3
    NoRowKey = NoRowKey
    MaxRowEdits = 1
    FixedCols = 2
    ValueCols = 3
    Unknown = Unknown
    Untouched = Untouched
    MinW = 1
    MaxW = 2
    cn = cn
    cp = cp
    cs = cs
    cx = cx
    BuiltIn <- MCBuiltIn
    DefaultVisible = {cn, cp}
    NumericCols = {cp, cx}
    NameCol = cn
    GhostCol = ghost
    NotStored = none
INVARIANTS
    FocusSound
    ModalSafe
PROPERTIES
    ViewSteady
    LayoutSound
