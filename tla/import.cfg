SPECIFICATION Spec
CONSTANTS
    a = a
    b = b
    v = v
    w = w
    Keys = {a, b}
    Values = {v, w}
    None = None
    Importers = {p1, p2}
    Kind = "variable set"
    Lists <- MCLists
    PageSize = 1
    MaxRetries = 1
SYMMETRY Symmetry
INVARIANTS
    ResultsHold
    RefusedForCause
PROPERTIES
    OverwriteNeedsFlag
