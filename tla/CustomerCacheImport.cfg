SPECIFICATION Spec

CONSTANTS
    Requests = {r1, r2}
    Keys = {list}
    None = None
    MaxWrites = 2

SYMMETRY Symmetry

INVARIANT ReadsAfterImportAreFresh
