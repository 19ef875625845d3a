SPECIFICATION Spec

CONSTANTS
    Requests = {r1, r2}
    Ids = {i1, i2, i3}
    Names = {n1}
    Emails = {e1}
    Files = {f1, f2}
    None = None
    MaxAborts = 1

SYMMETRY Symmetry

INVARIANTS
    TypeOK
    NoDanglingAvatar
    DuplicatesNeedOverlap
    FilesAreAccountedFor
