SPECIFICATION Spec

SYMMETRY Symmetry

CONSTANTS
    Jobs = {j1, j2}
    Clients = {c1}
    None = None
    EXPORT_MAX_ROWS = 1
    MaxAttempts = 2
    MaxCustomers = 2
    MaxEdits = 2

INVARIANT TypeOK
INVARIANT DownloadIsWhole
INVARIANT OverLimitOnlyByGrowth
INVARIANT ProgressIsHonest

\* A bounded table and a fixed set of exports: everything may be done.
CHECK_DEADLOCK FALSE
