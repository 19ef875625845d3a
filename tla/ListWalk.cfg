SPECIFICATION WalkSpec

CONSTANTS
    DEFAULT_LIMIT = 2
    MAX_LIMIT = 3
    Missing = Missing
    Limits <- SentLimits
    Pages <- SentPages
    MaxCustomers = 5
    MaxEdits = 3

INVARIANT WalkTypeOK
INVARIANT MissesOnlyWhatMoved
INVARIANT RepeatsOnlyWhatMovedDown

\* The walk ends, and the edits are bounded.
CHECK_DEADLOCK FALSE
