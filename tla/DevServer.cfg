SPECIFICATION Spec

CONSTANTS
    PipeSize = 3
    Chunk = 2
    MaxSignals = 2

\* The runner ends.
CHECK_DEADLOCK FALSE

INVARIANT TypeOK
INVARIANT NoOrphans
PROPERTY StopsWhenAsked
PROPERTY WorkerComesBack
PROPERTY NobodyStaysStalled
