SPECIFICATION FairSpec

CONSTANTS
    Requests = {r1, r2}
    Keys = {list}
    None = None
    MaxWrites = 2

INVARIANT TypeOK
INVARIANT ReadsAfterBumpAreFresh
INVARIANT StaleEntryHasPendingWrite
PROPERTY CacheConverges
