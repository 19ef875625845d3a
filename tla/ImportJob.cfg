SPECIFICATION Spec

CONSTANTS
    jose = jose
    ana = ana
    plain = plain
    acute = acute
    lower = lower
    upper = upper
    Names <- FileNames
    OtherNames <- KnownNames
    Emails = {e1}
    None = None
    CHUNK_SIZE = 2
    MaxAttempts = 2
    MaxRows = 3
    MaxEdits = 1

INVARIANT TypeOK
INVARIANT NoLineImportedTwice
INVARIANT RetriesAddUp
INVARIANT ResultAddsUp
