SPECIFICATION Spec

CONSTANTS
    Proc = {p1, p2}
    Server = p1
    http = http
    https = https
    root = root
    sub = sub
    here = here
    below = below
    partial = partial
    Origin = {http, https}
    Path = {root, sub}
    Root = root
    Text = {here, below, partial}
    Size <- MCSize
    Meaning <- MCMeaning
    Sites <- MCSites
    Unset = Unset
    Fail = Fail
    Locked = Locked
    None = None
    MaxClock = 1
    MaxEdits = 1
    MaxFaults = 1

INVARIANT TypeOK
INVARIANT StaleCopyHasACause
INVARIANT LoadIsCurrent
INVARIANT BrokenPageHasACause
PROPERTY ConfiguredPageShows
