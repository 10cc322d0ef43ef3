SPECIFICATION News
INVARIANTS
    WatchesFollowTheBooks
PROPERTIES
    NoSendAfterClose
    ChangesAreAnnounced
    ScreenCatchesUp
    NeverGoesBack
CHECK_DEADLOCK FALSE
CONSTANTS
    MayHappen = {}
    MaxMoves = 2
    None = None
    Absent = Absent
    Asked = Asked
    a = a
    b = b
    git = git
    feat = feat
    there = there
    c1 = c1
    Repos = {a, b}
    Dirs = {git, feat, there}
    Owner <- TwoOwners
    Parent <- FlatParent
    Callers = {c1}
    MaxWatchedDirectories = 4
    FollowBuffer = 1
    ChangesBuffer = 1
    MaxDisk = 3
    MaxCalls = 2
    Paces = {"any", "patient", "calm"}
