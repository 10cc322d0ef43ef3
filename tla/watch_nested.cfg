SPECIFICATION WatcherSpec
INVARIANT
    RefTreeIsFollowed
CONSTANTS
    a = a
    b = b
    there = there
    git = git
    feat = feat
    nested = nested
    Absent = Absent
    Repos = {a}
    Dirs = {git, feat, nested}
    Owner <- OneOwner
    Parent <- NestedParent
    Callers = {c1}
    MaxWatchedDirectories = 4
    FollowBuffer = 1
    ChangesBuffer = 1
    MaxDisk = 3
    MaxCalls = 2
    Paces = {"any"}
CHECK_DEADLOCK FALSE
