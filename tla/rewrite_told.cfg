SPECIFICATION RewriteSpec
INVARIANTS
    CountedHashesAreKept
CHECK_DEADLOCK FALSE
CONSTANTS
    Length = 3
    MaxGestures = 2
    MaxLandings = 0
    MayHappen = {}
    None = None
