SPECIFICATION Spec
INVARIANTS
    NoLineIsDrawnTwice
CHECK_DEADLOCK FALSE
CONSTANTS
    Merges <- TwoConflicts
    Context = 2
    MaxEdits = 1
    Empty = ""
