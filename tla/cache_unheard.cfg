SPECIFICATION Spec
PROPERTY
    ScreenCatchesUp
CHECK_DEADLOCK FALSE
CONSTANTS
    MayHappen = {"elsewhere"}
    MaxMoves = 2
    None = None
    Asked = Asked
