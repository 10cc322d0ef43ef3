SPECIFICATION FairStoreSpec
INVARIANT
    AnswersAreCurrent
PROPERTY
    EveryRequestEnds
CONSTANTS
    Requests = {r1, r2}
    Picked = {p1, p2}
    Fixed = {}
    ChosenHistories = 1
    MaxAsks = 2
    MaxMoves = 2
    Returns = FALSE
    Shallow = TRUE
    Absent = Absent
CHECK_DEADLOCK FALSE
