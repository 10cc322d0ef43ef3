SPECIFICATION Memory
INVARIANTS
    StoreIsBounded
    OpenRepositoriesAreWhole
PROPERTIES
    AgreementIsKept
    ReversesTheLastMove
    RestoreStaysOffered
    IdentifiersKeepTheirPromise
SYMMETRY Symmetry
CONSTANTS
    side = side
    Branches = {main, side}
    Main = main
    Handlers = {h1, h2}
    MayFail = {"git"}
    MaxCommits = 3
    MaxTerminal = 2
    MaxRequests = 3
    None = None
    Requests = {r1}
    Picked = {p1, p2, p3}
    Fixed = {}
    ChosenHistories = 2
    MaxAsks = 4
    MaxMoves = 1
    Returns = FALSE
    Shallow = FALSE
    Absent = Absent
    Repos = {here, there}
    Callers = {h1, h2}
    MaxCalls = 4
    MaxInodes = 3
    NoRepo = NoRepo
CHECK_DEADLOCK FALSE
