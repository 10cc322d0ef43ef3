SPECIFICATION Spec
PROPERTY
    RestoreStaysOffered
CONSTANTS
    main = main
    side = side
    Branches = {main, side}
    Main = main
    Handlers = {h1}
    MayFail = {"rev-parse"}
    MaxCommits = 3
    MaxTerminal = 0
    MaxRequests = 3
    None = None
CHECK_DEADLOCK FALSE
