SPECIFICATION Lists
INVARIANTS
    ConflictsAreRead
PROPERTIES
    RewritesAreTold
    LinesAreTheOnesChosen
    CommitsAreReachable
    FilesKeepTheKeyboard
    AddingTellsTheTruth
    MenusKeepTheirWord
    NoticesAreTold
CHECK_DEADLOCK FALSE
CONSTANTS
    Lines <- TwoFiles
    HunkSize = 1
    MaxDrawn = 2
    MaxMoves = 1
    MaxGestures = 4
    MayHappen = {}
    Length = 3
    MaxLandings = 1
    None = None
    Asked = Asked
    Blank = Blank
    a = a
    b = b
    main = main
