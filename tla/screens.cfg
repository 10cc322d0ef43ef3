SPECIFICATION Screens
INVARIANTS
    TabsAreKept
    ProgressIsTold
PROPERTIES
    PassEnds
    ClosedStaysClosed
    DialogsRunWhatTheyShow
    SavesOverWhatWasRead
    
    
    DaemonGivesUpFirst
    EveryRequestSettles
CHECK_DEADLOCK FALSE
CONSTANTS
    None = None
    MaxGestures = 4
    MayHappen = {"failing", "first", "cut", "sleep", "typing", "away"}
    Asks = {x, y, blank}
    Blank = blank
    Offered <- Some
    Roots = {a, b, d}
    MaxRequests = 3
    MaxRestarts = 1
    MaxReloads = 1
    Files = {1, 2}
    Conflicted = {1}
    MaxTexts = 5
    Requests = {1}
    Verbs = {"fetch", "pull"}
    ProgressBuffer = 1
    Wire = 1
    MaxLines = 3
    DaemonIdle = 2
    BrowserIdle = 4
    AskTime = 2
    WaitDelay = 1
    RefsTime = 2
