SPECIFICATION TransferSpec
PROPERTY
    DeadlineIsTheDaemons
CHECK_DEADLOCK FALSE
CONSTANTS
    Requests = {1}
    Verbs = {"fetch", "pull"}
    ProgressBuffer = 1
    Wire = 1
    MaxLines = 2
    DaemonIdle = 2
    BrowserIdle = 4
    AskTime = 2
    WaitDelay = 1
    RefsTime = 2
    MayHappen = {}
    MaxGestures = 0
    None = None
