SPECIFICATION SideBySide
INVARIANTS
    RingIsTheRecentPast
    NoGapWhileKeepingUp
    PanelDrawsOnce
    SlotGuardsTheWrite
    NeverFightsItself
    LeftLocksAreTold
PROPERTIES
    StreamsSettle
    TabsHearInOrder
    EveryCallReturns
CHECK_DEADLOCK FALSE
CONSTANTS
    c1 = c1
    Clients = {c1}
    BufferedEvents = 2
    SubscriberBuffer = 1
    KeptExecutions = 2
    MaxEvents = 4
    MaxRestarts = 1
    x = x
    y = y
    here = here
    None = None
    NoCall = NoCall
    Calls = {x, y}
    Dirs = {here}
    DirOf <- Together
    Commands <- Every
    Children = TRUE
