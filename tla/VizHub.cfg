CONSTANTS
    Graphs = {g1, g2}
    Home = g1
    Browsers = {b1}
    Callers = {c1}
    QueueMax = 1
    LogCapacity = 2
    RecordCapacity = 1
    MaxEvents = 2
    MaxSockets = 3
    MaxCrashes = 1
    NoSocket = NoSocket
    NoQueue = NoQueue
    NoSlot = NoSlot
SPECIFICATION FairSpec
INVARIANTS
    HubIsSound
    BrowsersMissNothing
PROPERTIES
    SessionOutlivesItsSocket
    SessionIsListed
CHECK_DEADLOCK FALSE
