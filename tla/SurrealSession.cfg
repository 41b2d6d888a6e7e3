CONSTANTS
    Users = {u1, u2}
    Switchers = {s1}
    Borrowers = {b1}
    Graphs = {gA, gB, gNew}
    TooNew = {gNew}
    NoGraph = NoGraph
    NoTask = NoTask
    Cancellable = {u1, u2}
    Sdks = {"2.x", "3.x"}
    MaxFaults = 2
SPECIFICATION FairSpec
INVARIANTS
    ConnectionIsSound
    OneGraphPerOperation
    WireIsSelected
PROPERTIES
    CallsEnd
