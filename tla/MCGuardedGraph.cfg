CONSTANTS
    Users = {u1, u2, u3}
    Movers = {m1, m2, m3}
    NoTask = NoTask
    Graphs = {gA, gB}
    NoGraph = NoGraph
SPECIFICATION FairSpec
INVARIANTS
    GuardIsSound
    
    
PROPERTIES
    MoversPreferred
    TurnIsGranted
    ImplementsActiveGraph
