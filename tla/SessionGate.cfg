CONSTANTS
    Calls = {c1, c2}
    Viz = Viz
    Graphs = {g1, g2}
    Home = g1
    Judges = {j1, j2}
    Seats = {s1, s2}
    MaxCalls = 4
    MaxEvents = 1
    NoTask = NoTask
    NoGraph = NoGraph
    NoJudge = NoJudge
    NoClaim = NoClaim
SPECIFICATION Spec
INVARIANTS
    SessionIsSound
    
    
CHECK_DEADLOCK FALSE
