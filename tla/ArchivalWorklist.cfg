SPECIFICATION Spec
CONSTANTS
    Premises = {a, b, m}
    FirstPremises = {a, b}
    Inference = i
    Leaves = {x}
    Callers = {c1, c2}
    MaxDeferralCap = 2
    MaxCalls = 2
    MaxMoves = 2
    MaxRound = 2
SYMMETRY Symmetry
INVARIANTS
    WorklistIsSound
    

    
CHECK_DEADLOCK FALSE
