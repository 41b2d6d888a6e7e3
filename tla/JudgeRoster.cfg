CONSTANTS
    Names = {n1, n2}
    Keys = {k1, k2}
    NoId = NoId
    Seats = {s1, s2}
    NoSeat = NoSeat
    Claims = {c1}
    Kept = 1
    PickerRounds = 1
    MaxOps = 4
SPECIFICATION Spec
SYMMETRY Symmetry
INVARIANTS
    RosterIsSound

    
    
CHECK_DEADLOCK FALSE
