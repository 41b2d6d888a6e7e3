CONSTANTS
    a = a
    b = b
    c = c
    i = i
    d = d
    m = m
    Facts <- MCFacts
    Others <- MCOthers
    Inferences <- MCInferences
    Known <- MCKnown
    Links <- MCLinks
    Document = d
    Fresh = {n1, n2}
    Calls = {c1}
    CycleLimit = 1
    UndoDepth = 1
    NamesRetired = FALSE
    MaxCalls = 4
SPECIFICATION Spec
SYMMETRY Symmetry
INVARIANTS
    
    EdgesAreSound
    
    ReworkedPremisesAreFlagged
PROPERTIES
    ReverseRestores
CHECK_DEADLOCK FALSE
