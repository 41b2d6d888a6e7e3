CONSTANTS
    a = a
    b = b
    c = c
    i = i
    d = d
    m = m
    Facts <- MCFacts
    Others <- MCOthers
    Inferences <- MCInferences
    Known <- MCKnown
    Links <- MCLinks
    Document = d
    Fresh = {n1, n2}
    Calls = {c1, c2}
    CycleLimit = 1
    UndoDepth = 1
    NamesRetired = FALSE
    MaxCalls = 3
SPECIFICATION Spec
SYMMETRY Symmetry
INVARIANTS
    UndoIsBounded
CHECK_DEADLOCK FALSE
