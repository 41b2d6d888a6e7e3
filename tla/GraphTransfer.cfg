CONSTANTS
    Nodes = {n1, n2}
    UserNodes = {x1}
    Importers = {p1}
    Keep = 1
    LastDay = 2
    MaxBackups = 2
    MaxMoves = 1
    MaxFaults = 1
SPECIFICATION TransferSpec
SYMMETRY Symmetry
INVARIANTS
    
    QuietBackupIsWhole

    
    
CHECK_DEADLOCK FALSE
