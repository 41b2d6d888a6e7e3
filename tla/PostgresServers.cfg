SPECIFICATION MCSpec
CONSTANTS
  Servers = {s1, s2}
  Calls = {c1, c2, c3}
  s1 = s1
  s2 = s2
  c1 = c1
  c2 = c2
  c3 = c3
  Home <- MCHome
  Nodes = {n1, n2}
  n1 = n1
  n2 = n2
  NoRow = NoRow
  NoCall = NoCall
  MaxLosses = 1
  MaxCuts = 1
INVARIANTS
    NothingIsLost
PROPERTIES
    NothingIsOverwritten
    CallsEnd
CHECK_DEADLOCK FALSE
