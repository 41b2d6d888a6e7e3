SPECIFICATION SearchSpec
CHECK_DEADLOCK FALSE
CONSTANTS
  Nodes = {1, 2, 3}
  Queries <- MCQueries
  K = 1
  Rrf = 60
  Unit = 238266
  Overfetch = 1
  MaxK = 5
  LineageOverfetch = 3
  MaxHistory = 3
  MaxWrites = 1
PROPERTY SearchMovesNoStatus
