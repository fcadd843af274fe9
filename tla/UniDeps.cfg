SPECIFICATION MCSpec
CONSTANTS
  MaxClass = 4
  Junk = 99
  MaxNodes = 3
  MaxEdges = 2
  MaxCells = 8
  MaxBatch = 2
  Expectations = {0}
  Arcs <- MCArcs
  ListLength = 6
  ListCells = 10
  Estimates = {0, 3}
  REdges = 2
  RCells = 3
  RBatch = 2
INVARIANTS CellsPartitioned EdgesAreCounted
PROPERTIES ImplementsTasks TriggeredNodesRun
CHECK_DEADLOCK FALSE
