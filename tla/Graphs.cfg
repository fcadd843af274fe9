SPECIFICATION Spec
CONSTANTS
  N = 4
  MaxEdges = 3
  MaxSimple = 5
  Draws <- MCDraws
INVARIANTS
  GraphsArePrepared
  DominanceIsRight
  PathsAreShortest
  ColoursAreProper
  ReachabilityIsExact
CHECK_DEADLOCK FALSE
