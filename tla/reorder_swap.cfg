SPECIFICATION Spec
CONSTANTS
  w1 = w1
  w2 = w2
  NoTask = NoTask
  Workers <- MCWorkers
  Diagrams <- BottomToo
  MaxNodes = 6
  SequentialUpTo = 3
  MaxCalls = 1
INVARIANT Ordered
CHECK_DEADLOCK FALSE
