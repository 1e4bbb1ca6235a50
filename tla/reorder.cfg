SPECIFICATION Spec
CONSTANTS
  w1 = w1
  w2 = w2
  NoTask = NoTask
  Workers <- MCWorkers
  Diagrams <- MCDiagrams
  MaxNodes = 7
  SequentialUpTo = 3
  MaxCalls = 2
INVARIANTS SwapsDisjoint NodesAccounted OrderReached
PROPERTY CallEnds
CHECK_DEADLOCK FALSE
