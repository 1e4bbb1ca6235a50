SPECIFICATION Spec
CONSTANTS
  c1 = c1 c2 = c2
  Clients = {c1, c2}
  NumVars = 3
  Owned <- MCOwned
  Nodes <- MCOwned
  ClientCalls <- MCCalls
  MaxDepth = 1
  MaxNodes = 6
INVARIANTS TypeOK CountsExact NoDangling TableReduced ResultRight
PROPERTY CallEnds
