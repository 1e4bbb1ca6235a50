SPECIFICATION Spec
CONSTANTS
  a = a b = b n1 = n1 n2 = n2 t1 = t1 t2 = t2
  h1 = h1 h2 = h2 h3 = h3 v1 = v1 v2 = v2
  NoThread = NoThread
  Null = Null
  Threads = {a, b}
  InnerIds = {n1, n2}
  TermIds = {t1, t2}
  Values = {v1, v2}
  NumLevels = 2
  Handles = {h1, h2, h3}
  NumEntries = 2
  Bucket <- Spread
CONSTRAINT FewNodes
SYMMETRY SpreadSymmetry
INVARIANTS TypeOK RcExact NoDangling Canonical GcComplete
